------------------------- MODULE WildcardCacheProofs -------------------------
(***************************************************************************)
(* Proofs about WildcardCache: the informer in the tracker is the one the  *)
(* cache runs, for any number of goroutines, kinds and abandoned.           *)
(***************************************************************************)
EXTENDS WildcardCache, TLAPS

LEMMA InitInv == Init => TrackerInv
BY WildcardCacheAssumption DEF Init, TrackerInv, TypeOK, CreatorOK, SameInformer, OwnInformer,
                               KnownIsCurrent, Place

(* A goroutine that is not creating an informer moves, to a place where it *)
(* is not either: only what it has got matters.                            *)
LEMMA MoveInv ==
  ASSUME TrackerInv, TypeOK', NEW p \in Caller,
         UNCHANGED <<informers, mutex, tracker, current, known>>,
         pc[p] \notin {"track", "publish"}, pc'[p] \notin {"track", "publish"},
         \A q \in Caller \ {p} : pc'[q] = pc[q] /\ kind'[q] = kind[q] /\ inf'[q] = inf[q],
         pc'[p] \in {"peek", "create", "got"} => kind'[p] \in Kind,
         pc'[p] = "got" => inf'[p] # NoInformer /\ tracker[kind'[p]] = inf'[p]
  PROVE  TrackerInv'
<1>1. CreatorOK'
  BY DEF TrackerInv, TypeOK, CreatorOK
<1>2. SameInformer' /\ OwnInformer' /\ KnownIsCurrent'
  BY DEF TrackerInv, SameInformer, OwnInformer, KnownIsCurrent
<1> QED
  BY <1>1, <1>2 DEF TrackerInv

LEMMA CallInv ==
  ASSUME TrackerInv, NEW p \in Caller, NEW where \in {"peek", "lookup"},
         NEW k \in Kind \cup {ListKind[x] : x \in Kind}, where = "peek" => k \in Kind,
         Call(p, where, k)
  PROVE  TrackerInv'
<1>1. TypeOK'
  BY DEF TrackerInv, TypeOK, Call, Waiting, cacheVars, trackerVars, syncVars, Place
<1>2. /\ UNCHANGED <<informers, mutex, tracker, current, known>>
      /\ pc[p] \notin {"track", "publish"} /\ pc'[p] = where /\ kind'[p] = k
      /\ \A q \in Caller \ {p} : pc'[q] = pc[q] /\ kind'[q] = kind[q] /\ inf'[q] = inf[q]
  BY DEF TrackerInv, TypeOK, Call, Waiting, cacheVars, trackerVars, syncVars
<1> QED
  BY <1>1, <1>2, MoveInv

LEMMA StepInv ==
  ASSUME TrackerInv, NEW p \in Caller, Step(p)
  PROVE  TrackerInv'
<1>t. TypeOK /\ CreatorOK /\ SameInformer /\ OwnInformer /\ KnownIsCurrent
  BY DEF TrackerInv
<1>1. CASE Peek(p)
  <2>1. TypeOK'
    BY <1>1, <1>t DEF TypeOK, CreatorOK, Peek, GoTo, cacheVars, trackerVars, syncVars, Place
  <2>2. /\ UNCHANGED <<informers, mutex, tracker, current, known>>
        /\ pc[p] = "peek" /\ pc'[p] \in {"got", "create"} /\ kind'[p] = kind[p]
        /\ pc'[p] = "got" => inf'[p] = informers[kind[p]] /\ inf'[p] # NoInformer
        /\ \A q \in Caller \ {p} : pc'[q] = pc[q] /\ kind'[q] = kind[q] /\ inf'[q] = inf[q]
    BY <1>1, <1>t DEF TypeOK, Peek, GoTo, cacheVars, trackerVars, syncVars
  <2> QED
    BY <1>t, <2>1, <2>2, MoveInv DEF CreatorOK, SameInformer
<1>2. CASE Create(p)
  <2>1. TypeOK'
    BY <1>2, <1>t DEF TypeOK, CreatorOK, Create, GoTo, trackerVars, syncVars, Place
  <2>2. CASE informers[kind[p]] # NoInformer
    <3>1. /\ UNCHANGED <<informers, mutex, tracker, current, known>>
          /\ pc[p] = "create" /\ pc'[p] = "got" /\ kind'[p] = kind[p]
          /\ inf'[p] = informers[kind[p]] /\ inf'[p] # NoInformer
          /\ \A q \in Caller \ {p} : pc'[q] = pc[q] /\ kind'[q] = kind[q] /\ inf'[q] = inf[q]
      BY <1>2, <1>t, <2>2 DEF TypeOK, Create, GoTo, trackerVars, syncVars
    <3> QED
      BY <1>t, <2>1, <3>1, MoveInv DEF CreatorOK, SameInformer
  <2>3. CASE informers[kind[p]] = NoInformer
    <3>1. /\ mutex = NoCaller /\ mutex' = p /\ UNCHANGED <<informers, tracker, kind, current, known>>
          /\ pc[p] = "create" /\ pc' = [pc EXCEPT ![p] = "track"]
          /\ inf' = [inf EXCEPT ![p] = NoInformer]
      BY <1>2, <2>3 DEF Create, GoTo, trackerVars, syncVars
    <3>2. \A q \in Caller : pc[q] \notin {"track", "publish"}
      BY <1>t, <3>1, WildcardCacheAssumption DEF CreatorOK
    <3>3. CreatorOK'
      BY <1>t, <2>3, <3>1, <3>2 DEF TypeOK, CreatorOK
    <3>4. SameInformer' /\ OwnInformer' /\ KnownIsCurrent'
      BY <1>t, <3>1 DEF TypeOK, SameInformer, OwnInformer, KnownIsCurrent
    <3> QED
      BY <2>1, <3>3, <3>4 DEF TrackerInv
  <2> QED
    BY <2>2, <2>3
<1>3. CASE NewInformer(p)
  <2>0. pc[p] = "track" /\ mutex = p /\ kind[p] \in Kind /\ informers[kind[p]] = NoInformer
    BY <1>3, <1>t DEF NewInformer, CreatorOK
  <2>1. \A q \in Caller \ {p} : pc[q] \notin {"track", "publish"}
    BY <1>t, <2>0 DEF CreatorOK
  <2>2. CASE tracker[kind[p]] # NoInformer
    <3>1. /\ mutex' = NoCaller /\ lock' = p /\ UNCHANGED <<informers, tracker, kind, abandoned, current, known>>
          /\ pc' = [pc EXCEPT ![p] = "panicked"] /\ inf' = [inf EXCEPT ![p] = NoInformer]
      BY <1>3, <2>2 DEF NewInformer, GoTo, syncVars
    <3>2. TypeOK'
      BY <1>t, <3>1 DEF TypeOK, Place
    <3>3. CreatorOK'
      BY <1>t, <2>1, <3>1 DEF TypeOK, CreatorOK
    <3>4. SameInformer' /\ OwnInformer' /\ KnownIsCurrent'
      BY <1>t, <3>1 DEF TypeOK, SameInformer, OwnInformer, KnownIsCurrent
    <3> QED
      BY <3>2, <3>3, <3>4 DEF TrackerInv
  <2>3. CASE tracker[kind[p]] = NoInformer
    <3>1. PICK i \in Informer :
            /\ \A k \in Kind : tracker[k] # i
            /\ tracker' = [tracker EXCEPT ![kind[p]] = i]
            /\ pc' = [pc EXCEPT ![p] = "publish"] /\ inf' = [inf EXCEPT ![p] = i]
            /\ UNCHANGED <<informers, kind, abandoned, mutex, lock, current, known>>
      BY <1>3, <2>3 DEF NewInformer, Unused, GoTo, syncVars
    <3>2. TypeOK'
      BY <1>t, <2>0, <3>1 DEF TypeOK, Place
    <3>3. CreatorOK'
      BY <1>t, <2>0, <2>1, <3>1, WildcardCacheAssumption DEF TypeOK, CreatorOK
    <3>4. SameInformer'
      BY <1>t, <2>0, <2>3, <3>1 DEF TypeOK, CreatorOK, SameInformer
    <3>5. OwnInformer'
      BY <1>t, <2>0, <3>1 DEF TypeOK, OwnInformer
    <3>8. KnownIsCurrent'
      BY <1>t, <2>0, <2>3, <3>1, WildcardCacheAssumption DEF TypeOK, KnownIsCurrent
    <3> QED
      BY <3>2, <3>3, <3>4, <3>5, <3>8 DEF TrackerInv
  <2> QED
    BY <2>2, <2>3
<1>4. CASE Publish(p)
  <2>0. pc[p] = "publish" /\ mutex = p /\ kind[p] \in Kind /\ tracker[kind[p]] = inf[p]
        /\ inf[p] # NoInformer
    BY <1>4, <1>t DEF Publish, CreatorOK
  <2>1. \A q \in Caller \ {p} : pc[q] \notin {"track", "publish"}
    BY <1>t, <2>0 DEF CreatorOK
  <2>2. /\ informers' = [informers EXCEPT ![kind[p]] = inf[p]]
        /\ mutex' = NoCaller /\ UNCHANGED <<tracker, lock, abandoned, kind, current, known>>
        /\ pc' = [pc EXCEPT ![p] = "got"] /\ inf' = [inf EXCEPT ![p] = inf[p]]
    BY <1>4 DEF Publish, GoTo, trackerVars, syncVars
  <2>3. TypeOK'
    BY <1>t, <2>0, <2>2 DEF TypeOK, Place
  <2>4. CreatorOK'
    BY <1>t, <2>0, <2>1, <2>2 DEF TypeOK, CreatorOK
  <2>5. SameInformer' /\ OwnInformer' /\ KnownIsCurrent'
    BY <1>t, <2>0, <2>2 DEF TypeOK, SameInformer, OwnInformer, KnownIsCurrent
  <2> QED
    BY <2>3, <2>4, <2>5 DEF TrackerInv
<1>5. CASE MapperFails(p) \/ GetSharedInformer(p) \/ Read(p) \/ GetInformerFails(p)
  <2>1. TypeOK'
    BY <1>5, <1>t DEF TypeOK, MapperFails, GetSharedInformer, Read, GetInformerFails, GoTo,
                      Tracked, cacheVars, trackerVars, syncVars, Place
  <2>2. /\ UNCHANGED <<informers, mutex, tracker, current, known>>
        /\ pc[p] \in {"peek", "create", "lookup", "read"}
        /\ pc'[p] \in {"answered", "read", "panicked", "failed"}
        /\ \A q \in Caller \ {p} : pc'[q] = pc[q] /\ kind'[q] = kind[q] /\ inf'[q] = inf[q]
    BY <1>5, <1>t DEF TypeOK, MapperFails, GetSharedInformer, Read, GetInformerFails, GoTo,
                      cacheVars, trackerVars, syncVars
  <2> QED
    BY <2>1, <2>2, MoveInv
<1>6. CASE CreationFails(p)
  <2>0. pc[p] = "publish" /\ mutex = p /\ kind[p] \in Kind
    BY <1>6, <1>t DEF CreationFails, CreatorOK
  <2>1. \A q \in Caller \ {p} : pc[q] \notin {"track", "publish"}
    BY <1>t, <2>0 DEF CreatorOK
  <2>2. /\ mutex' = NoCaller /\ abandoned' = abandoned \cup {kind[p]}
        /\ UNCHANGED <<informers, tracker, lock, kind, current, known>>
        /\ pc' = [pc EXCEPT ![p] = "failed"] /\ inf' = [inf EXCEPT ![p] = NoInformer]
    BY <1>6 DEF CreationFails, GoTo, trackerVars, syncVars
  <2>3. TypeOK'
    BY <1>t, <2>0, <2>2 DEF TypeOK, Place
  <2>4. CreatorOK'
    BY <1>t, <2>1, <2>2 DEF TypeOK, CreatorOK
  <2>5. SameInformer' /\ OwnInformer' /\ KnownIsCurrent'
    BY <1>t, <2>2 DEF TypeOK, SameInformer, OwnInformer, KnownIsCurrent
  <2> QED
    BY <2>3, <2>4, <2>5 DEF TrackerInv
<1> QED
  BY <1>1, <1>2, <1>3, <1>4, <1>5, <1>6 DEF Step

LEMMA NextInv == TrackerInv /\ [Next]_vars => TrackerInv'
<1> SUFFICES ASSUME TrackerInv, [Next]_vars PROVE TrackerInv'
  OBVIOUS
<1>t. TypeOK /\ CreatorOK /\ SameInformer /\ OwnInformer /\ KnownIsCurrent
  BY DEF TrackerInv
<1>1. CASE \E p \in Caller, k \in Kind : GetInformer(p, k) \/ Get(p, k) \/ List(p, k)
  BY <1>1, CallInv DEF GetInformer, Get, List
<1>2. CASE \E p \in Caller : Step(p)
  BY <1>2, StepInv
<1>3. CASE \E k \in Kind : RemoveInformer(k)
  <2>1. PICK k \in Kind :
          /\ mutex = NoCaller /\ abandoned' = abandoned \cup {k}
          /\ informers' = [informers EXCEPT ![k] = NoInformer]
          /\ informers[k] # NoInformer
          /\ current' = current \ {informers[k]} /\ known' = known \ {k}
          /\ UNCHANGED <<mutex, tracker, lock, pc, kind, inf>>
    BY <1>3 DEF RemoveInformer, trackerVars, callerVars
  <2>2. TypeOK'
    BY <1>t, <2>1 DEF TypeOK
  <2>3. CreatorOK'
    BY <1>t, <2>1, WildcardCacheAssumption DEF TypeOK, CreatorOK
  <2>4. SameInformer' /\ OwnInformer'
    BY <1>t, <2>1 DEF TypeOK, SameInformer, OwnInformer
  <2>5. \A h \in Kind \ {k} : tracker[h] # informers[k]
    BY <1>t, <2>1 DEF SameInformer, OwnInformer
  <2>6. KnownIsCurrent'
    BY <1>t, <2>1, <2>5 DEF TypeOK, KnownIsCurrent
  <2> QED
    BY <2>2, <2>3, <2>4, <2>6 DEF TrackerInv
<1>4. CASE \E p \in Caller : AwaitSync(p)
  <2>1. PICK p \in Caller :
          /\ pc[p] = "got" /\ inf[p] \in current /\ known' = known \cup {kind[p]}
          /\ pc' = [pc EXCEPT ![p] = "synced"] /\ inf' = [inf EXCEPT ![p] = inf[p]]
          /\ UNCHANGED <<informers, mutex, tracker, lock, kind, current, abandoned>>
    BY <1>4 DEF AwaitSync, GoTo, cacheVars, trackerVars
  <2>2. TypeOK' /\ CreatorOK'
    BY <1>t, <2>1 DEF TypeOK, CreatorOK, Place
  <2>3. SameInformer' /\ OwnInformer'
    BY <1>t, <2>1 DEF TypeOK, SameInformer, OwnInformer
  <2>4. KnownIsCurrent'
    BY <1>t, <2>1 DEF SameInformer, KnownIsCurrent
  <2> QED
    BY <2>2, <2>3, <2>4 DEF TrackerInv
<1>5. CASE \E p \in Caller : AwaitFails(p)
  <2>1. PICK p \in Caller :
          /\ pc[p] = "got" /\ pc' = [pc EXCEPT ![p] = "failed"]
          /\ inf' = [inf EXCEPT ![p] = NoInformer]
          /\ UNCHANGED <<informers, mutex, tracker, lock, kind, current, known, abandoned>>
    BY <1>5 DEF AwaitFails, GoTo, cacheVars, trackerVars, syncVars
  <2>2. TypeOK' /\ \A q \in Caller \ {p} : pc'[q] = pc[q] /\ kind'[q] = kind[q] /\ inf'[q] = inf[q]
    BY <1>t, <2>1 DEF TypeOK, Place
  <2>3. pc'[p] = "failed"
    BY <1>t, <2>1 DEF TypeOK
  <2> QED
    BY <2>1, <2>2, <2>3, MoveInv
<1>6. CASE \E k \in Kind : Sync(k)
  <2>1. PICK k \in Kind :
          /\ informers[k] # NoInformer /\ current' = current \cup {informers[k]}
          /\ UNCHANGED <<informers, mutex, tracker, lock, pc, kind, inf, known, abandoned>>
    BY <1>6 DEF Sync, cacheVars, trackerVars, callerVars
  <2> QED
    BY <1>t, <2>1 DEF TrackerInv, TypeOK, CreatorOK, SameInformer, OwnInformer, KnownIsCurrent
<1>7. CASE UNCHANGED vars
  BY <1>7, <1>t DEF TrackerInv, TypeOK, CreatorOK, SameInformer, OwnInformer, KnownIsCurrent,
                    vars, cacheVars, trackerVars, callerVars, syncVars
<1> QED
  BY <1>1, <1>2, <1>3, <1>4, <1>5, <1>6, <1>7 DEF Next

(* The two maps and the goroutines between them, in every state            *)
(* (wildcard.go:85-108).                                                   *)
THEOREM TrackerInvariant == Spec => []TrackerInv
BY InitInv, NextInv, PTL DEF Spec

(* What getSharedInformer finds is what GetInformer returned, even after   *)
(* an informer was removed (provider.go:108-115, wildcard.go:99-105).      *)
THEOREM TrackerIsCache == Spec => []SameInformer
<1>1. TrackerInv => SameInformer
  BY DEF TrackerInv
<1> QED
  BY <1>1, TrackerInvariant, PTL

(* A kind whose informer somebody has waited for is read from an index     *)
(* that is synced and goes on, until it is removed (cache.go:54-64,        *)
(* 95-102; wildcard.go:139-142).                                           *)
THEOREM KnownAreCurrent == Spec => []KnownIsCurrent
<1>1. TrackerInv => KnownIsCurrent
  BY DEF TrackerInv
<1> QED
  BY <1>1, TrackerInvariant, PTL

-----------------------------------------------------------------------------
(* What is abandoned, and what is not.                                     *)

LEMMA TrackedInit == Init => TrackedIsRunning
BY DEF Init, TrackedIsRunning

(* Who publishes goes on publishing, nobody else begins to, and neither    *)
(* map changes.                                                            *)
LEMMA TrackedKept ==
  ASSUME TrackedIsRunning, UNCHANGED <<informers, tracker, lock, abandoned>>,
         \A p \in Caller : pc[p] = "publish" => pc'[p] = "publish" /\ kind'[p] = kind[p],
         \A p \in Caller : pc'[p] = "publish" => pc[p] = "publish"
  PROVE  TrackedIsRunning'
BY DEF TrackedIsRunning

LEMMA TrackedStep ==
  ASSUME TrackerInv, TrackedIsRunning, NEW p \in Caller, Step(p)
  PROVE  TrackedIsRunning'
<1>t. TypeOK /\ CreatorOK
  BY DEF TrackerInv
<1>1. CASE NewInformer(p)
  <2>0. pc[p] = "track" /\ mutex = p /\ kind[p] \in Kind /\ informers[kind[p]] = NoInformer
        /\ abandoned' = abandoned /\ informers' = informers /\ kind' = kind
    BY <1>1, <1>t DEF NewInformer, CreatorOK, GoTo
  <2>1. \A q \in Caller : pc[q] # "publish"
    BY <1>t, <2>0 DEF CreatorOK
  <2>2. CASE tracker[kind[p]] # NoInformer
    <3>1. kind[p] \in abandoned
      BY <2>0, <2>1, <2>2 DEF TrackedIsRunning
    <3>2. tracker' = tracker /\ pc' = [pc EXCEPT ![p] = "panicked"]
      BY <1>1, <2>2 DEF NewInformer, GoTo
    <3>3. \A q \in Caller : pc'[q] # "publish"
      BY <1>t, <2>1, <3>2 DEF TypeOK
    <3> QED
      BY <2>0, <2>1, <3>1, <3>2, <3>3 DEF TrackedIsRunning
  <2>3. CASE tracker[kind[p]] = NoInformer
    <3>1. PICK i \in Informer :
            /\ tracker' = [tracker EXCEPT ![kind[p]] = i]
            /\ pc' = [pc EXCEPT ![p] = "publish"]
            /\ lock' = lock
      BY <1>1, <2>3 DEF NewInformer, GoTo
    <3>2. kind[p] \notin abandoned
      BY <2>3 DEF TrackedIsRunning
    <3>3. pc'[p] = "publish" /\ \A q \in Caller \ {p} : pc'[q] # "publish"
      BY <1>t, <2>1, <3>1 DEF TypeOK
    <3>4. \A k \in Kind \ {kind[p]} : tracker'[k] = tracker[k]
      BY <1>t, <3>1 DEF TypeOK
    <3>5. ASSUME NEW k \in Kind \ abandoned, tracker'[k] # NoInformer
          PROVE  \/ informers'[k] = tracker'[k]
                 \/ \E q \in Caller : pc'[q] = "publish" /\ kind'[q] = k
      BY <2>0, <2>1, <3>3, <3>4, <3>5 DEF TrackedIsRunning
    <3>6. \A k \in abandoned : tracker'[k] # NoInformer /\ informers'[k] = NoInformer
      BY <1>t, <2>0, <3>2, <3>4 DEF TypeOK, TrackedIsRunning
    <3> QED
      BY <2>0, <3>1, <3>2, <3>3, <3>5, <3>6 DEF TrackedIsRunning
  <2> QED
    BY <2>2, <2>3
<1>2. CASE Publish(p) \/ CreationFails(p)
  <2>0. pc[p] = "publish" /\ mutex = p /\ kind[p] \in Kind /\ tracker[kind[p]] = inf[p]
        /\ inf[p] # NoInformer /\ informers[kind[p]] = NoInformer
    BY <1>2, <1>t DEF Publish, CreationFails, CreatorOK
  <2>1. \A q \in Caller : pc[q] = "publish" => q = p
    BY <1>t, <2>0 DEF CreatorOK
  <2>2. UNCHANGED <<tracker, lock>> /\ \A q \in Caller : pc'[q] # "publish"
    BY <1>2, <1>t, <2>1 DEF TypeOK, Publish, CreationFails, GoTo, trackerVars
  <2>3. CASE Publish(p)
    <3>1. informers' = [informers EXCEPT ![kind[p]] = inf[p]] /\ abandoned' = abandoned
      BY <2>3 DEF Publish
    <3>2. kind[p] \notin abandoned
      BY <2>0 DEF TrackedIsRunning
    <3>3. /\ informers'[kind[p]] = tracker[kind[p]]
          /\ \A k \in Kind \ {kind[p]} : informers'[k] = informers[k]
      BY <1>t, <2>0, <3>1 DEF TypeOK
    <3>4. \A k \in Kind \ abandoned : tracker[k] # NoInformer => informers'[k] = tracker[k]
      BY <2>1, <3>3 DEF TrackedIsRunning
    <3>5. \A k \in abandoned : tracker[k] # NoInformer /\ informers'[k] = NoInformer
      BY <1>t, <3>2, <3>3 DEF TypeOK, TrackedIsRunning
    <3> QED
      BY <2>2, <3>1, <3>4, <3>5 DEF TrackedIsRunning
  <2>4. CASE CreationFails(p)
    <3>1. informers' = informers /\ abandoned' = abandoned \cup {kind[p]}
      BY <2>4 DEF CreationFails
    <3>2. \A k \in Kind \ abandoned' : tracker[k] # NoInformer => informers[k] = tracker[k]
      BY <2>1, <3>1 DEF TrackedIsRunning
    <3>3. \A k \in abandoned' : tracker[k] # NoInformer /\ informers[k] = NoInformer
      BY <2>0, <3>1 DEF TrackedIsRunning
    <3> QED
      BY <2>2, <3>1, <3>2, <3>3 DEF TrackedIsRunning
  <2> QED
    BY <1>2, <2>3, <2>4
<1>3. CASE \/ Peek(p) \/ Create(p) \/ GetInformerFails(p)
           \/ MapperFails(p) \/ GetSharedInformer(p) \/ Read(p)
  <2>1. /\ UNCHANGED <<informers, tracker, lock, abandoned, kind>>
        /\ pc[p] # "publish"
        /\ \E where \in Place \ {"publish"} : pc' = [pc EXCEPT ![p] = where]
    BY <1>3 DEF Peek, Create, GetInformerFails, MapperFails, GetSharedInformer, Read, GoTo,
                Place, cacheVars, trackerVars
  <2> QED
    BY <1>t, <2>1, TrackedKept DEF TypeOK
<1> QED
  BY <1>1, <1>2, <1>3 DEF Step

LEMMA TrackedNext == TrackerInv /\ TrackedIsRunning /\ [Next]_vars => TrackedIsRunning'
<1> SUFFICES ASSUME TrackerInv, TrackedIsRunning, [Next]_vars PROVE TrackedIsRunning'
  OBVIOUS
<1>t. TypeOK /\ CreatorOK /\ SameInformer
  BY DEF TrackerInv
<1>1. ASSUME NEW p \in Caller, NEW where \in {"peek", "lookup"}, NEW k, Call(p, where, k)
      PROVE  TrackedIsRunning'
  BY <1>1, <1>t, TrackedKept DEF Call, Waiting, TypeOK, cacheVars, trackerVars
<1>2. ASSUME NEW k \in Kind, RemoveInformer(k)
      PROVE  TrackedIsRunning'
  <2>1. /\ informers' = [informers EXCEPT ![k] = NoInformer]
        /\ abandoned' = abandoned \cup {k}
        /\ UNCHANGED <<tracker, lock, pc, kind>>
        /\ mutex = NoCaller /\ informers[k] # NoInformer
    BY <1>2 DEF RemoveInformer, trackerVars, callerVars
  <2>2. \A p \in Caller : pc[p] # "publish"
    BY <1>t, <2>1, WildcardCacheAssumption DEF CreatorOK
  <2>3. tracker[k] # NoInformer
    BY <1>t, <2>1 DEF SameInformer
  <2>4. informers'[k] = NoInformer /\ \A h \in Kind \ {k} : informers'[h] = informers[h]
    BY <1>t, <2>1 DEF TypeOK
  <2>5. \A h \in Kind \ abandoned' : tracker[h] # NoInformer => informers'[h] = tracker[h]
    BY <2>1, <2>2, <2>4 DEF TrackedIsRunning
  <2>6. \A h \in abandoned' : tracker[h] # NoInformer /\ informers'[h] = NoInformer
    BY <1>t, <2>1, <2>3, <2>4 DEF TypeOK, TrackedIsRunning
  <2> QED
    BY <2>1, <2>2, <2>5, <2>6 DEF TrackedIsRunning
<1>3. ASSUME NEW p \in Caller, AwaitSync(p) \/ AwaitFails(p)
      PROVE  TrackedIsRunning'
  BY <1>3, <1>t, TrackedKept DEF AwaitSync, AwaitFails, GoTo, TypeOK, cacheVars, trackerVars
<1>4. ASSUME NEW k \in Kind, Sync(k)
      PROVE  TrackedIsRunning'
  BY <1>4, TrackedKept DEF Sync, cacheVars, trackerVars, callerVars
<1>5. CASE UNCHANGED vars
  BY <1>5, TrackedKept DEF vars, cacheVars, trackerVars, callerVars
<1>6. ASSUME NEW p \in Caller, NEW k \in Kind, GetInformer(p, k) \/ Get(p, k) \/ List(p, k)
      PROVE  TrackedIsRunning'
  BY <1>1, <1>6 DEF GetInformer, Get, List
<1> QED
  BY <1>2, <1>3, <1>4, <1>5, <1>6, TrackedStep DEF Next

(* The tracker and the cache differ on the kinds whose informer was        *)
(* removed, or whose creation failed after the hook, and on no others: the *)
(* hook panics, with the lock in its hands, on the retry of such a kind    *)
(* and never else (wildcard.go:99-105; cache.go:97-100).                   *)
THEOREM PanicHasCause == Spec => []TrackedIsRunning
BY TrackedInit, TrackedNext, TrackerInvariant, PTL DEF Spec

=============================================================================
