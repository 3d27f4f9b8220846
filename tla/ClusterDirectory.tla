-------------------------- MODULE ClusterDirectory --------------------------
(***************************************************************************)
(* What multicluster-runtime and its controllers see of a cluster          *)
(* provider: a directory from logical cluster names to cluster objects, in *)
(* which every object owns a context, and the objects that the manager     *)
(* operates on.  An object enters the directory together with a context of *)
(* its own and is offered to the manager, which engages or refuses it; an  *)
(* entry is never overwritten in place; an object leaves the directory in  *)
(* the very step that cancels its context, and the manager lets it go      *)
(* later.  Provider.tla implements this specification; Application.tla     *)
(* takes its steps for what happens around a controller.                   *)
(***************************************************************************)
CONSTANTS
  Cluster,   \* logical cluster names
  Inst,      \* cluster objects
  NoInst     \* "no entry"

VARIABLES
  dir,       \* the directory: [Cluster -> Inst \cup {NoInst}]
  active,    \* objects whose context has not been cancelled
  offered,   \* objects the manager has yet to answer for
  engaged,   \* objects the manager operates on
  over       \* a context above those of the objects has ended

vars == <<dir, active, offered, engaged, over>>

Listed == {dir[c] : c \in Cluster} \ {NoInst}

Init ==
  /\ dir = [c \in Cluster |-> NoInst]
  /\ active = {}
  /\ offered = {}
  /\ engaged = {}
  /\ over = FALSE

(* A cluster appears: a new object with a new context is listed.           *)
Represent(c, i) ==
  /\ dir[c] = NoInst
  /\ i \notin Listed \cup active \cup offered \cup engaged
  /\ dir' = [dir EXCEPT ![c] = i]
  /\ active' = active \cup {i}
  /\ offered' = offered \cup {i}
  /\ UNCHANGED <<engaged, over>>

(* The manager engages an object, which may be unlisted by now.            *)
Engage(i) ==
  /\ i \in offered
  /\ offered' = offered \ {i}
  /\ engaged' = engaged \cup {i}
  /\ UNCHANGED <<dir, active, over>>

(* The manager does not: the object is unlisted, unless it is already.     *)
Refuse(i) ==
  /\ i \in offered
  /\ offered' = offered \ {i}
  /\ active' = active \ {i}
  /\ dir' = [c \in Cluster |-> IF dir[c] = i THEN NoInst ELSE dir[c]]
  /\ UNCHANGED <<engaged, over>>

(* A cluster goes away: its object is unlisted and its context cancelled.  *)
Forget(c) ==
  /\ dir[c] # NoInst
  /\ dir' = [dir EXCEPT ![c] = NoInst]
  /\ active' = active \ {dir[c]}
  /\ UNCHANGED <<offered, engaged, over>>

(* The manager has noticed that a context is done.                         *)
Drop(i) ==
  /\ i \in engaged
  /\ i \notin active \/ over
  /\ engaged' = engaged \ {i}
  /\ UNCHANGED <<dir, active, offered, over>>

(* The caller's context ends, or the group of one call of Run.             *)
End ==
  /\ over' = TRUE
  /\ UNCHANGED <<dir, active, offered, engaged>>

(* The process ends, anywhere, and starts again with nothing.              *)
Reset ==
  /\ dir' = [c \in Cluster |-> NoInst]
  /\ active' = {}
  /\ offered' = {}
  /\ engaged' = {}
  /\ over' = FALSE

Next ==
  \/ \E c \in Cluster, i \in Inst : Represent(c, i)
  \/ \E i \in Inst : Engage(i) \/ Refuse(i) \/ Drop(i)
  \/ \E c \in Cluster : Forget(c)
  \/ End

Spec == Init /\ [][Next]_vars

(* One process after another.                                              *)
RestartSpec == Init /\ [][Next \/ Reset]_vars

-----------------------------------------------------------------------------
(* Properties.                                                             *)

(* What is listed is what has a context, and is listed under one name      *)
(* (provider.go:149-150, 194-195).                                         *)
Consistent ==
  /\ active = Listed
  /\ \A c, d \in Cluster : dir[c] = dir[d] /\ dir[c] # NoInst => c = d

=============================================================================
