------------------------------- MODULE Informer -------------------------------
(***************************************************************************)
(* What a component is promised by an informer to which it has added an    *)
(* event handler (client-go's contract): the handler is told of the        *)
(* objects that are there, then of every change, one notification at a     *)
(* time and in order.  ScopedInformer shows that the informer of one       *)
(* logical cluster, src/virtualworkspace/cache.go, keeps that promise.     *)
(***************************************************************************)
EXTENDS Naturals, Sequences, FiniteSets

CONSTANTS
  Name,       \* what identifies an object to the handler
  Version,    \* states of an object
  Absent,     \* no object
  WithResync  \* was the handler added with a period of resync?

VARIABLES
  objects,   \* the state of every object
  added,     \* the handler has been added
  queue,     \* notifications on their way to the handler
  told       \* what the handler has been told

vars == <<objects, added, queue, told>>

Notification(type, n, v) == [type |-> type, name |-> n, version |-> v]

Init ==
  /\ objects = [n \in Name |-> Absent]
  /\ added = FALSE
  /\ queue = <<>>
  /\ told = [n \in Name |-> Absent]

Present == {n \in Name : objects[n] # Absent}

Orders(S) ==
  {f \in [1..Cardinality(S) -> S] : \A x \in S : \E i \in 1..Cardinality(S) : f[i] = x}

(* AddEventHandler: the objects that are there come first.                 *)
AddHandler ==
  /\ ~added
  /\ added' = TRUE
  /\ \E f \in Orders(Present) :
       queue' = [i \in 1..Cardinality(Present) |-> Notification("add", f[i], objects[f[i]])]
  /\ UNCHANGED <<objects, told>>

Change(n, v) ==
  /\ objects[n] # v
  /\ objects' = [objects EXCEPT ![n] = v]
  /\ queue' = IF ~added THEN queue
              ELSE Append(queue, Notification(IF v = Absent THEN "delete"
                                              ELSE IF objects[n] = Absent THEN "add"
                                              ELSE "update", n, v))
  /\ UNCHANGED <<added, told>>

(* A resync repeats what is there.                                         *)
Resync ==
  /\ added
  /\ WithResync
  /\ \E f \in Orders(Present) :
       queue' = queue \o
         [i \in 1..Cardinality(Present) |-> Notification("update", f[i], objects[f[i]])]
  /\ UNCHANGED <<objects, added, told>>

Deliver ==
  /\ queue # <<>>
  /\ told' = [told EXCEPT ![Head(queue).name] = Head(queue).version]
  /\ queue' = Tail(queue)
  /\ UNCHANGED <<objects, added>>

Next ==
  \/ AddHandler
  \/ \E n \in Name, v \in Version \cup {Absent} : Change(n, v)
  \/ Resync
  \/ Deliver

Spec == Init /\ [][Next]_vars

=============================================================================
