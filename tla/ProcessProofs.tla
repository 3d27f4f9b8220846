--------------------------- MODULE ProcessProofs ---------------------------
(***************************************************************************)
(* Proofs about Process: what ProviderProofs shows of one process holds    *)
(* through any number of crashes and restarts, as every step of a process  *)
(* is a step of its provider or leaves it alone, and a restart begins      *)
(* blank.                                                                  *)
(***************************************************************************)
EXTENDS Process, ProviderProofs

LEMMA ProcessStep ==
  ASSUME ProcessTypeOK, [ProcessNext]_allVars
  PROVE  \/ [Next]_vars
         \/ Restart /\ Blank'
         \/ UNCHANGED <<informerVars, mapVars, handlerVars, engaged, runVars, failed>> /\ Fail
<1> USE DEF processVars, allVars
<1>1. CASE \E o \in Object : Bind(o) \/ Unbind(o)
  BY <1>1 DEF Bind, Unbind
<1>2. CASE \E o \in Object : Watch(o)
  BY <1>2 DEF Watch, Next
<1>3. CASE SetupFails \/ ManagerFails
  BY <1>3 DEF SetupFails, ManagerFails, Exits
<1>4. CASE SetupDone
  BY <1>4 DEF SetupDone
<1>5. CASE ProviderStep
  BY <1>5 DEF ProviderStep, Next
<1>6. CASE ProviderExits \/ ManagerReturns
  BY <1>6 DEF ProviderExits, ManagerReturns, Exits, vars, historyVars
<1>7. CASE Signal
  BY <1>7 DEF Signal, Exits, Next, vars, historyVars
<1>8. CASE Restart
  BY <1>8 DEF Restart, Blank, ProcessTypeOK, TypeOK
<1>9. CASE UNCHANGED allVars
  BY <1>9
<1> QED
  BY <1>1, <1>2, <1>3, <1>4, <1>5, <1>6, <1>7, <1>8, <1>9 DEF ProcessNext

(* A failure that only the counter records.                                *)
LEMMA CountStep ==
  ASSUME IInv, Fail,
         UNCHANGED <<informerVars, mapVars, handlerVars, engaged, runVars, failed>>
  PROVE  IInv'
<1> USE DEF informerVars, mapVars, handlerVars, runVars
<1>1. TypeOK'
  BY DEF IInv, TypeOK, Fail
<1>2. HandlerOK' /\ LocalIsOwn'
  BY DEF IInv, HandlerOK, LocalIsOwn, Handles, Name
<1>3. FailedAbsent' /\ RegisteredFirst' /\ ContextTracked' /\ GroupsOK'
  BY DEF IInv, FailedAbsent, RegisteredFirst, ContextTracked, GroupsOK
<1>4. RepresentedIsEngaged'
  BY DEF IInv, RepresentedIsEngaged, Get, CtxDone, RunCtxDone
<1>5. NoLostNotification'
  BY DEF IInv, NoLostNotification, AbsentHasAdd, EmptyHasDelete, DisengageHasAdd,
         StaleAddHasDelete, AddQueued, DelQueued, Indexed, Name
<1> QED
  BY <1>1, <1>2, <1>3, <1>4, <1>5 DEF IInv

LEMMA ProcessTypes ==
  ASSUME ProcessTypeOK, TypeOK', [ProcessNext]_allVars
  PROVE  ProcessTypeOK'
BY DEF ProcessTypeOK, ProcessNext, allVars, processVars, Bind, Unbind, Watch, SetupFails,
       SetupDone, ProviderStep, ProviderExits, ManagerFails, ManagerReturns, Signal, Restart,
       Exits

(* A group that ends by itself has failed: its Run returns an error.       *)
LEMMA GroupEndsByError ==
  ASSUME IInv
  PROVE  NeverWithoutProvider
BY DEF IInv, GroupsOK, NeverWithoutProvider, ReturnedByGroup

(* What a process does to the directory: a step of its provider, nothing,  *)
(* or the end of everything in it.                                         *)
LEMMA ProcessDirectoryStep ==
  ASSUME ProcessTypeOK, IInv, [ProcessNext]_allVars
  PROVE  [Directory!Next \/ Directory!Reset]_(Directory!vars)
<1>1. CASE [Next]_vars
  BY <1>1, IInvParts, DirectoryStep
<1>2. CASE Restart
  <2>0. NoInst \notin Inst
    BY ProviderAssumption
  <2>1. /\ clusters' = [c \in Cluster |-> NoInst]
        /\ ctx' = [i \in Inst |-> NoRun] /\ cl' = [r \in Runs |-> NoInst]
        /\ engaged' = {} /\ stopped' = FALSE /\ groupDone' = {}
    BY <1>2 DEF Restart
  <2>2. {i \in Inst : ctx'[i] # NoRun} = {} /\ {cl'[r] : r \in Runs} \ {NoInst} = {}
    BY <2>1
  <2>3. Directory!Reset
    BY <2>1, <2>2 DEF Directory!Reset
  <2> QED
    BY <2>3
<1>3. CASE UNCHANGED <<informerVars, mapVars, handlerVars, engaged, runVars, failed>> /\ Fail
  BY <1>3 DEF mapVars, handlerVars, runVars, Directory!vars
<1> QED
  BY <1>1, <1>2, <1>3, ProcessStep

(* The provider's invariant holds in every process, whatever ended the one *)
(* before it: nothing but an empty directory is inherited                  *)
(* (provider.go:116-213; main.go:319-331).                                 *)
THEOREM SafeAcrossRestarts == ProcessSpec => []ProcessInv
<1>1. ProcessInit => ProcessInv
  <2>1. Init => IInv
    BY InitIsBlank, IInvBlank
  <2> QED
    BY <2>1, GroupEndsByError DEF ProcessInit, ProcessInv, ProcessTypeOK, IInv
<1>2. ProcessInv /\ [ProcessNext]_allVars => ProcessInv'
  <2> SUFFICES ASSUME ProcessInv, [ProcessNext]_allVars PROVE ProcessInv'
    OBVIOUS
  <2>1. ProcessTypeOK /\ IInv
    BY DEF ProcessInv
  <2>2. Blank' => IInv'
    BY IInvBlank, PTL
  <2>3. IInv'
    BY <2>1, <2>2, ProcessStep, CountStep, IInvStep
  <2>4. TypeOK'
    BY <2>3 DEF IInv
  <2>5. NeverWithoutProvider'
    BY <2>3, GroupEndsByError, PTL
  <2> QED
    BY <2>1, <2>3, <2>4, <2>5, ProcessTypes DEF ProcessInv
<1> QED
  BY <1>1, <1>2, PTL DEF ProcessSpec

(* What Application takes for granted of the provider, crashes included,   *)
(* is what the process does (provider.go:116-213; main.go:319-331).        *)
THEOREM DirectoryOfEveryProcess == ProcessSpec => DirectoryAcrossRestarts
<1>1. ProcessInit => Directory!Init
  BY DirectoryInit DEF ProcessInit
<1>2. ProcessInv /\ [ProcessNext]_allVars => [Directory!Next \/ Directory!Reset]_(Directory!vars)
  BY ProcessDirectoryStep DEF ProcessInv
<1> QED
  BY <1>1, <1>2, SafeAcrossRestarts, PTL
     DEF ProcessSpec, DirectoryAcrossRestarts, Directory!RestartSpec

=============================================================================
