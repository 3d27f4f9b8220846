------------------------------ MODULE Process ------------------------------
(***************************************************************************)
(* The process of examples/crd (cmd/main.go) around the provider: set up   *)
(* everything, run the provider in a goroutine of its own and the manager  *)
(* in the main one, and exit when either fails or a signal has stopped     *)
(* both.  Nothing is persisted: what a Deployment starts anew has only the *)
(* API server, whose objects come and go whether a process watches or not. *)
(***************************************************************************)
EXTENDS Provider

VARIABLES
  process,   \* where main is; "failed" is exit code 1 and "ended" 0
  bindings   \* objects that exist in the API server

processVars == <<process, bindings>>
allVars == <<vars, processVars>>

ProcessTypeOK ==
  /\ TypeOK
  /\ process \in {"setup", "running", "failed", "ended"}
  /\ bindings \in SUBSET Object

ProcessInit ==
  /\ Init
  /\ process = "setup"
  /\ bindings = {}

Exits(how) ==
  /\ process' = how
  /\ UNCHANGED <<informerVars, mapVars, handlerVars, engaged, runVars, failed, bindings>>

-----------------------------------------------------------------------------
(* The API server, and the watch that follows it.                          *)

Bind(o) ==
  /\ o \notin bindings
  /\ bindings' = bindings \cup {o}
  /\ UNCHANGED <<vars, process>>

Unbind(o) ==
  /\ o \in bindings
  /\ bindings' = bindings \ {o}
  /\ UNCHANGED <<vars, process>>

(* A watch event or a relist; the latter may skip what did not last.       *)
Watch(o) ==
  /\ process = "running"
  /\ \/ o \in bindings /\ StoreAdd(o)
     \/ o \notin bindings /\ StoreDelete(o)
  /\ UNCHANGED processVars

-----------------------------------------------------------------------------
(* main.                                                                   *)

(* Any error while everything is put together ends the process.            *)
SetupFails ==
  /\ process = "setup"
  /\ Fail
  /\ Exits("failed")

(* The controller is built and the health checks are added: the goroutine  *)
(* of the provider and the manager start.                                  *)
SetupDone ==
  /\ process = "setup"
  /\ process' = "running"
  /\ UNCHANGED <<vars, bindings>>

(* The goroutines of the provider and the manager's reaction to contexts.  *)
ProviderStep ==
  /\ process = "running"
  /\ \/ \E r \in Runs : RunStep(r) \/ (AlreadyStarted /\ HandlerStep(r))
     \/ \E i \in Inst : ManagerDrops(i)
  /\ UNCHANGED processVars

(* Run has returned what g.Wait did and not an error of its own.           *)
ReturnedByGroup(r) == r \in groupDone /\ starter[r] = "finished"

(* Mutant of ProviderExits: the goroutine only logs the error.             *)
ProviderExitsLogged == FALSE

(* The goroutine of the provider exits the process with the error of Run;  *)
(* if Run returns nil it just ends.                                        *)
ProviderExits ==
  /\ process = "running"
  /\ \E r \in Runs : run[r] = "returned" /\ ~ReturnedByGroup(r)
  /\ Exits("failed")
  /\ UNCHANGED failures

(* mgr.Start returns an error: a runnable, a server or the leader election *)
(* failed.                                                                 *)
ManagerFails ==
  /\ process = "running"
  /\ Fail
  /\ Exits("failed")

(* mgr.Start returns after the context has ended, and main with it, whether *)
(* the goroutine of the provider is through or not.                        *)
ManagerReturns ==
  /\ process = "running"
  /\ stopped
  /\ Exits("ended")
  /\ UNCHANGED failures

(* signals.SetupSignalHandler: the first signal cancels the context, which *)
(* nobody looks at during the set-up; the second one exits.                *)
Signal ==
  /\ process \in {"setup", "running"}
  /\ \/ Shutdown /\ UNCHANGED processVars
     \/ stopped /\ Exits("failed") /\ UNCHANGED failures

(* The container is started again, with empty maps and an empty store.     *)
Restart ==
  /\ process \in {"failed", "ended"}
  /\ process' = "setup"
  /\ store' = {}
  /\ registered' = {}
  /\ pending' = [r \in Runs |-> <<>>]
  /\ clusters' = [c \in Cluster |-> NoInst]
  /\ cancelFns' = [c \in Cluster |-> NoInst]
  /\ ctx' = [i \in Inst |-> NoRun]
  /\ pc' = [r \in Runs |-> "idle"]
  /\ cl' = [r \in Runs |-> NoInst]
  /\ engaged' = {}
  /\ run' = [r \in Runs |-> "idle"]
  /\ starter' = [r \in Runs |-> "none"]
  /\ groupDone' = {}
  /\ stopped' = FALSE
  /\ failed' = {}
  /\ UNCHANGED <<failures, bindings>>

ProcessNext ==
  \/ \E o \in Object : Bind(o) \/ Unbind(o) \/ Watch(o)
  \/ SetupFails \/ SetupDone
  \/ ProviderStep \/ ProviderExits
  \/ ManagerFails \/ ManagerReturns
  \/ Signal \/ Restart

ProcessSpec == ProcessInit /\ [][ProcessNext]_allVars

(* main and its goroutines go on, each handler and each part of Run for    *)
(* itself; the container is restarted; a watch event that is due comes,    *)
(* even if the queue of the listener is full now and then.                 *)
ProcessFairness ==
  /\ WF_allVars(SetupDone \/ SetupFails)
  /\ WF_allVars(ProviderExits)
  /\ WF_allVars(ManagerReturns)
  /\ WF_allVars(Restart)
  /\ \A o \in Object : SF_allVars(Watch(o))
  /\ \A r \in Runs :
       /\ WF_allVars(ProviderStep /\ InformerRunning /\ HandlerStep(r))
       /\ WF_allVars(ProviderStep /\ (RegisterHandler(r) \/ RunFailsEarly(r) \/ StartCache(r)))
       /\ WF_allVars(ProviderStep /\ (CacheStart(r) \/ CacheStop(r)))
       /\ WF_allVars(ProviderStep /\ (SyncSucceeds(r) \/ SyncFails(r) \/ WaitReturns(r)))
  /\ \A i \in Inst : WF_allVars(ProviderStep /\ ManagerDrops(i))

ProcessFairSpec == ProcessSpec /\ ProcessFairness

-----------------------------------------------------------------------------
(* Properties.                                                             *)

(* From some time on nobody sends a signal.                                *)
NoMoreSignals == <>[][~Signal]_allVars

(* A logical cluster that keeps one binding is served in the end, for      *)
(* good, by whatever process runs then: a Run that failed, a sync that     *)
(* timed out, a manager that broke down, or a signal, in the set-up, in    *)
(* the wait for the sync or while serving, costs one restart and no more,  *)
(* and no process lingers that was told to end.  Only what one process has *)
(* given up on, without a restart since, is excepted (main.go:204,         *)
(* 319-331; provider.go:204-212).                                          *)
ServedAcrossRestarts ==
  \A o \in Object :
    <>[](o \in bindings /\ ClusterOf[o] \notin failed) /\ NoMoreSignals
      => <>[]Serving(ClusterOf[o])

(* A cluster whose last binding goes, while a process watches, starts, is  *)
(* about to end or is down, is forgotten in the end (provider.go:165-199;  *)
(* main.go:204, 319-331).                                                  *)
ForgottenAcrossRestarts ==
  \A c \in Cluster :
    <>[](\A o \in bindings : ClusterOf[o] # c) /\ NoMoreSignals => <>[](Get(c) = NoInst)

(* Through crashes and restarts the provider is to its controllers the     *)
(* directory that ClusterDirectory promises: nothing of it is seen to end  *)
(* but with the whole process (provider.go:116-213; main.go:319-331).      *)
DirectoryAcrossRestarts == Directory!RestartSpec

(* A manager is not left without its provider: a Run that has returned, in *)
(* a process that nobody stopped, returned an error, for which the process *)
(* exits (provider.go:202-212; main.go:319-325).                           *)
NeverWithoutProvider ==
  \A r \in Runs :
    process = "running" /\ ~stopped /\ run[r] = "returned" => ~ReturnedByGroup(r)

(* The invariant of the provider holds in every process, the one that      *)
(* follows a crash included (provider.go:116-213; main.go:319-331).        *)
ProcessInv == ProcessTypeOK /\ IInv /\ NeverWithoutProvider

=============================================================================
