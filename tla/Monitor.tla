------------------------------ MODULE Monitor ------------------------------
(***************************************************************************)
(* The master process, MonitorProcess.c: it starts the workers, each with  *)
(* a command pipe, waits for children that end, starts a new worker for    *)
(* every one that died, and obeys three signals.  A signal only sets a     *)
(* flag; sig_proc acts on the flags, and runs only when the signal has     *)
(* interrupted waitpid() (or fork()).                                      *)
(*                                                                         *)
(* fork() duplicates the write ends of the command pipes.  A worker reads  *)
(* end of file, its order to finish, only when no process holds the write  *)
(* end of its pipe any more, so wr[p] says what process p holds.  All      *)
(* write ends are close-on-exec.  The worker's own part is in WorkerLoop;  *)
(* here it runs, reads its pipe, dies, or finishes some time after end of  *)
(* file.                                                                   *)
(***************************************************************************)
EXTENDS Integers, FiniteSets

CONSTANTS
  N,            \* worker_processes of the configuration
  MaxCrashes,   \* bound: workers that die on their own
  MaxSignals,   \* bound: signals sent to the master
  Failures      \* pipe(), fork() and SaveListenSockets() may fail

ASSUME MonitorAssumption ==
  N \in Nat \ {0} /\ MaxCrashes \in Nat /\ MaxSignals \in Nat /\ Failures \in BOOLEAN

VARIABLES
  pc,                \* where the master is
  slot,              \* i of MonitorProcess: the slot being served
  worker_processes,  \* the local counter of the main loop
  flag,              \* the signals whose g_SIG*_flag is set
  g_exit_flag,
  worker,            \* state of the process in each slot
  starter,           \* the child sig_proc forks to exec the next generation
  wr,                \* process -> the slots whose pipe write end it holds
  unread,            \* 'L' bytes unread in each pipe
  crashes, sent      \* what MaxCrashes and MaxSignals count

masterVars == <<pc, slot, worker_processes, flag, g_exit_flag>>
childVars  == <<worker, starter, wr, unread>>
boundVars  == <<crashes, sent>>
vars == <<masterVars, childVars, boundVars>>

Slots == 1..N
Master == 0
Starter == N + 1
Processes == 0..N+1
Signals == {"USR1", "USR2", "TERM"}

Stopped == pc \in {"ended", "failed"}
Alive(i) == worker[i] \in {"forked", "running"}

Init ==
  /\ pc = "create" /\ slot = 1 /\ worker_processes = N
  /\ flag = {} /\ g_exit_flag = FALSE
  /\ worker = [i \in Slots |-> "none"] /\ starter = "none"
  /\ wr = [p \in Processes |-> {}]
  /\ unread = [i \in Slots |-> 0]
  /\ crashes = 0 /\ sent = 0
----------------------------------------------------------------------------
(* Starting a worker: pipe(), fork().  At the start of the program and when *)
(* a worker has died the code is the same but for where it goes on.        *)

(* A pipe or process that cannot be had: MonitorProcess returns -1, and its *)
(* descriptors are closed with the process.                                *)
Fail ==
  /\ pc' = "failed"
  /\ wr' = [wr EXCEPT ![Master] = {}]
  /\ UNCHANGED <<slot, worker_processes, flag, g_exit_flag, worker, starter, unread, boundVars>>

Create ==
  /\ pc \in {"create", "recreate"}
  /\ \/ Failures /\ Fail
     \/ /\ pc' = IF pc = "create" THEN "fork" ELSE "refork"
        /\ wr' = [p \in Processes |-> IF p = Master THEN wr[p] \cup {slot} ELSE wr[p] \ {slot}]
        /\ unread' = [unread EXCEPT ![slot] = 0]
        /\ UNCHANGED <<slot, worker_processes, flag, g_exit_flag, worker, starter, boundVars>>

(* The child holds a copy of every write end of the master.                *)
Forked ==
  /\ worker' = [worker EXCEPT ![slot] = "forked"]
  /\ wr' = [wr EXCEPT ![slot] = wr[Master]]
  /\ UNCHANGED <<flag, g_exit_flag, starter, unread, boundVars>>

(* Mutant: the loop over the slots runs once too often.                    *)
ForkOneMore ==
  /\ pc = "fork"
  /\ Forked
  /\ pc' = IF slot <= N THEN "create" ELSE "wait"
  /\ slot' = slot + 1
  /\ UNCHANGED worker_processes

ForkFirst ==
  /\ pc = "fork"
  /\ \/ Failures /\ Fail
     \/ /\ Forked
        /\ pc' = IF slot < N THEN "create" ELSE "wait"
        /\ slot' = IF slot < N THEN slot + 1 ELSE slot
        /\ UNCHANGED worker_processes

(* The counter is raised after a worker was started again.                 *)
ForkAgain ==
  /\ pc = "refork"
  /\ \/ Failures /\ Fail
     \/ /\ Forked
        /\ pc' = "wait"
        /\ worker_processes' = worker_processes + 1
        /\ UNCHANGED slot
----------------------------------------------------------------------------
(* Waiting for children.                                                   *)

Zombies == {i \in Slots : worker[i] = "zombie"}
NoZombie == Zombies = {} /\ starter # "zombie"

Block ==
  /\ pc = "wait" /\ NoZombie
  /\ pc' = "blocked"
  /\ UNCHANGED <<slot, worker_processes, flag, g_exit_flag, childVars, boundVars>>

(* Mutant: the counter is lowered only after the test of g_exit_flag.      *)
ReapUncounted(i) ==
  /\ pc \in {"wait", "blocked"} /\ worker[i] = "zombie"
  /\ worker' = [worker EXCEPT ![i] = "reaped"]
  /\ wr' = [wr EXCEPT ![Master] = @ \ {i}]
  /\ slot' = i
  /\ worker_processes' = IF g_exit_flag THEN worker_processes ELSE worker_processes - 1
  /\ pc' = IF ~g_exit_flag THEN "recreate"
           ELSE IF worker_processes' > 0 THEN "wait" ELSE "ended"
  /\ UNCHANGED <<flag, g_exit_flag, starter, unread, boundVars>>

(* Mutant: a worker that ended is never started again.                     *)
ReapForgets(i) ==
  /\ pc \in {"wait", "blocked"} /\ worker[i] = "zombie"
  /\ worker' = [worker EXCEPT ![i] = "reaped"]
  /\ wr' = [wr EXCEPT ![Master] = @ \ {i}]
  /\ slot' = i
  /\ worker_processes' = worker_processes - 1
  /\ pc' = IF worker_processes' > 0 THEN "wait" ELSE "ended"
  /\ UNCHANGED <<flag, g_exit_flag, starter, unread, boundVars>>

(* Mutant: the first worker that ends on order ends the loop.              *)
ReapBreaks(i) ==
  /\ pc \in {"wait", "blocked"} /\ worker[i] = "zombie"
  /\ worker' = [worker EXCEPT ![i] = "reaped"]
  /\ wr' = [wr EXCEPT ![Master] = @ \ {i}]
  /\ slot' = i
  /\ worker_processes' = worker_processes - 1
  /\ pc' = IF g_exit_flag THEN "ended" ELSE "recreate"
  /\ UNCHANGED <<flag, g_exit_flag, starter, unread, boundVars>>

(* waitpid() returns the child of slot i: close its pipe and start another *)
(* one after a second's sleep, unless the master is to end.                *)
Reap(i) ==
  /\ pc \in {"wait", "blocked"} /\ worker[i] = "zombie"
  /\ worker' = [worker EXCEPT ![i] = "reaped"]
  /\ wr' = [wr EXCEPT ![Master] = @ \ {i}]
  /\ slot' = i
  /\ worker_processes' = worker_processes - 1
  /\ pc' = IF ~g_exit_flag THEN "recreate"
           ELSE IF worker_processes' > 0 THEN "wait" ELSE "ended"
  /\ UNCHANGED <<flag, g_exit_flag, starter, unread, boundVars>>

(* A child that is in no slot.                                             *)
ReapUnknown ==
  /\ pc \in {"wait", "blocked"} /\ starter = "zombie"
  /\ starter' = "none"
  /\ pc' = "wait"
  /\ UNCHANGED <<slot, worker_processes, flag, g_exit_flag, worker, wr, unread, boundVars>>
----------------------------------------------------------------------------
(* Signals.                                                                *)

(* sig_set_flag, so sig_proc always finds a flag set.  The signal           *)
(* interrupts a blocked waitpid(), and may interrupt fork(); anywhere else  *)
(* the master just goes on.  Bound: one next generation at a time.          *)
Signal(g) ==
  /\ ~Stopped /\ sent < MaxSignals /\ (g = "USR2" => starter = "none")
  /\ sent' = sent + 1
  /\ flag' = flag \cup {g}
  /\ \/ pc = "blocked" /\ pc' = "sig_proc"
     \/ pc = "refork" /\ pc' = "sig_proc_fork"
     \/ pc # "blocked" /\ pc' = pc
  /\ UNCHANGED <<slot, worker_processes, g_exit_flag, childVars, crashes>>

InSigProc == pc \in {"sig_proc", "sig_proc_fork"}
AfterSigProc == IF pc \in {"sig_proc", "relogged"} THEN "wait" ELSE "refork"

(* USR1: an 'L' into every pipe, then the flag is cleared.  A write to the *)
(* pipe of a worker that is gone fails; SIGPIPE is ignored.                *)
SigProcRelog ==
  /\ InSigProc /\ "USR1" \in flag
  /\ unread' = [i \in Slots |-> IF i \in wr[Master] THEN unread[i] + 1 ELSE unread[i]]
  /\ pc' = IF pc = "sig_proc" THEN "relogged" ELSE "relogged_fork"
  /\ UNCHANGED <<slot, worker_processes, flag, g_exit_flag, worker, starter, wr, boundVars>>

SigProcRelogged ==
  /\ pc \in {"relogged", "relogged_fork"}
  /\ flag' = flag \ {"USR1"}
  /\ pc' = AfterSigProc
  /\ UNCHANGED <<slot, worker_processes, g_exit_flag, childVars, boundVars>>

(* USR2: save the listeners in the environment and start the next          *)
(* generation; when saving fails the flag stays set.                       *)
SigProcNextGeneration ==
  /\ InSigProc /\ "USR1" \notin flag /\ "USR2" \in flag
  /\ pc' = AfterSigProc
  /\ \/ Failures /\ UNCHANGED <<flag, starter, wr>>
     \/ Failures /\ flag' = flag \ {"USR2"} /\ UNCHANGED <<starter, wr>>
     \/ /\ flag' = flag \ {"USR2"}
        /\ starter' = "forked"
        /\ wr' = [wr EXCEPT ![Starter] = wr[Master]]
  /\ UNCHANGED <<slot, worker_processes, g_exit_flag, worker, unread, boundVars>>

(* Mutant: one pipe stays open.                                            *)
SigProcTermKeepsOne ==
  /\ InSigProc /\ flag = {"TERM"}
  /\ wr' = [wr EXCEPT ![Master] = @ \cap {1}]
  /\ flag' = {}
  /\ g_exit_flag' = TRUE
  /\ pc' = AfterSigProc
  /\ UNCHANGED <<slot, worker_processes, worker, starter, unread, boundVars>>

(* TERM: close every pipe; the workers read end of file.                   *)
SigProcTerm ==
  /\ InSigProc /\ flag = {"TERM"}
  /\ wr' = [wr EXCEPT ![Master] = {}]
  /\ flag' = {}
  /\ g_exit_flag' = TRUE
  /\ pc' = AfterSigProc
  /\ UNCHANGED <<slot, worker_processes, worker, starter, unread, boundVars>>
----------------------------------------------------------------------------
(* The children.                                                           *)

(* Mutant: the child closes the write end of its own pipe only.            *)
WorkerStartsKeeping(i) ==
  /\ worker[i] = "forked"
  /\ worker' = [worker EXCEPT ![i] = "running"]
  /\ wr' = [wr EXCEPT ![i] = @ \ {i}]
  /\ UNCHANGED <<masterVars, starter, unread, boundVars>>

(* Mutant: the child closes the write ends of the other pipes only.        *)
WorkerStartsKeepingOwn(i) ==
  /\ worker[i] = "forked"
  /\ worker' = [worker EXCEPT ![i] = "running"]
  /\ wr' = [wr EXCEPT ![i] = @ \cap {i}]
  /\ UNCHANGED <<masterVars, starter, unread, boundVars>>

(* The child closes the write ends it inherited, its own and the others'.  *)
WorkerStarts(i) ==
  /\ worker[i] = "forked"
  /\ worker' = [worker EXCEPT ![i] = "running"]
  /\ wr' = [wr EXCEPT ![i] = {}]
  /\ UNCHANGED <<masterVars, starter, unread, boundVars>>

WorkerReopensLogs(i) ==
  /\ worker[i] = "running" /\ unread[i] > 0
  /\ unread' = [unread EXCEPT ![i] = @ - 1]
  /\ UNCHANGED <<masterVars, worker, starter, wr, boundVars>>

EndOfFile(i) == unread[i] = 0 /\ \A p \in Processes : i \notin wr[p]

Dies(i) ==
  /\ worker' = [worker EXCEPT ![i] = "zombie"]
  /\ wr' = [wr EXCEPT ![i] = {}]
  /\ UNCHANGED <<masterVars, starter, unread, sent>>

WorkerFinishes(i) ==
  /\ worker[i] = "running" /\ EndOfFile(i)
  /\ Dies(i)
  /\ UNCHANGED crashes

WorkerCrashes(i) ==
  /\ Alive(i) /\ crashes < MaxCrashes
  /\ crashes' = crashes + 1
  /\ Dies(i)

(* execvp() succeeds and the new program, a daemon, leaves its parent; or  *)
(* it fails and the child calls exit(9).                                   *)
StarterLeaves ==
  /\ starter = "forked"
  /\ starter' = "zombie"
  /\ wr' = [wr EXCEPT ![Starter] = {}]
  /\ UNCHANGED <<masterVars, worker, unread, boundVars>>
----------------------------------------------------------------------------
MasterStep ==
  \/ Create \/ ForkFirst \/ ForkAgain \/ Block
  \/ (\E i \in Slots : Reap(i)) \/ ReapUnknown
  \/ SigProcRelog \/ SigProcRelogged \/ SigProcNextGeneration \/ SigProcTerm

ChildStep(i) == WorkerStarts(i) \/ WorkerReopensLogs(i) \/ WorkerFinishes(i)

Next ==
  \/ MasterStep
  \/ \E g \in Signals : Signal(g)
  \/ \E i \in Slots : ChildStep(i) \/ WorkerCrashes(i)
  \/ StarterLeaves

Spec == Init /\ [][Next]_vars

(* Processes that can run do run.  That a worker finishes after end of     *)
(* file is WorkerLoop's DrainsUnlessBusy, for peers that do not keep it    *)
(* busy for ever.  Signals and crashes are owed by nobody.                 *)
FairSpec ==
  /\ Spec
  /\ WF_vars(MasterStep) /\ WF_vars(StarterLeaves)
  /\ \A i \in Slots : WF_vars(ChildStep(i))
----------------------------------------------------------------------------
TypeOK ==
  /\ pc \in {"create", "fork", "wait", "blocked", "recreate", "refork", "sig_proc",
             "sig_proc_fork", "relogged", "relogged_fork", "ended", "failed"}
  /\ slot \in Slots /\ worker_processes \in 0..N
  /\ flag \subseteq Signals /\ g_exit_flag \in BOOLEAN
  /\ worker \in [Slots -> {"none", "forked", "running", "zombie", "reaped"}]
  /\ starter \in {"none", "forked", "zombie"}
  /\ wr \in [Processes -> SUBSET Slots]
  /\ unread \in [Slots -> Nat]
  /\ crashes \in 0..MaxCrashes /\ sent \in 0..MaxSignals

Starting == pc \in {"create", "fork"}
Unreaped == {i \in Slots : worker[i] # "reaped"}

(* The counter that ends the main loop is the number of workers that were  *)
(* started and not yet waited for, through crashes, restarts and the end.  *)
CountsWorkers ==
  ~Starting =>
     worker_processes = Cardinality(Unreaped)

(* A worker past its first statements holds no write end: with its own it  *)
(* would never read end of file, and with another worker's that one could  *)
(* not begin to finish before this one has finished serving its peers.     *)
RunningHoldsNothing == \A i \in Slots : worker[i] # "forked" => wr[i] = {}

(* When the master ends in order, every worker has ended before it.        *)
NoOrphans == pc = "ended" => \A i \in Slots : worker[i] = "reaped"

(* Once the master has taken the order to end it holds no write end, even  *)
(* when the order came between making a pipe and forking its worker.       *)
ExitClosesPipes == g_exit_flag => wr[Master] = {}

(* README:13: a worker that died is replaced, unless the master is to end  *)
(* or cannot get a pipe or a process.                                      *)
CrashedIsReplaced ==
  \A i \in Slots : worker[i] = "zombie" ~> Alive(i) \/ g_exit_flag \/ Stopped

(* The order to end, once taken, makes every worker finish and then the    *)
(* master, whatever is forked or dies meanwhile.                           *)
ExitEnds == g_exit_flag ~> Stopped

(* When the master fails, its workers read end of file and finish: no      *)
(* worker outlives its master for ever.                                    *)
FailureEndsWorkers == pc = "failed" ~> \A i \in Slots : ~Alive(i)

(* MonitorProcess.c:126 "TERM : end": the signal ends the master.          *)
TermEnds == "TERM" \in flag ~> Stopped
=============================================================================
