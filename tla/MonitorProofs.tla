--------------------------- MODULE MonitorProofs ---------------------------
(***************************************************************************)
(* The safety of the master for any number of workers, crashes and         *)
(* signals.  CountsWorkers and ExitClosesPipes are not inductive: what the *)
(* master is doing says which slots may have been waited for and whether   *)
(* the order to end can have been taken.                                   *)
(***************************************************************************)
EXTENDS Monitor, FiniteSetTheorems, TLAPS

(* While a worker is being replaced its slot has been waited for, and is   *)
(* the one that is served.                                                 *)
Replacing == pc \in {"recreate", "refork", "sig_proc_fork", "relogged_fork"}

(* A new pipe is made only by a master that is not to end.                 *)
NotEnding == pc \in {"create", "fork", "recreate"} => ~g_exit_flag

(* At first no worker has been waited for, and none is behind the slot     *)
(* being served.                                                           *)
StartingUp ==
  Starting => Unreaped = Slots /\ worker_processes = N

AtTheEnd == pc = "ended" => worker_processes = 0

MonitorInv ==
  /\ TypeOK
  /\ CountsWorkers /\ RunningHoldsNothing /\ ExitClosesPipes
  /\ NotEnding /\ StartingUp /\ AtTheEnd
  /\ Replacing => worker[slot] = "reaped"

(* The processes are told apart by their numbers.                          *)
LEMMA SlotsFacts ==
  /\ N \in Nat /\ N > 0
  /\ Master \notin Slots /\ Starter \notin Slots /\ Master # Starter
  /\ Processes = Slots \cup {Master, Starter}
  /\ IsFiniteSet(Slots) /\ Cardinality(Slots) = N
<1>1. N \in Nat /\ N > 0
  BY MonitorAssumption
<1>2. IsFiniteSet(1..N) /\ Cardinality(1..N) = N
  BY <1>1, FS_Interval
<1> QED
  BY <1>1, <1>2 DEF Slots, Master, Starter, Processes

(* The workers not waited for, counted; one less or one more.              *)
LEMMA UnreapedCount ==
  /\ IsFiniteSet(Unreaped) /\ Cardinality(Unreaped) \in 0..N
  /\ Cardinality(Unreaped) = 0 => Unreaped = {}
<1>1. Unreaped \in SUBSET Slots
  BY DEF Unreaped
<1>2. IsFiniteSet(Unreaped) /\ Cardinality(Unreaped) <= N
  BY <1>1, SlotsFacts, FS_Subset
<1>3. Cardinality(Unreaped) \in Nat
  BY <1>2, FS_CardinalityType
<1>4. Cardinality(Unreaped) = 0 => Unreaped = {}
  BY <1>2, FS_EmptySet
<1> QED
  BY <1>2, <1>3, <1>4, SlotsFacts

LEMMA UnreapedLess ==
  ASSUME NEW i \in Unreaped
  PROVE  Cardinality(Unreaped \ {i}) = Cardinality(Unreaped) - 1
  BY UnreapedCount, FS_RemoveElement

LEMMA UnreapedMore ==
  ASSUME NEW i, i \notin Unreaped
  PROVE  Cardinality(Unreaped \cup {i}) = Cardinality(Unreaped) + 1
  BY UnreapedCount, FS_AddElement

LEMMA MonitorInitInv == Init => MonitorInv
<1> SUFFICES ASSUME Init PROVE MonitorInv
  OBVIOUS
<1> USE SlotsFacts, MonitorAssumption
<1>1. TypeOK
  <2>1. /\ worker \in [Slots -> {"none", "forked", "running", "zombie", "reaped"}]
        /\ wr \in [Processes -> SUBSET Slots]
        /\ unread \in [Slots -> Nat]
    BY DEF Init
  <2>2. slot \in Slots /\ worker_processes \in 0..N
    BY DEF Init, Slots
  <2>3. crashes \in 0..MaxCrashes /\ sent \in 0..MaxSignals
    BY DEF Init
  <2> QED
    BY <2>1, <2>2, <2>3 DEF Init, TypeOK
<1>2. Unreaped = Slots
  BY DEF Init, Unreaped
<1>3. RunningHoldsNothing
  BY DEF Init, RunningHoldsNothing
<1>4. /\ pc = "create" /\ worker_processes = N /\ ~g_exit_flag
  BY DEF Init
<1> QED
  BY <1>1, <1>2, <1>3, <1>4 DEF MonitorInv, CountsWorkers, ExitClosesPipes, NotEnding,
       StartingUp, AtTheEnd, Replacing, Starting

(* What the pool of processes keeps when nobody is reaped or restarted.    *)
LEMMA SameWorkers == worker' = worker => Unreaped' = Unreaped
  BY DEF Unreaped

LEMMA FailStep == MonitorInv /\ Fail => MonitorInv'
<1> SUFFICES ASSUME MonitorInv, Fail PROVE MonitorInv'
  OBVIOUS
<1> USE SlotsFacts
<1>1. TypeOK'
  BY DEF MonitorInv, TypeOK, Fail, boundVars
<1>2. CountsWorkers'
  BY SameWorkers DEF MonitorInv, CountsWorkers, StartingUp, Starting, Fail
<1>3. RunningHoldsNothing' /\ ExitClosesPipes'
  BY DEF MonitorInv, RunningHoldsNothing, ExitClosesPipes, TypeOK, Fail
<1> QED
  BY <1>1, <1>2, <1>3 DEF MonitorInv, Fail, NotEnding, StartingUp, Starting, AtTheEnd, Replacing

LEMMA CreateStep == MonitorInv /\ Create => MonitorInv'
<1> SUFFICES ASSUME MonitorInv, Create, ~Fail PROVE MonitorInv'
  BY FailStep
<1> USE SlotsFacts
<1>1. /\ pc \in {"create", "recreate"}
      /\ pc' = IF pc = "create" THEN "fork" ELSE "refork"
      /\ wr' = [p \in Processes |-> IF p = Master THEN wr[p] \cup {slot} ELSE wr[p] \ {slot}]
      /\ unread' = [unread EXCEPT ![slot] = 0]
      /\ UNCHANGED <<slot, worker_processes, flag, g_exit_flag, worker, starter, boundVars>>
  BY DEF Create
<1>2. TypeOK'
  BY <1>1 DEF MonitorInv, TypeOK, boundVars
<1>3. CountsWorkers'
  BY <1>1, SameWorkers DEF MonitorInv, CountsWorkers, Starting
<1>4. RunningHoldsNothing'
  BY <1>1 DEF MonitorInv, RunningHoldsNothing, TypeOK
<1>5. ExitClosesPipes' /\ NotEnding'
  BY <1>1 DEF MonitorInv, ExitClosesPipes, NotEnding
<1>6. StartingUp' /\ AtTheEnd'
  BY <1>1, SameWorkers DEF MonitorInv, StartingUp, Starting, AtTheEnd
<1> QED
  BY <1>1, <1>2, <1>3, <1>4, <1>5, <1>6 DEF MonitorInv, Replacing

LEMMA ForkFirstStep == MonitorInv /\ ForkFirst => MonitorInv'
<1> SUFFICES ASSUME MonitorInv, ForkFirst, ~Fail PROVE MonitorInv'
  BY FailStep
<1> USE SlotsFacts
<1>1. /\ pc = "fork" /\ Forked
      /\ pc' = IF slot < N THEN "create" ELSE "wait"
      /\ slot' = IF slot < N THEN slot + 1 ELSE slot
      /\ UNCHANGED worker_processes
  BY DEF ForkFirst
<1>2. TypeOK'
  BY <1>1 DEF MonitorInv, TypeOK, Forked, boundVars, Slots
<1>3. Unreaped = Slots /\ worker_processes = N
  BY <1>1 DEF MonitorInv, StartingUp, Starting
<1>4. Unreaped' = Slots
  BY <1>1, <1>3 DEF MonitorInv, TypeOK, Forked, Unreaped
<1>5. CountsWorkers' /\ StartingUp'
  BY <1>1, <1>3, <1>4 DEF CountsWorkers, StartingUp
<1>6. RunningHoldsNothing'
  BY <1>1 DEF MonitorInv, RunningHoldsNothing, TypeOK, Forked
<1>7. ExitClosesPipes' /\ NotEnding'
  BY <1>1 DEF MonitorInv, ExitClosesPipes, NotEnding, TypeOK, Forked
<1> QED
  BY <1>1, <1>2, <1>5, <1>6, <1>7 DEF MonitorInv, AtTheEnd, Replacing

LEMMA ForkAgainStep == MonitorInv /\ ForkAgain => MonitorInv'
<1> SUFFICES ASSUME MonitorInv, ForkAgain, ~Fail PROVE MonitorInv'
  BY FailStep
<1> USE SlotsFacts
<1>1. /\ pc = "refork" /\ Forked /\ pc' = "wait"
      /\ worker_processes' = worker_processes + 1
      /\ UNCHANGED slot
  BY DEF ForkAgain
<1>2. slot \in Slots /\ slot \notin Unreaped
  BY <1>1 DEF MonitorInv, TypeOK, Replacing, Unreaped
<1>3. Unreaped' = Unreaped \cup {slot}
  BY <1>1, <1>2 DEF MonitorInv, TypeOK, Forked, Unreaped
<1>4. worker_processes = Cardinality(Unreaped)
  BY <1>1 DEF MonitorInv, CountsWorkers, Starting
<1>5. worker_processes' = Cardinality(Unreaped')
  BY <1>1, <1>2, <1>3, <1>4, UnreapedMore
<1>6. Cardinality(Unreaped') \in 0..N
  <2>1. Unreaped' \in SUBSET Slots
    BY DEF Unreaped
  <2>2. IsFiniteSet(Unreaped') /\ Cardinality(Unreaped') <= N
    BY <2>1, FS_Subset
  <2> QED
    BY <2>2, FS_CardinalityType
<1>7. TypeOK'
  BY <1>1, <1>5, <1>6 DEF MonitorInv, TypeOK, Forked, boundVars
<1>8. RunningHoldsNothing' /\ ExitClosesPipes'
  BY <1>1 DEF MonitorInv, RunningHoldsNothing, ExitClosesPipes, TypeOK, Forked
<1> QED
  BY <1>1, <1>5, <1>7, <1>8
  DEF MonitorInv, CountsWorkers, NotEnding, StartingUp, Starting, AtTheEnd, Replacing

LEMMA ReapStep == ASSUME NEW i \in Slots PROVE MonitorInv /\ Reap(i) => MonitorInv'
<1> SUFFICES ASSUME MonitorInv, Reap(i) PROVE MonitorInv'
  OBVIOUS
<1> USE SlotsFacts
<1>1. i \in Unreaped
  BY DEF Reap, Unreaped
<1>2. Unreaped' = Unreaped \ {i}
  BY DEF Reap, Unreaped, MonitorInv, TypeOK
<1>3. worker_processes = Cardinality(Unreaped)
  BY DEF MonitorInv, CountsWorkers, Starting, Reap
<1>4. worker_processes' = Cardinality(Unreaped') /\ worker_processes' \in Int
  BY <1>1, <1>2, <1>3, UnreapedLess, UnreapedCount DEF Reap
<1>5. worker_processes' \in 0..N
  <2>1. Unreaped' \in SUBSET Slots
    BY DEF Unreaped
  <2>2. IsFiniteSet(Unreaped') /\ Cardinality(Unreaped') <= N
    BY <2>1, FS_Subset
  <2> QED
    BY <1>4, <2>2, FS_CardinalityType
<1>6. TypeOK'
  BY <1>5 DEF MonitorInv, TypeOK, Reap, boundVars
<1>7. RunningHoldsNothing' /\ ExitClosesPipes'
  BY DEF MonitorInv, RunningHoldsNothing, ExitClosesPipes, TypeOK, Reap
<1>8. AtTheEnd' /\ NotEnding'
  <2>1. CASE g_exit_flag
    <3>1. pc' = IF worker_processes' > 0 THEN "wait" ELSE "ended"
      BY <2>1 DEF Reap
    <3> QED
      BY <1>5, <3>1 DEF AtTheEnd, NotEnding
  <2>2. CASE ~g_exit_flag
    <3>1. pc' = "recreate" /\ ~g_exit_flag'
      BY <2>2 DEF Reap
    <3> QED
      BY <3>1 DEF AtTheEnd, NotEnding
  <2> QED
    BY <2>1, <2>2
<1>9. worker'[slot'] = "reaped"
  BY DEF MonitorInv, TypeOK, Reap
<1>10. pc' \in {"wait", "recreate", "ended"}
  BY DEF Reap
<1> QED
  BY <1>4, <1>6, <1>7, <1>8, <1>9, <1>10
  DEF MonitorInv, CountsWorkers, StartingUp, Starting

(* The steps of the master that touch no worker.                           *)
LEMMA SigProcTermStep == MonitorInv /\ SigProcTerm => MonitorInv'
<1> SUFFICES ASSUME MonitorInv, SigProcTerm PROVE MonitorInv'
  OBVIOUS
<1> USE SlotsFacts
<1>1. TypeOK'
  BY DEF MonitorInv, TypeOK, SigProcTerm, AfterSigProc, boundVars
<1>2. CountsWorkers'
  BY SameWorkers DEF MonitorInv, CountsWorkers, Starting, SigProcTerm, AfterSigProc, InSigProc
<1>3. RunningHoldsNothing' /\ ExitClosesPipes'
  BY DEF MonitorInv, RunningHoldsNothing, ExitClosesPipes, TypeOK, SigProcTerm
<1> QED
  BY <1>1, <1>2, <1>3 DEF MonitorInv, NotEnding, StartingUp, Starting, AtTheEnd, Replacing,
       SigProcTerm, AfterSigProc, InSigProc

LEMMA OtherMasterStep ==
  MonitorInv /\ (Block \/ ReapUnknown \/ SigProcRelog \/ SigProcRelogged
                 \/ SigProcNextGeneration) => MonitorInv'
<1> SUFFICES ASSUME MonitorInv,
                    Block \/ ReapUnknown \/ SigProcRelog \/ SigProcRelogged
                      \/ SigProcNextGeneration
             PROVE  MonitorInv'
  OBVIOUS
<1> USE SlotsFacts
<1>1. /\ UNCHANGED <<slot, worker_processes, g_exit_flag, worker>>
      /\ wr' = wr \/ wr' = [wr EXCEPT ![Starter] = wr[Master]]
  BY DEF Block, ReapUnknown, SigProcRelog, SigProcRelogged, SigProcNextGeneration,
         childVars
<1>2. /\ pc' \in {"wait", "blocked", "refork", "relogged", "relogged_fork"}
      /\ pc \notin {"create", "fork"}
      /\ pc' \in {"refork", "relogged_fork"} => Replacing
  BY DEF Block, ReapUnknown, SigProcRelog, SigProcRelogged, SigProcNextGeneration,
         InSigProc, AfterSigProc, Replacing
<1>3. TypeOK'
  <2>1. unread' \in [Slots -> Nat]
    BY DEF MonitorInv, TypeOK, Block, ReapUnknown, SigProcRelog, SigProcRelogged,
           SigProcNextGeneration, childVars
  <2>2. flag' \subseteq Signals /\ starter' \in {"none", "forked", "zombie"}
        /\ crashes' = crashes /\ sent' = sent
    BY DEF MonitorInv, TypeOK, Block, ReapUnknown, SigProcRelog, SigProcRelogged,
           SigProcNextGeneration, childVars, boundVars
  <2>3. wr' \in [Processes -> SUBSET Slots]
    BY <1>1 DEF MonitorInv, TypeOK
  <2> QED
    BY <1>1, <1>2, <2>1, <2>2, <2>3 DEF MonitorInv, TypeOK
<1>4. CountsWorkers'
  BY <1>1, <1>2, SameWorkers DEF MonitorInv, CountsWorkers, Starting
<1>5. RunningHoldsNothing' /\ ExitClosesPipes'
  BY <1>1 DEF MonitorInv, RunningHoldsNothing, ExitClosesPipes, TypeOK
<1> QED
  BY <1>1, <1>2, <1>3, <1>4, <1>5
  DEF MonitorInv, NotEnding, StartingUp, Starting, AtTheEnd, Replacing

LEMMA SignalStep == ASSUME NEW g \in Signals PROVE MonitorInv /\ Signal(g) => MonitorInv'
<1> SUFFICES ASSUME MonitorInv, Signal(g) PROVE MonitorInv'
  OBVIOUS
<1>1. /\ UNCHANGED <<slot, worker_processes, g_exit_flag, worker, wr>>
      /\ pc' = pc \/ (pc = "blocked" /\ pc' = "sig_proc")
                  \/ (pc = "refork" /\ pc' = "sig_proc_fork")
  BY DEF Signal, childVars
<1>2. TypeOK'
  <2>1. sent' \in 0..MaxSignals
    BY MonitorAssumption DEF MonitorInv, TypeOK, Signal
  <2> QED
    BY <2>1 DEF MonitorInv, TypeOK, Signal, childVars
<1>3. CountsWorkers'
  BY <1>1, SameWorkers DEF MonitorInv, CountsWorkers, Starting
<1>4. RunningHoldsNothing' /\ ExitClosesPipes'
  BY <1>1 DEF MonitorInv, RunningHoldsNothing, ExitClosesPipes
<1> QED
  BY <1>1, <1>2, <1>3, <1>4, SameWorkers
  DEF MonitorInv, NotEnding, StartingUp, Starting, AtTheEnd, Replacing

(* A worker that starts, dies or ends is not yet waited for.               *)
LEMMA WorkerStep ==
  ASSUME NEW i \in Slots
  PROVE  MonitorInv /\ (ChildStep(i) \/ WorkerCrashes(i)) => MonitorInv'
<1> SUFFICES ASSUME MonitorInv, ChildStep(i) \/ WorkerCrashes(i) PROVE MonitorInv'
  OBVIOUS
<1> USE SlotsFacts
<1>1. /\ UNCHANGED <<pc, slot, worker_processes, flag, g_exit_flag, starter, sent>>
      /\ worker' = worker
         \/ (worker[i] # "reaped" /\ worker' = [worker EXCEPT ![i] = "running"])
         \/ (worker[i] # "reaped" /\ worker' = [worker EXCEPT ![i] = "zombie"])
      /\ \/ wr' = wr /\ worker' = worker
         \/ wr' = [wr EXCEPT ![i] = {}]
  BY DEF ChildStep, WorkerCrashes, WorkerStarts, WorkerReopensLogs, WorkerFinishes, Dies,
         Alive, masterVars, boundVars
<1>2. Unreaped' = Unreaped
  BY <1>1 DEF Unreaped, MonitorInv, TypeOK
<1>3. TypeOK'
  <2>1. unread' \in [Slots -> Nat]
    BY DEF MonitorInv, TypeOK, ChildStep, WorkerCrashes, WorkerStarts, WorkerReopensLogs,
           WorkerFinishes, Dies
  <2>2. crashes' \in 0..MaxCrashes
    BY MonitorAssumption DEF MonitorInv, TypeOK, ChildStep, WorkerCrashes, WorkerStarts,
           WorkerReopensLogs, WorkerFinishes, boundVars
  <2> QED
    BY <1>1, <2>1, <2>2 DEF MonitorInv, TypeOK
<1>4. RunningHoldsNothing' /\ ExitClosesPipes'
  BY <1>1 DEF MonitorInv, RunningHoldsNothing, ExitClosesPipes, TypeOK
<1>5. (Replacing => worker[slot] = "reaped")'
  BY <1>1 DEF MonitorInv, TypeOK, Replacing
<1> QED
  BY <1>1, <1>2, <1>3, <1>4, <1>5
  DEF MonitorInv, CountsWorkers, NotEnding, StartingUp, Starting, AtTheEnd

LEMMA StarterStep == MonitorInv /\ StarterLeaves => MonitorInv'
<1> SUFFICES ASSUME MonitorInv, StarterLeaves PROVE MonitorInv'
  OBVIOUS
<1> USE SlotsFacts
<1>1. TypeOK'
  BY DEF MonitorInv, TypeOK, StarterLeaves, masterVars, boundVars
<1>2. RunningHoldsNothing' /\ ExitClosesPipes'
  BY DEF MonitorInv, RunningHoldsNothing, ExitClosesPipes, TypeOK, StarterLeaves, masterVars
<1> QED
  BY <1>1, <1>2, SameWorkers
  DEF MonitorInv, CountsWorkers, NotEnding, StartingUp, Starting, AtTheEnd, Replacing,
      StarterLeaves, masterVars

LEMMA MonitorStepInv == MonitorInv /\ [Next]_vars => MonitorInv'
<1> SUFFICES ASSUME MonitorInv, [Next]_vars PROVE MonitorInv'
  OBVIOUS
<1>1. CASE Create
  BY <1>1, CreateStep
<1>2. CASE ForkFirst
  BY <1>2, ForkFirstStep
<1>3. CASE ForkAgain
  BY <1>3, ForkAgainStep
<1>4. CASE \E i \in Slots : Reap(i)
  BY <1>4, ReapStep
<1>5. CASE SigProcTerm
  BY <1>5, SigProcTermStep
<1>6. CASE Block \/ ReapUnknown \/ SigProcRelog \/ SigProcRelogged
             \/ SigProcNextGeneration
  BY <1>6, OtherMasterStep
<1>7. CASE \E g \in Signals : Signal(g)
  BY <1>7, SignalStep
<1>8. CASE \E i \in Slots : ChildStep(i) \/ WorkerCrashes(i)
  BY <1>8, WorkerStep
<1>9. CASE StarterLeaves
  BY <1>9, StarterStep
<1>10. CASE UNCHANGED vars
  BY <1>10, SameWorkers
  DEF vars, masterVars, childVars, boundVars, MonitorInv, TypeOK, CountsWorkers,
      RunningHoldsNothing, ExitClosesPipes, NotEnding, StartingUp, Starting, AtTheEnd, Replacing
<1> QED
  BY <1>1, <1>2, <1>3, <1>4, <1>5, <1>6, <1>7, <1>8, <1>9, <1>10 DEF Next, MasterStep

(* The invariants of the master hold for every number of workers, crashes  *)
(* and signals, whatever fails.                                            *)
THEOREM MonitorCorrect == Spec => []MonitorInv
  BY MonitorInitInv, MonitorStepInv, PTL DEF Spec

(* The counter that ends the main loop of MonitorProcess is exact.         *)
THEOREM MonitorCounts == Spec => []CountsWorkers
<1>1. MonitorInv => CountsWorkers
  BY DEF MonitorInv
<1> QED
  BY <1>1, MonitorCorrect, PTL

(* When the master ends in order no worker is left.                        *)
THEOREM MonitorLeavesNone == Spec => []NoOrphans
<1>1. MonitorInv => NoOrphans
  <2> SUFFICES ASSUME MonitorInv, pc = "ended" PROVE \A i \in Slots : worker[i] = "reaped"
    BY DEF NoOrphans
  <2>1. Unreaped = {}
    BY UnreapedCount DEF MonitorInv, CountsWorkers, Starting, AtTheEnd
  <2> QED
    BY <2>1 DEF Unreaped
<1> QED
  BY <1>1, MonitorCorrect, PTL

(* The slots, the counter and the holders of pipe ends keep to their types.*)
THEOREM MonitorTypes == Spec => []TypeOK
<1>1. MonitorInv => TypeOK
  BY DEF MonitorInv
<1> QED
  BY <1>1, MonitorCorrect, PTL

(* A running worker has closed every write end it was born with (line 286),*)
(* so it keeps no other worker from reading end of file.                   *)
THEOREM MonitorPipes == Spec => []RunningHoldsNothing
<1>1. MonitorInv => RunningHoldsNothing
  BY DEF MonitorInv
<1> QED
  BY <1>1, MonitorCorrect, PTL

(* Nor does a master that is to end, whichever worker it was starting when *)
(* the signal was served (sig_proc): its workers read end of file.         *)
THEOREM MonitorClosesPipes == Spec => []ExitClosesPipes
<1>1. MonitorInv => ExitClosesPipes
  BY DEF MonitorInv
<1> QED
  BY <1>1, MonitorCorrect, PTL
=============================================================================
