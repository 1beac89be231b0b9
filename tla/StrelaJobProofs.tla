-------------------------- MODULE StrelaJobProofs --------------------------
(***************************************************************************)
(* Theorems about StrelaJob and its two backends, StrelaSim and StrelaHw,  *)
(* for any number of clients and of jobs.  IInv is inductive, by the       *)
(* lemmas of StrelaJobSteps, one for each group of actions.  The safety    *)
(* properties are among the conjuncts of IInv or follow from it.           *)
(* StrelaJobRefines has the steps of the refinement of StrelaQueue, and    *)
(* those of the backends, whose invariants hold on top of IInv.            *)
(*                                                                         *)
(* IInv needs PromptTeardown.  TypeCorrect and the refinement of StrelaJob *)
(* by the backends do not.                                                 *)
(***************************************************************************)
EXTENDS StrelaJobSteps, StrelaJobRefines, FiniteSetTheorems

USE DEF vars, devVars, jobVars, orderVars, schedVars, fenceVars, threadVars,
        Jobs, NoJob

-----------------------------------------------------------------------------
(* Sets of jobs, and types. *)

\* Sets of jobs have a size.
LEMMA JobsFinite == \A S \in SUBSET Jobs : Cardinality(S) \in Nat
<1>1. IsFiniteSet(1 .. MaxJobs)
  BY FS_Interval, JobAssumption
<1>2. ASSUME NEW S \in SUBSET Jobs PROVE IsFiniteSet(S)
  BY <1>1, FS_Subset, Zenon
<1> QED BY <1>2, FS_CardinalityType, Zenon

\* The size of the empty set only is 0.
LEMMA EmptyIsCounted ==
  ASSUME NEW S \in SUBSET Jobs, Cardinality(S) = 0
  PROVE  S = {}
<1>1. IsFiniteSet(1 .. MaxJobs)
  BY FS_Interval, JobAssumption
<1> QED BY <1>1, FS_Subset, FS_EmptySet, Zenon

\* That of a set with at most one job is 0 or 1.
LEMMA AtMostOne == OneIsCounted
<1> SUFFICES ASSUME NEW S, \A x, y \in S : x = y
             PROVE  Cardinality(S) = IF S = {} THEN 0 ELSE 1
  BY Zenon DEF OneIsCounted
<1>1. CASE S = {}
  BY <1>1, FS_EmptySet
<1>2. CASE S # {}
  <2>1. PICK x \in S : S = {x}
    BY <1>2
  <2>2. QED BY <1>2, <2>1, FS_Singleton
<1>3. QED BY <1>1, <1>2

\* The driver's and the scheduler's variables keep their types, however prompt
\* removal is: no step reads an undefined job or leaves a phase undefined.
THEOREM TypeCorrect == Spec => []TypeOK
<1>1. TypeInv => TypeOK
  BY DEF TypeInv
<1>2. TypeInv /\ [Next]_vars => TypeInv'
  BY TypeStep, JobsFinite, Zenon
<1> QED BY <1>1, <1>2, TypeInit, PTL DEF Spec

-----------------------------------------------------------------------------
(* The inductive invariant. *)

USE DEF Unfinished, Resetting, Suspended, HeldByList, HeldByWq, HeldByTdr

\* The driver after strela_job_init.
LEMMA IInvInit == Init => IInv
<1> SUFFICES ASSUME Init PROVE IInv
  OBVIOUS
<1>1. TypeOK
  BY TypeInit DEF TypeInv
<1>2. \A j \in Jobs : LifeInv(j) /\ UnfinishedInv(j)
  BY JobAssumption DEF Init, LifeInv, UnfinishedInv
<1>3. ThreadInv /\ RemovalInv
  BY DEF Init, ThreadInv, RemovalInv
<1>4. ActiveIsUnfinished /\ NoWarning /\ StartedIsHeldOnce
  BY Zenon DEF Init, ActiveIsUnfinished, NoWarning, StartedIsHeldOnce
<1>5. OneCredit /\ CompletionIsHeard /\ TimeoutIsArmed
  BY Zenon DEF Init, OneCredit, CompletionIsHeard, TimeoutIsArmed
<1> QED BY <1>1, <1>2, <1>3, <1>4, <1>5 DEF IInv

\* Any step.
LEMMA IInvStep ==
  ASSUME PromptTeardown, IInv, [Next]_vars
  PROVE  IInv'
<1>1. TypeOK'
  <2>1. TypeInv
    BY DEF IInv, TypeInv, ThreadInv, TypeOK
  <2> QED BY <2>1, TypeStep, JobsFinite, Zenon DEF TypeInv
<1>2. CASE DriverNext
  BY <1>1, <1>2, AtMostOne, IoctlsStep, FilesStep, SchedulerStep, TimeoutStep,
     RemovalStep, Zenon DEF DriverNext
<1>3. CASE RunJob \/ TdrHwStop \/ FiniHwStop \/ \E p \in Phases : PhaseDone(p)
  BY <1>1, <1>3, AtMostOne, DeviceStep, Zenon
<1> QED BY <1>2, <1>3, IInvStutter, Zenon DEF Next

-----------------------------------------------------------------------------
(* The theorems. *)

\* The inductive invariant of the driver and the scheduler holds for any
\* clients, any number of jobs and any behaviour of the device, as long as
\* strela_job_fini gets from cancelling the timeout to stopping it in less
\* time than a timeout takes.
THEOREM Safety ==
  ASSUME PromptTeardown
  PROVE  Spec => []IInv
<1>1. IInv /\ [Next]_vars => IInv'
  BY IInvStep
<1> QED BY <1>1, IInvInit, PTL DEF Spec

\* The job on the device is alive and unfinished (strela_run_job sets
\* sdev->active; strela_job_phase_done and strela_job_abort clear it).
THEOREM ActiveSafety ==
  ASSUME PromptTeardown
  PROVE  Spec => []ActiveIsUnfinished
<1>1. IInv => ActiveIsUnfinished
  BY DEF IInv
<1> QED BY <1>1, Safety, PTL

\* The drm_WARN_ON of strela_run_job and the one of strela_hw_stop never fire.
THEOREM WarningSafety ==
  ASSUME PromptTeardown
  PROVE  Spec => []NoWarning
<1>1. IInv => NoWarning
  BY Zenon DEF IInv
<1> QED BY <1>1, Safety, PTL

\* A started job has exactly one place that will free it, and nothing that uses
\* a job names a freed one (strela_free_job, drm_sched_stop, strela_job_fini).
THEOREM HeldOnceSafety ==
  ASSUME PromptTeardown
  PROVE  Spec => []StartedIsHeldOnce
<1>1. IInv => StartedIsHeldOnce
  BY DEF IInv
<1> QED BY <1>1, Safety, PTL

\* The scheduler's credit (strela_job_init) is out exactly while one job is
\* with the driver, and there are never two.
THEOREM CreditSafety ==
  ASSUME PromptTeardown
  PROVE  Spec => []OneCredit
<1>1. IInv => OneCredit
  BY DEF IInv
<1> QED BY <1>1, Safety, PTL

\* A completion that races run_job or the timeout is not lost
\* (strela_job_phase_done).
THEOREM CompletionSafety ==
  ASSUME PromptTeardown
  PROVE  Spec => []CompletionIsHeard
<1>1. IInv => CompletionIsHeard
  BY Zenon DEF IInv
<1> QED BY <1>1, Safety, PTL

\* A timer runs for every unfinished job (strela_timedout_job).
THEOREM TimeoutSafety ==
  ASSUME PromptTeardown
  PROVE  Spec => []TimeoutIsArmed
<1>1. IInv => TimeoutIsArmed
  BY DEF IInv
<1> QED BY <1>1, Safety, PTL

\* Removal finishes and frees every job that was ever started
\* (strela_job_fini).
THEOREM RemovalSafety ==
  ASSUME PromptTeardown
  PROVE  Spec => []RemovalRetiresStarted
<1>1. ASSUME IInv, rm = "gone"
      PROVE  \A j \in Jobs : life[j] # "started"
  BY <1>1 DEF IInv, RemovalInv, ThreadInv, StartedIsHeldOnce
<1>2. ASSUME IInv, rm = "gone"
      PROVE  \A j \in Jobs : begun[j] > 0 => finished[j] # "none"
  <2>1. \A j \in Jobs : LifeInv(j) /\ begun[j] \in Nat
    BY <1>2 DEF IInv, TypeOK
  <2>2. \A j \in Jobs : life[j] # "started"
    BY <1>1, <1>2
  <2> QED BY <2>1, <2>2 DEF LifeInv
<1>3. IInv => RemovalRetiresStarted
  BY <1>1, <1>2 DEF RemovalRetiresStarted
<1> QED BY <1>3, Safety, PTL

\* After drm_sched_fini has stopped the work items, none runs again
\* (strela_job_fini).
THEOREM StoppedSafety ==
  ASSUME PromptTeardown
  PROVE  Spec => []StoppedStaysStopped
<1>1. IInv => StoppedStaysStopped
  BY DEF IInv, RemovalInv, StoppedStaysStopped, TypeOK, RmSteps
<1> QED BY <1>1, Safety, PTL

\* Every fence a client can wait on reports once and for all
\* (strela_job_phase_done, drm_sched_start, strela_job_fini, DESIGN.md D3).
THEOREM FenceSafety ==
  ASSUME PromptTeardown
  PROVE  Spec => FenceSignalsOnce
<1>1. IInv /\ [Next]_vars =>
        [\A j \in Jobs : finished[j] # "none" => finished'[j] = finished[j]]_vars
  BY FenceStep
<1> QED BY <1>1, Safety, PTL DEF Spec, FenceSignalsOnce

\* "The scheduler holds the job back until that fence signals" (submit ioctl): the
\* job a client with one ioctl at a time waits for has finished before its own is
\* on the device, although the scheduler waits for the start of a job of another
\* client only and for none of the same client.
THEOREM DependencySafety ==
  ASSUME PromptTeardown, MaxIoctls = 1
  PROVE  Spec => []DependencyHeldBack
<1>1. \A c \in Clients : Cardinality(InFlight(c)) < 1 => InFlight(c) = {}
  <2>1. ASSUME NEW c \in Clients PROVE InFlight(c) \in SUBSET Jobs
    BY DEF InFlight
  <2>2. QED BY <2>1, JobsFinite, EmptyIsCounted
<1>2. IInv /\ DependencyInv /\ [Next]_vars => DependencyInv'
  BY <1>1, DependencyStep, FenceStep
<1>3. QED
  BY <1>2, Safety, DependencyInit, DependencyImplies, PTL DEF Spec

\* The driver gives its clients the queue of StrelaQueue: every job that was
\* pushed is finished exactly once, the jobs of a client in the order in which
\* it pushed them, and the device has one job at a time, whatever timeouts,
\* closes and removal do (strela_job_init, strela_run_job, strela_timedout_job,
\* strela_job_phase_done, strela_job_fini).
THEOREM QueueRefinement ==
  ASSUME PromptTeardown
  PROVE  Spec => ImplementsQueue
<1>1. IInv /\ [Next]_vars => [Q!QNext]_(Q!queueVars)
  BY NextRefines
<1> QED BY <1>1, InitRefines, Safety, PTL DEF Spec, ImplementsQueue, Q!QSpec

-----------------------------------------------------------------------------
(* The backends. *)

\* Every behaviour of the driver on a simulated device is one of the behaviours
\* StrelaJob allows, so that all that is proved of StrelaJob holds for it
\* (strela_hw_run_job, strela_hw_stop, strela_sim_work).
THEOREM SimRefinement == SimSpec => SimImplementsJob
<1>1. SimInit => Init
  BY Zenon DEF SimInit
<1>2. [SimNext]_simAllVars => [Next]_vars
  BY SimNextIsNext
<1> QED BY <1>1, <1>2, PTL DEF SimSpec, SimImplementsJob, Spec

\* The worker and the driver together.
LEMMA SimSafety ==
  ASSUME PromptTeardown
  PROVE  SimSpec => [](IInv /\ SimInv)
<1>1. SimSpec => []IInv
  BY SimRefinement, Safety, PTL DEF SimImplementsJob
<1>2. IInv /\ IInv' /\ SimInv /\ [SimNext]_simAllVars => SimInv'
  BY SimInvStep
<1> QED BY <1>1, <1>2, SimInvInit, PTL DEF SimSpec

\* The worker uses a job that cannot be freed under it, and no other job is on
\* the device, however late the worker is (strela_sim_work, strela_hw_stop).
THEOREM WorkerSafety ==
  ASSUME PromptTeardown
  PROVE  SimSpec => []WorkerServesActive
<1>1. IInv /\ SimInv => WorkerServesActive
  BY SimInvImplies
<1> QED BY <1>1, SimSafety, PTL

\* A simulated job that reports success has copied all its columns
\* (strela_sim_work, strela_job_phase_done).
THEOREM CopiedSafety ==
  ASSUME PromptTeardown
  PROVE  SimSpec => []OkMeansCopied
<1>1. IInv /\ SimInv => OkMeansCopied
  BY SimInvImplies, Zenon
<1> QED BY <1>1, SimSafety, PTL

\* The worker does not write to the buffers of a client that has seen its fence
\* signal (strela_sim_bypass, strela_hw_stop, drm_sched_start).
THEOREM CopySafety ==
  ASSUME PromptTeardown
  PROVE  SimSpec => NoCopyAfterFence
<1>1. IInv /\ SimInv /\ [SimNext]_simAllVars =>
        [\A j \in Jobs : copied'[j] # copied[j] => finished[j] = "none"]_simAllVars
  BY CopyStep
<1> QED BY <1>1, SimSafety, PTL DEF SimSpec, NoCopyAfterFence

\* So is the driver on the CGRA (strela_hw_run_job, strela_hw_stop,
\* strela_irq_handler, strela_irq_thread).
THEOREM HwRefinement == HwSpec => HwImplementsJob
<1>1. HwInit => Init
  BY Zenon DEF HwInit
<1>2. [HwNext]_hwAllVars => [Next]_vars
  BY HwNextIsNext, Zenon
<1> QED BY <1>1, <1>2, PTL DEF HwSpec, HwImplementsJob, Spec

\* The engine, its interrupt and the driver together, as long as an interrupt is
\* dealt with before a timeout resets the device.
LEMMA HwSafety ==
  ASSUME PromptTeardown, PromptIrq
  PROVE  HwSpec => [](IInv /\ HwInv)
<1>1. HwSpec => []IInv
  BY HwRefinement, Safety, PTL DEF HwImplementsJob
<1>2. IInv /\ HwInv /\ [HwNext]_hwAllVars => HwInv'
  BY HwInvStep, Zenon
<1> QED BY <1>1, <1>2, HwInvInit, PTL DEF HwSpec

\* A job executes with the configuration it asked for, not with one an earlier
\* job left behind (strela_hw_run_job, strela_job_phase_done).
THEOREM ConfigSafety ==
  ASSUME PromptTeardown, PromptIrq
  PROVE  HwSpec => []ExecAfterOwnConfig
<1>1. IInv /\ HwInv => ExecAfterOwnConfig
  BY HwInvImplies, Zenon
<1> QED BY <1>1, HwSafety, PTL

\* A job that reports success was executed by the engine: no interrupt of
\* another job or another phase is taken for its own (strela_irq_thread).
THEOREM ExecutedSafety ==
  ASSUME PromptTeardown, PromptIrq
  PROVE  HwSpec => []OkMeansExecuted
<1>1. IInv /\ HwInv => OkMeansExecuted
  BY HwInvImplies
<1> QED BY <1>1, HwSafety, PTL

\* The end of a phase the driver waits for is pending or with the thread, while
\* the engine rests (strela_irq_handler, strela_irq_thread).
THEOREM InterruptSafety ==
  ASSUME PromptTeardown, PromptIrq
  PROVE  HwSpec => []InterruptIsNotLost
<1>1. IInv /\ HwInv => InterruptIsNotLost
  BY HwInvImplies, Zenon
<1> QED BY <1>1, HwSafety, PTL
=============================================================================
