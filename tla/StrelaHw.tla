------------------------------ MODULE StrelaHw ------------------------------
(***************************************************************************)
(* The driver on the CGRA: the steps of StrelaJob with the registers and   *)
(* the interrupt of the real device.  Source: driver/strela_core.c, the    *)
(* branches that are not is_sim.                                           *)
(*                                                                         *)
(* The engine is modelled from how the driver uses it: LOAD_CONFIG and     *)
(* START_EXEC start a phase, whose end sets a bit that stays pending until *)
(* the matching CLEAR_INT command; the resets end a phase, and may or may  *)
(* not clear the pending bits.  The engine may hang in any phase.          *)
(***************************************************************************)
EXTENDS StrelaJob

CONSTANTS
  PromptIrq,             \* an interrupt is dealt with before the timeout resets
                         \* the device
  ResetClearsInterrupts  \* what the resets do to the pending bits

ASSUME HwAssumption ==
  PromptIrq \in BOOLEAN /\ ResetClearsInterrupts \in BOOLEAN

VARIABLES
  engine,        \* what the engine is doing
  engineJob,     \* whose bindings are in the registers
  intPending,    \* phases whose interrupt bit is set
  irq_status,    \* bits the hard handler left for the thread
  irqThread,     \* "idle", or "woken" with the line masked (ONESHOT)
  configured,    \* jobs whose configuration the engine has loaded
  executed       \* jobs it has run on their own configuration

hwVars == <<engine, engineJob, intPending, irq_status, irqThread, configured,
            executed>>

hwAllVars == <<vars, hwVars>>

HwInit ==
  /\ Init
  /\ engine = "idle"
  /\ engineJob = NoJob
  /\ intPending = {}
  /\ irq_status = {}
  /\ irqThread = "idle"
  /\ configured = {}
  /\ executed = {}

\* Mutant: the new job is left in the phase of the one before.
HwRunJobKeepsPhase ==
  /\ wq = "run_job"
  /\ active' = wqJob
  /\ wq' = "ran"
  /\ engine' = "loading"
  /\ engineJob' = wqJob
  /\ UNCHANGED <<phase, fence_seqno, hwSignaled, jobVars, orderVars, schedVars,
                 fenceVars, wqJob, tdr, tdrJob, rm, file, intPending,
                 irq_status, irqThread, configured, executed>>

\* strela_run_job: the registers are programmed and the load is started.
HwRunJob ==
  /\ RunJob
  /\ engine' = "loading"
  /\ engineJob' = wqJob
  /\ UNCHANGED <<intPending, irq_status, irqThread, configured, executed>>

\* Mutant: the engine is not reset.
HwResetNot ==
  /\ PromptIrq => intPending = {} /\ irq_status = {}
  /\ UNCHANGED hwVars

\* strela_hw_stop resets the engine and does not wait for the interrupt.
HwReset ==
  /\ PromptIrq => intPending = {} /\ irq_status = {}
  /\ engine' = "idle"
  /\ intPending' = IF ResetClearsInterrupts THEN {} ELSE intPending
  /\ UNCHANGED <<engineJob, irq_status, irqThread, configured, executed>>

HwStop == HwReset /\ (TdrHwStop \/ FiniHwStop)

\* The engine ends a phase.
EngineLoaded ==
  /\ engine = "loading"
  /\ engine' = "idle"
  /\ intPending' = intPending \cup {"CONFIG"}
  /\ configured' = configured \cup {engineJob}
  /\ UNCHANGED <<vars, engineJob, irq_status, irqThread, executed>>

EngineDone ==
  /\ engine = "running"
  /\ engine' = "idle"
  /\ intPending' = intPending \cup {"EXEC"}
  /\ executed' = executed \cup ({engineJob} \cap configured)
  /\ UNCHANGED <<vars, engineJob, irq_status, irqThread, configured>>

\* Which phase the handlers act on when both bits are set.
Reported(bits) == IF "CONFIG" \in bits THEN "CONFIG" ELSE "EXEC"

\* strela_irq_handler clears one bit and leaves all it has read to the thread.
IrqHandler ==
  /\ irqThread = "idle"
  /\ intPending # {}
  /\ intPending' = intPending \ {Reported(intPending)}
  /\ irq_status' = intPending
  /\ irqThread' = "woken"
  /\ UNCHANGED <<vars, engine, engineJob, configured, executed>>

\* Mutant: the thread reads the register again, after the bit was cleared.
IrqThreadReads ==
  /\ irqThread = "woken"
  /\ irqThread' = "idle"
  /\ irq_status' = {}
  /\ PhaseDone(Reported(intPending))
  /\ engine' = IF phase = "CONFIG" /\ phase' = "EXEC" THEN "running" ELSE engine
  /\ UNCHANGED <<engineJob, intPending, configured, executed>>

\* strela_irq_thread_fn; the end of the config phase starts the exec phase.
IrqThread ==
  /\ irqThread = "woken"
  /\ irqThread' = "idle"
  /\ irq_status' = {}
  /\ PhaseDone(Reported(irq_status))
  /\ engine' = IF phase = "CONFIG" /\ phase' = "EXEC" THEN "running" ELSE engine
  /\ UNCHANGED <<engineJob, intPending, configured, executed>>

\* No job is alive: nobody need ask for anything any more.
HwQuiet ==
  /\ \A j \in Jobs : life[j] \in {"unused", "freed"}
  /\ UNCHANGED hwAllVars

HwNext ==
  \/ DriverNext /\ UNCHANGED hwVars
  \/ HwRunJob
  \/ HwStop
  \/ EngineLoaded
  \/ EngineDone
  \/ IrqHandler
  \/ IrqThread
  \/ HwQuiet

HwSpec == HwInit /\ [][HwNext]_hwAllVars

-----------------------------------------------------------------------------
(* Properties. *)

\* "Spurious or late completion" (strela_job_phase_done): the completion of
\* another job does not count for the job on the device.  A job enters its
\* exec phase only after the engine has loaded that job's configuration.
ExecAfterOwnConfig ==
  active # NoJob /\ phase = "EXEC" => active \in configured

\* A fence that reports success means that the engine ran that job.
OkMeansExecuted == \A j \in Jobs : finished[j] = "ok" => j \in executed

\* The handler clears one bit and the thread forgets the status it was given;
\* still the end of a phase of the active job is pending or being handled, until
\* strela_job_phase_done has acted on it.
InterruptIsNotLost ==
  active # NoJob =>
    /\ phase = "CONFIG" /\ active \in configured
         => "CONFIG" \in intPending \cup irq_status
    /\ phase = "EXEC" /\ active \in executed
         => "EXEC" \in intPending \cup irq_status

\* The driver on the CGRA is one of the drivers StrelaJob describes.
HwImplementsJob == Spec

-----------------------------------------------------------------------------
(* The inductive invariant behind the properties, in the case in which an  *)
(* interrupt is dealt with before the device is reset; together with IInv  *)
(* of StrelaJob.                                                           *)

\* Nothing goes on and nothing is pending.
EngineRests == engine = "idle" /\ intPending = {} /\ irq_status = {}

\* The end of a phase is passed on from the engine to the register, from there
\* to the handler's status, and from there to the driver: it is in one place.
PassedOn(p) ==
  \/ intPending = {p} /\ irq_status = {}
  \/ intPending = {} /\ irq_status = {p}

EngineInv ==
  /\ engine # "idle" => intPending = {} /\ irq_status = {}
  /\ \/ intPending = {} /\ irq_status = {}
     \/ \E p \in Phases : PassedOn(p)
  /\ irqThread = "idle" <=> irq_status = {}
  /\ engine = "idle" \/ engineJob \in Jobs

\* The job on the device is the one the engine works for, in the phase the
\* driver thinks it is in; without a job the engine rests, unless
\* strela_job_abort has taken the job off and strela_hw_stop is to follow.
ActiveInv ==
  /\ active = NoJob => EngineRests \/ Stopping
  /\ active # NoJob =>
       /\ engineJob = active
       /\ phase = "CONFIG" =>
            /\ active \notin executed
            /\ \/ engine = "loading" /\ active \notin configured
               \/ engine = "idle" /\ active \in configured /\ PassedOn("CONFIG")
       /\ phase = "EXEC" =>
            /\ active \in configured
            /\ \/ engine = "running" /\ active \notin executed
               \/ engine = "idle" /\ active \in executed /\ PassedOn("EXEC")

\* What the engine has done for a job: nothing before run_job; the exec phase of
\* one whose hw_fence has signalled on the device's behalf.
EngineJobsInv ==
  \A j \in Jobs :
    /\ j \in configured \cup executed \cup {engineJob} =>
         /\ life[j] \in {"started", "freed"}
         /\ ~ (wq = "run_job" /\ wqJob = j)
    /\ j \in hwSignaled /\ life[j] = "started" => j \in executed
    /\ finished[j] = "ok" => j \in executed

HwInv ==
  /\ engine \in {"idle", "loading", "running"}
  /\ irqThread \in {"idle", "woken"}
  /\ EngineInv
  /\ ActiveInv
  /\ EngineJobsInv
=============================================================================
