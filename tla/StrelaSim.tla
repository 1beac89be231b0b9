----------------------------- MODULE StrelaSim -----------------------------
(***************************************************************************)
(* The driver on a simulated device: the steps of StrelaJob, in which the  *)
(* device is a work item that runs one whole job, sleeping out its phases  *)
(* and copying its columns.  Source: driver/strela_core.c, the is_sim      *)
(* branches and strela_sim_work.                                           *)
(*                                                                         *)
(* The worker reads sdev->active once, under the lock, and goes on using   *)
(* that job after the unlock, which is what the properties are about.      *)
(***************************************************************************)
EXTENDS StrelaJob

CONSTANT NumCols   \* STRELA_NUM_IO_COLS

ASSUME SimAssumption == NumCols \in Nat

VARIABLES
  sim_queued,   \* sim_work is on the workqueue
  sim,          \* where the worker is
  sim_job,      \* the worker's local variable job
  sim_col,      \* columns this run of the worker has dealt with
  sim_abort,    \* the reset line
  copied        \* columns of a job that have been copied

simVars == <<sim_queued, sim, sim_job, sim_col, sim_abort, copied>>

simAllVars == <<vars, simVars>>

SimInit ==
  /\ Init
  /\ sim_queued = FALSE
  /\ sim = "idle"
  /\ sim_job = NoJob
  /\ sim_col = 0
  /\ sim_abort = FALSE
  /\ copied = [j \in Jobs |-> 0]

\* strela_run_job; strela_hw_program does nothing, strela_hw_start queues the
\* worker, also when an earlier run of it has not quite ended.
SimRunJob ==
  /\ RunJob
  /\ sim_abort' = FALSE
  /\ sim_queued' = TRUE
  /\ UNCHANGED <<sim, sim_job, sim_col, copied>>

\* strela_hw_stop raises the reset line ...
SimRaiseAbort ==
  /\ tdr = "hw_stop" \/ rm = "hw_stop"
  /\ ~sim_abort
  /\ sim_abort' = TRUE
  /\ UNCHANGED <<vars, sim_queued, sim, sim_job, sim_col, copied>>

\* Mutant: cancel_work instead of cancel_work_sync.
SimSettleAsync ==
  /\ sim_abort
  /\ sim_queued' = FALSE
  /\ UNCHANGED <<sim, sim_job, sim_col, sim_abort, copied>>

\* ... and returns once the worker is neither queued nor running, not even
\* its last instructions.
SimSettle ==
  /\ sim_abort
  /\ sim = "idle"
  /\ sim_queued' = FALSE
  /\ UNCHANGED <<sim, sim_job, sim_col, sim_abort, copied>>

SimHwStop == SimSettle /\ (TdrHwStop \/ FiniHwStop)

-----------------------------------------------------------------------------
(* strela_sim_work *)

SimTakeJob ==
  /\ sim_queued
  /\ sim = "idle"
  /\ sim_queued' = FALSE
  /\ sim' = IF active = NoJob THEN "idle" ELSE "config"
  /\ sim_job' = active
  /\ sim_col' = 0
  /\ UNCHANGED <<vars, sim_abort, copied>>

\* The worker has done all it does to a job.  Its function has not returned yet,
\* and the workqueue does not run it twice at a time.
SimReturn == sim' = "returning" /\ sim_job' = NoJob

SimReturned ==
  /\ sim = "returning"
  /\ sim' = "idle"
  /\ UNCHANGED <<vars, sim_queued, sim_job, sim_col, sim_abort, copied>>

\* Mutant: the slices of the exec phase are slept out with msleep.
SimAbortedConfig ==
  /\ sim = "config"
  /\ sim_abort
  /\ SimReturn
  /\ UNCHANGED <<vars, sim_queued, sim_col, sim_abort, copied>>

\* The wait for a phase, or for a slice of one, was cut short.
SimAborted ==
  /\ sim \in {"config", "exec"}
  /\ sim_abort
  /\ SimReturn
  /\ UNCHANGED <<vars, sim_queued, sim_col, sim_abort, copied>>

\* The config phase ran its course; a timer may beat the reset line.
SimConfigDone ==
  /\ sim = "config"
  /\ PhaseDone("CONFIG")
  /\ sim' = "exec"
  /\ UNCHANGED <<sim_queued, sim_job, sim_col, sim_abort, copied>>

\* A slice ran its course and its column is copied.
SimBypassColumn ==
  /\ sim = "exec"
  /\ sim_col < NumCols
  /\ sim_col' = sim_col + 1
  /\ copied' = [copied EXCEPT ![sim_job] = @ + 1]
  /\ UNCHANGED <<vars, sim_queued, sim, sim_job, sim_abort>>

\* Mutant: the exec phase ends with any column.
SimExecDoneEarly ==
  /\ sim = "exec"
  /\ PhaseDone("EXEC")
  /\ SimReturn
  /\ UNCHANGED <<sim_queued, sim_col, sim_abort, copied>>

\* Every column was fed: the job completes.  The scheduler may start the next
\* one, which queues the worker again, before this run of it has returned.
SimExecDone ==
  /\ sim = "exec"
  /\ sim_col = NumCols
  /\ PhaseDone("EXEC")
  /\ SimReturn
  /\ UNCHANGED <<sim_queued, sim_col, sim_abort, copied>>

\* Mutant: a starved job is taken off the device at once.
SimStarvedDrops ==
  /\ sim = "exec"
  /\ sim_col = NumCols
  /\ SimReturn
  /\ active' = NoJob
  /\ UNCHANGED <<phase, fence_seqno, hwSignaled, jobVars, orderVars, schedVars,
                 fenceVars, threadVars, sim_queued, sim_col, sim_abort, copied>>

\* An output still waits for input: the job is left for the timeout.
SimStarved ==
  /\ sim = "exec"
  /\ sim_col = NumCols
  /\ SimReturn
  /\ UNCHANGED <<vars, sim_queued, sim_col, sim_abort, copied>>

SimWork ==
  \/ SimTakeJob
  \/ SimAborted
  \/ SimConfigDone
  \/ SimBypassColumn
  \/ SimExecDone
  \/ SimStarved
  \/ SimReturned

\* No job is alive: nobody need ask for anything any more.
SimQuiet ==
  /\ \A j \in Jobs : life[j] \in {"unused", "freed"}
  /\ UNCHANGED simAllVars

SimNext ==
  \/ DriverNext /\ UNCHANGED simVars
  \/ SimRunJob
  \/ SimRaiseAbort
  \/ SimHwStop
  \/ SimWork
  \/ SimQuiet

SimSpec == SimInit /\ [][SimNext]_simAllVars

-----------------------------------------------------------------------------
(* Properties. *)

\* The worker is in the middle of a job.
Working == sim \in {"config", "exec"}

\* "Safe to keep using job after the unlock: nothing frees a job that is still
\* on the device without calling strela_hw_stop first" (strela_sim_work); and a
\* phase the worker ends is a phase of the job it works for: no other job is on
\* the device while it runs, however late it is.
WorkerServesActive ==
  Working => life[sim_job] = "started" /\ active \in {sim_job, NoJob}

\* A fence that reports success means that every column was copied.
OkMeansCopied == \A j \in Jobs : finished[j] = "ok" => copied[j] = NumCols

\* A column is copied only while its client is still waiting for the job, so
\* that a client that has seen its fence signal, with whatever outcome, owns
\* its buffers.
NoCopyAfterFence ==
  [][\A j \in Jobs : copied'[j] # copied[j] => finished[j] = "none"]_simAllVars

\* The driver on a simulated device is one of the drivers StrelaJob describes.
SimImplementsJob == Spec

\* The workqueue runs the worker, and a wait ends when the reset line is raised.
\* It need not end otherwise: sim_job_delay_us may exceed any timeout.
SimFairness ==
  /\ \A j \in Jobs : WF_simAllVars(SubmitPush(j) /\ UNCHANGED simVars)
                     /\ WF_simAllVars(KillJob(j) /\ UNCHANGED simVars)
                     /\ WF_simAllVars(RunJobWork(j) /\ UNCHANGED simVars)
                     /\ WF_simAllVars(FreeJobWork(j) /\ UNCHANGED simVars)
  /\ WF_simAllVars((RunJobReturn \/ FreeJob) /\ UNCHANGED simVars)
  /\ WF_simAllVars(SimRunJob)
  /\ WF_simAllVars(Timeout /\ UNCHANGED simVars)
  /\ WF_simAllVars(SimRaiseAbort) /\ WF_simAllVars(SimHwStop)
  /\ WF_simAllVars(SimTakeJob) /\ WF_simAllVars(SimAborted)
  /\ WF_simAllVars(SimExecDone \/ SimStarved) /\ WF_simAllVars(SimReturned)

SimFairSpec == SimSpec /\ SimFairness

\* strela_hw_stop always returns, however long the phases of a job are: the
\* reset line stops the worker wherever it waits.
HwStopReturns == tdr = "hw_stop" ~> tdr = "start"

-----------------------------------------------------------------------------
(* The inductive invariant behind the safety properties, together with     *)
(* IInv of StrelaJob.                                                      *)

\* The worker is running: its job is on the device, or was taken off by
\* strela_job_abort, whose caller is now waiting for the worker.
WorkerInv ==
  Working =>
    /\ sim_job \in Jobs
    /\ Unfinished(sim_job)
    /\ sim_job \notin hwSignaled
    /\ active = sim_job \/ (active = NoJob /\ Stopping)
    /\ ~sim_queued
    /\ copied[sim_job] = sim_col

\* How much of a job has been copied: nothing before the worker takes it, all
\* of it once its hw_fence has signalled on the device's behalf.
CopiedInv ==
  \A j \in Jobs :
    /\ life[j] \notin {"started", "freed"} => copied[j] = 0
    /\ wq = "run_job" /\ wqJob = j => copied[j] = 0
    /\ sim_queued /\ active = j => copied[j] = 0
    /\ j \in hwSignaled /\ life[j] = "started" => copied[j] = NumCols
    /\ finished[j] = "ok" => copied[j] = NumCols

SimInv ==
  /\ sim \in {"idle", "config", "exec", "returning"}
  /\ sim_col \in Nat
  /\ copied \in [Jobs -> Nat]
  /\ WorkerInv
  /\ CopiedInv
=============================================================================
