----------------------------- MODULE StrelaJob -----------------------------
(***************************************************************************)
(* The life of a job in the driver: the submit ioctl, the scheduler the    *)
(* driver is built on, the callbacks it gives that scheduler (run_job,     *)
(* timedout_job, free_job), the completion of a phase, and removal.        *)
(* Sources: driver/strela_job.c and, for files, driver/strela_drv.c.       *)
(*                                                                         *)
(* Threads of control, each interleaved with the others:                   *)
(*   - ioctls of the clients (Submit...) and the last close of a file;     *)
(*   - wq: the scheduler's ordered workqueue, on which run_job and         *)
(*     free_job are called;                                                *)
(*   - tdr: the scheduler's timeout work, which calls timedout_job;        *)
(*   - rm: module removal, strela_job_fini;                                *)
(*   - the device, seen from here as calls of strela_job_phase_done that   *)
(*     may come at any time and for any phase.  StrelaSim and StrelaHw     *)
(*     restrict those calls to the ones a backend makes.                   *)
(* A critical section of sdev->lock is one step.                           *)
(*                                                                         *)
(* A job is named by the seqno of its hw_fence.  The scheduler's lists are *)
(* sets ordered by the numbers pushed and begun: a job enters a list at    *)
(* its tail, and the one job put back at the head came from there.         *)
(***************************************************************************)
EXTENDS Integers, FiniteSets

CONSTANTS
  Clients,         \* open files, one drm_sched_entity each
  NoClient,        \* the owner of a job not yet submitted
  MaxJobs,         \* bound: jobs submitted in one behaviour
  MaxIoctls,       \* bound: submit ioctls one client has in flight
  PromptTeardown   \* removal gets from one line to the next in 500 ms

ASSUME JobAssumption ==
  /\ NoClient \notin Clients
  /\ MaxJobs \in Nat
  /\ MaxIoctls \in Nat
  /\ PromptTeardown \in BOOLEAN

Jobs == 1..MaxJobs

NoJob == 0

\* The scheduler is given one credit and every job costs one.
CreditLimitTwo == 2    \* mutant: a second credit
CreditLimit == 1

VARIABLES
  \* struct strela_device
  active,        \* job that is on the device, or NoJob
  phase,         \* active->phase, meaningful while there is an active job
  fence_seqno,   \* hw_fences initialised so far
  hwSignaled,    \* jobs whose hw_fence has signalled
  \* the jobs
  life,          \* how far a job has got
  client,        \* file_priv it was submitted through
  dep,           \* job whose fence its in_syncobj held, or NoJob
  \* struct drm_gpu_scheduler and its entities
  pushed,        \* place in the entity's queue, 0 before it has one
  pushes,        \* places handed out
  begun,         \* place in the order of starting, 0 before it has one
  begins,        \* places handed out
  pending,       \* pending_list
  credit_count,  \* credits taken
  pause_submit,  \* work items are parked
  armed,         \* the timeout work has a timer running
  free_guilty,   \* the timed out job had finished after all
  listening,     \* jobs whose hw_fence has the scheduler's callback on it
  scheduled,     \* jobs whose s_fence->scheduled has signalled
  finished,      \* what s_fence->finished reports, "none" until it signals
  \* threads of control
  wq, wqJob,     \* scheduler workqueue: where it is, and with which job
  tdr, tdrJob,   \* timeout work
  rm,            \* removal
  file           \* the clients' files

devVars == <<active, phase, fence_seqno, hwSignaled>>
jobVars == <<life, client, dep>>
orderVars == <<pushed, pushes, begun, begins>>
schedVars == <<pending, credit_count, pause_submit, armed, free_guilty>>
fenceVars == <<listening, scheduled, finished>>
threadVars == <<wq, wqJob, tdr, tdrJob, rm, file>>

vars == <<devVars, jobVars, orderVars, schedVars, fenceVars, threadVars>>

Phases == {"CONFIG", "EXEC"}

Lives ==
  {"unused",    \* not submitted
   "init",      \* allocated by an ioctl that may still fail
   "armed",     \* owned by the scheduler, its fence published, not queued
   "queued",    \* in its entity's queue
   "started",   \* handed to the driver
   "killed",    \* thrown out of the queue, waiting to be finished
   "freed"}     \* its memory is gone

Outcomes == {"none", "ok", "ECANCELED", "ENODEV", "ESRCH"}

WqSteps == {"idle", "run_job", "ran", "free_job"}
TdrSteps == {"idle", "timedout", "parked", "abort", "hw_stop", "start", "end"}
RmSteps == {"loaded", "cancel_tdr", "sched_fini", "parked", "sync_tdr",
            "abort", "hw_stop", "retire", "gone"}
FileSteps == {"new", "open", "closing", "closed"}

Init ==
  /\ active = NoJob
  /\ phase = "CONFIG"
  /\ fence_seqno = 0
  /\ hwSignaled = {}
  /\ life = [j \in Jobs |-> "unused"]
  /\ client = [j \in Jobs |-> NoClient]
  /\ dep = [j \in Jobs |-> NoJob]
  /\ pushed = [j \in Jobs |-> 0]
  /\ pushes = 0
  /\ begun = [j \in Jobs |-> 0]
  /\ begins = 0
  /\ pending = {}
  /\ credit_count = 0
  /\ pause_submit = FALSE
  /\ armed = FALSE
  /\ free_guilty = FALSE
  /\ listening = {}
  /\ scheduled = {}
  /\ finished = [j \in Jobs |-> "none"]
  /\ wq = "idle" /\ wqJob = NoJob
  /\ tdr = "idle" /\ tdrJob = NoJob
  /\ rm = "loaded"
  /\ file = [c \in Clients |-> "new"]

-----------------------------------------------------------------------------
(* Clients: open, submit, close. *)

OpenFile(c) ==
  /\ rm = "loaded"
  /\ file[c] = "new"
  /\ file' = [file EXCEPT ![c] = "open"]
  /\ UNCHANGED <<devVars, jobVars, orderVars, schedVars, fenceVars,
                 wq, wqJob, tdr, tdrJob, rm>>

\* The submit ioctls client c has in flight.
InFlight(c) == {j \in Jobs : client[j] = c /\ life[j] \in {"init", "armed"}}

\* The ioctl allocates a job and its hw_fence and takes the next seqno.
SubmitInit(c) ==
  LET j == fence_seqno + 1
  IN /\ file[c] = "open"
     /\ Cardinality(InFlight(c)) < MaxIoctls
     /\ j \in Jobs
     /\ fence_seqno' = j
     /\ life' = [life EXCEPT ![j] = "init"]
     /\ client' = [client EXCEPT ![j] = c]
     /\ UNCHANGED <<active, phase, hwSignaled, dep, orderVars, schedVars,
                    fenceVars, threadVars>>

\* A handle that does not resolve, a binding that does not fit, a syncobj that
\* does not exist: what the ioctl has taken is put back and the job is freed.
SubmitFail(j) ==
  /\ life[j] = "init"
  /\ life' = [life EXCEPT ![j] = "freed"]
  /\ UNCHANGED <<devVars, client, dep, orderVars, schedVars, fenceVars,
                 threadVars>>

\* Jobs whose finished fence a syncobj may hold.
Published == {j \in Jobs : life[j] = "armed" \/ pushed[j] > 0}

\* Everything resolved; in_syncobj held the fence of d.  The job is armed and
\* out_syncobj gets its fence.
SubmitArm(j, d) ==
  /\ life[j] = "init"
  /\ d \in Published \cup {NoJob}
  /\ life' = [life EXCEPT ![j] = "armed"]
  /\ dep' = [dep EXCEPT ![j] = d]
  /\ UNCHANGED <<devVars, client, orderVars, schedVars, fenceVars, threadVars>>

SubmitPush(j) ==
  /\ life[j] = "armed"
  /\ life' = [life EXCEPT ![j] = "queued"]
  /\ pushed' = [pushed EXCEPT ![j] = pushes + 1]
  /\ pushes' = pushes + 1
  /\ UNCHANGED <<devVars, client, dep, begun, begins, schedVars, fenceVars,
                 threadVars>>

\* The last reference to a file goes: no ioctl of it is running.  postclose
\* destroys the entity, which first waits for its queue to drain.
CloseFile(c) ==
  /\ file[c] = "open"
  /\ InFlight(c) = {}
  /\ file' = [file EXCEPT ![c] = "closing"]
  /\ UNCHANGED <<devVars, jobVars, orderVars, schedVars, fenceVars,
                 wq, wqJob, tdr, tdrJob, rm>>

Queue(c) == {j \in Jobs : client[j] = c /\ life[j] = "queued"}

\* The queue has drained, or the wait was given up and what is left in it is
\* thrown out.  An entity the scheduler is working on is waited for.
DestroyEntity(c) ==
  /\ file[c] = "closing"
  /\ ~ (wq \in {"run_job", "ran"} /\ client[wqJob] = c)
  /\ life' = [j \in Jobs |-> IF j \in Queue(c) THEN "killed" ELSE life[j]]
  /\ file' = [file EXCEPT ![c] = "closed"]
  /\ UNCHANGED <<devVars, client, dep, orderVars, schedVars, fenceVars,
                 wq, wqJob, tdr, tdrJob, rm>>

\* The jobs of j's client that are ahead of j.
Ahead(j) == {i \in Jobs : /\ client[i] = client[j]
                          /\ pushed[i] > 0
                          /\ pushed[i] < pushed[j]}

\* A job thrown out of a queue is finished and freed by a work item of its own
\* once what was ahead of it and what it depended on has finished.
KillJob(j) ==
  /\ life[j] = "killed"
  /\ \A i \in Ahead(j) : finished[i] # "none"
  /\ dep[j] # NoJob => finished[dep[j]] # "none"
  /\ life' = [life EXCEPT ![j] = "freed"]
  /\ scheduled' = scheduled \cup {j}
  /\ finished' = [finished EXCEPT ![j] = "ESRCH"]
  /\ UNCHANGED <<devVars, client, dep, orderVars, schedVars, listening,
                 threadVars>>

-----------------------------------------------------------------------------
(* The scheduler's workqueue: run_job and free_job. *)

\* The scheduler ignores a dependency within the entity, whose queue is in
\* order, and of another entity of this scheduler waits for the start only,
\* because with one credit a job starts after the job before it has finished.
DependencyReadyAlways(j) == TRUE    \* mutant: in_syncobj is not waited for
DependencyReady(j) ==
  dep[j] # NoJob => client[dep[j]] = client[j] \/ dep[j] \in scheduled

\* j is at the head of its entity's queue.
IsHeadAlways(j) == TRUE    \* mutant: any job of the queue is taken
IsHead(j) == \A i \in Queue(client[j]) : pushed[j] <= pushed[i]

RunJobWork(j) ==
  /\ wq = "idle"
  /\ ~pause_submit
  /\ credit_count < CreditLimit
  /\ life[j] = "queued"
  /\ IsHead(j)
  /\ DependencyReady(j)
  /\ life' = [life EXCEPT ![j] = "started"]
  /\ credit_count' = credit_count + 1
  /\ pending' = pending \cup {j}
  /\ begun' = [begun EXCEPT ![j] = begins + 1]
  /\ begins' = begins + 1
  /\ armed' = TRUE
  /\ wq' = "run_job"
  /\ wqJob' = j
  /\ UNCHANGED <<devVars, client, dep, pushed, pushes, pause_submit,
                 free_guilty, fenceVars, tdr, tdrJob, rm, file>>

\* strela_run_job, which holds sdev->lock throughout.
RunJob ==
  /\ wq = "run_job"
  /\ phase' = "CONFIG"
  /\ active' = wqJob
  /\ wq' = "ran"
  /\ UNCHANGED <<fence_seqno, hwSignaled, jobVars, orderVars, schedVars,
                 fenceVars, wqJob, tdr, tdrJob, rm, file>>

\* drm_sched_job_done: the credit comes back and the client's fence signals.
JobDone(j, outcome) ==
  /\ credit_count' = credit_count - 1
  /\ finished' = [finished EXCEPT ![j] = outcome]

\* A callback cannot be put on a fence that has signalled already.
CallbackNeverTooLate(j) == FALSE    \* mutant: the result is not looked at
CallbackTooLate(j) == j \in hwSignaled

\* The scheduler listens to the fence run_job returned, unless it is too late.
RunJobReturn ==
  /\ wq = "ran"
  /\ scheduled' = scheduled \cup {wqJob}
  /\ \/ /\ ~CallbackTooLate(wqJob)
        /\ listening' = listening \cup {wqJob}
        /\ UNCHANGED <<credit_count, finished>>
     \/ /\ CallbackTooLate(wqJob)
        /\ JobDone(wqJob, "ok")
        /\ UNCHANGED listening
  /\ wq' = "idle"
  /\ wqJob' = NoJob
  /\ UNCHANGED <<devVars, jobVars, orderVars, pending, pause_submit, armed,
                 free_guilty, tdr, tdrJob, rm, file>>

\* j is the first job of the pending list.
IsFirst(j) == j \in pending /\ \A i \in pending : begun[j] <= begun[i]

\* drm_sched_start_timeout: a timer runs while there are started jobs.
StartTimeoutNot(started) == FALSE    \* mutant: it is not started again
StartTimeout(started) == started # {}

\* The oldest started job is taken off the list once it has finished; its
\* timer is stopped and the next job's started.
FreeJobWork(j) ==
  /\ wq = "idle"
  /\ ~pause_submit
  /\ IsFirst(j)
  /\ finished[j] # "none"
  /\ pending' = pending \ {j}
  /\ armed' = StartTimeout(pending \ {j})
  /\ wq' = "free_job"
  /\ wqJob' = j
  /\ UNCHANGED <<devVars, jobVars, orderVars, credit_count, pause_submit,
                 free_guilty, fenceVars, tdr, tdrJob, rm, file>>

\* Mutant: the job is taken off the list and never freed.
FreeJobLeaks ==
  /\ wq = "free_job"
  /\ wq' = "idle"
  /\ wqJob' = NoJob
  /\ UNCHANGED <<devVars, jobVars, orderVars, schedVars, fenceVars,
                 tdr, tdrJob, rm, file>>

\* strela_free_job.
FreeJob ==
  /\ wq = "free_job"
  /\ life' = [life EXCEPT ![wqJob] = "freed"]
  /\ wq' = "idle"
  /\ wqJob' = NoJob
  /\ UNCHANGED <<devVars, client, dep, orderVars, schedVars, fenceVars,
                 tdr, tdrJob, rm, file>>

-----------------------------------------------------------------------------
(* The device reports the end of a phase: strela_job_phase_done. *)

PhaseDoneConfig ==
  /\ active # NoJob
  /\ phase = "CONFIG"
  /\ phase' = "EXEC"
  /\ UNCHANGED <<active, fence_seqno, hwSignaled, jobVars, orderVars,
                 schedVars, fenceVars, threadVars>>

\* The hw_fence signals with the lock held, and the scheduler's callback runs
\* with it if it is listening.
PhaseDoneExec ==
  /\ active # NoJob
  /\ phase = "EXEC"
  /\ hwSignaled' = hwSignaled \cup {active}
  /\ active' = NoJob
  /\ \/ /\ active \in listening
        /\ listening' = listening \ {active}
        /\ JobDone(active, "ok")
     \/ /\ active \notin listening
        /\ UNCHANGED <<listening, credit_count, finished>>
  /\ UNCHANGED <<phase, fence_seqno, jobVars, orderVars, pending, pause_submit,
                 armed, free_guilty, scheduled, threadVars>>

\* There is no active job, or it is in another phase: nothing happens.
PhaseDoneSpurious(p) ==
  /\ active = NoJob \/ phase # p
  /\ UNCHANGED vars

PhaseDone(p) ==
  \/ p = "CONFIG" /\ PhaseDoneConfig
  \/ p = "EXEC" /\ PhaseDoneExec
  \/ PhaseDoneSpurious(p)

-----------------------------------------------------------------------------
(* The timeout: strela_timedout_job, between the two halves of the         *)
(* scheduler's timeout work that calls it.                                 *)

\* The timer of the first job expires; the job is taken off the list.  A timer
\* set while removal is under way is 500 ms away.
TimerExpires(j) ==
  /\ tdr = "idle"
  /\ armed
  /\ ~ (PromptTeardown /\ rm \in {"sched_fini", "parked", "sync_tdr"})
  /\ IsFirst(j)
  /\ pending' = pending \ {j}
  /\ armed' = FALSE
  /\ tdr' = "timedout"
  /\ tdrJob' = j
  /\ UNCHANGED <<devVars, jobVars, orderVars, credit_count, pause_submit,
                 free_guilty, fenceVars, wq, wqJob, rm, file>>

\* drm_sched_stop parks the work items ...
TdrPark ==
  /\ tdr = "timedout"
  /\ pause_submit' = TRUE
  /\ tdr' = "parked"
  /\ UNCHANGED <<devVars, jobVars, orderVars, pending, credit_count, armed,
                 free_guilty, fenceVars, wq, wqJob, tdrJob, rm, file>>

\* ... waits for the one that is running, puts the job back, and stops
\* listening to the started jobs.  One it was not listening to any more is
\* waited for, leaves the list and is freed, the timed out one by the caller of
\* timedout_job.
TdrStop ==
  LET list == pending \cup {tdrJob}
      keep == list \cap listening
  IN /\ tdr = "parked"
     /\ wq = "idle"
     /\ \A j \in list \ keep : finished[j] # "none"
     /\ pending' = keep
     /\ listening' = listening \ keep
     /\ credit_count' = credit_count - Cardinality(keep)
     /\ free_guilty' = (tdrJob \notin keep)
     /\ life' = [j \in Jobs |-> IF j \in list \ (keep \cup {tdrJob})
                                THEN "freed" ELSE life[j]]
     /\ armed' = FALSE
     /\ tdr' = "abort"
     /\ UNCHANGED <<devVars, client, dep, orderVars, pause_submit, scheduled,
                    finished, wq, wqJob, tdrJob, rm, file>>

\* strela_job_abort: the device is taken from whatever job has it.
JobAbortKeeps == active' = active    \* mutant: only the hardware is stopped
JobAbort == active' = NoJob

TdrAbort ==
  /\ tdr = "abort"
  /\ JobAbort
  /\ tdr' = "hw_stop"
  /\ UNCHANGED <<phase, fence_seqno, hwSignaled, jobVars, orderVars, schedVars,
                 fenceVars, wq, wqJob, tdrJob, rm, file>>

\* strela_hw_stop has returned.
TdrHwStop ==
  /\ tdr = "hw_stop"
  /\ tdr' = "start"
  /\ UNCHANGED <<devVars, jobVars, orderVars, schedVars, fenceVars, wq, wqJob,
                 tdrJob, rm, file>>

\* Mutant: timedout_job returns without drm_sched_start.
TdrStartNot ==
  /\ tdr = "start"
  /\ tdr' = "end"
  /\ UNCHANGED <<devVars, jobVars, orderVars, schedVars, fenceVars, wq, wqJob,
                 tdrJob, rm, file>>

\* drm_sched_start: every job still on the list takes its credit again, is
\* finished with -ECANCELED and gives it back; the work items run again.
TdrStart ==
  /\ tdr = "start"
  /\ finished' = [j \in Jobs |-> IF j \in pending THEN "ECANCELED"
                                 ELSE finished[j]]
  /\ armed' = StartTimeout(pending)
  /\ pause_submit' = FALSE
  /\ tdr' = "end"
  /\ UNCHANGED <<devVars, jobVars, orderVars, pending, credit_count,
                 free_guilty, listening, scheduled, wq, wqJob, tdrJob, rm,
                 file>>

TdrEnd ==
  /\ tdr = "end"
  /\ life' = [j \in Jobs |-> IF free_guilty /\ j = tdrJob THEN "freed"
                             ELSE life[j]]
  /\ free_guilty' = FALSE
  /\ armed' = StartTimeout(pending)
  /\ tdr' = "idle"
  /\ tdrJob' = NoJob
  /\ UNCHANGED <<devVars, client, dep, orderVars, pending, credit_count,
                 pause_submit, fenceVars, wq, wqJob, rm, file>>

-----------------------------------------------------------------------------
(* Removal: strela_remove and strela_job_fini. *)

\* The module is not unloaded while a file is open, and unregistering keeps
\* new ones from being opened.
Remove ==
  /\ rm = "loaded"
  /\ \A c \in Clients : file[c] \in {"new", "closed"}
  /\ rm' = "cancel_tdr"
  /\ UNCHANGED <<devVars, jobVars, orderVars, schedVars, fenceVars, wq, wqJob,
                 tdr, tdrJob, file>>

\* Mutant: without cancel_delayed_work_sync.
FiniCancelTdrNot ==
  /\ rm = "cancel_tdr"
  /\ rm' = "sched_fini"
  /\ UNCHANGED <<devVars, jobVars, orderVars, schedVars, fenceVars, wq, wqJob,
                 tdr, tdrJob, file>>

FiniCancelTdr ==
  /\ rm = "cancel_tdr"
  /\ tdr = "idle"
  /\ armed' = FALSE
  /\ rm' = "sched_fini"
  /\ UNCHANGED <<devVars, jobVars, orderVars, pending, credit_count,
                 pause_submit, free_guilty, fenceVars, wq, wqJob, tdr, tdrJob,
                 file>>

\* drm_sched_fini parks the work items, ...
FiniPark ==
  /\ rm = "sched_fini"
  /\ pause_submit' = TRUE
  /\ rm' = "parked"
  /\ UNCHANGED <<devVars, jobVars, orderVars, pending, credit_count, armed,
                 free_guilty, fenceVars, wq, wqJob, tdr, tdrJob, file>>

\* ... waits for the one that is running and frees the run-queues, ...
FiniStop ==
  /\ rm = "parked"
  /\ wq = "idle"
  /\ rm' = "sync_tdr"
  /\ UNCHANGED <<devVars, jobVars, orderVars, schedVars, fenceVars, wq, wqJob,
                 tdr, tdrJob, file>>

\* ... and waits for the timeout work.
FiniSyncTdr ==
  /\ rm = "sync_tdr"
  /\ tdr = "idle"
  /\ armed' = FALSE
  /\ rm' = "abort"
  /\ UNCHANGED <<devVars, jobVars, orderVars, pending, credit_count,
                 pause_submit, free_guilty, fenceVars, wq, wqJob, tdr, tdrJob,
                 file>>

FiniAbort ==
  /\ rm = "abort"
  /\ JobAbort
  /\ rm' = "hw_stop"
  /\ UNCHANGED <<phase, fence_seqno, hwSignaled, jobVars, orderVars, schedVars,
                 fenceVars, wq, wqJob, tdr, tdrJob, file>>

FiniHwStop ==
  /\ rm = "hw_stop"
  /\ rm' = "retire"
  /\ UNCHANGED <<devVars, jobVars, orderVars, schedVars, fenceVars, wq, wqJob,
                 tdr, tdrJob, file>>

\* The jobs on the pending list whose hw_fence, still open, is signalled by
\* removal, with the scheduler listening.
RetiredNone == {}       \* mutant: the fences are not signalled
Retired == (pending \ hwSignaled) \cap listening

\* Every job left on the pending list is freed, after its hw_fence, if that is
\* still open, has been signalled with -ENODEV.
FiniRetire ==
  /\ rm = "retire"
  /\ hwSignaled' = hwSignaled \cup pending
  /\ listening' = listening \ Retired
  /\ credit_count' = credit_count - Cardinality(Retired)
  /\ finished' = [j \in Jobs |-> IF j \in Retired THEN "ENODEV"
                                 ELSE finished[j]]
  /\ life' = [j \in Jobs |-> IF j \in pending THEN "freed" ELSE life[j]]
  /\ pending' = {}
  /\ rm' = "gone"
  /\ UNCHANGED <<active, phase, fence_seqno, client, dep, orderVars,
                 pause_submit, armed, free_guilty, scheduled, wq, wqJob,
                 tdr, tdrJob, file>>

-----------------------------------------------------------------------------
(* The specification.  A backend is any caller of PhaseDone. *)

Ioctls ==
  \/ \E c \in Clients : SubmitInit(c)
  \/ \E j \in Jobs : SubmitFail(j)
  \/ \E j \in Jobs : \E d \in Jobs \cup {NoJob} : SubmitArm(j, d)
  \/ \E j \in Jobs : SubmitPush(j)

Files ==
  \/ \E c \in Clients : OpenFile(c)
  \/ \E c \in Clients : CloseFile(c)
  \/ \E c \in Clients : DestroyEntity(c)
  \/ \E j \in Jobs : KillJob(j)

\* The steps of the scheduler and of removal in which the driver does not
\* touch the device.
SchedulerWork ==
  \/ \E j \in Jobs : RunJobWork(j)
  \/ RunJobReturn
  \/ \E j \in Jobs : FreeJobWork(j)
  \/ FreeJob

Timeout ==
  \/ \E j \in Jobs : TimerExpires(j)
  \/ TdrPark
  \/ TdrStop
  \/ TdrAbort
  \/ TdrStart
  \/ TdrEnd

Removal ==
  \/ Remove
  \/ FiniCancelTdr
  \/ FiniPark
  \/ FiniStop
  \/ FiniSyncTdr
  \/ FiniAbort
  \/ FiniRetire

DriverNext == Ioctls \/ Files \/ SchedulerWork \/ Timeout \/ Removal

Next ==
  \/ DriverNext
  \/ RunJob
  \/ TdrHwStop
  \/ FiniHwStop
  \/ \E p \in Phases : PhaseDone(p)

Spec == Init /\ [][Next]_vars

-----------------------------------------------------------------------------
(* Properties. *)

\* The variables of the driver (struct strela_device, struct strela_job) and of
\* the scheduler hold values of their types; in particular a job on the device
\* is in one of its two phases.
TypeOK ==
  /\ active \in Jobs \cup {NoJob}
  /\ phase \in Phases
  /\ fence_seqno \in 0..MaxJobs
  /\ hwSignaled \subseteq Jobs
  /\ life \in [Jobs -> Lives]
  /\ client \in [Jobs -> Clients \cup {NoClient}]
  /\ dep \in [Jobs -> Jobs \cup {NoJob}]
  /\ pushed \in [Jobs -> Nat]
  /\ pushes \in Nat
  /\ begun \in [Jobs -> Nat]
  /\ begins \in Nat
  /\ pending \subseteq Jobs
  /\ credit_count \in Int
  /\ pause_submit \in BOOLEAN
  /\ armed \in BOOLEAN
  /\ free_guilty \in BOOLEAN
  /\ listening \subseteq Jobs
  /\ scheduled \subseteq Jobs
  /\ finished \in [Jobs -> Outcomes]
  /\ wq \in WqSteps
  /\ wqJob \in Jobs \cup {NoJob}
  /\ tdr \in TdrSteps
  /\ tdrJob \in Jobs \cup {NoJob}
  /\ rm \in RmSteps
  /\ file \in [Clients -> FileSteps]

\* Started, and its client still waits for it.
Unfinished(j) == life[j] = "started" /\ finished[j] = "none"

\* "A job must be off sdev->active before anything finishes or frees it"
\* (DESIGN.md, concurrency rules): the job on the device is alive, its client
\* is still waiting, and its hw_fence has not signalled.
ActiveIsUnfinished ==
  active # NoJob => Unfinished(active) /\ active \notin hwSignaled

\* The driver's two warnings never fire: run_job finds the device free, and
\* strela_hw_stop, called by the timeout and by removal, finds no active job.
NoWarning ==
  /\ wq = "run_job" => active = NoJob
  /\ tdr = "hw_stop" \/ rm = "hw_stop" => active = NoJob

\* The three places a started job can be in, each of which frees it in the end.
HeldByList(j) == j \in pending
HeldByWq(j) == wq = "free_job" /\ wqJob = j
HeldByTdr(j) == tdrJob = j /\ (tdr \in {"timedout", "parked"} \/ free_guilty)

\* A started job is in exactly one place that will free it, so that it is
\* neither leaked nor freed twice, and nothing that names a job in order to use
\* it (the device, the workqueue, a fence callback) names a freed one.
StartedIsHeldOnce ==
  /\ \A j \in Jobs :
       /\ life[j] = "started" <=> HeldByList(j) \/ HeldByWq(j) \/ HeldByTdr(j)
       /\ ~ (HeldByList(j) /\ HeldByWq(j))
       /\ ~ (HeldByList(j) /\ HeldByTdr(j))
       /\ ~ (HeldByWq(j) /\ HeldByTdr(j))
  /\ \A j \in listening \cup ({active, wqJob} \ {NoJob}) : life[j] = "started"

\* One credit: however the timeout, a completion and run_job interleave, the
\* scheduler never has two unfinished jobs with the driver, and the credit is
\* out exactly when it has one.  The timeout takes the credit back from the
\* job it keeps between drm_sched_stop and drm_sched_start.
Resetting == tdr \in {"abort", "hw_stop", "start"}

Suspended == Resetting /\ pending # {}

OneCredit ==
  /\ \A i, j \in Jobs : Unfinished(i) /\ Unfinished(j) => i = j
  /\ credit_count = IF (\E j \in Jobs : Unfinished(j)) /\ ~Suspended
                    THEN 1 ELSE 0

\* A completion is not lost: once the hw_fence of a started job has signalled,
\* its client's fence has too, unless the scheduler is about to look (it has
\* just called run_job) or has decided to cancel the job.
CompletionIsHeard ==
  \A j \in hwSignaled :
    life[j] = "started" =>
      \/ finished[j] # "none"
      \/ wq = "ran" /\ wqJob = j
      \/ j \in pending /\ Suspended

\* A hung job cannot hang its client: as long as a started job is unfinished a
\* timer runs for it or the timeout is being handled, until removal takes over.
TimeoutIsArmed ==
  (\E j \in Jobs : Unfinished(j)) =>
    armed \/ tdr # "idle" \/ rm \notin {"loaded", "cancel_tdr"}

\* Removal leaves no job behind that was ever started: each has been finished
\* and freed (DESIGN.md D7).
RemovalRetiresStarted ==
  rm = "gone" => \A j \in Jobs :
    /\ life[j] # "started"
    /\ begun[j] > 0 => finished[j] # "none"

\* Once drm_sched_fini has stopped the work items they stay stopped, so that
\* none runs on freed run-queues: "Let it finish" (strela_job_fini).
StoppedStaysStopped ==
  rm \in {"sync_tdr", "abort", "hw_stop", "retire", "gone"} =>
    pause_submit /\ wq = "idle"

\* "The scheduler holds the job back until that fence signals" (submit ioctl):
\* the device works for a job only after the job it depends on has finished.
DependencyHeldBack ==
  active # NoJob /\ dep[active] # NoJob => finished[dep[active]] # "none"

\* "Every job a client can wait on must signal exactly once" (DESIGN.md D3): no
\* step changes what a fence has reported.
FenceSignalsOnce ==
  [][\A j \in Jobs : finished[j] # "none" => finished'[j] = finished[j]]_vars

\* The driver implements the queue its clients rely on: see StrelaQueue.
Stage(j) ==
  IF finished[j] # "none" THEN "done"
  ELSE IF life[j] \in {"queued", "killed"} THEN "queued"
  ELSE IF life[j] = "started" THEN "running"
  ELSE "none"

Q == INSTANCE StrelaQueue
       WITH stage <- [j \in Jobs |-> Stage(j)],
            owner <- client,
            ticket <- pushed,
            tickets <- pushes,
            outcome <- finished

ImplementsQueue == Q!QSpec

\* The kernel runs work items and expired timers, and an ioctl, a close or a
\* removal that has begun goes on.  A client need not submit, close or remove
\* anything, and the device need not finish anything.
Fairness ==
  /\ \A j \in Jobs : WF_vars(SubmitPush(j)) /\ WF_vars(KillJob(j))
  /\ \A c \in Clients : WF_vars(DestroyEntity(c))
  /\ \A j \in Jobs : WF_vars(RunJobWork(j)) /\ WF_vars(FreeJobWork(j))
  /\ WF_vars(RunJob) /\ WF_vars(RunJobReturn) /\ WF_vars(FreeJob)
  /\ WF_vars(\E j \in Jobs : TimerExpires(j))
  /\ WF_vars(TdrPark) /\ WF_vars(TdrStop) /\ WF_vars(TdrAbort)
  /\ WF_vars(TdrHwStop) /\ WF_vars(TdrStart) /\ WF_vars(TdrEnd)
  /\ WF_vars(FiniCancelTdr) /\ WF_vars(FiniPark) /\ WF_vars(FiniStop)
  /\ WF_vars(FiniSyncTdr) /\ WF_vars(FiniAbort) /\ WF_vars(FiniHwStop)
  /\ WF_vars(FiniRetire)

FairSpec == Spec /\ Fairness

\* A fence that never signals hangs every waiter (DESIGN.md D3): every job whose
\* fence is published ends, a hung one through the timeout, and is freed.
EveryJobEnds ==
  \A j \in Jobs : life[j] = "armed" ~> finished[j] # "none" /\ life[j] = "freed"

\* strela_hw_stop has been called and has not returned.
Stopping == tdr = "hw_stop" \/ rm = "hw_stop"

-----------------------------------------------------------------------------
(* The inductive invariant behind the safety properties, in the case in    *)
(* which removal is prompt.                                                *)

\* What the life of a job says about it.
LifeInv(j) ==
  /\ j > fence_seqno => life[j] = "unused"
  /\ life[j] = "unused" <=> client[j] = NoClient
  /\ life[j] \in {"unused", "init", "armed"} => pushed[j] = 0
  /\ life[j] \in {"queued", "killed", "started"} => pushed[j] > 0
  /\ life[j] \in {"init", "armed"} => file[client[j]] = "open"
  /\ life[j] = "queued" => file[client[j]] \in {"open", "closing"}
  /\ life[j] = "killed" => file[client[j]] = "closed"
  /\ life[j] \notin {"started", "freed"} =>
       finished[j] = "none" /\ j \notin hwSignaled /\ begun[j] = 0
  /\ life[j] = "started" => begun[j] > 0
  /\ life[j] = "freed" /\ finished[j] = "none" => pushed[j] = 0 /\ begun[j] = 0

\* An unfinished job is being started, or the scheduler listens to its fence,
\* or the timeout has stopped listening and is about to cancel it.
UnfinishedInv(j) ==
  /\ Unfinished(j) =>
       \/ wq \in {"run_job", "ran"} /\ wqJob = j
       \/ j \in listening
       \/ Resetting /\ j \in pending
  /\ j \in listening =>
       /\ Unfinished(j)
       /\ j \notin hwSignaled
       /\ j \in pending \/ HeldByTdr(j)
       /\ ~Resetting
  /\ wq \in {"run_job", "ran"} /\ wqJob = j => Unfinished(j) /\ j \notin listening
  /\ wq = "run_job" /\ wqJob = j => j \notin hwSignaled
  /\ HeldByWq(j) => finished[j] # "none"
  /\ Resetting /\ j \in pending => Unfinished(j)
  /\ free_guilty /\ tdrJob = j => finished[j] # "none"

ThreadInv ==
  /\ wq = "idle" <=> wqJob = NoJob
  /\ tdr = "idle" <=> tdrJob = NoJob
  /\ tdr = "parked" \/ Resetting => pause_submit
  /\ Resetting => wq = "idle"
  /\ tdr \in {"hw_stop", "start"} => active = NoJob
  /\ free_guilty => Resetting \/ tdr = "end"

RemovalInv ==
  /\ rm \notin {"loaded", "cancel_tdr"} => tdr = "idle"
  /\ rm \notin {"loaded", "cancel_tdr", "sched_fini"} => pause_submit
  /\ rm \in {"sync_tdr", "abort", "hw_stop", "retire", "gone"} => wq = "idle"
  /\ rm \in {"abort", "hw_stop", "retire", "gone"} => ~armed
  /\ rm \in {"hw_stop", "retire", "gone"} => active = NoJob
  /\ rm = "gone" => pending = {}

\* Inductive for the steps of Next: what the driver and the scheduler (run_job,
\* timedout_job, free_job, strela_job_fini) rely on about each other.
IInv ==
  /\ TypeOK
  /\ \A j \in Jobs : LifeInv(j) /\ UnfinishedInv(j)
  /\ ThreadInv
  /\ RemovalInv
  /\ ActiveIsUnfinished
  /\ NoWarning
  /\ StartedIsHeldOnce
  /\ OneCredit
  /\ CompletionIsHeard
  /\ TimeoutIsArmed

\* What DependencyHeldBack rests on, for clients with one ioctl at a time: a
\* dependency within a client is ahead in its queue, one the scheduler knows to
\* be scheduled has started, and a job starts only after its dependency is over.
DependencyInv ==
  /\ \A i, j \in Jobs :
       /\ {life[i], life[j]} \subseteq {"init", "armed"}
       /\ client[i] = client[j]
       => i = j
  /\ \A j \in Jobs :
       /\ pushed[j] <= pushes
       /\ j \in scheduled => life[j] \in {"started", "freed"} /\ pushed[j] > 0
       /\ dep[j] # NoJob =>
            /\ life[j] \notin {"unused", "init"}
            /\ life[dep[j]] \notin {"unused", "init"}
            /\ client[dep[j]] = client[j] =>
                 /\ pushed[dep[j]] > 0
                 /\ pushed[j] > 0 => pushed[dep[j]] < pushed[j]
            /\ life[j] = "started" => finished[dep[j]] # "none"
=============================================================================
