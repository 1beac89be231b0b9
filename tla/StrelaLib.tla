----------------------------- MODULE StrelaLib -----------------------------
(***************************************************************************)
(* The job slots of the user space library, lib/strela.c: configuring,     *)
(* submitting, polling, freeing and resubmitting a job, the descriptors of *)
(* the fences that takes, the sticky error, finding, opening and closing   *)
(* the device, and the old interface on top of it, whose strela_execute    *)
(* waits for two seconds.  The library is used by one thread, so a call is *)
(* a step; a call that blocks is a step that is enabled when what it waits *)
(* for has happened; strela_execute, whose wait has a limit, is two, and   *)
(* finding and opening the device one for each entry of /dev/accel that is *)
(* opened or closed and each thing acquired.                               *)
(* The driver below it is what StrelaQueue promises: the jobs of a client  *)
(* end in order, each once.  The device takes one at a time, of this       *)
(* process only, and gives each STRELA_JOB_TIMEOUT_MS.  A process that     *)
(* ends, or closes the device while an error stands, may leave it with     *)
(* one: the orphan, which the jobs of the next opening wait for.           *)
(*                                                                         *)
(* A descriptor is a number of the process: 0 is its standard input, and   *)
(* the kernel gives out the lowest one that is closed.                     *)
(***************************************************************************)
EXTENDS Integers, Sequences, FiniteSets

CONSTANTS
  JobsMax,        \* STRELA_JOBS_MAX
  MaxFd,          \* largest descriptor of the process
  MaxSubmits,     \* bound on the submissions of one opening of the device
  ExportMayFail,  \* may exporting a fence as a descriptor fail?
  Interrupts,     \* may a signal that the program handles interrupt poll(2)?
  Which,          \* which_strela: the device is devices[which_strela]
  JobTimeout,     \* STRELA_JOB_TIMEOUT_MS
  ExecuteWait     \* the 2000 ms of strela_execute

ASSUME LibAssumption ==
  /\ JobsMax \in Nat \ {0} /\ MaxFd \in Nat \ {0} /\ MaxSubmits \in Nat
  /\ ExportMayFail \in BOOLEAN /\ Interrupts \in BOOLEAN
  /\ Which \in Nat
  /\ JobTimeout \in Nat \ {0} /\ ExecuteWait \in Nat \ {0}

Slots == 0 .. JobsMax - 1
Fds == 0 .. MaxFd
NoFd == -1
NoJob == 0
Invalid == -1     \* a strela_job that is not valid

\* What a descriptor is open on, when not on the fence of a job.
Closed == 0
Stdin == -1
Leaked == -2      \* a fence the library has forgotten
Accel == -3       \* an entry of /dev/accel
Dir == -4         \* /dev/accel itself

VARIABLES
  initialized, errnum,   \* of strela_dev; errnum is "ok" or "error"
  slot,                  \* jobs: [phase, fence_fd, fence, status]
  compat,                \* backward_compat_job: a handle or Invalid
  aborted,               \* has the library called abort(3)?
  dev_fd,                \* fd of strela_dev
  maps,                  \* the mappings: "kernels" and "tensors"
  fd,                    \* the descriptors of the process
  jobs,                  \* jobs given to the driver: [slot, state]
  executing,             \* strela_execute: "no", "waiting" or, having found its job
                         \* pending, "pending" or "interrupted"
  waited,                \* for how long it has
  backlog,               \* for how long the driver could be busy when it submitted
  age,                   \* for how long the device has had its job
  orphan,                \* how the file of that job was closed, if it was: "no",
                         \* or with errnum "ok" or "error", or by "exit"
  search,                \* "no", the call that reads /dev/accel or, the device
                         \* being found, what strela_dev_init acquires next
  dir, entry,            \* the descriptors of /dev/accel and of its entry
  count                  \* the STRELA entries seen

deviceVars == <<initialized, dev_fd, maps>>
jobVars == <<slot, compat, aborted, jobs>>
timeVars == <<executing, waited, backlog, age, orphan>>
searchVars == <<search, dir, entry, count>>
libVars == <<initialized, errnum, slot, compat, aborted, dev_fd, maps, fd, jobs,
             executing, waited, backlog, age, orphan, search, dir, entry, count>>

Ok == initialized /\ errnum = "ok"

\* A slot after memset, and after strela_job_slot_release.
ZeroSlot == [phase |-> "FREE", fence_fd |-> 0, fence |-> NoJob, status |-> "none"]
FreeSlot == [ZeroSlot EXCEPT !.fence_fd = NoFd]

LibInit ==
  /\ initialized = FALSE
  /\ errnum = "ok"
  /\ slot = [i \in Slots |-> ZeroSlot]
  /\ compat = Invalid
  /\ aborted = FALSE
  /\ dev_fd = 0
  /\ maps = {}
  /\ fd = [f \in Fds |-> IF f = 0 THEN Stdin ELSE Closed]
  /\ jobs = <<>>
  /\ executing = "no" /\ waited = 0 /\ backlog = 0 /\ age = 0 /\ orphan = "no"
  /\ search = "no" /\ dir = NoFd /\ entry = NoFd /\ count = 0

Ended(k) == jobs[k].state # "pending"

\* The jobs of this process that the driver has, and how many it has in all.
Unfinished == {k \in DOMAIN jobs : ~ Ended(k)}
Held == Cardinality(Unfinished) + IF orphan = "no" THEN 0 ELSE 1

\* Does poll(2) on a descriptor return?  On a closed one it does, with POLLNVAL;
\* it ignores a negative one.
Polled(f) == f # NoFd /\ (fd[f] \in DOMAIN jobs => Ended(fd[f]))

\* Mutant: a submitted job is not waited for.
FinishedAlways(i) == TRUE

\* strela_job_slot_finish returns.
Finished(i) ==
  slot[i].phase = "SUBMITTED" =>
    IF slot[i].fence_fd # NoFd THEN Polled(slot[i].fence_fd)
                               ELSE Ended(slot[i].fence)

\* The slots that strela_job_slot_release does something to.
InUse(i) == slot[i].phase # "FREE"

\* The descriptors of the slots in S are closed.
FdsOf(S) == {slot[i].fence_fd : i \in S} \ {NoFd}
CloseFds(S) == [f \in Fds |-> IF f \in FdsOf(S) THEN Closed ELSE fd[f]]

\* close(2) fails for a descriptor that is not open, or no longer: the slots
\* in which the library then aborts.
BadCloses(S) ==
  {i \in S : /\ slot[i].fence_fd # NoFd
             /\ \/ fd[slot[i].fence_fd] = Closed
                \/ \E k \in S \ {i} : slot[k].fence_fd = slot[i].fence_fd}

\* The slots after those in S are released.  abort(3) comes after
\* strela_job_slot_finish and before the slot is cleared.
Released(S) ==
  IF BadCloses(S) = {}
  THEN [i \in Slots |-> IF i \in S THEN FreeSlot ELSE slot[i]]
  ELSE [i \in Slots |-> IF i \in BadCloses(S)
                        THEN [slot[i] EXCEPT !.phase = "DONE"] ELSE slot[i]]

\* strela_job_slot_release of every slot of S.
Release(S) ==
  LET taken == {i \in S : InUse(i)}
  IN /\ \A i \in taken : Finished(i)
     /\ fd' = CloseFds(taken)
     /\ aborted' = (BadCloses(taken) # {})
     /\ slot' = Released(taken)

\* The slots that are free once those in freed are, and the first of a set.
FreeSlots(freed) == {i \in Slots : ~ InUse(i) \/ i \in freed}
IsFirst(x, S) == x \in S /\ \A y \in S : x <= y

\* The descriptor that open(2) returns, the open ones being those of the table t.
IsNewFd(f, t) == IsFirst(f, {g \in Fds : t[g] = Closed})

ConfiguredSlot == [FreeSlot EXCEPT !.phase = "CONFIGURED"]

\* strela_job_config, when a slot is free and the syncobj is created.
JobConfig ==
  /\ Ok
  /\ \E i \in Slots : /\ IsFirst(i, FreeSlots({}))
                      /\ slot' = [slot EXCEPT ![i] = ConfiguredSlot]
  /\ UNCHANGED <<deviceVars, errnum, compat, aborted, fd, jobs, timeVars>>

\* Any call that is refused for its arguments or whose ioctl fails before it
\* changed something: strela_job_slot_get, strela_job_config, a submission the
\* driver rejects, and the calls of the other submodules.
FailedCall ==
  /\ Ok
  /\ errnum' = "error"
  /\ UNCHANGED <<deviceVars, jobVars, fd, timeVars>>

\* strela_dev_reset_err
ResetErr ==
  /\ initialized /\ errnum # "ok"
  /\ errnum' = "ok"
  /\ UNCHANGED <<deviceVars, jobVars, fd, timeVars>>

\* strela_job_free
JobFree(i) ==
  /\ Ok
  /\ Release({i})
  /\ UNCHANGED <<deviceVars, errnum, compat, jobs, timeVars>>

\* strela_job_free_all
JobFreeAll ==
  /\ Ok
  /\ Release(Slots)
  /\ UNCHANGED <<deviceVars, errnum, compat, jobs, timeVars>>

\* strela_config: the job of the last call is freed and another configured.
\* While an error stands neither is done, and the handle is lost.
StrelaConfig ==
  /\ initialized
  /\ \/ /\ Ok
        /\ LET old == IF compat = Invalid THEN {} ELSE {compat}
               taken == {i \in old : InUse(i)}
           IN /\ \A i \in taken : Finished(i)
              /\ fd' = CloseFds(taken)
              /\ aborted' = (BadCloses(taken) # {})
              /\ \/ /\ ~ aborted'
                    /\ IsFirst(compat', FreeSlots(old))
                    /\ slot' = [Released(taken) EXCEPT ![compat'] = ConfiguredSlot]
                    /\ UNCHANGED errnum
                 \/ /\ slot' = Released(taken)
                    /\ compat' = Invalid
                    /\ errnum' = "error"
     \/ /\ ~ Ok
        /\ compat' = Invalid
        /\ UNCHANGED <<errnum, slot, aborted, fd>>
  /\ UNCHANGED <<deviceVars, jobs, timeVars>>

\* The slots whose descriptor a submission replaces: one that was done.
Replaced(i) == IF slot[i].phase = "DONE" THEN {i} ELSE {}

\* What strela_job_submit does.  "The job is in the driver from here on, whatever the
\* export does."
Submit(i) ==
  LET k == Len(jobs) + 1
      open == CloseFds(Replaced(i))
  IN /\ Ok
     /\ slot[i].phase \in {"CONFIGURED", "DONE"}
     /\ k <= MaxSubmits
     /\ jobs' = Append(jobs, [slot |-> i, state |-> "pending"])
     /\ aborted' = (BadCloses(Replaced(i)) # {})
     /\ \/ /\ \E f \in Fds :
                /\ IsNewFd(f, open)
                /\ slot' = [slot EXCEPT ![i].phase = "SUBMITTED", ![i].fence = k,
                                        ![i].fence_fd = f]
                /\ fd' = [open EXCEPT ![f] = k]
           /\ UNCHANGED errnum
        \/ /\ ExportMayFail
           /\ slot' = [slot EXCEPT ![i].phase = "SUBMITTED", ![i].fence = k]
           /\ fd' = open
           /\ errnum' = "error"
     /\ UNCHANGED <<deviceVars, compat>>

\* strela_job_submit
JobSubmit(i) == Submit(i) /\ UNCHANGED timeVars

\* Mutant: the status of the fence is not looked at.
StatusOk(k) == "ok"

\* The status sync_file reports for the fence of a job.
Status(k) == jobs[k].state

\* strela_job_update, when poll finds the descriptor of a submitted job ready.
Update(i) ==
  /\ Polled(slot[i].fence_fd)
  /\ LET k == fd[slot[i].fence_fd]
     IN \/ /\ k \in DOMAIN jobs
           /\ slot' = [slot EXCEPT ![i].phase = "DONE", ![i].status = Status(k)]
           /\ UNCHANGED errnum
        \/ /\ k \notin DOMAIN jobs
           /\ errnum' = "error"
           /\ UNCHANGED slot

\* strela_job_poll and strela_job_wait, when they change something.
JobUpdate(i) ==
  /\ Ok
  /\ slot[i].phase = "SUBMITTED"
  /\ Update(i)
  /\ UNCHANGED <<deviceVars, compat, aborted, fd, jobs, timeVars>>

\* strela_execute submits the job of strela_config and, unless that fails,
\* begins to wait for it.
Execute ==
  /\ compat # Invalid
  /\ Submit(compat)
  /\ UNCHANGED <<age, orphan>>
  /\ executing' = IF errnum' = "ok" THEN "waiting" ELSE "no"
  /\ waited' = 0
  /\ backlog' = IF executing' = "waiting" THEN Held' * JobTimeout - age ELSE 0

\* Mutant: the wait is as long as the timeout of a job.
WaitedForOne == waited = JobTimeout

\* The wait of strela_execute is over.
WaitedEnough == waited = ExecuteWait

\* strela_execute returns: strela_job_wait finds the job ready, or its time is up
\* or a signal interrupts it, and strela_job_poll finds the job ready or not.  It
\* asserts that it is.
ExecuteReturns ==
  /\ executing = "waiting"
  /\ LET ready == Polled(slot[compat].fence_fd)
     IN \/ /\ ready
           /\ Update(compat)
           /\ executing' = "no" /\ backlog' = 0
        \/ /\ ~ ready
           /\ \/ WaitedEnough /\ executing' = "pending"
              \/ Interrupts /\ executing' = "interrupted"
           /\ UNCHANGED <<slot, errnum, backlog>>
  /\ waited' = 0
  /\ UNCHANGED <<deviceVars, compat, aborted, fd, jobs, age, orphan>>

-----------------------------------------------------------------------------
(* Finding the device and opening it.                                      *)

\* accel_iter_make, for strela_dev_count or strela_dev_init.
OpenDir(call) ==
  /\ \E f \in Fds : IsNewFd(f, fd) /\ fd' = [fd EXCEPT ![f] = Dir] /\ dir' = f
  /\ search' = call
  /\ UNCHANGED <<deviceVars, jobVars, timeVars, entry, count>>

\* strela_dev_count.  When /dev/accel cannot be opened it changes nothing.
DevCount == OpenDir("count") /\ UNCHANGED errnum

\* strela_dev_init of a device that is not open.
DevInit ==
  /\ ~ initialized
  /\ \/ OpenDir("init") /\ errnum' = "ok"
     \/ /\ errnum' = "error"
        /\ UNCHANGED <<deviceVars, jobVars, fd, timeVars, searchVars>>

Searching == search \in {"count", "init"}

\* accel_openat: an entry is opened.  One that cannot be is passed over.
OpenEntry ==
  /\ Searching /\ entry = NoFd
  /\ \E f \in Fds : IsNewFd(f, fd) /\ fd' = [fd EXCEPT ![f] = Accel] /\ entry' = f
  /\ UNCHANGED <<deviceVars, errnum, jobVars, timeVars, search, dir, count>>

\* Is an entry of the STRELA driver the one looked for?
Sought == search = "init" /\ count = Which

\* An entry is closed again: its version cannot be had, it is of another driver, or
\* it is a STRELA that is only counted.
CloseEntry ==
  /\ Searching /\ entry # NoFd
  /\ fd' = [fd EXCEPT ![entry] = Closed]
  /\ entry' = NoFd
  /\ \/ UNCHANGED count
     \/ search = "init" /\ ~ Sought /\ count' = count + 1
  /\ UNCHANGED <<deviceVars, errnum, jobVars, timeVars, search, dir>>

\* Mutant: the directory is left open.
DirKept == fd' = fd /\ dir' = NoFd /\ count' = 0

\* accel_iter_close, after which the number of entries seen is of no use.
CloseDir == fd' = [fd EXCEPT ![dir] = Closed] /\ dir' = NoFd /\ count' = 0

\* The device is found, which ends the search.
FoundEntry ==
  /\ entry # NoFd /\ Sought
  /\ CloseDir
  /\ search' = "kernels_handle"
  /\ UNCHANGED <<deviceVars, errnum, jobVars, timeVars, entry>>

\* There is no other entry, or readdir(3) fails.
EndOfEntries ==
  /\ Searching /\ entry = NoFd
  /\ CloseDir
  /\ search' = "no"
  /\ errnum' = IF search = "init" THEN "error" ELSE errnum
  /\ UNCHANGED <<deviceVars, jobVars, timeVars, entry>>

\* What strela_dev_init acquires from the device it has found, each with what is next.
InitSteps == [kernels_handle |-> "kernels", kernels |-> "tensors_handle",
              tensors_handle |-> "tensors", tensors |-> "no"]
Mappings == {"kernels", "tensors"}

\* An ioctl or mmap of strela_dev_init succeeds; after the last the device is open.
Acquire ==
  /\ search \in DOMAIN InitSteps
  /\ maps' = maps \cup ({search} \cap Mappings)
  /\ search' = InitSteps[search]
  /\ IF search' # "no" THEN UNCHANGED <<initialized, dev_fd, slot, compat, entry>>
     ELSE /\ initialized' = TRUE
          /\ dev_fd' = entry
          /\ slot' = [i \in Slots |-> ZeroSlot]
          /\ compat' = Invalid
          /\ entry' = NoFd
  /\ UNCHANGED <<errnum, aborted, fd, jobs, timeVars, dir, count>>

\* strela_dev_deinit_internal: the mappings there are removed, and the descriptor f
\* of the table t is closed.  The handles go with the descriptor.
Deinit(t, f) == maps' = maps \ Mappings /\ fd' = [t EXCEPT ![f] = Closed]

\* One fails: what was acquired is given back.
AcquireFails ==
  /\ search \in DOMAIN InitSteps
  /\ Deinit(fd, entry)
  /\ errnum' = "error"
  /\ search' = "no"
  /\ entry' = NoFd
  /\ UNCHANGED <<initialized, dev_fd, jobVars, timeVars, dir, count>>

\* strela_dev_init of an open device: its jobs are freed, and its error.
DevReinit ==
  /\ initialized
  /\ errnum' = "ok"
  /\ Release(Slots)
  /\ UNCHANGED <<deviceVars, compat, jobs, timeVars>>

\* close(2) returns when the driver has begun all the jobs of the file, one at a
\* time: all but the last have ended.
Closes ==
  jobs # <<>> => orphan = "no" /\ \A k \in 1 .. Len(jobs) - 1 : Ended(k)

\* strela_dev_deinit.  While an error stands strela_job_free_all does nothing: the
\* descriptors the slots had are forgotten, and the last job may be running.
DevDeinit ==
  /\ Closes
  /\ \/ /\ ~ initialized
        /\ UNCHANGED <<fd, maps, aborted>>
     \/ LET taken == {i \in Slots : InUse(i)}
        IN /\ Ok
           /\ \A i \in taken : Finished(i)
           /\ Deinit(CloseFds(taken), dev_fd)
           /\ aborted' = (BadCloses(taken) # {})
     \/ /\ initialized /\ ~ Ok
        /\ LET forgotten == [f \in Fds |-> IF fd[f] \in DOMAIN jobs THEN Leaked
                                                                  ELSE fd[f]]
           IN Deinit(forgotten, dev_fd)
        /\ UNCHANGED aborted
  /\ initialized' = FALSE
  /\ dev_fd' = 0
  /\ errnum' = "ok"
  /\ slot' = [i \in Slots |-> ZeroSlot]
  /\ compat' = Invalid
  /\ jobs' = <<>>
  /\ orphan' = IF Unfinished = {} THEN orphan ELSE errnum
  /\ UNCHANGED <<executing, waited, backlog, age>>

\* The process ends in an assertion of strela_execute, that its job is not pending, or
\* in abort(3), when a signal interrupts strela_job_slot_finish, and another is begun.
\* What the driver has not begun is thrown out.
ProcessEnds ==
  /\ \/ executing \in {"pending", "interrupted"}
     \/ /\ Interrupts /\ executing = "no" /\ search = "no"
        /\ \E i \in Slots : ~ Finished(i)
  /\ initialized' = FALSE
  /\ errnum' = "ok"
  /\ slot' = [i \in Slots |-> ZeroSlot]
  /\ compat' = Invalid
  /\ dev_fd' = 0
  /\ maps' = {}
  /\ fd' = [f \in Fds |-> IF f = 0 THEN Stdin ELSE Closed]
  /\ jobs' = <<>>
  /\ executing' = "no" /\ waited' = 0 /\ backlog' = 0
  /\ orphan' = IF orphan = "no" /\ Unfinished # {} THEN "exit" ELSE orphan
  /\ UNCHANGED <<aborted, age>>

-----------------------------------------------------------------------------
(* The driver and time. *)

\* The driver ends the oldest job it has: its fence signals.
JobEnds ==
  /\ \/ orphan # "no" /\ orphan' = "no" /\ UNCHANGED jobs
     \/ /\ orphan = "no"
        /\ \E k \in DOMAIN jobs, s \in {"ok", "failed"} :
             /\ ~ Ended(k)
             /\ \A n \in 1 .. k - 1 : Ended(n)
             /\ jobs' = [jobs EXCEPT ![k].state = s]
        /\ UNCHANGED orphan
  /\ age' = 0
  /\ UNCHANGED <<deviceVars, errnum, slot, compat, aborted, fd, executing, waited,
                 backlog>>

\* Time passes, but not beyond the timeout of the job the device has, nor beyond
\* the end of the wait of strela_execute.
Tick ==
  LET waiting == executing = "waiting"
  IN /\ Unfinished # {} \/ orphan # "no"
     /\ age < JobTimeout
     /\ waiting => waited < ExecuteWait
     /\ age' = age + 1
     /\ waited' = IF waiting THEN waited + 1 ELSE 0
     /\ UNCHANGED <<deviceVars, errnum, jobVars, fd, executing, backlog, orphan>>

\* The calls that do not read /dev/accel.
JobCall ==
  \/ JobConfig \/ FailedCall \/ ResetErr \/ JobFreeAll \/ StrelaConfig
  \/ Execute \/ DevReinit \/ DevDeinit
  \/ \E i \in Slots : JobFree(i) \/ JobSubmit(i) \/ JobUpdate(i)

LibNext ==
  /\ ~ aborted
  /\ \/ /\ \/ JobEnds \/ Tick \/ ExecuteReturns \/ ProcessEnds
           \/ executing = "no" /\ search = "no" /\ JobCall
        /\ UNCHANGED searchVars
     \/ executing = "no" /\ search = "no" /\ (DevCount \/ DevInit)
     \/ OpenEntry \/ CloseEntry \/ FoundEntry \/ EndOfEntries \/ Acquire \/ AcquireFails

LibSpec == LibInit /\ [][LibNext]_libVars

-----------------------------------------------------------------------------
(* Properties. *)

\* "Blocks until a submitted job is out of the driver. This is a good thing to
\* avoid jobs to bee still running while doing buffer_free and buffer_alloc"
\* (strela_job_slot_finish): a job the driver has not finished belongs to a slot
\* that is still SUBMITTED, whatever is freed, reused, resubmitted or reopened.  The
\* device is left with one only by strela_dev_deinit while an error stands, when
\* nothing is freed, or by the end of the process.
FreedIsFinished ==
  /\ \A k \in DOMAIN jobs :
       ~ Ended(k) => /\ slot[jobs[k].slot].phase = "SUBMITTED"
                     /\ slot[jobs[k].slot].fence = k
  /\ orphan # "ok"

\* What strela_job_poll reports is the outcome of the slot's last submission,
\* not of an earlier one or of another slot's.
StatusIsTheJobs ==
  \A i \in Slots :
    slot[i].phase = "DONE" =>
      /\ slot[i].fence \in DOMAIN jobs
      /\ slot[i].status = jobs[slot[i].fence].state

\* The descriptors of the process are standard input, that of an open device and
\* those of the slots, each of one slot, and during a search that of /dev/accel and
\* of its entry: none is lost but by closing the device while an error stands, however
\* the search for the device or its opening ends; none is closed twice, in which case
\* the library aborts, nor is standard input, the descriptor in a slot that was never
\* used.  So are the mappings.
DescriptorsAreOwned ==
  /\ ~ aborted
  /\ fd[0] = Stdin
  /\ \A f \in Fds : fd[f] = Dir <=> Searching /\ f = dir
  /\ \A f \in Fds :
       fd[f] = Accel <=> (initialized /\ f = dev_fd) \/ (search # "no" /\ f = entry)
  /\ search = "no" => maps = IF initialized THEN Mappings ELSE {}
  /\ \A f \in Fds :
       fd[f] \in DOMAIN jobs <=>
         \E i \in Slots : slot[i].fence_fd = f /\ slot[i].phase \in {"SUBMITTED", "DONE"}
  /\ \A i \in Slots :
       slot[i].phase \in {"SUBMITTED", "DONE"} /\ slot[i].fence_fd # NoFd =>
         fd[slot[i].fence_fd] = slot[i].fence

\* strela_execute, not interrupted, finds its job pending only if the driver could be
\* busy all the time it waits with the jobs it had when the job was submitted, each
\* being given its timeout, an orphan included.
PendingIsLate == executing = "pending" => backlog >= ExecuteWait

\* "The driver should fail the job even before two seconds.": strela_execute,
\* which asserts it, does not find its job pending when its wait is over.
ExecuteIsFinal == executing \notin {"pending", "interrupted"}
=============================================================================
