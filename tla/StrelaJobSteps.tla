--------------------------- MODULE StrelaJobSteps ---------------------------
(***************************************************************************)
(* That IInv, the inductive invariant of StrelaJob, is preserved by the    *)
(* steps of the ioctls, of files, of the scheduler's workqueue, of the     *)
(* device, of the timeout and of removal: one step for each action, and    *)
(* under it one for the parts of IInv the action can disturb; and that a   *)
(* fence that has signalled is left alone.  StrelaJobProofs has the        *)
(* theorems.                                                               *)
(***************************************************************************)
EXTENDS StrelaJob, TLAPS

USE DEF vars, devVars, jobVars, orderVars, schedVars, fenceVars, threadVars,
        Jobs, NoJob,
        Unfinished, Resetting, Suspended, HeldByList, HeldByWq, HeldByTdr

\* What a fence has reported does not change: of the steps that signal a fence,
\* each does it for an unfinished job.
LEMMA FenceStep ==
  ASSUME IInv, [Next]_vars, NEW i \in Jobs, finished[i] # "none"
  PROVE  finished'[i] = finished[i]
<1>0. finished \in [Jobs -> Outcomes] /\ LifeInv(i)
  BY Zenon DEF IInv, TypeOK
<1>1. CASE Ioctls
  BY <1>1, Zenon DEF Ioctls, SubmitInit, SubmitFail, SubmitArm, SubmitPush
<1>2. CASE Files
  <2>1. ASSUME NEW j \in Jobs, KillJob(j)
        PROVE  finished'[i] = finished[i]
    <3>1. life[j] = "killed" /\ finished' = [finished EXCEPT ![j] = "ESRCH"]
      BY <2>1, Zenon DEF KillJob
    <3>2. life[i] # "killed"
      BY <1>0, Zenon DEF LifeInv
    <3> QED BY <1>0, <3>1, <3>2, Zenon
  <2>2. ASSUME NEW c \in Clients, OpenFile(c) \/ CloseFile(c)
        PROVE  finished'[i] = finished[i]
    BY <2>2, Zenon DEF OpenFile, CloseFile
  <2>3. ASSUME NEW c \in Clients, DestroyEntity(c)
        PROVE  finished'[i] = finished[i]
    BY <2>3, Zenon DEF DestroyEntity
  <2> QED BY <1>2, <2>1, <2>2, <2>3, Zenon DEF Files
<1>3. CASE SchedulerWork
  <2>1. CASE RunJobReturn
    <3>1. wqJob # i
      BY <2>1, Zenon DEF RunJobReturn, IInv, TypeOK, ThreadInv, UnfinishedInv
    <3>2. finished' = finished \/ finished' = [finished EXCEPT ![wqJob] = "ok"]
      BY <2>1, Zenon DEF RunJobReturn, JobDone
    <3> QED BY <1>0, <3>1, <3>2, Zenon
  <2>2. ASSUME NEW j \in Jobs, RunJobWork(j) \/ FreeJobWork(j) \/ FreeJob
        PROVE  finished'[i] = finished[i]
    BY <2>2, Zenon DEF RunJobWork, FreeJobWork, FreeJob
  <2> QED BY <1>3, <2>1, <2>2, Zenon DEF SchedulerWork
<1>4. CASE Timeout
  <2>1. CASE TdrStart
    BY <2>1, Zenon DEF TdrStart, IInv, UnfinishedInv
  <2>2. ASSUME NEW j \in Jobs, TimerExpires(j) \/ TdrPark \/ TdrAbort
        PROVE  finished'[i] = finished[i]
    BY <2>2, Zenon DEF TimerExpires, TdrPark, TdrAbort
  <2>3. CASE TdrStop \/ TdrEnd
    BY <2>3, Zenon DEF TdrStop, TdrEnd
  <2> QED BY <1>4, <2>1, <2>2, <2>3, Zenon DEF Timeout
<1>5. CASE Removal
  <2>1. CASE FiniRetire
    BY <2>1, Zenon DEF FiniRetire, Retired, IInv, UnfinishedInv
  <2> QED BY <1>5, <2>1, Zenon DEF Removal, Remove, FiniCancelTdr, FiniPark,
                            FiniStop, FiniSyncTdr, FiniAbort
<1>6. CASE RunJob \/ TdrHwStop \/ FiniHwStop
  BY <1>6, Zenon DEF RunJob, TdrHwStop, FiniHwStop
<1>7. ASSUME NEW p \in Phases, PhaseDone(p)
      PROVE  finished'[i] = finished[i]
  <2>1. CASE PhaseDoneExec
    <3>1. active # i
      BY <2>1, Zenon DEF PhaseDoneExec, IInv, ActiveIsUnfinished
    <3>2. finished' = finished \/ finished' = [finished EXCEPT ![active] = "ok"]
      BY <2>1, Zenon DEF PhaseDoneExec, JobDone
    <3> QED BY <1>0, <3>1, <3>2, Zenon
  <2> QED BY <1>7, <2>1, Zenon DEF PhaseDone, PhaseDoneConfig,
             PhaseDoneSpurious
<1>8. CASE UNCHANGED vars
  BY <1>8, Zenon
<1> QED BY <1>1, <1>2, <1>3, <1>4, <1>5, <1>6, <1>7, <1>8, Zenon
           DEF Next, DriverNext

\* LifeInv of a job about which nothing changes.
LEMMA LifeFrame ==
  ASSUME NEW i, LifeInv(i), fence_seqno' = fence_seqno, file' = file,
         life'[i] = life[i], client'[i] = client[i], pushed'[i] = pushed[i],
         begun'[i] = begun[i], finished'[i] = finished[i],
         i \in hwSignaled' => i \in hwSignaled
  PROVE  LifeInv(i)'
BY Zenon DEF LifeInv

\* LifeInv of a started job, which goes on or is freed after it has finished.
LEMMA LifeStarted ==
  ASSUME NEW i, LifeInv(i), fence_seqno' = fence_seqno,
         client'[i] = client[i], pushed'[i] = pushed[i], begun'[i] = begun[i],
         life[i] = "started",
         \/ life'[i] = "started"
         \/ life'[i] = "freed" /\ finished'[i] # "none"
  PROVE  LifeInv(i)'
BY Zenon DEF LifeInv

\* UnfinishedInv of a job about which nothing changes.
LEMMA UnfinishedFrame ==
  ASSUME NEW i, UnfinishedInv(i), Unfinished(i)' <=> Unfinished(i),
         finished'[i] = finished[i], wq' = wq, wqJob' = wqJob,
         pending' = pending, listening' = listening, hwSignaled' = hwSignaled,
         free_guilty' = free_guilty, tdrJob' = tdrJob,
         Resetting' <=> Resetting, HeldByTdr(i)' <=> HeldByTdr(i)
  PROVE  UnfinishedInv(i)'
BY Zenon DEF UnfinishedInv

\* A step that leaves the started jobs alone, and the scheduler and the device
\* with them, has LifeInv to keep.
LEMMA OtherJobsFrame ==
  ASSUME IInv, TypeOK',
         UNCHANGED <<active, hwSignaled, schedVars, listening, wq, wqJob, tdr,
                     tdrJob, rm>>,
         \A i \in Jobs : /\ LifeInv(i)'
                         /\ life'[i] = "started" <=> life[i] = "started"
                         /\ life[i] = "started" => finished'[i] = finished[i]
  PROVE  IInv'
<1>1. \A i \in Jobs : Unfinished(i)' <=> Unfinished(i)
  BY Zenon
<1>2. StartedIsHeldOnce'
  <2>1. active \in Jobs \cup {NoJob} /\ wqJob \in Jobs \cup {NoJob} /\ listening \subseteq Jobs
    BY Zenon DEF IInv, TypeOK
  <2> QED BY <2>1, Zenon DEF IInv, StartedIsHeldOnce
<1>3. \A i \in Jobs : UnfinishedInv(i)'
  <2>1. ASSUME NEW i \in Jobs, HeldByWq(i) \/ (free_guilty /\ tdrJob = i)
        PROVE  finished'[i] = finished[i]
    BY <2>1, Zenon DEF IInv, StartedIsHeldOnce
  <2> QED BY <1>1, <2>1 DEF IInv, UnfinishedInv
<1>4. ThreadInv' /\ RemovalInv' /\ NoWarning'
  BY Zenon DEF IInv, ThreadInv, RemovalInv, NoWarning
<1>5. ActiveIsUnfinished'
  BY <1>1, Zenon DEF IInv, TypeOK, ActiveIsUnfinished
<1>6. OneCredit'
  BY <1>1, Zenon DEF IInv, OneCredit
<1>7. CompletionIsHeard'
  <2>1. hwSignaled \subseteq Jobs
    BY Zenon DEF IInv, TypeOK
  <2> QED BY <2>1, Zenon DEF IInv, CompletionIsHeard
<1>8. TimeoutIsArmed'
  BY <1>1, Zenon DEF IInv, TimeoutIsArmed
<1> QED BY <1>2, <1>3, <1>4, <1>5, <1>6, <1>7, <1>8, Zenon DEF IInv

\* A step that leaves all jobs and the scheduler's lists alone, and takes the
\* device from a job at most, has the control of the threads to keep.
LEMMA ControlFrame ==
  ASSUME IInv, TypeOK',
         UNCHANGED <<jobVars, orderVars, fence_seqno, hwSignaled, finished,
                     listening, pending, credit_count, free_guilty, wq, wqJob,
                     tdrJob, file>>,
         active' \in {active, NoJob},
         Resetting' <=> Resetting,
         tdr' \in {"timedout", "parked"} <=> tdr \in {"timedout", "parked"},
         ThreadInv', RemovalInv', NoWarning', TimeoutIsArmed'
  PROVE  IInv'
<1>1. \A i \in Jobs : /\ Unfinished(i)' <=> Unfinished(i)
                      /\ HeldByTdr(i)' <=> HeldByTdr(i)
  BY Zenon
<1>2. \A i \in Jobs : LifeInv(i)'
  BY LifeFrame, Zenon DEF IInv
<1>3. \A i \in Jobs : UnfinishedInv(i)'
  BY <1>1, UnfinishedFrame, Zenon DEF IInv
<1>4. ActiveIsUnfinished'
  BY Zenon DEF IInv, ActiveIsUnfinished
<1>5. StartedIsHeldOnce'
  BY <1>1, Zenon DEF IInv, StartedIsHeldOnce
<1>6. OneCredit' /\ CompletionIsHeard'
  BY <1>1, Zenon DEF IInv, OneCredit, CompletionIsHeard
<1> QED BY <1>2, <1>3, <1>4, <1>5, <1>6, Zenon DEF IInv

\* A step that changes nothing.
LEMMA IInvStutter ==
  ASSUME IInv, UNCHANGED vars
  PROVE  IInv'
BY DEF IInv, TypeOK, LifeInv, UnfinishedInv, ThreadInv, RemovalInv,
       ActiveIsUnfinished, NoWarning, StartedIsHeldOnce, OneCredit,
       CompletionIsHeard, TimeoutIsArmed

\* The submit ioctl.
LEMMA IoctlsStep ==
  ASSUME IInv, Ioctls
  PROVE  TypeOK' => IInv'
<1>0. SUFFICES ASSUME TypeOK' PROVE IInv'
  BY Zenon
<1>1. ASSUME NEW c \in Clients, SubmitInit(c)
      PROVE  IInv'
  <2>1. (\A i \in Jobs : LifeInv(i))'
    BY <1>1, JobAssumption DEF IInv, TypeOK, LifeInv,
                               SubmitInit
  <2>2. UNCHANGED <<active, hwSignaled, schedVars, listening, wq, wqJob, tdr,
                    tdrJob, rm>>
    BY <1>1, Zenon DEF SubmitInit
  <2>3. \A i \in Jobs : /\ life'[i] = "started" <=> life[i] = "started"
                        /\ life[i] = "started" => finished'[i] = finished[i]
    BY <1>1, JobAssumption DEF SubmitInit, IInv, TypeOK, LifeInv
  <2> QED BY <1>0, <2>1, <2>2, <2>3, OtherJobsFrame, Zenon
<1>2. ASSUME NEW j \in Jobs, SubmitFail(j)
      PROVE  IInv'
  <2>1. (\A i \in Jobs : LifeInv(i))'
    BY <1>2 DEF IInv, LifeInv, SubmitFail
  <2>2. UNCHANGED <<active, hwSignaled, schedVars, listening, wq, wqJob, tdr,
                    tdrJob, rm>>
    BY <1>2, Zenon DEF SubmitFail
  <2>3. \A i \in Jobs : /\ life'[i] = "started" <=> life[i] = "started"
                        /\ life[i] = "started" => finished'[i] = finished[i]
    BY <1>2, Zenon DEF SubmitFail, IInv, TypeOK
  <2> QED BY <1>0, <2>1, <2>2, <2>3, OtherJobsFrame, Zenon
<1>3. ASSUME NEW j \in Jobs, NEW d \in Jobs \cup {NoJob}, SubmitArm(j, d)
      PROVE  IInv'
  <2>1. (\A i \in Jobs : LifeInv(i))'
    BY <1>3 DEF IInv, TypeOK, LifeInv, SubmitArm
  <2>2. UNCHANGED <<active, hwSignaled, schedVars, listening, wq, wqJob, tdr,
                    tdrJob, rm>>
    BY <1>3, Zenon DEF SubmitArm
  <2>3. \A i \in Jobs : /\ life'[i] = "started" <=> life[i] = "started"
                        /\ life[i] = "started" => finished'[i] = finished[i]
    BY <1>3, Zenon DEF SubmitArm, IInv, TypeOK
  <2> QED BY <1>0, <2>1, <2>2, <2>3, OtherJobsFrame, Zenon
<1>4. ASSUME NEW j \in Jobs, SubmitPush(j)
      PROVE  IInv'
  <2>1. (\A i \in Jobs : LifeInv(i))'
    BY <1>4 DEF IInv, TypeOK, LifeInv, SubmitPush
  <2>2. UNCHANGED <<active, hwSignaled, schedVars, listening, wq, wqJob, tdr,
                    tdrJob, rm>>
    BY <1>4, Zenon DEF SubmitPush
  <2>3. \A i \in Jobs : /\ life'[i] = "started" <=> life[i] = "started"
                        /\ life[i] = "started" => finished'[i] = finished[i]
    BY <1>4, Zenon DEF SubmitPush, IInv, TypeOK
  <2> QED BY <1>0, <2>1, <2>2, <2>3, OtherJobsFrame, Zenon
<1> QED BY <1>1, <1>2, <1>3, <1>4, Zenon DEF Ioctls

\* Opening and closing a file.
LEMMA FilesStep ==
  ASSUME IInv, Files
  PROVE  TypeOK' => IInv'
<1>0. SUFFICES ASSUME TypeOK' PROVE IInv'
  BY Zenon
<1>1. ASSUME NEW c \in Clients, OpenFile(c)
      PROVE  IInv'
  <2>1. (\A i \in Jobs : LifeInv(i))'
    BY <1>1 DEF IInv, LifeInv, OpenFile
  <2>2. UNCHANGED <<active, hwSignaled, schedVars, listening, wq, wqJob, tdr,
                    tdrJob, rm>>
    BY <1>1, Zenon DEF OpenFile
  <2>3. \A i \in Jobs : /\ life'[i] = "started" <=> life[i] = "started"
                        /\ life[i] = "started" => finished'[i] = finished[i]
    BY <1>1, Zenon DEF OpenFile, IInv, TypeOK
  <2> QED BY <1>0, <2>1, <2>2, <2>3, OtherJobsFrame, Zenon
<1>2. ASSUME NEW c \in Clients, CloseFile(c)
      PROVE  IInv'
  <2>1. (\A i \in Jobs : LifeInv(i))'
    <3>1. \A i \in Jobs : client[i] = c => life[i] \notin {"init", "armed"}
      BY <1>2, Zenon DEF CloseFile, InFlight
    <3>2. \A i \in Jobs : file'[client[i]] # file[client[i]] =>
            client[i] = c /\ file'[client[i]] = "closing" /\ file[client[i]] = "open"
      BY <1>2 DEF CloseFile, TypeOK, IInv
    <3>3. QED BY <1>2, <3>1, <3>2 DEF CloseFile, IInv, LifeInv
  <2>2. UNCHANGED <<active, hwSignaled, schedVars, listening, wq, wqJob, tdr,
                    tdrJob, rm>>
    BY <1>2, Zenon DEF CloseFile
  <2>3. \A i \in Jobs : /\ life'[i] = "started" <=> life[i] = "started"
                        /\ life[i] = "started" => finished'[i] = finished[i]
    BY <1>2, Zenon DEF CloseFile, IInv, TypeOK
  <2> QED BY <1>0, <2>1, <2>2, <2>3, OtherJobsFrame, Zenon
<1>3. ASSUME NEW c \in Clients, DestroyEntity(c)
      PROVE  IInv'
  <2>1. (\A i \in Jobs : LifeInv(i))'
    BY <1>3 DEF IInv, TypeOK, LifeInv, DestroyEntity, Queue
  <2>2. UNCHANGED <<active, hwSignaled, schedVars, listening, wq, wqJob, tdr,
                    tdrJob, rm>>
    BY <1>3, Zenon DEF DestroyEntity
  <2>3. \A i \in Jobs : /\ life'[i] = "started" <=> life[i] = "started"
                        /\ life[i] = "started" => finished'[i] = finished[i]
    BY <1>3, Zenon DEF DestroyEntity, IInv, TypeOK, Queue
  <2> QED BY <1>0, <2>1, <2>2, <2>3, OtherJobsFrame, Zenon
<1>4. ASSUME NEW j \in Jobs, KillJob(j)
      PROVE  IInv'
  <2>1. (\A i \in Jobs : LifeInv(i))'
    BY <1>4 DEF IInv, TypeOK, LifeInv, KillJob
  <2>2. UNCHANGED <<active, hwSignaled, schedVars, listening, wq, wqJob, tdr,
                    tdrJob, rm>>
    BY <1>4, Zenon DEF KillJob
  <2>3. \A i \in Jobs : /\ life'[i] = "started" <=> life[i] = "started"
                        /\ life[i] = "started" => finished'[i] = finished[i]
    BY <1>4, Zenon DEF KillJob, IInv, TypeOK
  <2> QED BY <1>0, <2>1, <2>2, <2>3, OtherJobsFrame, Zenon
<1> QED BY <1>1, <1>2, <1>3, <1>4, Zenon DEF Files

\* The scheduler's workqueue.
LEMMA SchedulerStep ==
  ASSUME IInv, SchedulerWork
  PROVE  TypeOK' => IInv'
<1>0. SUFFICES ASSUME TypeOK' PROVE IInv'
  BY Zenon
<1>1. ASSUME NEW j \in Jobs, RunJobWork(j)
      PROVE  IInv'
  <2>1. ~Resetting /\ \A i \in Jobs : ~Unfinished(i)
    BY <1>1 DEF RunJobWork, CreditLimit, IInv, ThreadInv, OneCredit
  <2>2. /\ wq = "idle" /\ wqJob = NoJob /\ active = NoJob /\ listening = {}
        /\ life[j] = "queued" /\ finished[j] = "none" /\ j \notin hwSignaled
    BY <1>1, <2>1 DEF RunJobWork, IInv, TypeOK, LifeInv, UnfinishedInv,
                      ThreadInv, ActiveIsUnfinished
  <2>3. \A i \in Jobs : LifeInv(i)'
    BY <1>1 DEF RunJobWork, IInv, TypeOK, LifeInv
  <2>4. \A i \in Jobs : Unfinished(i)' <=> i = j
    BY <1>1, <2>1, <2>2, Zenon DEF RunJobWork, IInv, TypeOK
  <2>5. \A i \in Jobs : UnfinishedInv(i)'
    BY <1>1, <2>1, <2>2, <2>4, Zenon DEF RunJobWork, IInv, TypeOK,
       UnfinishedInv
  <2>6. ThreadInv' /\ RemovalInv'
    BY <1>1 DEF RunJobWork, IInv, ThreadInv, RemovalInv
  <2>7. ActiveIsUnfinished' /\ NoWarning'
    BY <1>1, <2>2, Zenon DEF RunJobWork, IInv, ActiveIsUnfinished, NoWarning
  <2>8. StartedIsHeldOnce'
    <3>1. \A i \in Jobs : life'[i] = "started" <=> life[i] = "started" \/ i = j
      BY <1>1, <2>2, Zenon DEF RunJobWork, IInv, TypeOK
    <3>2. \A i \in Jobs : /\ HeldByList(i)' <=> HeldByList(i) \/ i = j
                          /\ ~HeldByWq(i)' /\ ~HeldByWq(i)
                          /\ HeldByTdr(i)' <=> HeldByTdr(i)
      BY <1>1, <2>2, Zenon DEF RunJobWork
    <3>3. ~HeldByList(j) /\ ~HeldByTdr(j)
      BY <2>2, Zenon DEF IInv, StartedIsHeldOnce
    <3>4. active' = NoJob /\ listening' = {} /\ wqJob' = j
      BY <1>1, <2>2, Zenon DEF RunJobWork
    <3> QED BY <3>1, <3>2, <3>3, <3>4, Zenon DEF IInv, StartedIsHeldOnce
  <2>9. OneCredit'
    <3>1. credit_count = 0
      BY <2>1, Zenon DEF IInv, OneCredit
    <3>2. credit_count' = 1 /\ ~Suspended'
      BY <1>1, <2>1, <3>1 DEF RunJobWork
    <3> QED BY <2>4, <3>2, Zenon DEF OneCredit
  <2>10. CompletionIsHeard' /\ TimeoutIsArmed'
    BY <1>1, <2>1, <2>2, Zenon DEF RunJobWork, IInv, TypeOK, CompletionIsHeard,
                            TimeoutIsArmed
  <2> QED BY <1>0, <2>3, <2>5, <2>6, <2>7, <2>8, <2>9, <2>10, Zenon DEF IInv
<1>2. CASE RunJobReturn
  <2>1. /\ wqJob \in Jobs /\ Unfinished(wqJob)
        /\ wqJob \notin listening /\ ~Resetting
    BY <1>2, Zenon DEF RunJobReturn, IInv, TypeOK, ThreadInv, UnfinishedInv
  <2>2. \A i \in Jobs : finished'[i] = IF i = wqJob /\ i \in hwSignaled
                                      THEN "ok" ELSE finished[i]
    <3>1. finished \in [Jobs -> Outcomes]
      BY Zenon DEF IInv, TypeOK
    <3>2. finished' = IF wqJob \in hwSignaled
                      THEN [finished EXCEPT ![wqJob] = "ok"] ELSE finished
      BY <1>2, Zenon DEF RunJobReturn, CallbackTooLate, JobDone
    <3> QED BY <2>1, <3>1, <3>2, Zenon
  <2>3. listening' = IF wqJob \in hwSignaled THEN listening
                     ELSE listening \cup {wqJob}
    BY <1>2, Zenon DEF RunJobReturn, CallbackTooLate
  <2>4. \A i \in Jobs : LifeInv(i)'
    <3>1. ASSUME NEW i \in Jobs, i # wqJob PROVE LifeInv(i)'
      BY <1>2, <2>2, <3>1, LifeFrame, Zenon DEF RunJobReturn, IInv
    <3>2. ASSUME NEW i \in Jobs, i = wqJob PROVE LifeInv(i)'
      BY <1>2, <2>1, <3>2, LifeStarted, Zenon DEF RunJobReturn, IInv
    <3> QED BY <3>1, <3>2, Zenon
  <2>5. wqJob \in pending \/ HeldByTdr(wqJob)
    BY <1>2, <2>1, Zenon DEF RunJobReturn, IInv, StartedIsHeldOnce
  <2>6. \A i \in Jobs : UnfinishedInv(i)'
    BY <1>2, <2>1, <2>2, <2>3, <2>5, Zenon DEF RunJobReturn, IInv,
       UnfinishedInv
  <2>7. ThreadInv' /\ RemovalInv'
    BY <1>2, Zenon DEF RunJobReturn, IInv, ThreadInv, RemovalInv
  <2>8. ActiveIsUnfinished'
    BY <1>2, <2>2, Zenon DEF RunJobReturn, IInv, TypeOK, ActiveIsUnfinished
  <2>9. NoWarning'
    BY <1>2, Zenon DEF RunJobReturn, IInv, NoWarning
  <2>10. StartedIsHeldOnce'
    BY <1>2, <2>1, <2>3, Zenon DEF RunJobReturn, IInv, StartedIsHeldOnce
  <2>11. OneCredit'
    <3>1. credit_count = 1 /\ \A i \in Jobs : Unfinished(i) => i = wqJob
      BY <2>1, Zenon DEF IInv, OneCredit
    <3>2. \A i \in Jobs : Unfinished(i)' <=> i = wqJob /\ i \notin hwSignaled
      BY <1>2, <2>1, <2>2, <3>1, Zenon DEF RunJobReturn
    <3>3. credit_count' = IF wqJob \in hwSignaled THEN 0 ELSE 1
      BY <1>2, <3>1 DEF RunJobReturn, CallbackTooLate, JobDone
    <3>4. ~Suspended'
      BY <1>2, <2>1, Zenon DEF RunJobReturn
    <3> QED BY <2>1, <3>2, <3>3, <3>4, Zenon DEF OneCredit
  <2>12. CompletionIsHeard' /\ TimeoutIsArmed'
    BY <1>2, <2>2, Zenon DEF RunJobReturn, IInv, TypeOK, CompletionIsHeard,
                      TimeoutIsArmed
  <2> QED BY <1>0, <2>4, <2>6, <2>7, <2>8, <2>9, <2>10, <2>11, <2>12, Zenon
             DEF IInv
<1>3. ASSUME NEW j \in Jobs, FreeJobWork(j)
      PROVE  IInv'
  <2>1. (\A i \in Jobs : LifeInv(i))'
    BY <1>3, LifeFrame, Zenon DEF IInv, FreeJobWork
  <2>2. (\A i \in Jobs : UnfinishedInv(i))'
    BY <1>3, Zenon DEF IInv, UnfinishedInv, FreeJobWork, StartTimeout
  <2>3. ThreadInv' /\ RemovalInv'
    BY <1>3 DEF IInv, ThreadInv, RemovalInv, FreeJobWork, StartTimeout
  <2>4. ActiveIsUnfinished' /\ NoWarning'
    BY <1>3, Zenon DEF IInv, ActiveIsUnfinished, NoWarning, FreeJobWork,
       StartTimeout
  <2>5. StartedIsHeldOnce'
    <3>1. wq = "idle" /\ wqJob = NoJob /\ HeldByList(j)
      BY <1>3, Zenon DEF FreeJobWork, IsFirst, IInv, ThreadInv
    <3>2. life[j] = "started" /\ ~HeldByTdr(j)
      BY <3>1, Zenon DEF IInv, StartedIsHeldOnce
    <3>3. \A i \in Jobs : /\ HeldByList(i)' <=> HeldByList(i) /\ i # j
                          /\ HeldByWq(i)' <=> i = j
                          /\ HeldByTdr(i)' <=> HeldByTdr(i)
      BY <1>3, Zenon DEF FreeJobWork
    <3>4. /\ life' = life /\ listening' = listening /\ active' = active
          /\ wqJob' = j
      BY <1>3, Zenon DEF FreeJobWork
    <3> QED BY <3>1, <3>2, <3>3, <3>4, Zenon DEF IInv, StartedIsHeldOnce
  <2>6. OneCredit'
    BY <1>3, Zenon DEF IInv, ThreadInv, OneCredit, FreeJobWork, StartTimeout
  <2>7. CompletionIsHeard' /\ TimeoutIsArmed'
    BY <1>3, Zenon DEF IInv, TypeOK, ThreadInv, StartedIsHeldOnce,
       CompletionIsHeard,
                TimeoutIsArmed, FreeJobWork, StartTimeout
  <2> QED BY <1>0, <2>1, <2>2, <2>3, <2>4, <2>5, <2>6, <2>7, Zenon DEF IInv
<1>4. CASE FreeJob
  <2>1. wqJob \in Jobs /\ HeldByWq(wqJob) /\ finished[wqJob] # "none"
    BY <1>4, Zenon DEF FreeJob, IInv, TypeOK, ThreadInv, UnfinishedInv
  <2>2. life[wqJob] = "started" /\ ~HeldByList(wqJob) /\ ~HeldByTdr(wqJob)
    BY <2>1, Zenon DEF IInv, StartedIsHeldOnce
  <2>3. \A i \in Jobs : life'[i] = IF i = wqJob THEN "freed" ELSE life[i]
    BY <1>4, <2>1, Zenon DEF FreeJob, IInv, TypeOK
  <2>4. \A i \in Jobs : Unfinished(i)' <=> Unfinished(i)
    BY <1>4, <2>1, <2>3, Zenon DEF FreeJob
  <2>5. \A i \in Jobs : LifeInv(i)'
    <3>1. ASSUME NEW i \in Jobs, i # wqJob PROVE LifeInv(i)'
      BY <1>4, <2>3, <3>1, LifeFrame, Zenon DEF FreeJob, IInv
    <3>2. ASSUME NEW i \in Jobs, i = wqJob PROVE LifeInv(i)'
      BY <1>4, <2>1, <2>2, <2>3, <3>2, LifeStarted, Zenon DEF FreeJob, IInv
    <3> QED BY <3>1, <3>2, Zenon
  <2>6. \A i \in Jobs : UnfinishedInv(i)'
    BY <1>4, <2>4, Zenon DEF FreeJob, IInv, UnfinishedInv
  <2>7. ThreadInv' /\ RemovalInv'
    BY <1>4, Zenon DEF FreeJob, IInv, ThreadInv, RemovalInv
  <2>8. active # wqJob /\ wqJob \notin listening
    BY <2>1 DEF IInv, UnfinishedInv, ActiveIsUnfinished
  <2>9. ActiveIsUnfinished'
    BY <1>4, <2>3, <2>8, Zenon DEF FreeJob, IInv, TypeOK, ActiveIsUnfinished
  <2>10. NoWarning'
    BY <1>4, Zenon DEF FreeJob, IInv, NoWarning
  <2>11. StartedIsHeldOnce'
    <3>1. /\ wqJob' = NoJob /\ active' = active /\ listening' = listening
          /\ active \in Jobs \cup {NoJob} /\ listening \subseteq Jobs
      BY <1>4, Zenon DEF FreeJob, IInv, TypeOK
    <3>2. \A i \in Jobs : /\ HeldByList(i)' <=> HeldByList(i)
                          /\ HeldByWq(i) <=> i = wqJob
                          /\ ~HeldByWq(i)'
                          /\ HeldByTdr(i)' <=> HeldByTdr(i)
      BY <1>4, Zenon DEF FreeJob
    <3> QED BY <2>2, <2>3, <2>8, <3>1, <3>2, Zenon DEF IInv, StartedIsHeldOnce
  <2>12. OneCredit'
    BY <1>4, <2>4, Zenon DEF FreeJob, IInv, OneCredit
  <2>13. CompletionIsHeard'
    BY <1>4, <2>1, <2>3, Zenon DEF FreeJob, IInv, TypeOK, CompletionIsHeard
  <2>14. TimeoutIsArmed'
    BY <1>4, <2>4, Zenon DEF FreeJob, IInv, TimeoutIsArmed
  <2> QED BY <1>0, <2>5, <2>6, <2>7, <2>9, <2>10, <2>11, <2>12, <2>13, <2>14,
             Zenon
          DEF IInv
<1> QED BY <1>1, <1>2, <1>3, <1>4, Zenon DEF SchedulerWork

\* The steps in which the driver and the device meet.
LEMMA DeviceStep ==
  ASSUME IInv,
         RunJob \/ TdrHwStop \/ FiniHwStop \/ \E p \in Phases : PhaseDone(p)
  PROVE  TypeOK' => IInv'
<1>0. SUFFICES ASSUME TypeOK' PROVE IInv'
  BY Zenon
<1>1. CASE RunJob
  <2>1. /\ wqJob \in Jobs /\ Unfinished(wqJob) /\ wqJob \notin hwSignaled
        /\ ~Resetting
    <3>1. wq = "run_job"
      BY <1>1, Zenon DEF RunJob
    <3>2. wqJob \in Jobs /\ ~Resetting
      BY <3>1, Zenon DEF IInv, TypeOK, ThreadInv
    <3> QED BY <3>1, <3>2, Zenon DEF IInv, UnfinishedInv
  <2>2. rm \notin {"hw_stop", "retire", "gone"}
    BY <1>1, Zenon DEF RunJob, IInv, RemovalInv
  <2>3. \A i \in Jobs : LifeInv(i)'
    BY <1>1, LifeFrame, Zenon DEF RunJob, IInv
  <2>4. \A i \in Jobs : UnfinishedInv(i)'
    BY <1>1, Zenon DEF RunJob, IInv, UnfinishedInv
  <2>5. ThreadInv'
    BY <1>1, <2>1, Zenon DEF RunJob, IInv, ThreadInv
  <2>6. RemovalInv'
    BY <1>1, <2>2, Zenon DEF RunJob, IInv, RemovalInv
  <2>7. ActiveIsUnfinished' /\ NoWarning'
    BY <1>1, <2>1, <2>2, Zenon DEF RunJob, ActiveIsUnfinished, NoWarning
  <2>8. StartedIsHeldOnce'
    BY <1>1, <2>1, Zenon DEF RunJob, IInv, StartedIsHeldOnce
  <2>9. OneCredit'
    BY <1>1, Zenon DEF RunJob, IInv, OneCredit
  <2>10. CompletionIsHeard' /\ TimeoutIsArmed'
    BY <1>1, Zenon DEF RunJob, IInv, CompletionIsHeard, TimeoutIsArmed
  <2> QED BY <1>0, <2>3, <2>4, <2>5, <2>6, <2>7, <2>8, <2>9, <2>10, Zenon
             DEF IInv
<1>2. CASE TdrHwStop
  BY <1>0, <1>2, ControlFrame, Zenon
  DEF TdrHwStop, IInv, ThreadInv, RemovalInv, NoWarning, TimeoutIsArmed
<1>3. CASE FiniHwStop
  BY <1>0, <1>3, ControlFrame, Zenon
  DEF FiniHwStop, IInv, ThreadInv, RemovalInv, NoWarning, TimeoutIsArmed
<1>4. CASE PhaseDoneConfig
  BY <1>0, <1>4, ControlFrame, Zenon
  DEF PhaseDoneConfig, IInv, ThreadInv, RemovalInv, NoWarning, TimeoutIsArmed
<1>5. CASE PhaseDoneExec
  <2>0. /\ active # NoJob /\ hwSignaled' = hwSignaled \cup {active}
        /\ UNCHANGED <<life, pending, free_guilty, wq, wqJob, tdr, tdrJob>>
    BY <1>5, Zenon DEF PhaseDoneExec
  <2>1. /\ active \in Jobs /\ Unfinished(active) /\ active \notin hwSignaled
        /\ active \in listening => ~Resetting
    <3>1. active \in Jobs
      BY <2>0, Zenon DEF IInv, TypeOK
    <3> QED BY <2>0, <3>1, Zenon DEF IInv, ActiveIsUnfinished, UnfinishedInv
  <2>2. \A i \in Jobs : finished'[i] = IF i = active /\ active \in listening
                                      THEN "ok" ELSE finished[i]
    <3>1. finished \in [Jobs -> Outcomes]
      BY Zenon DEF IInv, TypeOK
    <3>2. finished' = IF active \in listening
                      THEN [finished EXCEPT ![active] = "ok"] ELSE finished
      BY <1>5, Zenon DEF PhaseDoneExec, JobDone
    <3> QED BY <2>1, <3>1, <3>2, Zenon
  <2>3. listening' = listening \ {active}
    BY <1>5, Zenon DEF PhaseDoneExec
  <2>4. \A i \in Jobs : LifeInv(i)'
    <3>1. ASSUME NEW i \in Jobs, i # active PROVE LifeInv(i)'
      BY <1>5, <2>2, <3>1, LifeFrame, Zenon DEF PhaseDoneExec, IInv
    <3>2. ASSUME NEW i \in Jobs, i = active PROVE LifeInv(i)'
      BY <1>5, <2>1, <3>2, LifeStarted, Zenon DEF PhaseDoneExec, IInv
    <3> QED BY <3>1, <3>2, Zenon
  <2>5. wq # "run_job"
    BY <1>5, Zenon DEF PhaseDoneExec, IInv, NoWarning
  <2>6. \A i \in Jobs : UnfinishedInv(i)'
    <3>1. \A i \in Jobs : Unfinished(i) => i = active
      BY <2>1, Zenon DEF IInv, OneCredit
    <3> QED BY <2>0, <2>1, <2>2, <2>3, <2>5, <3>1, Zenon
               DEF IInv, UnfinishedInv
  <2>7. ThreadInv' /\ RemovalInv'
    BY <1>5, Zenon DEF PhaseDoneExec, IInv, ThreadInv, RemovalInv
  <2>8. ActiveIsUnfinished' /\ NoWarning'
    BY <1>5, Zenon DEF PhaseDoneExec, ActiveIsUnfinished, NoWarning
  <2>9. StartedIsHeldOnce'
    BY <1>5, <2>3, Zenon DEF PhaseDoneExec, IInv, StartedIsHeldOnce
  <2>10. OneCredit'
    <3>1. /\ \A i \in Jobs : Unfinished(i) => i = active
          /\ active \in listening => credit_count = 1
      BY <2>1, Zenon DEF IInv, OneCredit
    <3>2. \A i \in Jobs : Unfinished(i)' <=> i = active /\ i \notin listening
      BY <1>5, <2>1, <2>2, <3>1, Zenon DEF PhaseDoneExec
    <3>3. Suspended' <=> Suspended
      BY <1>5, Zenon DEF PhaseDoneExec
    <3>4. CASE active \in listening
      <4>1. credit_count' = 0
        BY <1>5, <3>1, <3>4 DEF PhaseDoneExec, JobDone
      <4> QED BY <3>2, <3>4, <4>1, Zenon DEF OneCredit
    <3>5. CASE active \notin listening
      <4>1. credit_count' = credit_count
        BY <1>5, <3>5, Zenon DEF PhaseDoneExec
      <4> QED BY <2>1, <3>2, <3>3, <3>5, <4>1, Zenon DEF IInv, OneCredit
    <3> QED BY <3>4, <3>5, Zenon
  <2>11. CompletionIsHeard'
    <3>1. ASSUME NEW i \in hwSignaled', life'[i] = "started"
          PROVE  \/ finished'[i] # "none"
                 \/ wq' = "ran" /\ wqJob' = i
                 \/ i \in pending' /\ Suspended'
      <4>1. CASE i = active
        BY <2>0, <2>1, <2>2, <2>5, <4>1, Zenon DEF IInv, UnfinishedInv
      <4>2. CASE i # active
        <5>1. i \in hwSignaled /\ i \in Jobs
          BY <2>0, <3>1, <4>2, Zenon DEF IInv, TypeOK
        <5> QED BY <2>0, <2>2, <3>1, <4>2, <5>1, Zenon
                   DEF IInv, CompletionIsHeard
      <4> QED BY <4>1, <4>2, Zenon
    <3> QED BY <3>1, Zenon DEF CompletionIsHeard
  <2>12. TimeoutIsArmed'
    BY <1>5, <2>2, Zenon DEF PhaseDoneExec, IInv, TimeoutIsArmed
  <2> QED BY <1>0, <2>4, <2>6, <2>7, <2>8, <2>9, <2>10, <2>11, <2>12, Zenon
             DEF IInv
<1>6. ASSUME NEW p \in Phases, PhaseDoneSpurious(p)
      PROVE  IInv'
  BY <1>6, IInvStutter, Zenon DEF PhaseDoneSpurious
<1> QED BY <1>1, <1>2, <1>3, <1>4, <1>5, <1>6, Zenon DEF PhaseDone

-----------------------------------------------------------------------------
(* The timeout and removal, which stop the scheduler, take the job off the
   device and settle what is left on the pending list. *)

\* The scheduler's lists hold at most one unfinished job, which is what it
\* counts in credits.
OneIsCounted ==
  \A S \in SUBSET Jobs :
    (\A x, y \in S : x = y) => Cardinality(S) = IF S = {} THEN 0 ELSE 1

\* The timeout.
LEMMA TimeoutStep ==
  ASSUME PromptTeardown, OneIsCounted, IInv, Timeout
  PROVE  TypeOK' => IInv'
<1>0. SUFFICES ASSUME TypeOK' PROVE IInv'
  BY Zenon
<1>1. ASSUME NEW j \in Jobs, TimerExpires(j)
      PROVE  IInv'
  <2>0. /\ tdr = "idle" /\ tdr' = "timedout" /\ tdrJob' = j /\ ~free_guilty
        /\ pending' = pending \ {j} /\ j \in pending
        /\ UNCHANGED <<active, hwSignaled, life, finished, listening, free_guilty, wq, wqJob>>
    BY <1>1, Zenon DEF TimerExpires, IsFirst, IInv, ThreadInv
  <2>1. (\A i \in Jobs : LifeInv(i))'
    BY <1>1, LifeFrame, Zenon DEF IInv, TimerExpires
  <2>2. (\A i \in Jobs : UnfinishedInv(i))'
    BY <2>0, Zenon DEF IInv, UnfinishedInv
  <2>3. ThreadInv' /\ RemovalInv'
    <3>1. rm' = rm /\ pause_submit' = pause_submit /\ armed' = FALSE
      BY <1>1, Zenon DEF TimerExpires
    <3>2. rm \in {"loaded", "cancel_tdr"}
      BY <1>1 DEF TimerExpires, IInv, TypeOK, RmSteps, RemovalInv
    <3>3. j # NoJob /\ (wq = "idle" <=> wqJob = NoJob)
      BY <1>0, JobAssumption DEF IInv, ThreadInv
    <3>4. ThreadInv'
      BY <2>0, <3>3 DEF ThreadInv
    <3>5. RemovalInv'
      BY <3>1, <3>2 DEF RemovalInv
    <3> QED BY <3>4, <3>5, Zenon
  <2>4. ActiveIsUnfinished' /\ NoWarning'
    BY <1>1, Zenon DEF IInv, ActiveIsUnfinished, NoWarning, TimerExpires
  <2>5. StartedIsHeldOnce'
    <3>1. pending \subseteq Jobs
      BY Zenon DEF IInv, TypeOK
    <3> QED BY <2>0, <3>1, Zenon DEF IInv, StartedIsHeldOnce
  <2>6. OneCredit'
    BY <1>1, Zenon DEF IInv, OneCredit, TimerExpires
  <2>7. CompletionIsHeard' /\ TimeoutIsArmed'
    BY <1>1, Zenon DEF IInv, CompletionIsHeard, TimeoutIsArmed, TimerExpires
  <2> QED BY <1>0, <2>1, <2>2, <2>3, <2>4, <2>5, <2>6, <2>7, Zenon DEF IInv
<1>2. CASE TdrPark
  BY <1>0, <1>2, ControlFrame, Zenon
  DEF TdrPark, IInv, ThreadInv, RemovalInv, NoWarning, TimeoutIsArmed
<1>3. CASE TdrStop
  <2>1. PICK keep : keep = (pending \cup {tdrJob}) \cap listening
    BY Zenon
  <2>2. /\ tdr = "parked" /\ tdr' = "abort" /\ wq = "idle" /\ wq' = wq /\ wqJob' = wqJob
        /\ pending' = keep /\ listening' = listening \ keep
        /\ UNCHANGED <<active, hwSignaled, tdrJob, finished>>
    BY <1>3, <2>1, Zenon DEF TdrStop
  <2>3. /\ credit_count' = credit_count - Cardinality(keep)
        /\ free_guilty' = (tdrJob \notin keep)
        /\ life' = [i \in Jobs |-> IF i \in (pending \cup {tdrJob}) \ (keep \cup {tdrJob})
                                   THEN "freed" ELSE life[i]]
        /\ \A i \in (pending \cup {tdrJob}) \ keep : finished[i] # "none"
    BY <1>3, <2>1, Zenon DEF TdrStop
  <2>4. /\ active \in Jobs \cup {NoJob} /\ pending \subseteq Jobs
        /\ listening \subseteq Jobs /\ hwSignaled \subseteq Jobs
        /\ tdrJob \in Jobs /\ wqJob = NoJob /\ ~free_guilty /\ ~Resetting
    BY <2>2, Zenon DEF IInv, TypeOK, ThreadInv
  <2>5. \A i \in Jobs : i \in pending \/ i = tdrJob => life[i] = "started"
    BY <2>2, <2>4, Zenon DEF IInv, StartedIsHeldOnce
  <2>6. tdrJob \notin pending
    BY <2>2, <2>4, Zenon DEF IInv, StartedIsHeldOnce
  <2>7. \A i \in Jobs : life[i] = "started" => i \in pending \/ i = tdrJob
    BY <2>2, <2>4, Zenon DEF IInv, StartedIsHeldOnce
  <2>8. \A i \in Jobs : i \in listening => Unfinished(i) /\ i \in keep /\ i \notin hwSignaled
    BY <2>1, <2>2, <2>4, Zenon DEF IInv, UnfinishedInv
  <2>9. \A i \in Jobs : Unfinished(i) <=> i \in keep
    BY <2>1, <2>3, <2>7, <2>8, Zenon
  <2>10. listening' = {}
    BY <2>2, <2>4, <2>8, Zenon
  <2>11. \A i \in Jobs : life'[i] = IF i \in pending /\ i \notin keep THEN "freed" ELSE life[i]
    BY <2>3, <2>6, Zenon
  <2>12. \A i \in Jobs : Unfinished(i)' <=> Unfinished(i)
    BY <2>2, <2>9, <2>11, Zenon
  <2>13. (\A i \in Jobs : LifeInv(i))'
    <3>1. ASSUME NEW i \in Jobs, i \in pending PROVE LifeInv(i)'
      <4>1. life[i] = "started" /\ (life'[i] = "freed" => finished'[i] # "none")
        BY <2>2, <2>3, <2>5, <2>11, <3>1, Zenon
      <4>2. life'[i] \in {"started", "freed"}
        BY <2>11, <4>1, Zenon
      <4> QED BY <1>3, <4>1, <4>2, LifeStarted, Zenon DEF TdrStop, IInv
    <3>2. ASSUME NEW i \in Jobs, i \notin pending PROVE LifeInv(i)'
      <4>1. life'[i] = life[i]
        BY <2>11, <3>2, Zenon
      <4> QED BY <1>3, <4>1, LifeFrame, Zenon DEF TdrStop, IInv
    <3> QED BY <3>1, <3>2, Zenon
  <2>14. (\A i \in Jobs : UnfinishedInv(i))'
    <3>1. free_guilty' => finished'[tdrJob] # "none"
      BY <2>2, <2>3, Zenon
    <3> QED BY <2>2, <2>4, <2>9, <2>10, <2>12, <3>1, Zenon DEF UnfinishedInv
  <2>15. ThreadInv' /\ RemovalInv'
    BY <1>3, Zenon DEF IInv, ThreadInv, RemovalInv, TdrStop
  <2>16. ActiveIsUnfinished'
    BY <2>2, <2>4, <2>12, Zenon DEF IInv, ActiveIsUnfinished
  <2>17. NoWarning'
    BY <1>3, Zenon DEF IInv, NoWarning, TdrStop
  <2>18. StartedIsHeldOnce'
    <3>1. active # NoJob => active \in keep
      BY <2>4, <2>9, Zenon DEF IInv, ActiveIsUnfinished
    <3>2. \A i \in Jobs : life'[i] = "started" <=> i \in keep \/ i = tdrJob
      BY <2>5, <2>6, <2>7, <2>9, <2>11, Zenon
    <3>3. \A i \in Jobs : HeldByTdr(i)' <=> i = tdrJob /\ i \notin keep
      BY <2>2, <2>3, Zenon
    <3> QED BY <2>2, <2>4, <2>10, <3>1, <3>2, <3>3, Zenon DEF StartedIsHeldOnce
  <2>19. OneCredit'
    <3>1. Cardinality(keep) = IF keep = {} THEN 0 ELSE 1
      <4>1. \A x, y \in keep : x = y
        BY <2>1, <2>4, <2>9, Zenon DEF IInv, OneCredit
      <4>2. keep \in SUBSET Jobs
        BY <2>1, <2>4, Zenon
      <4> QED BY <4>1, <4>2, Zenon DEF OneIsCounted
    <3>2. credit_count = IF keep = {} THEN 0 ELSE 1
      <4>1. (\E i \in Jobs : Unfinished(i)) <=> keep # {}
        BY <2>1, <2>4, <2>9, Zenon
      <4>2. ~Suspended
        BY <2>2, Zenon
      <4> QED BY <4>1, <4>2, Zenon DEF IInv, OneCredit
    <3>3. credit_count' = 0
      BY <2>3, <3>1, <3>2
    <3> QED BY <2>2, <2>4, <2>9, <2>12, <3>3, Zenon DEF IInv, OneCredit
  <2>20. CompletionIsHeard'
    <3>1. \A i \in hwSignaled : life[i] = "started" => finished[i] # "none"
      BY <2>2, Zenon DEF IInv, CompletionIsHeard
    <3> QED BY <2>2, <2>4, <2>11, <3>1, Zenon DEF CompletionIsHeard
  <2>21. TimeoutIsArmed'
    BY <2>2, Zenon DEF TimeoutIsArmed
  <2> QED BY <1>0, <2>13, <2>14, <2>15, <2>16, <2>17, <2>18, <2>19, <2>20,
             <2>21, Zenon
          DEF IInv
<1>4. CASE TdrAbort
  BY <1>0, <1>4, ControlFrame, Zenon
  DEF TdrAbort, JobAbort, IInv, ThreadInv, RemovalInv, NoWarning,
  TimeoutIsArmed
<1>5. CASE TdrStart
  <2>0. /\ tdr = "start" /\ tdr' = "end"
        /\ UNCHANGED <<hwSignaled, pending, listening, free_guilty, tdrJob, wq, wqJob>>
    BY <1>5, Zenon DEF TdrStart
  <2>1. /\ active = NoJob /\ wq = "idle" /\ wqJob = NoJob /\ listening = {}
        /\ \A i \in Jobs : i \in pending <=> Unfinished(i)
    <3>1. active = NoJob /\ wq = "idle" /\ wqJob = NoJob
      BY <2>0, Zenon DEF IInv, ThreadInv
    <3>2. \A i \in Jobs : i \notin listening /\ (i \in pending <=> Unfinished(i))
      BY <2>0, <3>1, Zenon DEF IInv, UnfinishedInv
    <3>3. listening \subseteq Jobs
      BY Zenon DEF IInv, TypeOK
    <3> QED BY <3>1, <3>2, <3>3, Zenon
  <2>2. \A i \in Jobs : finished'[i] = IF i \in pending THEN "ECANCELED"
                                      ELSE finished[i]
    BY <1>5, Zenon DEF TdrStart
  <2>3. \A i \in Jobs : ~Unfinished(i)'
    BY <1>5, <2>1, <2>2, Zenon DEF TdrStart
  <2>4. \A i \in Jobs : LifeInv(i)'
    <3>1. ASSUME NEW i \in Jobs, i \notin pending PROVE LifeInv(i)'
      BY <1>5, <2>2, <3>1, LifeFrame, Zenon DEF TdrStart, IInv
    <3>2. ASSUME NEW i \in Jobs, i \in pending PROVE LifeInv(i)'
      BY <1>5, <2>1, <3>2, LifeStarted, Zenon DEF TdrStart, IInv
    <3> QED BY <3>1, <3>2, Zenon
  <2>5. \A i \in Jobs : UnfinishedInv(i)'
    <3>1. \A i \in Jobs : free_guilty /\ tdrJob = i => finished[i] # "none"
      BY Zenon DEF IInv, UnfinishedInv
    <3> QED BY <2>0, <2>1, <2>2, <2>3, <3>1, Zenon DEF UnfinishedInv
  <2>6. ThreadInv'
    BY <1>5, <2>1, Zenon DEF TdrStart, IInv, ThreadInv
  <2>7. RemovalInv'
    BY <1>5, <2>1, Zenon DEF TdrStart, IInv, RemovalInv
  <2>8. ActiveIsUnfinished' /\ NoWarning'
    BY <1>5, <2>1, Zenon DEF TdrStart, ActiveIsUnfinished, NoWarning
  <2>9. StartedIsHeldOnce'
    BY <1>5, Zenon DEF TdrStart, IInv, StartedIsHeldOnce
  <2>10. OneCredit'
    <3>1. credit_count = 0
      <4>1. (\E i \in Jobs : Unfinished(i)) => Suspended
        BY <2>0, <2>1, Zenon
      <4> QED BY <4>1, Zenon DEF IInv, OneCredit
    <3>2. credit_count' = 0
      BY <1>5, <3>1, Zenon DEF TdrStart
    <3> QED BY <2>3, <3>2, Zenon DEF OneCredit
  <2>11. CompletionIsHeard'
    <3>1. hwSignaled \subseteq Jobs /\ life' = life
      BY <1>5, Zenon DEF TdrStart, IInv, TypeOK
    <3> QED BY <2>0, <2>3, <3>1, Zenon DEF CompletionIsHeard
  <2>12. TimeoutIsArmed'
    BY <2>3, Zenon DEF TimeoutIsArmed
  <2> QED BY <1>0, <2>4, <2>5, <2>6, <2>7, <2>8, <2>9, <2>10, <2>11,
             <2>12, Zenon DEF IInv
<1>6. CASE TdrEnd
  <2>0. /\ tdr = "end" /\ tdr' = "idle" /\ tdrJob' = NoJob /\ free_guilty' = FALSE
        /\ UNCHANGED <<active, hwSignaled, finished, listening, pending,
                       credit_count, wq, wqJob>>
    BY <1>6, Zenon DEF TdrEnd
  <2>1. tdrJob \in Jobs /\ tdr = "end"
    BY <2>0, Zenon DEF IInv, TypeOK, ThreadInv
  <2>2. free_guilty => /\ finished[tdrJob] # "none"
                       /\ active # tdrJob /\ tdrJob \notin listening
                       /\ ~ (wq \in {"run_job", "ran"} /\ wqJob = tdrJob)
    BY <2>1 DEF IInv, UnfinishedInv, ActiveIsUnfinished
  <2>3. free_guilty => /\ life[tdrJob] = "started"
                       /\ ~HeldByList(tdrJob) /\ ~HeldByWq(tdrJob)
    BY <2>1, Zenon DEF IInv, StartedIsHeldOnce
  <2>4. \A i \in Jobs : life'[i] = IF HeldByTdr(i) THEN "freed" ELSE life[i]
    BY <1>6, Zenon DEF TdrEnd
  <2>5. \A i \in Jobs : Unfinished(i)' <=> Unfinished(i)
    BY <1>6, <2>2, Zenon DEF TdrEnd
  <2>6. \A i \in Jobs : LifeInv(i)'
    <3>1. ASSUME NEW i \in Jobs, ~HeldByTdr(i) PROVE LifeInv(i)'
      BY <1>6, <2>4, <3>1, LifeFrame, Zenon DEF TdrEnd, IInv
    <3>2. ASSUME NEW i \in Jobs, HeldByTdr(i) PROVE LifeInv(i)'
      BY <1>6, <2>1, <2>2, <2>3, <2>4, <3>2, LifeStarted, Zenon
         DEF TdrEnd, IInv
    <3> QED BY <3>1, <3>2, Zenon
  <2>7. \A i \in Jobs : UnfinishedInv(i)'
    BY <2>0, <2>2, <2>5, Zenon DEF IInv, UnfinishedInv
  <2>8. ThreadInv'
    BY <1>6, Zenon DEF TdrEnd, IInv, ThreadInv
  <2>9. RemovalInv'
    BY <1>6, Zenon DEF TdrEnd, IInv, RemovalInv
  <2>10. ActiveIsUnfinished'
    <3>1. active \in Jobs \cup {NoJob}
      BY Zenon DEF IInv, TypeOK
    <3> QED BY <2>0, <2>5, <3>1, Zenon DEF IInv, ActiveIsUnfinished
  <2>11. NoWarning'
    BY <1>6, Zenon DEF TdrEnd, IInv, NoWarning
  <2>12. StartedIsHeldOnce'
    <3>1. \A i \in Jobs : ~HeldByTdr(i)'
      BY <1>6, Zenon DEF TdrEnd
    <3>2. wqJob # NoJob => life'[wqJob] = life[wqJob]
      BY <2>1, <2>2, <2>3, <2>4, Zenon DEF IInv, TypeOK, ThreadInv, WqSteps
    <3>3. active # NoJob => life'[active] = life[active]
      BY <2>1, <2>2, <2>4, Zenon DEF IInv, TypeOK
    <3>4. \A i \in listening : life'[i] = life[i]
      BY <2>1, <2>2, <2>4, Zenon DEF IInv, TypeOK
    <3>5. /\ pending' = pending /\ wq' = wq /\ wqJob' = wqJob
          /\ active' = active /\ listening' = listening
      BY <1>6, Zenon DEF TdrEnd
    <3> QED BY <2>3, <2>4, <3>1, <3>2, <3>3, <3>4, <3>5, Zenon
            DEF IInv, StartedIsHeldOnce
  <2>13. OneCredit'
    BY <2>0, <2>5, Zenon DEF IInv, OneCredit
  <2>14. CompletionIsHeard'
    <3>1. hwSignaled \subseteq Jobs
      BY Zenon DEF IInv, TypeOK
    <3> QED BY <2>0, <2>4, <3>1, Zenon DEF IInv, CompletionIsHeard
  <2>15. TimeoutIsArmed'
    <3>1. \A i \in Jobs : HeldByWq(i) \/ HeldByTdr(i) => ~Unfinished(i)
      BY <2>1, Zenon DEF IInv, UnfinishedInv
    <3>2. \A i \in Jobs : Unfinished(i) => i \in pending
      BY <3>1, Zenon DEF IInv, StartedIsHeldOnce
    <3>3. pending # {} => armed'
      BY <1>6, Zenon DEF TdrEnd, StartTimeout
    <3> QED BY <2>5, <3>2, <3>3, Zenon DEF TimeoutIsArmed
  <2> QED BY <1>0, <2>6, <2>7, <2>8, <2>9, <2>10, <2>11, <2>12, <2>13, <2>14,
             <2>15, Zenon DEF IInv
<1> QED BY <1>1, <1>2, <1>3, <1>4, <1>5, <1>6, Zenon DEF Timeout

\* Removal.
LEMMA RemovalStep ==
  ASSUME OneIsCounted, IInv, Removal
  PROVE  TypeOK' => IInv'
<1>0. SUFFICES ASSUME TypeOK' PROVE IInv'
  BY Zenon
<1>1. CASE Remove
  BY <1>0, <1>1, ControlFrame, Zenon
  DEF Remove, IInv, ThreadInv, RemovalInv, NoWarning, TimeoutIsArmed
<1>2. CASE FiniCancelTdr
  BY <1>0, <1>2, ControlFrame, Zenon
  DEF FiniCancelTdr, IInv, ThreadInv, RemovalInv, NoWarning, TimeoutIsArmed
<1>3. CASE FiniPark
  BY <1>0, <1>3, ControlFrame, Zenon
  DEF FiniPark, IInv, ThreadInv, RemovalInv, NoWarning, TimeoutIsArmed
<1>4. CASE FiniStop
  BY <1>0, <1>4, ControlFrame, Zenon
  DEF FiniStop, IInv, ThreadInv, RemovalInv, NoWarning, TimeoutIsArmed
<1>5. CASE FiniSyncTdr
  BY <1>0, <1>5, ControlFrame, Zenon
  DEF FiniSyncTdr, IInv, ThreadInv, RemovalInv, NoWarning, TimeoutIsArmed
<1>6. CASE FiniAbort
  BY <1>0, <1>6, ControlFrame, Zenon
  DEF FiniAbort, JobAbort, IInv, ThreadInv, RemovalInv, NoWarning,
  TimeoutIsArmed
<1>7. CASE FiniRetire
  <2> DEFINE heard == (pending \ hwSignaled) \cap listening
  <2>1. /\ tdr = "idle" /\ tdrJob = NoJob /\ wq = "idle" /\ wqJob = NoJob
        /\ active = NoJob /\ ~free_guilty
    BY <1>7, Zenon DEF FiniRetire, IInv, RemovalInv, ThreadInv
  <2>2. \A i \in Jobs : /\ Unfinished(i) <=> i \in heard
                        /\ i \in listening => i \in heard
    BY <2>1, Zenon DEF IInv, UnfinishedInv
  <2>3. \A i \in Jobs : /\ finished'[i] = IF i \in heard THEN "ENODEV"
                                         ELSE finished[i]
                        /\ life'[i] = IF i \in pending THEN "freed" ELSE life[i]
    BY <1>7, Zenon DEF FiniRetire, Retired
  <2>4. \A i \in Jobs : i \in pending <=> life[i] = "started"
    BY <2>1, Zenon DEF IInv, StartedIsHeldOnce
  <2>5. pending' = {} /\ listening' = {}
    BY <1>7, <2>2, Zenon DEF FiniRetire, Retired, IInv, TypeOK
  <2>6. \A i \in Jobs : life'[i] # "started"
    BY <2>3, <2>4, Zenon
  <2>7. \A i \in Jobs : LifeInv(i)'
    <3>1. ASSUME NEW i \in Jobs, i \notin pending PROVE LifeInv(i)'
      BY <1>7, <2>3, <3>1, LifeFrame, Zenon DEF FiniRetire, IInv
    <3>2. ASSUME NEW i \in Jobs, i \in pending PROVE LifeInv(i)'
      BY <1>7, <2>2, <2>3, <2>4, <3>2, LifeStarted, Zenon
         DEF FiniRetire, IInv
    <3> QED BY <3>1, <3>2, Zenon
  <2>8. \A i \in Jobs : UnfinishedInv(i)'
    BY <1>7, <2>1, <2>5, <2>6, Zenon DEF FiniRetire, UnfinishedInv
  <2>9. ThreadInv'
    BY <1>7, Zenon DEF FiniRetire, IInv, ThreadInv
  <2>10. RemovalInv'
    BY <1>7, Zenon DEF FiniRetire, IInv, RemovalInv
  <2>11. ActiveIsUnfinished' /\ NoWarning'
    BY <1>7, <2>1, Zenon DEF FiniRetire, ActiveIsUnfinished, NoWarning
  <2>12. StartedIsHeldOnce'
    BY <1>7, <2>1, <2>5, <2>6, Zenon DEF FiniRetire, StartedIsHeldOnce
  <2>13. OneCredit'
    <3>1. Cardinality(heard) = IF heard = {} THEN 0 ELSE 1
      <4>1. \A x, y \in heard : x = y
        BY <2>2, Zenon DEF IInv, TypeOK, OneCredit
      <4>2. heard \in SUBSET Jobs
        BY Zenon DEF IInv, TypeOK
      <4> QED BY <4>1, <4>2, Zenon DEF OneIsCounted
    <3>2. credit_count = IF heard = {} THEN 0 ELSE 1
      <4>1. (\E i \in Jobs : Unfinished(i)) <=> heard # {}
        BY <2>2, Zenon DEF IInv, TypeOK
      <4> QED BY <2>1, <4>1, Zenon DEF IInv, OneCredit
    <3>3. credit_count' = 0
      BY <1>7, <3>1, <3>2 DEF FiniRetire, Retired
    <3> QED BY <2>6, <3>3, Zenon DEF OneCredit
  <2>14. CompletionIsHeard'
    <3>1. hwSignaled' \subseteq Jobs
      BY <1>0, Zenon DEF TypeOK
    <3> QED BY <2>6, <3>1, Zenon DEF CompletionIsHeard
  <2>15. TimeoutIsArmed'
    BY <2>6, Zenon DEF TimeoutIsArmed
  <2> QED BY <1>0, <2>7, <2>8, <2>9, <2>10, <2>11, <2>12, <2>13, <2>14, <2>15,
             Zenon
          DEF IInv
<1> QED BY <1>1, <1>2, <1>3, <1>4, <1>5, <1>6, <1>7, Zenon DEF Removal
=============================================================================
