-------------------------- MODULE StrelaJobRefines --------------------------
(***************************************************************************)
(* That StrelaJob implements StrelaQueue, for any number of clients and of *)
(* jobs.  Every step of the driver and of the scheduler is one step of the *)
(* queue or leaves it alone.  The steps that finish several jobs in the    *)
(* code (drm_sched_start, strela_job_fini) finish at most one here: IInv   *)
(* says that there is at most one unfinished job.  Also, that a job waits  *)
(* for the one it depends on when a client has one ioctl at a time, and    *)
(* that the variables of StrelaJob keep their types.                       *)
(*                                                                         *)
(* And that the simulated device and the CGRA are devices StrelaJob        *)
(* allows, and serve the job that is on the device and no other: the steps *)
(* of StrelaSim preserve SimInv and those of StrelaHw preserve HwInv,      *)
(* given that IInv holds before and after the step.                        *)
(***************************************************************************)
EXTENDS StrelaSim, StrelaHw, TLAPS

-----------------------------------------------------------------------------
(* Each backend is one of the devices StrelaJob allows. *)

\* The simulated device: a step of the worker ends a phase or is its own affair.
LEMMA SimNextIsNext ==
  ASSUME [SimNext]_simAllVars
  PROVE  [Next]_vars
<1>1. SimHwStop => TdrHwStop \/ FiniHwStop
  BY Zenon DEF SimHwStop
<1>2. SimWork => (\E p \in Phases : PhaseDone(p)) \/ UNCHANGED vars
  BY Zenon DEF SimWork, SimTakeJob, SimAborted, SimConfigDone, SimBypassColumn,
         SimExecDone, SimStarved, SimReturned, Phases
<1>3. SimRunJob \/ SimRaiseAbort \/ SimQuiet => RunJob \/ UNCHANGED vars
  BY Zenon DEF SimRunJob, SimRaiseAbort, SimQuiet, simAllVars
<1>4. UNCHANGED simAllVars => UNCHANGED vars
  BY Zenon DEF simAllVars
<1> QED BY <1>1, <1>2, <1>3, <1>4, Zenon DEF SimNext, Next

\* The CGRA: the interrupt thread ends a phase, the engine does nothing the
\* driver sees.
LEMMA HwNextIsNext ==
  ASSUME [HwNext]_hwAllVars
  PROVE  [Next]_vars
<1>1. HwRunJob => RunJob
  BY Zenon DEF HwRunJob
<1>2. HwStop => TdrHwStop \/ FiniHwStop
  BY Zenon DEF HwStop
<1>3. EngineLoaded \/ EngineDone \/ IrqHandler => UNCHANGED vars
  BY Zenon DEF EngineLoaded, EngineDone, IrqHandler
<1>4. IrqThread => \E p \in Phases : PhaseDone(p)
  BY Zenon DEF IrqThread, Reported, Phases
<1>5. UNCHANGED hwAllVars => UNCHANGED vars
  BY Zenon DEF hwAllVars
<1> QED BY <1>1, <1>2, <1>3, <1>4, <1>5, Zenon DEF HwNext, HwQuiet, Next

-----------------------------------------------------------------------------
(* Dependencies: DependencyInv, on top of IInv. *)

\* How a job may move on once its ioctl is over or has failed, without a change of
\* what it depends on; and what may be said to be scheduled.
Moved ==
  /\ UNCHANGED <<client, dep, pushed, pushes>>
  /\ \A j \in Jobs :
       \/ life'[j] = life[j]
       \/ life[j] = "init" /\ life'[j] = "freed"
       \/ life[j] = "queued" /\ life'[j] = "killed"
       \/ life[j] \in {"started", "killed"} /\ life'[j] = "freed"

Started(S) == \A j \in S : life'[j] \in {"started", "freed"} /\ pushed[j] > 0

\* Steps that only move jobs on, and schedule some that started, keep DependencyInv.
LEMMA DependencyFrame ==
  ASSUME IInv, DependencyInv, Moved,
         \A j \in Jobs : finished[j] # "none" => finished'[j] # "none",
         NEW S \in SUBSET Jobs, scheduled' = scheduled \cup S, Started(S)
  PROVE  DependencyInv'
<1>1. ASSUME NEW i \in Jobs, NEW j \in Jobs,
             {life'[i], life'[j]} \subseteq {"init", "armed"},
             client'[i] = client'[j]
      PROVE  i = j
  <2>1. life'[i] = life[i] /\ life'[j] = life[j]
    BY <1>1, Zenon DEF Moved
  <2>2. QED BY <1>1, <2>1 DEF DependencyInv, Moved
<1>2. ASSUME NEW j \in Jobs, dep[j] # NoJob
      PROVE  /\ life'[j] \notin {"unused", "init"}
             /\ life'[dep[j]] \notin {"unused", "init"}
             /\ client[dep[j]] = client[j] =>
                  /\ pushed[dep[j]] > 0
                  /\ pushed[j] > 0 => pushed[dep[j]] < pushed[j]
             /\ life'[j] = "started" => finished'[dep[j]] # "none"
  <2>1. dep[j] \in Jobs
    BY <1>2, Zenon DEF IInv, TypeOK
  <2>2. QED BY <1>2, <2>1 DEF DependencyInv, Moved
<1>3. ASSUME NEW j \in Jobs
      PROVE  /\ pushed[j] <= pushes
             /\ j \in scheduled' => life'[j] \in {"started", "freed"} /\ pushed[j] > 0
  BY Zenon DEF DependencyInv, Moved, Started
<1>4. QED BY <1>1, <1>2, <1>3, Zenon DEF DependencyInv, Moved

\* The submit ioctl, one at a time for each client.
LEMMA DependencyIoctl ==
  ASSUME MaxIoctls = 1, \A c \in Clients : Cardinality(InFlight(c)) < 1 => InFlight(c) = {},
         IInv, DependencyInv,
         \/ \E c \in Clients : SubmitInit(c)
         \/ \E j \in Jobs : \E d \in Jobs \cup {NoJob} : SubmitArm(j, d)
         \/ \E j \in Jobs : SubmitPush(j)
  PROVE  DependencyInv'
<1>0. /\ \A j \in Jobs : LifeInv(j) /\ dep[j] \in Jobs \cup {NoJob} /\ pushed[j] \in Nat
      /\ DOMAIN life = Jobs /\ DOMAIN client = Jobs /\ DOMAIN dep = Jobs
      /\ DOMAIN pushed = Jobs /\ pushes \in Nat
  BY Zenon DEF IInv, TypeOK
<1>1. ASSUME NEW c \in Clients, SubmitInit(c) PROVE DependencyInv'
  <2>1. PICK k \in Jobs : k = fence_seqno + 1
    BY <1>1, Zenon DEF SubmitInit
  <2>2. /\ life' = [life EXCEPT ![k] = "init"] /\ client' = [client EXCEPT ![k] = c]
        /\ UNCHANGED <<dep, pushed, pushes, scheduled, finished>>
        /\ InFlight(c) = {}
    BY <1>1, <2>1, Zenon DEF SubmitInit, orderVars, fenceVars
  <2>3. life[k] = "unused"
    BY <1>0, <2>1 DEF LifeInv, IInv, TypeOK
  <2>4. ASSUME NEW i \in Jobs, NEW j \in Jobs,
               {life'[i], life'[j]} \subseteq {"init", "armed"},
               client'[i] = client'[j]
        PROVE  i = j
    <3>1. \A h \in Jobs \ {k} : client[h] = c => life[h] \notin {"init", "armed"}
      BY <2>2, Zenon DEF InFlight
    <3>2. QED BY <1>0, <2>2, <2>4, <3>1, Zenon DEF DependencyInv
  <2>5. ASSUME NEW j \in Jobs, dep[j] # NoJob
        PROVE  j # k /\ dep[j] # k /\ dep[j] \in Jobs
    BY <1>0, <2>3, <2>5, Zenon DEF DependencyInv
  <2>6. ASSUME NEW j \in Jobs, dep[j] # NoJob
        PROVE  /\ life'[j] = life[j] /\ life'[dep[j]] = life[dep[j]]
               /\ client'[j] = client[j] /\ client'[dep[j]] = client[dep[j]]
    BY <1>0, <2>2, <2>5, <2>6, Zenon
  <2>7. ASSUME NEW j \in Jobs, j \in scheduled
        PROVE  life'[j] \in {"started", "freed"} /\ pushed[j] > 0
    BY <1>0, <2>2, <2>3, <2>7, Zenon DEF DependencyInv
  <2>8. QED BY <2>2, <2>4, <2>6, <2>7 DEF DependencyInv
<1>2. ASSUME NEW k \in Jobs, NEW d \in Jobs \cup {NoJob}, SubmitArm(k, d)
      PROVE  DependencyInv'
  <2>1. /\ life[k] = "init" /\ life' = [life EXCEPT ![k] = "armed"]
        /\ dep' = [dep EXCEPT ![k] = d] /\ d \in Published \cup {NoJob}
        /\ UNCHANGED <<client, pushed, pushes, scheduled, finished>>
    BY <1>2, Zenon DEF SubmitArm, orderVars, fenceVars
  <2>2. ASSUME NEW i \in Jobs, NEW j \in Jobs,
               {life'[i], life'[j]} \subseteq {"init", "armed"},
               client'[i] = client'[j]
        PROVE  i = j
    BY <1>0, <2>1, <2>2 DEF DependencyInv
  <2>3. ASSUME d # NoJob
        PROVE  /\ d # k /\ d \in Jobs /\ life[d] \notin {"unused", "init"}
               /\ client[d] = client[k] => pushed[d] > 0
    BY <1>0, <2>1, <2>3 DEF Published, LifeInv, DependencyInv
  <2>4. pushed[k] = 0
    BY <1>0, <2>1, Zenon DEF LifeInv
  <2>5. \A j \in Jobs : j \in scheduled =>
          life'[j] \in {"started", "freed"} /\ pushed[j] > 0
    BY <1>0, <2>1, Zenon DEF DependencyInv
  <2>6. ASSUME NEW j \in Jobs, dep'[j] # NoJob
        PROVE  /\ life'[j] \notin {"unused", "init"}
               /\ life'[dep'[j]] \notin {"unused", "init"}
               /\ client[dep'[j]] = client[j] =>
                    /\ pushed[dep'[j]] > 0
                    /\ pushed[j] > 0 => pushed[dep'[j]] < pushed[j]
               /\ life'[j] = "started" => finished[dep'[j]] # "none"
    <3>1. CASE j = k
      BY <1>0, <2>1, <2>3, <2>4, <2>6, <3>1
    <3>2. CASE j # k
      <4>1. dep'[j] = dep[j] /\ dep[j] \in Jobs /\ dep[j] # k /\ life'[j] = life[j]
        BY <1>0, <2>1, <2>6, <3>2, Zenon DEF DependencyInv
      <4>2. life'[dep[j]] = life[dep[j]]
        BY <1>0, <2>1, <4>1, Zenon
      <4>3. QED BY <2>6, <4>1, <4>2, Zenon DEF DependencyInv
    <3>3. QED BY <3>1, <3>2, Zenon
  <2>7. QED BY <2>1, <2>2, <2>5, <2>6 DEF DependencyInv
<1>3. ASSUME NEW k \in Jobs, SubmitPush(k) PROVE DependencyInv'
  <2>1. /\ life[k] = "armed" /\ life' = [life EXCEPT ![k] = "queued"]
        /\ pushed' = [pushed EXCEPT ![k] = pushes + 1] /\ pushes' = pushes + 1
        /\ UNCHANGED <<client, dep, scheduled, finished>>
    BY <1>3, Zenon DEF SubmitPush, fenceVars
  <2>2. pushed[k] = 0
    BY <1>0, <2>1, Zenon DEF LifeInv
  <2>3. ASSUME NEW i \in Jobs, NEW j \in Jobs,
               {life'[i], life'[j]} \subseteq {"init", "armed"},
               client'[i] = client'[j]
        PROVE  i = j
    BY <1>0, <2>1, <2>3, Zenon DEF DependencyInv
  <2>4. ASSUME NEW j \in Jobs
        PROVE  /\ pushed'[j] <= pushes'
               /\ j \in scheduled => life'[j] \in {"started", "freed"} /\ pushed'[j] > 0
    BY <1>0, <2>1 DEF DependencyInv
  <2>5. ASSUME NEW j \in Jobs, dep[j] # NoJob
        PROVE  /\ life'[j] \notin {"unused", "init"}
               /\ life'[dep[j]] \notin {"unused", "init"}
               /\ life'[j] = "started" => finished[dep[j]] # "none"
    BY <1>0, <2>1, <2>5, Zenon DEF DependencyInv
  <2>6. ASSUME NEW j \in Jobs, dep[j] # NoJob, client[dep[j]] = client[j]
        PROVE  /\ pushed'[dep[j]] > 0
               /\ pushed'[j] > 0 => pushed'[dep[j]] < pushed'[j]
    <3>1. dep[j] \in Jobs \ {k} /\ pushed[dep[j]] > 0 /\ pushed[dep[j]] <= pushes
      BY <1>0, <2>2, <2>6 DEF DependencyInv
    <3>2. pushed'[dep[j]] = pushed[dep[j]]
      BY <1>0, <2>1, <3>1, Zenon
    <3>3. CASE j = k
      BY <1>0, <2>1, <3>1, <3>2, <3>3
    <3>4. CASE j # k
      BY <1>0, <2>1, <2>6, <3>2, <3>4, Zenon DEF DependencyInv
    <3>5. QED BY <3>3, <3>4, Zenon
  <2>7. QED BY <2>1, <2>3, <2>4, <2>5, <2>6 DEF DependencyInv
<1>4. QED BY <1>1, <1>2, <1>3, Zenon

\* A job starts after the job it depends on: with the credit free no job is
\* unfinished, and one that is ahead in the queue or scheduled has started.
LEMMA DependencyRun ==
  ASSUME IInv, DependencyInv, NEW k \in Jobs, RunJobWork(k)
  PROVE  DependencyInv'
<1>1. /\ \A j \in Jobs : LifeInv(j) /\ dep[j] \in Jobs \cup {NoJob} /\ pushed[j] \in Nat
      /\ DOMAIN life = Jobs
  BY Zenon DEF IInv, TypeOK
<1>2. /\ life[k] = "queued" /\ life' = [life EXCEPT ![k] = "started"]
      /\ UNCHANGED <<client, dep, pushed, pushes, scheduled, finished>>
      /\ IsHead(k) /\ DependencyReady(k) /\ ~ pause_submit /\ credit_count < 1
  BY Zenon DEF RunJobWork, fenceVars, CreditLimit
<1>3. \A j \in Jobs : ~ Unfinished(j)
  BY <1>2 DEF IInv, OneCredit, ThreadInv, Suspended
<1>4. ASSUME dep[k] # NoJob PROVE finished[dep[k]] # "none"
  <2>1. dep[k] \in Jobs
    BY <1>1, <1>4, Zenon
  <2>2. CASE dep[k] \in scheduled
    BY <1>1, <1>3, <2>1, <2>2 DEF DependencyInv, LifeInv, Unfinished
  <2>3. CASE client[dep[k]] = client[k]
    <3>1. pushed[dep[k]] > 0 /\ pushed[dep[k]] < pushed[k]
      BY <1>1, <1>2, <1>4, <2>3, Zenon DEF DependencyInv, LifeInv
    <3>2. life[dep[k]] # "queued"
      BY <1>1, <1>2, <2>1, <2>3, <3>1 DEF IsHead, Queue
    <3>3. life[dep[k]] # "killed"
      BY <1>1, <1>2, <2>1, <2>3, Zenon DEF LifeInv
    <3>4. life[dep[k]] \in {"started", "freed"}
      BY <1>1, <2>1, <3>1, <3>2, <3>3 DEF LifeInv, IInv, TypeOK, Lives
    <3>5. QED BY <1>1, <1>3, <2>1, <3>1, <3>4 DEF LifeInv, Unfinished
  <2>4. QED BY <1>2, <1>4, <2>2, <2>3, Zenon DEF DependencyReady
<1>5. ASSUME NEW i \in Jobs, NEW j \in Jobs,
             {life'[i], life'[j]} \subseteq {"init", "armed"},
             client'[i] = client'[j]
      PROVE  i = j
  BY <1>1, <1>2, <1>5, Zenon DEF DependencyInv
<1>6. ASSUME NEW j \in Jobs, j \in scheduled
      PROVE  life'[j] \in {"started", "freed"} /\ pushed[j] > 0
  BY <1>1, <1>2, <1>6, Zenon DEF DependencyInv
<1>7. ASSUME NEW j \in Jobs, dep[j] # NoJob
      PROVE  /\ life'[j] \notin {"unused", "init"}
             /\ life'[dep[j]] \notin {"unused", "init"}
             /\ life'[j] = "started" => finished[dep[j]] # "none"
  BY <1>1, <1>2, <1>4, <1>7, Zenon DEF DependencyInv
<1>8. QED BY <1>2, <1>5, <1>6, <1>7 DEF DependencyInv

\* All other steps leave the order alone.
LEMMA DependencyStep ==
  ASSUME MaxIoctls = 1, \A c \in Clients : Cardinality(InFlight(c)) < 1 => InFlight(c) = {},
         IInv, DependencyInv, [Next]_vars,
         \A j \in Jobs : finished[j] # "none" => finished'[j] # "none"
  PROVE  DependencyInv'
<1>0. /\ \A j \in Jobs : LifeInv(j) /\ (HeldByWq(j) => life[j] = "started")
      /\ \A j \in pending : life[j] = "started"
      /\ wqJob # NoJob => life[wqJob] = "started"
      /\ \A j \in Jobs : HeldByTdr(j) => life[j] = "started"
      /\ DOMAIN life = Jobs /\ pending \subseteq Jobs
  BY Zenon DEF IInv, TypeOK, StartedIsHeldOnce, HeldByList
<1>1. CASE Moved /\ scheduled' = scheduled
  <2>1. scheduled' = scheduled \cup {} /\ Started({})
    BY <1>1, Zenon DEF Started
  <2>2. QED BY <1>1, <2>1, DependencyFrame, Zenon
<1>2. CASE \E j \in Jobs : SubmitFail(j)
  BY <1>0, <1>1, <1>2, Zenon DEF SubmitFail, orderVars, fenceVars, Moved
<1>3. CASE \E c \in Clients : DestroyEntity(c)
  BY <1>0, <1>1, <1>3 DEF DestroyEntity, Queue, orderVars, fenceVars, Moved
<1>4. ASSUME NEW k \in Jobs, KillJob(k) PROVE DependencyInv'
  <2>1. Moved /\ scheduled' = scheduled \cup {k} /\ Started({k})
    BY <1>0, <1>4 DEF KillJob, LifeInv, orderVars, Moved, Started
  <2>2. QED BY <2>1, DependencyFrame, Zenon
<1>5. CASE RunJobReturn
  <2>1. PICK k \in Jobs : k = wqJob
    BY <1>5, Zenon DEF RunJobReturn, IInv, TypeOK, ThreadInv
  <2>2. Moved /\ scheduled' = scheduled \cup {k} /\ Started({k})
    BY <1>0, <1>5, <2>1 DEF RunJobReturn, jobVars, orderVars, LifeInv, Moved,
       Started,
                            NoJob, Jobs
  <2>3. QED BY <2>2, DependencyFrame, Zenon
<1>6. CASE FreeJob
  BY <1>0, <1>1, <1>6, Zenon DEF FreeJob, HeldByWq, orderVars, fenceVars, Moved
<1>7. CASE TdrStop \/ FiniRetire
  BY <1>0, <1>1, <1>7 DEF TdrStop, FiniRetire, orderVars, Moved
<1>8. CASE TdrEnd
  BY <1>0, <1>1, <1>8, Zenon DEF TdrEnd, HeldByTdr, orderVars, fenceVars, Moved
<1>9. CASE \/ \E c \in Clients : OpenFile(c) \/ CloseFile(c)
           \/ \E j \in Jobs : FreeJobWork(j) \/ TimerExpires(j)
           \/ TdrPark \/ TdrAbort \/ TdrStart
           \/ Remove \/ FiniCancelTdr \/ FiniPark \/ FiniStop \/ FiniSyncTdr \/ FiniAbort
           \/ RunJob \/ TdrHwStop \/ FiniHwStop \/ \E p \in Phases : PhaseDone(p)
           \/ UNCHANGED vars
  <2>1. UNCHANGED <<jobVars, orderVars, scheduled>>
    BY <1>9, Zenon
    DEF OpenFile, CloseFile, FreeJobWork, TimerExpires, TdrPark, TdrAbort,
    TdrStart,
        Remove, FiniCancelTdr, FiniPark, FiniStop, FiniSyncTdr, FiniAbort, RunJob,
        TdrHwStop, FiniHwStop, PhaseDone, PhaseDoneConfig, PhaseDoneExec,
        PhaseDoneSpurious, vars, fenceVars
  <2>2. QED BY <1>1, <2>1, Zenon DEF jobVars, orderVars, Moved
<1>10. QED
  BY <1>2, <1>3, <1>4, <1>5, <1>6, <1>7, <1>8, <1>9, DependencyIoctl,
     DependencyRun,
     Zenon
  DEF Next, DriverNext, Ioctls, Files, SchedulerWork, Timeout, Removal

\* No job has a dependency before it is submitted.
LEMMA DependencyInit == Init => DependencyInv
BY DEF Init, DependencyInv

\* A scheduled job depends on one that was pushed before it, hence finished first.
LEMMA DependencyImplies == IInv /\ DependencyInv => DependencyHeldBack
BY Zenon DEF IInv, TypeOK, ActiveIsUnfinished, Unfinished, DependencyInv,
   DependencyHeldBack

-----------------------------------------------------------------------------
USE DEF vars, devVars, jobVars, orderVars, schedVars, fenceVars, threadVars,
        Jobs, NoJob,
        Unfinished, Resetting, Suspended, HeldByList, HeldByWq, HeldByTdr

-----------------------------------------------------------------------------
(* The ways in which a step of StrelaJob can change the queue. *)

\* A step is invisible if it signals no fence, gives no job a client or a place
\* and leaves the stage of every job as it is.
LEMMA QueueFrame ==
  ASSUME UNCHANGED <<client, pushed, pushes, finished>>,
         \A i \in Jobs : Stage(i)' = Stage(i)
  PROVE  UNCHANGED Q!queueVars
<1>1. [i \in Jobs |-> Stage(i)]' = [i \in Jobs |-> Stage(i)]
  BY Zenon
<1> QED BY <1>1, Zenon DEF Q!queueVars

\* The stages after a step that moves one job.
LEMMA StageMoves ==
  ASSUME NEW j \in Jobs, NEW s, Stage(j)' = s,
         \A i \in Jobs : i # j => Stage(i)' = Stage(i)
  PROVE  [i \in Jobs |-> Stage(i)]' =
           [[i \in Jobs |-> Stage(i)] EXCEPT ![j] = s]
BY Zenon

\* A fence signals: the job it belongs to is done, whatever becomes of it, and
\* so is any other job that is freed in the same step.
LEMMA FenceFinishes ==
  ASSUME IInv, NEW j \in Jobs, NEW o, o # "none",
         finished' = [finished EXCEPT ![j] = o],
         UNCHANGED <<client, pushed, pushes>>,
         \A i \in Jobs : i # j => life'[i] = life[i] \/ finished[i] # "none"
  PROVE  Q!Finish(j, o)
<1>1. finished \in [Jobs -> Outcomes]
  BY Zenon DEF IInv, TypeOK
<1>2. Stage(j)' = "done"
  BY <1>1, Zenon DEF Stage
<1>3. \A i \in Jobs : i # j => Stage(i)' = Stage(i)
  BY <1>1, Zenon DEF Stage
<1>4. [i \in Jobs |-> Stage(i)]' =
        [[i \in Jobs |-> Stage(i)] EXCEPT ![j] = "done"]
  BY <1>2, <1>3, StageMoves, Zenon
<1> QED BY <1>4, Zenon DEF Q!Finish

\* The unfinished job is done: its fence signals with ok ...
LEMMA UnfinishedCompletes ==
  ASSUME IInv, NEW j \in Jobs, Unfinished(j),
         finished' = [finished EXCEPT ![j] = "ok"],
         UNCHANGED <<client, pushed, pushes, life>>
  PROVE  Q!QNext
<1>1. Q!Finish(j, "ok")
  BY FenceFinishes, Zenon
<1>2. [i \in Jobs |-> Stage(i)][j] = "running"
  BY Zenon DEF Stage
<1>3. Q!Complete(j)
  BY <1>1, <1>2, Zenon DEF Q!Complete
<1> QED BY <1>3, Zenon DEF Q!QNext, Q!Jobs

\* ... or with an error.
LEMMA UnfinishedFails ==
  ASSUME IInv, NEW j \in Jobs, Unfinished(j),
         NEW o \in {"ECANCELED", "ENODEV"},
         finished' = [finished EXCEPT ![j] = o],
         UNCHANGED <<client, pushed, pushes>>,
         \A i \in Jobs : i # j => life'[i] = life[i] \/ finished[i] # "none"
  PROVE  Q!QNext
<1>1. Q!Finish(j, o)
  BY FenceFinishes, Zenon
<1>2. [i \in Jobs |-> Stage(i)][j] = "running"
  BY Zenon DEF Stage
<1>3. Q!Fail(j)
  BY <1>1, <1>2, Zenon DEF Q!Fail, Q!Failures
<1> QED BY <1>3, Zenon DEF Q!QNext, Q!Jobs

-----------------------------------------------------------------------------
(* One step for each action. *)

\* The submit ioctl claims a job and enqueues it.
LEMMA IoctlsRefine ==
  ASSUME IInv, Ioctls
  PROVE  Q!QNext \/ UNCHANGED Q!queueVars
<1>1. ASSUME NEW c \in Clients, SubmitInit(c) PROVE Q!QNext
  <2> DEFINE j == fence_seqno + 1
  <2>1. j \in Jobs /\ j > fence_seqno
    BY <1>1 DEF SubmitInit, IInv, TypeOK
  <2>2. life[j] = "unused" /\ client[j] = NoClient /\ finished[j] = "none"
    BY <2>1, Zenon DEF IInv, LifeInv
  <2>3. \A i \in Jobs : Stage(i)' = Stage(i)
    BY <1>1, <2>1, <2>2, Zenon DEF SubmitInit, Stage, IInv, TypeOK
  <2>4. [i \in Jobs |-> Stage(i)]' = [i \in Jobs |-> Stage(i)]
    BY <2>3, Zenon
  <2>5. Q!Claim(j, c)
    BY <1>1, <2>2, <2>4, Zenon DEF Q!Claim, SubmitInit
  <2> QED BY <2>1, <2>5, Zenon DEF Q!QNext, Q!Jobs
<1>2. ASSUME NEW j \in Jobs, SubmitFail(j) PROVE UNCHANGED Q!queueVars
  <2>1. \A i \in Jobs : Stage(i)' = Stage(i)
    BY <1>2, Zenon DEF SubmitFail, Stage, IInv, TypeOK
  <2> QED BY <1>2, <2>1, QueueFrame, Zenon DEF SubmitFail
<1>3. ASSUME NEW j \in Jobs, NEW d \in Jobs \cup {NoJob}, SubmitArm(j, d)
      PROVE  UNCHANGED Q!queueVars
  <2>1. \A i \in Jobs : Stage(i)' = Stage(i)
    BY <1>3, Zenon DEF SubmitArm, Stage, IInv, TypeOK
  <2> QED BY <1>3, <2>1, QueueFrame, Zenon DEF SubmitArm
<1>4. ASSUME NEW j \in Jobs, SubmitPush(j) PROVE Q!QNext
  <2>1. client[j] # NoClient /\ finished[j] = "none"
    BY <1>4, Zenon DEF SubmitPush, IInv, LifeInv
  <2>2. Stage(j) = "none" /\ Stage(j)' = "queued"
    BY <1>4, <2>1, Zenon DEF SubmitPush, Stage, IInv, TypeOK
  <2>3. \A i \in Jobs : i # j => Stage(i)' = Stage(i)
    BY <1>4, Zenon DEF SubmitPush, Stage, IInv, TypeOK
  <2>4. [i \in Jobs |-> Stage(i)]' =
          [[i \in Jobs |-> Stage(i)] EXCEPT ![j] = "queued"]
    BY <2>2, <2>3, StageMoves
  <2>5. Q!Enqueue(j)
    BY <1>4, <2>1, <2>2, <2>4, Zenon DEF Q!Enqueue, SubmitPush
  <2> QED BY <2>5, Zenon DEF Q!QNext, Q!Jobs
<1> QED BY <1>1, <1>2, <1>3, <1>4, Zenon DEF Ioctls

\* Closing a file discards what is left in its queue.
LEMMA FilesRefine ==
  ASSUME IInv, Files
  PROVE  Q!QNext \/ UNCHANGED Q!queueVars
<1>1. ASSUME NEW c \in Clients, OpenFile(c) \/ CloseFile(c)
      PROVE  UNCHANGED Q!queueVars
  <2>1. UNCHANGED <<client, pushed, pushes, finished, life>>
    BY <1>1, Zenon DEF OpenFile, CloseFile
  <2> QED BY <2>1, QueueFrame, Zenon DEF Stage
<1>2. ASSUME NEW c \in Clients, DestroyEntity(c)
      PROVE  UNCHANGED Q!queueVars
  <2>1. \A i \in Jobs : Stage(i)' = Stage(i)
    BY <1>2, Zenon DEF DestroyEntity, Queue, Stage
  <2> QED BY <1>2, <2>1, QueueFrame, Zenon DEF DestroyEntity
<1>3. ASSUME NEW j \in Jobs, KillJob(j) PROVE Q!QNext
  <2>1. Q!Finish(j, "ESRCH")
    BY <1>3, FenceFinishes, Zenon DEF KillJob, IInv, TypeOK
  <2>2. [i \in Jobs |-> Stage(i)][j] = "queued"
    BY <1>3, Zenon DEF KillJob, Stage, IInv, LifeInv
  <2>3. \A i \in Q!Before(j) : [k \in Jobs |-> Stage(k)][i] = "done"
    BY <1>3, Zenon DEF KillJob, Ahead, Stage, Q!Before, Q!Jobs
  <2>4. Q!Discard(j)
    BY <2>1, <2>2, <2>3, Zenon DEF Q!Discard
  <2> QED BY <2>4, Zenon DEF Q!QNext, Q!Jobs
<1> QED BY <1>1, <1>2, <1>3, Zenon DEF Files

\* When the scheduler takes a job, no job is unfinished.
LEMMA NothingIsRunning ==
  ASSUME IInv, ~pause_submit, credit_count < CreditLimit, NEW i \in Jobs
  PROVE  ~Unfinished(i)
<1>1. ~Resetting
  BY Zenon DEF IInv, ThreadInv
<1> QED BY <1>1 DEF IInv, OneCredit, CreditLimit

\* ... and those its client pushed before it are done: the one at the head of
\* the queue has none ahead in the queue, and a killed job's queue is empty.
LEMMA HeadIsNext ==
  ASSUME IInv, NEW j \in Jobs, RunJobWork(j), NEW i \in Jobs,
         client[i] = client[j], pushed[i] > 0, pushed[i] < pushed[j]
  PROVE  finished[i] # "none"
<1>1. life[i] # "queued"
  <2>1. pushed[i] \in Nat /\ pushed[j] \in Nat
    BY Zenon DEF IInv, TypeOK
  <2>2. \A k \in Queue(client[j]) : pushed[j] <= pushed[k]
    BY Zenon DEF RunJobWork, IsHead
  <2> QED BY <2>1, <2>2 DEF Queue
<1>2. life[i] # "killed"
  BY Zenon DEF RunJobWork, IInv, LifeInv
<1>3. life[i] = "started" => finished[i] # "none"
  BY NothingIsRunning, Zenon DEF RunJobWork
<1>4. life[i] \notin {"unused", "init", "armed"}
  BY DEF IInv, LifeInv
<1>5. life[i] = "freed" => finished[i] # "none"
  BY DEF IInv, LifeInv
<1> QED BY <1>1, <1>2, <1>3, <1>4, <1>5, Zenon DEF IInv, TypeOK, Lives

\* The scheduler's workqueue starts a job and, if it is late, completes it.
LEMMA SchedulerRefines ==
  ASSUME IInv, SchedulerWork
  PROVE  Q!QNext \/ UNCHANGED Q!queueVars
<1>1. ASSUME NEW j \in Jobs, RunJobWork(j) PROVE Q!QNext
  <2>1. finished[j] = "none"
    BY <1>1, Zenon DEF RunJobWork, IInv, LifeInv
  <2>2. Stage(j) = "queued" /\ Stage(j)' = "running"
    BY <1>1, <2>1, Zenon DEF RunJobWork, Stage, IInv, TypeOK
  <2>3. \A i \in Jobs : i # j => Stage(i)' = Stage(i)
    BY <1>1, Zenon DEF RunJobWork, Stage, IInv, TypeOK
  <2>4. [i \in Jobs |-> Stage(i)]' =
          [[i \in Jobs |-> Stage(i)] EXCEPT ![j] = "running"]
    BY <2>2, <2>3, StageMoves, Zenon
  <2>5. \A i \in Q!Before(j) : [k \in Jobs |-> Stage(k)][i] = "done"
    BY <1>1, HeadIsNext, Zenon DEF Q!Before, Q!Jobs, Stage
  <2>6. \A i \in Jobs : Stage(i) # "running"
    BY <1>1, NothingIsRunning, Zenon DEF RunJobWork, Stage
  <2>7. Q!Start(j)
    BY <1>1, <2>2, <2>4, <2>5, <2>6, Zenon DEF Q!Start, Q!Jobs, RunJobWork
  <2> QED BY <2>7, Zenon DEF Q!QNext, Q!Jobs
<1>2. CASE RunJobReturn
  <2>1. wqJob \in Jobs /\ Unfinished(wqJob)
    BY <1>2, Zenon DEF RunJobReturn, IInv, TypeOK, ThreadInv, UnfinishedInv
  <2>2. UNCHANGED <<client, pushed, pushes, life>>
    BY <1>2, Zenon DEF RunJobReturn
  <2>3. CASE finished' = [finished EXCEPT ![wqJob] = "ok"]
    BY <2>1, <2>2, <2>3, UnfinishedCompletes, Zenon
  <2>4. CASE finished' = finished
    BY <2>2, <2>4, QueueFrame, Zenon DEF Stage
  <2> QED BY <1>2, <2>3, <2>4, Zenon DEF RunJobReturn, JobDone
<1>3. ASSUME NEW j \in Jobs, FreeJobWork(j) PROVE UNCHANGED Q!queueVars
  <2>1. UNCHANGED <<client, pushed, pushes, finished, life>>
    BY <1>3, Zenon DEF FreeJobWork
  <2> QED BY <2>1, QueueFrame, Zenon DEF Stage
<1>4. CASE FreeJob
  <2>1. \A i \in Jobs : life'[i] = life[i] \/ finished[i] # "none"
    BY <1>4, Zenon DEF FreeJob, IInv, TypeOK, UnfinishedInv
  <2>2. UNCHANGED <<client, pushed, pushes, finished>>
    BY <1>4, Zenon DEF FreeJob
  <2> QED BY <2>1, <2>2, QueueFrame, Zenon DEF Stage
<1> QED BY <1>1, <1>2, <1>3, <1>4, Zenon DEF SchedulerWork

\* The timeout fails the job it keeps, if there is one, and frees what has
\* finished.
LEMMA TimeoutRefines ==
  ASSUME IInv, Timeout
  PROVE  Q!QNext \/ UNCHANGED Q!queueVars
<1>1. CASE (\E j \in Jobs : TimerExpires(j)) \/ TdrPark \/ TdrAbort
  <2>1. UNCHANGED <<client, pushed, pushes, finished, life>>
    BY <1>1, Zenon DEF TimerExpires, TdrPark, TdrAbort
  <2> QED BY <2>1, QueueFrame, Zenon DEF Stage
<1>2. CASE TdrStop
  <2> DEFINE list == pending \cup {tdrJob}
             keep == list \cap listening
  <2>1. \A i \in Jobs : life'[i] = life[i] \/ finished[i] # "none"
    <3>1. \A i \in list \ keep : finished[i] # "none"
      BY <1>2, Zenon DEF TdrStop
    <3>2. life' = [i \in Jobs |-> IF i \in list \ (keep \cup {tdrJob})
                                 THEN "freed" ELSE life[i]]
      BY <1>2, Zenon DEF TdrStop
    <3> HIDE DEF list
    <3> QED BY <3>1, <3>2, Zenon
  <2>2. UNCHANGED <<client, pushed, pushes, finished>>
    BY <1>2, Zenon DEF TdrStop
  <2> QED BY <2>1, <2>2, QueueFrame, Zenon DEF Stage
<1>3. CASE TdrStart
  <2>1. finished \in [Jobs -> Outcomes] /\ pending \subseteq Jobs
    BY Zenon DEF IInv, TypeOK
  <2>2. UNCHANGED <<client, pushed, pushes, life>>
    BY <1>3, Zenon DEF TdrStart
  <2>3. \A i \in pending : Unfinished(i)
    BY <1>3, <2>1, Zenon DEF TdrStart, IInv, UnfinishedInv
  <2>4. CASE pending = {}
    <3>1. finished' = finished
      BY <1>3, <2>1, <2>4, Zenon DEF TdrStart
    <3> QED BY <2>2, <3>1, QueueFrame, Zenon DEF Stage
  <2>5. ASSUME NEW j \in pending PROVE Q!QNext
    <3>1. \A i \in Jobs : i \in pending <=> i = j
      BY <2>1, <2>3, <2>5, Zenon DEF IInv, OneCredit
    <3>2. finished' = [finished EXCEPT ![j] = "ECANCELED"]
      BY <1>3, <2>1, <3>1, Zenon DEF TdrStart
    <3> QED BY <2>1, <2>2, <2>3, <3>2, UnfinishedFails, Zenon
  <2> QED BY <2>4, <2>5, Zenon
<1>4. CASE TdrEnd
  <2>1. \A i \in Jobs : life'[i] = life[i] \/ finished[i] # "none"
    BY <1>4, Zenon DEF TdrEnd, IInv, UnfinishedInv
  <2>2. UNCHANGED <<client, pushed, pushes, finished>>
    BY <1>4, Zenon DEF TdrEnd
  <2> QED BY <2>1, <2>2, QueueFrame, Zenon DEF Stage
<1> QED BY <1>1, <1>2, <1>3, <1>4, Zenon DEF Timeout

\* Removal fails the job it finds unfinished, if there is one.
LEMMA RemovalRefines ==
  ASSUME IInv, Removal
  PROVE  Q!QNext \/ UNCHANGED Q!queueVars
<1>1. CASE FiniRetire
  <2>1. finished \in [Jobs -> Outcomes] /\ pending \subseteq Jobs
    BY Zenon DEF IInv, TypeOK
  <2>2. UNCHANGED <<client, pushed, pushes>>
    BY <1>1, Zenon DEF FiniRetire
  <2>3. \A i \in Jobs : i \in Retired => Unfinished(i)
    BY Zenon DEF IInv, UnfinishedInv, Retired
  <2>4. \A i \in pending : i \notin Retired => finished[i] # "none"
    <3>1. wq = "idle" /\ ~Resetting
      BY <1>1, Zenon DEF FiniRetire, IInv, RemovalInv
    <3>2. \A i \in pending : life[i] = "started"
      BY <2>1, Zenon DEF IInv, StartedIsHeldOnce
    <3>3. \A i \in pending : Unfinished(i) => i \in listening /\ i \notin hwSignaled
      BY <2>1, <3>1, Zenon DEF IInv, UnfinishedInv
    <3> QED BY <3>2, <3>3, Zenon DEF Retired
  <2>5. \A i \in Jobs : i \notin Retired => life'[i] = life[i] \/ finished[i] # "none"
    BY <1>1, <2>4, Zenon DEF FiniRetire
  <2>6. CASE Retired = {}
    <3>1. finished' = finished
      BY <1>1, <2>1, <2>6, Zenon DEF FiniRetire
    <3> QED BY <2>2, <2>5, <2>6, <3>1, QueueFrame, Zenon DEF Stage
  <2>7. ASSUME NEW j \in Retired PROVE Q!QNext
    <3>1. j \in Jobs
      BY <2>1, <2>7, Zenon DEF Retired
    <3>2. \A i \in Jobs : i \in Retired <=> i = j
      BY <2>3, <2>7, <3>1, Zenon DEF IInv, OneCredit
    <3>3. finished' = [finished EXCEPT ![j] = "ENODEV"]
      BY <1>1, <2>1, <3>2, Zenon DEF FiniRetire
    <3>4. Unfinished(j)
      BY <2>3, <2>7, <3>1, Zenon
    <3> QED BY <2>2, <2>5, <3>1, <3>2, <3>3, <3>4, UnfinishedFails, Zenon
  <2> QED BY <2>6, <2>7, Zenon
<1>2. CASE Removal /\ ~FiniRetire
  <2>1. UNCHANGED <<client, pushed, pushes, finished, life>>
    BY <1>2, Zenon DEF Removal, Remove, FiniCancelTdr, FiniPark, FiniStop,
                FiniSyncTdr, FiniAbort
  <2> QED BY <2>1, QueueFrame, Zenon DEF Stage
<1> QED BY <1>1, <1>2, Zenon

\* The device completes the active job, if the scheduler is listening.
LEMMA DeviceRefines ==
  ASSUME IInv, NEW p \in Phases, RunJob \/ TdrHwStop \/ FiniHwStop \/ PhaseDone(p)
  PROVE  Q!QNext \/ UNCHANGED Q!queueVars
<1>1. CASE PhaseDoneExec
  <2>1. active \in Jobs /\ Unfinished(active)
    BY <1>1, Zenon DEF PhaseDoneExec, IInv, TypeOK, ActiveIsUnfinished
  <2>2. UNCHANGED <<client, pushed, pushes, life>>
    BY <1>1, Zenon DEF PhaseDoneExec
  <2>3. CASE finished' = [finished EXCEPT ![active] = "ok"]
    BY <2>1, <2>2, <2>3, UnfinishedCompletes, Zenon
  <2>4. CASE finished' = finished
    BY <2>2, <2>4, QueueFrame, Zenon DEF Stage
  <2> QED BY <1>1, <2>3, <2>4, Zenon DEF PhaseDoneExec, JobDone
<1>2. CASE RunJob \/ TdrHwStop \/ FiniHwStop \/ PhaseDoneConfig
           \/ PhaseDoneSpurious(p)
  <2>1. UNCHANGED <<client, pushed, pushes, finished, life>>
    BY <1>2, Zenon DEF RunJob, TdrHwStop, FiniHwStop, PhaseDoneConfig,
                PhaseDoneSpurious
  <2> QED BY <2>1, QueueFrame, Zenon DEF Stage
<1> QED BY <1>1, <1>2, Zenon DEF PhaseDone

-----------------------------------------------------------------------------
(* Any step. *)

\* No client has submitted anything.
LEMMA InitRefines == Init => Q!QInit
<1> SUFFICES ASSUME Init PROVE Q!QInit
  BY Zenon
<1>1. [i \in Jobs |-> Stage(i)] = [i \in Jobs |-> "none"]
  BY Zenon DEF Init, Stage
<1> QED BY <1>1, Zenon DEF Init, Q!QInit, Q!Jobs

\* Any step.
LEMMA NextRefines ==
  ASSUME IInv, [Next]_vars
  PROVE  [Q!QNext]_(Q!queueVars)
<1>1. CASE UNCHANGED vars
  BY <1>1, QueueFrame, Zenon DEF Stage
<1>2. CASE Next
  BY <1>2, IoctlsRefine, FilesRefine, SchedulerRefines, TimeoutRefines,
     RemovalRefines, DeviceRefines, Zenon DEF Next, DriverNext, Phases
<1> QED BY <1>1, <1>2, Zenon

-----------------------------------------------------------------------------
(* Types. *)

\* A job on the workqueue is a job: without it the type of life is not
\* inductive.
TypeInv == TypeOK /\ (wq # "idle" => wqJob \in Jobs)

\* What strela_job_phase_done reports.
LEMMA OkIsAnOutcome == "ok" \in Outcomes
  BY Zenon DEF Outcomes

\* The driver after strela_job_init.
LEMMA TypeInit == Init => TypeInv
<1> SUFFICES ASSUME Init PROVE TypeInv
  BY Zenon
<1> USE DEF Init
<1>1. /\ life \in [Jobs -> Lives]
      /\ client \in [Jobs -> Clients \cup {NoClient}]
      /\ dep \in [Jobs -> Jobs \cup {NoJob}]
      /\ finished \in [Jobs -> Outcomes]
      /\ file \in [Clients -> FileSteps]
  BY Zenon DEF Lives, Outcomes, FileSteps
<1>2. pushed \in [Jobs -> Nat] /\ begun \in [Jobs -> Nat]
  BY Zenon
<1>3. phase \in Phases /\ wq \in WqSteps /\ tdr \in TdrSteps /\ rm \in RmSteps
  BY Zenon DEF Phases, WqSteps, TdrSteps, RmSteps
<1>4. /\ fence_seqno \in 0 .. MaxJobs /\ pushes \in Nat
      /\ begins \in Nat /\ credit_count \in Int
  BY JobAssumption
<1> QED BY <1>1, <1>2, <1>3, <1>4, Zenon DEF TypeInv, TypeOK

\* One step for each action.
LEMMA TypeStep ==
  ASSUME \A S \in SUBSET Jobs : Cardinality(S) \in Nat,
         TypeInv, [Next]_vars
  PROVE  TypeInv'
<1>1. CASE Ioctls
  <2>1. ASSUME NEW c \in Clients, SubmitInit(c) PROVE TypeInv'
    <3>1. fence_seqno' \in 0 .. MaxJobs
      BY <2>1, JobAssumption DEF SubmitInit
    <3>2. life' \in [Jobs -> Lives] /\ client' \in [Jobs -> Clients \cup {NoClient}]
      BY <2>1 DEF TypeInv, TypeOK, SubmitInit, Lives
    <3> QED BY <2>1, <3>1, <3>2, Zenon DEF TypeInv, TypeOK, SubmitInit
  <2>2. ASSUME NEW j \in Jobs, SubmitFail(j) PROVE TypeInv'
    BY <2>2 DEF TypeInv, TypeOK, SubmitFail, Lives
  <2>3. ASSUME NEW j \in Jobs, NEW d \in Jobs \cup {NoJob}, SubmitArm(j, d)
        PROVE  TypeInv'
    BY <2>3 DEF TypeInv, TypeOK, SubmitArm, Lives
  <2>4. ASSUME NEW j \in Jobs, SubmitPush(j) PROVE TypeInv'
    BY <2>4 DEF TypeInv, TypeOK, SubmitPush, Lives
  <2> QED BY <1>1, <2>1, <2>2, <2>3, <2>4, Zenon DEF Ioctls
<1>2. CASE Files
  <2>1. ASSUME NEW c \in Clients, OpenFile(c) \/ CloseFile(c) PROVE TypeInv'
    BY <2>1, Zenon DEF TypeInv, TypeOK, OpenFile, CloseFile, FileSteps
  <2>2. ASSUME NEW c \in Clients, DestroyEntity(c) PROVE TypeInv'
    <3>1. life' \in [Jobs -> Lives] /\ file' \in [Clients -> FileSteps]
      BY <2>2, Zenon DEF TypeInv, TypeOK, DestroyEntity, Lives, FileSteps
    <3> QED BY <2>2, <3>1 DEF TypeInv, TypeOK, DestroyEntity
  <2>3. ASSUME NEW j \in Jobs, KillJob(j) PROVE TypeInv'
    BY <2>3 DEF TypeInv, TypeOK, KillJob, Lives, Outcomes
  <2> QED BY <1>2, <2>1, <2>2, <2>3, Zenon DEF Files
<1>3. CASE SchedulerWork
  <2>1. ASSUME NEW j \in Jobs, RunJobWork(j) PROVE TypeInv'
    BY <2>1 DEF TypeInv, TypeOK, RunJobWork, Lives, WqSteps
  <2>2. CASE RunJobReturn
    <3>1. wqJob \in Jobs
      BY <2>2, Zenon DEF TypeInv, TypeOK, RunJobReturn
    <3>2. credit_count' \in Int /\ listening' \subseteq Jobs
      <4>1. credit_count' = credit_count \/ credit_count' = credit_count - 1
        BY <2>2, Zenon DEF TypeInv, TypeOK, RunJobReturn, JobDone
      <4>2. listening' \subseteq Jobs
        BY <2>2, <3>1, Zenon DEF TypeInv, TypeOK, RunJobReturn
      <4> QED BY <4>1, <4>2 DEF TypeInv, TypeOK
    <3>3. finished' \in [Jobs -> Outcomes]
      <4>1. \/ finished' = finished
            \/ finished' = [finished EXCEPT ![wqJob] = "ok"]
        BY <2>2, Zenon DEF TypeInv, TypeOK, RunJobReturn, JobDone
      <4> QED BY <4>1, OkIsAnOutcome DEF TypeInv, TypeOK
    <3> QED BY <2>2, <3>1, <3>2, <3>3, Zenon DEF TypeInv, TypeOK,
               RunJobReturn, WqSteps
  <2>3. ASSUME NEW j \in Jobs, FreeJobWork(j) PROVE TypeInv'
    BY <2>3, Zenon DEF TypeInv, TypeOK, FreeJobWork, StartTimeout, WqSteps
  <2>4. CASE FreeJob
    BY <2>4, Zenon DEF TypeInv, TypeOK, FreeJob, Lives, WqSteps
  <2> QED BY <1>3, <2>1, <2>2, <2>3, <2>4, Zenon DEF SchedulerWork
<1>4. CASE Timeout
  <2>1. ASSUME NEW j \in Jobs, TimerExpires(j) PROVE TypeInv'
    BY <2>1, Zenon DEF TypeInv, TypeOK, TimerExpires, TdrSteps
  <2>2. CASE TdrPark \/ TdrAbort
    BY <2>2, Zenon DEF TypeInv, TypeOK, TdrPark, TdrAbort, JobAbort, TdrSteps
  <2>3. CASE TdrStop
    <3> DEFINE keep == (pending \cup {tdrJob}) \cap listening
    <3>1. keep \subseteq Jobs /\ Cardinality(keep) \in Nat
      BY Zenon DEF TypeInv, TypeOK
    <3>2. /\ credit_count' \in Int
          /\ pending' \subseteq Jobs /\ listening' \subseteq Jobs
      BY <2>3, <3>1 DEF TypeInv, TypeOK, TdrStop
    <3>3. life' \in [Jobs -> Lives]
      BY <2>3, Zenon DEF TypeInv, TypeOK, TdrStop, Lives
    <3>4. free_guilty' \in BOOLEAN /\ armed' \in BOOLEAN /\ tdr' \in TdrSteps
      BY <2>3, Zenon DEF TypeInv, TypeOK, TdrStop, TdrSteps
    <3> QED BY <2>3, <3>2, <3>3, <3>4, Zenon DEF TypeInv, TypeOK, TdrStop
  <2>4. CASE TdrStart
    <3>1. finished' \in [Jobs -> Outcomes]
      BY <2>4, Zenon DEF TypeInv, TypeOK, TdrStart, Outcomes
    <3>2. armed' \in BOOLEAN /\ tdr' \in TdrSteps
      BY <2>4, Zenon DEF TypeInv, TypeOK, TdrStart, StartTimeout, TdrSteps
    <3> QED BY <2>4, <3>1, <3>2, Zenon DEF TypeInv, TypeOK, TdrStart
  <2>5. CASE TdrEnd
    <3>1. life' \in [Jobs -> Lives]
      BY <2>5, Zenon DEF TypeInv, TypeOK, TdrEnd, Lives
    <3>2. armed' \in BOOLEAN /\ tdr' \in TdrSteps
      BY <2>5, Zenon DEF TypeInv, TypeOK, TdrEnd, StartTimeout, TdrSteps
    <3> QED BY <2>5, <3>1, <3>2, Zenon DEF TypeInv, TypeOK, TdrEnd
  <2> QED BY <1>4, <2>1, <2>2, <2>3, <2>4, <2>5, Zenon DEF Timeout
<1>5. CASE Removal
  <2>1. CASE Remove \/ FiniPark \/ FiniStop \/ FiniAbort
    BY <2>1, Zenon DEF TypeInv, TypeOK, Remove, FiniPark, FiniStop, FiniAbort,
         JobAbort, RmSteps
  <2>2. CASE FiniCancelTdr \/ FiniSyncTdr
    BY <2>2, Zenon DEF TypeInv, TypeOK, FiniCancelTdr, FiniSyncTdr, RmSteps
  <2>3. CASE FiniRetire
    <3>1. Retired \subseteq Jobs /\ Cardinality(Retired) \in Nat
      BY Zenon DEF TypeInv, TypeOK, Retired
    <3>2. life' \in [Jobs -> Lives] /\ finished' \in [Jobs -> Outcomes]
      BY <2>3, Zenon DEF TypeInv, TypeOK, FiniRetire, Lives, Outcomes
    <3> QED BY <2>3, <3>1, <3>2 DEF TypeInv, TypeOK, FiniRetire, RmSteps
  <2> QED BY <1>5, <2>1, <2>2, <2>3, Zenon DEF Removal
<1>6. CASE RunJob
  BY <1>6, Zenon DEF TypeInv, TypeOK, RunJob, Phases, WqSteps
<1>7. CASE TdrHwStop \/ FiniHwStop
  <2>1. tdr' \in TdrSteps /\ rm' \in RmSteps
    BY <1>7, Zenon DEF TypeInv, TypeOK, TdrHwStop, FiniHwStop, TdrSteps,
       RmSteps
  <2>2. QED BY <1>7, <2>1, Zenon DEF TypeInv, TypeOK, TdrHwStop, FiniHwStop
<1>8. ASSUME NEW p \in Phases, PhaseDone(p) PROVE TypeInv'
  <2>1. CASE PhaseDoneConfig
    BY <2>1, Zenon DEF TypeInv, TypeOK, PhaseDoneConfig, Phases
  <2>2. CASE PhaseDoneExec
    <3>1. active \in Jobs
      BY <2>2, Zenon DEF TypeInv, TypeOK, PhaseDoneExec
    <3>2. credit_count' \in Int /\ listening' \subseteq Jobs
      <4>1. credit_count' = credit_count \/ credit_count' = credit_count - 1
        BY <2>2, Zenon DEF TypeInv, TypeOK, PhaseDoneExec, JobDone
      <4>2. listening' \subseteq Jobs
        BY <2>2, Zenon DEF TypeInv, TypeOK, PhaseDoneExec
      <4> QED BY <4>1, <4>2 DEF TypeInv, TypeOK
    <3>3. finished' \in [Jobs -> Outcomes]
      <4>1. \/ finished' = finished
            \/ finished' = [finished EXCEPT ![active] = "ok"]
        BY <2>2, Zenon DEF TypeInv, TypeOK, PhaseDoneExec, JobDone
      <4> QED BY <4>1, OkIsAnOutcome DEF TypeInv, TypeOK
    <3> QED BY <2>2, <3>1, <3>2, <3>3, Zenon DEF TypeInv, TypeOK, PhaseDoneExec
  <2>3. CASE PhaseDoneSpurious(p)
    BY <2>3, Zenon DEF TypeInv, TypeOK, PhaseDoneSpurious
  <2> QED BY <1>8, <2>1, <2>2, <2>3, Zenon DEF PhaseDone
<1>9. CASE UNCHANGED vars
  BY <1>9, Zenon DEF TypeInv, TypeOK
<1> QED BY <1>1, <1>2, <1>3, <1>4, <1>5, <1>6, <1>7, <1>8, <1>9, Zenon
        DEF Next, DriverNext

HIDE DEF Jobs, Suspended, HeldByList, HeldByWq, HeldByTdr
USE DEF Stopping

-----------------------------------------------------------------------------
(* What a backend relies on about a step of the driver in which it does    *)
(* not take part.                                                          *)

\* Of a job: once started it is not forgotten; run_job is about to be called
\* for one that has just left its queue; without the backend no fence reports
\* success unless the hw_fence had signalled, and the hw_fence of a job that
\* stays started does not signal.
JobRely(j) ==
  /\ life[j] \in {"started", "freed"} => life'[j] \in {"started", "freed"}
  /\ wq' = "run_job" /\ wqJob' = j =>
       (wq = "run_job" /\ wqJob = j) \/ life[j] = "queued"
  /\ finished'[j] = "ok" =>
       finished[j] = "ok" \/ (j \in hwSignaled /\ life[j] = "started")
  /\ j \in hwSignaled' /\ life'[j] = "started" =>
       j \in hwSignaled /\ life[j] = "started"
  /\ Stopping /\ Unfinished(j) => Unfinished(j)'

\* Of the device: only strela_job_abort takes a job off it, and its callers go
\* on to strela_hw_stop; while strela_hw_stop runs the scheduler stands still.
DeviceRely ==
  /\ phase' = phase
  /\ \/ active' = active
     \/ active' = NoJob /\ Stopping' /\ UNCHANGED <<life, finished, hwSignaled>>
  /\ Stopping => Stopping' /\ hwSignaled' = hwSignaled

Rely == DeviceRely /\ \A j \in Jobs : JobRely(j)

\* A step that touches neither a job, nor its fences, nor the device.
LEMMA RelyFrame ==
  ASSUME UNCHANGED <<active, phase, hwSignaled, life, finished, wq, wqJob>>,
         Stopping => Stopping'
  PROVE  Rely
BY Zenon DEF Rely, DeviceRely, JobRely

\* While strela_hw_stop runs, the threads it could race with are stopped.
LEMMA StoppedThreads ==
  ASSUME IInv, Stopping
  PROVE  /\ wq = "idle" /\ pause_submit
         /\ rm = "hw_stop" => ~armed /\ tdr = "idle"
         /\ tdr = "hw_stop" => rm \in {"loaded", "cancel_tdr"}
BY Zenon DEF IInv, ThreadInv, RemovalInv

\* The submit ioctl.
LEMMA IoctlsRely ==
  ASSUME IInv, Ioctls
  PROVE  Rely
<1>1. ASSUME NEW c \in Clients, SubmitInit(c) PROVE Rely
  BY <1>1 DEF SubmitInit, IInv, TypeOK, LifeInv, Jobs, Rely, DeviceRely,
     JobRely
<1>2. ASSUME NEW j \in Jobs, SubmitFail(j) PROVE Rely
  BY <1>2, Zenon DEF SubmitFail, IInv, TypeOK, Rely, DeviceRely, JobRely
<1>3. ASSUME NEW j \in Jobs, NEW d \in Jobs \cup {NoJob}, SubmitArm(j, d)
      PROVE  Rely
  BY <1>3, Zenon DEF SubmitArm, IInv, TypeOK, Rely, DeviceRely, JobRely
<1>4. ASSUME NEW j \in Jobs, SubmitPush(j) PROVE Rely
  BY <1>4, Zenon DEF SubmitPush, IInv, TypeOK, Rely, DeviceRely, JobRely
<1> QED BY <1>1, <1>2, <1>3, <1>4, Zenon DEF Ioctls

\* Files.
LEMMA FilesRely ==
  ASSUME IInv, Files
  PROVE  Rely
<1>1. ASSUME NEW c \in Clients, OpenFile(c) PROVE Rely
  BY <1>1, RelyFrame, Zenon DEF OpenFile
<1>2. ASSUME NEW c \in Clients, CloseFile(c) PROVE Rely
  BY <1>2, RelyFrame, Zenon DEF CloseFile
<1>3. ASSUME NEW c \in Clients, DestroyEntity(c) PROVE Rely
  BY <1>3, Zenon DEF DestroyEntity, Queue, IInv, TypeOK, Rely, DeviceRely,
     JobRely
<1>4. ASSUME NEW j \in Jobs, KillJob(j) PROVE Rely
  BY <1>4, Zenon DEF KillJob, IInv, TypeOK, Rely, DeviceRely, JobRely
<1> QED BY <1>1, <1>2, <1>3, <1>4, Zenon DEF Files

\* The scheduler's workqueue, which stands still meanwhile.
LEMMA SchedulerRely ==
  ASSUME IInv, SchedulerWork
  PROVE  Rely
<1>1. ~Stopping
  <2>1. (\E j \in Jobs : RunJobWork(j) \/ FreeJobWork(j)) => ~pause_submit
    BY Zenon DEF RunJobWork, FreeJobWork
  <2>2. RunJobReturn \/ FreeJob => wq # "idle"
    BY Zenon DEF RunJobReturn, FreeJob
  <2> QED BY <2>1, <2>2, StoppedThreads, Zenon DEF SchedulerWork
<1>2. ASSUME NEW j \in Jobs, RunJobWork(j) PROVE Rely
  BY <1>2, <1>1 DEF RunJobWork, IInv, TypeOK, LifeInv, Rely, DeviceRely,
     JobRely
<1>3. CASE RunJobReturn
  BY <1>3, <1>1
     DEF RunJobReturn, CallbackTooLate, JobDone, IInv, TypeOK, ThreadInv,
         UnfinishedInv, Rely, DeviceRely, JobRely
<1>4. ASSUME NEW j \in Jobs, FreeJobWork(j) PROVE Rely
  BY <1>4, <1>1, Zenon DEF FreeJobWork, Rely, DeviceRely, JobRely
<1>5. CASE FreeJob
  BY <1>5, <1>1, Zenon DEF FreeJob, IInv, TypeOK, Rely, DeviceRely, JobRely
<1> QED BY <1>1, <1>2, <1>3, <1>4, <1>5, Zenon DEF SchedulerWork

\* The timeout.
LEMMA TimeoutRely ==
  ASSUME IInv, Timeout
  PROVE  Rely
<1>1. ASSUME NEW j \in Jobs, TimerExpires(j) PROVE Rely
  BY <1>1, StoppedThreads, RelyFrame, Zenon DEF TimerExpires
<1>2. CASE TdrPark
  BY <1>2, StoppedThreads, RelyFrame, Zenon DEF TdrPark
<1>3. CASE TdrStop
  BY <1>3, StoppedThreads, Zenon DEF TdrStop, Rely, DeviceRely, JobRely
<1>4. CASE TdrAbort
  BY <1>4, StoppedThreads, Zenon DEF TdrAbort, JobAbort, Rely, DeviceRely,
     JobRely
<1>5. CASE TdrStart
  BY <1>5, StoppedThreads, Zenon DEF TdrStart, Rely, DeviceRely, JobRely
<1>6. CASE TdrEnd
  BY <1>6, StoppedThreads, Zenon DEF TdrEnd, Rely, DeviceRely, JobRely
<1> QED BY <1>1, <1>2, <1>3, <1>4, <1>5, <1>6, Zenon DEF Timeout

\* Removal.
LEMMA RemovalRely ==
  ASSUME IInv, Removal
  PROVE  Rely
<1>1. CASE Remove
  BY <1>1, StoppedThreads, RelyFrame, Zenon DEF Remove
<1>2. CASE FiniCancelTdr
  BY <1>2, StoppedThreads, RelyFrame, Zenon DEF FiniCancelTdr
<1>3. CASE FiniPark
  BY <1>3, StoppedThreads, RelyFrame, Zenon DEF FiniPark
<1>4. CASE FiniStop
  BY <1>4, StoppedThreads, RelyFrame, Zenon DEF FiniStop
<1>5. CASE FiniSyncTdr
  BY <1>5, StoppedThreads, RelyFrame, Zenon DEF FiniSyncTdr
<1>6. CASE FiniAbort
  BY <1>6, StoppedThreads, Zenon DEF FiniAbort, JobAbort, Rely, DeviceRely,
     JobRely
<1>7. CASE FiniRetire
  BY <1>7, StoppedThreads, Zenon DEF FiniRetire, Rely, DeviceRely, JobRely
<1> QED BY <1>1, <1>2, <1>3, <1>4, <1>5, <1>6, <1>7, Zenon DEF Removal

\* Any step of the driver.
LEMMA DriverRely ==
  ASSUME IInv, DriverNext
  PROVE  Rely
BY IoctlsRely, FilesRely, SchedulerRely, TimeoutRely, RemovalRely, Zenon
   DEF DriverNext


-----------------------------------------------------------------------------
(* The simulated device. *)

\* run_job is called while the worker rests, or is about to: its last job is off
\* the device for good, since whoever takes a job off the device waits for the
\* worker.
LEMMA WorkerRests ==
  ASSUME IInv, SimInv, wq = "run_job"
  PROVE  ~Working
<1>1. active = NoJob /\ ~Stopping
  BY Zenon DEF IInv, NoWarning, ThreadInv, RemovalInv
<1>2. wqJob # NoJob
  BY Zenon DEF IInv, ThreadInv
<1> QED BY <1>1, <1>2 DEF SimInv, WorkerInv, IInv, TypeOK, Jobs

\* A step in which the worker at most stops, and nothing else changes that
\* SimInv is about.
LEMMA SimFrame ==
  ASSUME SimInv,
         UNCHANGED <<active, hwSignaled, life, finished, wq, wqJob, copied,
                     sim_col>>,
         sim_queued' => sim_queued,
         \/ sim' \in {"idle", "returning"}
         \/ /\ Working /\ sim' \in {"config", "exec"}
            /\ sim_job' = sim_job
            /\ Stopping => Stopping'
  PROVE  SimInv'
<1>1. WorkerInv'
  BY Zenon DEF SimInv, WorkerInv, Working
<1>2. CopiedInv'
  BY Zenon DEF SimInv, CopiedInv
<1> QED BY <1>1, <1>2, Zenon DEF SimInv

\* A step of the driver in which the worker does not take part.
LEMMA SimDriverStep ==
  ASSUME IInv, IInv', SimInv, DriverNext, UNCHANGED simVars
  PROVE  SimInv'
<1>1. Rely
  BY DriverRely, Zenon
<1>2. WorkerInv'
  <2> SUFFICES ASSUME Working PROVE WorkerInv'
    BY Zenon DEF WorkerInv, Working, simVars
  <2>1. /\ sim_job \in Jobs /\ Unfinished(sim_job) /\ sim_job \notin hwSignaled
        /\ active = sim_job \/ (active = NoJob /\ Stopping)
        /\ ~sim_queued /\ copied[sim_job] = sim_col
    BY Zenon DEF SimInv, WorkerInv
  <2>2. CASE active' = sim_job
    <3>1. Unfinished(sim_job)' /\ sim_job \notin hwSignaled'
      BY <2>1, <2>2 DEF IInv, ActiveIsUnfinished, Jobs, simVars
    <3> QED BY <2>1, <2>2, <3>1, Zenon DEF WorkerInv, simVars
  <2>3. CASE active' # sim_job
    <3>1. active' = NoJob /\ Stopping'
      BY <1>1, <2>1, <2>3 DEF Rely, DeviceRely
    <3>2. Unfinished(sim_job)' /\ sim_job \notin hwSignaled'
      <4>1. CASE active = sim_job
        BY <1>1, <2>1, <2>3, <4>1, Zenon DEF Rely, DeviceRely, simVars
      <4>2. CASE Stopping
        BY <1>1, <2>1, <4>2, Zenon DEF Rely, DeviceRely, JobRely, simVars
      <4> QED BY <2>1, <4>1, <4>2, Zenon
    <3> QED BY <2>1, <3>1, <3>2, Zenon DEF WorkerInv, simVars
  <2> QED BY <2>2, <2>3, Zenon
<1>3. CopiedInv'
  BY <1>1 DEF SimInv, CopiedInv, simVars, Rely, DeviceRely, JobRely, Jobs
<1> QED BY <1>2, <1>3, Zenon DEF SimInv, simVars

\* strela_run_job and strela_hw_stop.
LEMMA SimDeviceStep ==
  ASSUME IInv, SimInv, SimRunJob \/ SimRaiseAbort \/ SimHwStop
  PROVE  SimInv'
<1>1. CASE SimRunJob
  <2>1. ~Working
    BY <1>1, WorkerRests, Zenon DEF SimRunJob, RunJob
  <2>2. CopiedInv'
    BY <1>1, Zenon DEF SimRunJob, RunJob, SimInv, CopiedInv
  <2> QED BY <1>1, <2>1, <2>2, Zenon DEF SimRunJob, SimInv, WorkerInv, Working
<1>2. CASE SimRaiseAbort
  BY <1>2, SimFrame, Zenon DEF SimRaiseAbort, SimInv, Working
<1>3. CASE SimHwStop
  <2>1. UNCHANGED <<active, hwSignaled, life, finished, wq, wqJob>>
    BY <1>3, Zenon DEF SimHwStop, TdrHwStop, FiniHwStop
  <2> QED BY <1>3, <2>1, SimFrame, Zenon DEF SimHwStop, SimSettle
<1> QED BY <1>1, <1>2, <1>3, Zenon

\* strela_sim_work.
LEMMA SimWorkStep ==
  ASSUME IInv, SimInv, SimWork
  PROVE  SimInv'
<1>1. CASE SimTakeJob
  <2>1. active # NoJob =>
          active \in Jobs /\ Unfinished(active) /\ active \notin hwSignaled
    BY Zenon DEF IInv, TypeOK, ActiveIsUnfinished
  <2>2. active # NoJob => copied[active] = 0
    BY <1>1, <2>1, Zenon DEF SimTakeJob, SimInv, CopiedInv
  <2>3. CopiedInv'
    BY <1>1, Zenon DEF SimTakeJob, SimInv, CopiedInv
  <2> QED BY <1>1, <2>1, <2>2, <2>3, Zenon DEF SimTakeJob, SimInv, WorkerInv, Working
<1>2. CASE SimAborted \/ SimStarved \/ SimReturned
  BY <1>2, SimFrame DEF SimAborted, SimStarved, SimReturned, SimReturn
<1>3. CASE SimConfigDone
  <2>1. UNCHANGED <<active, hwSignaled, life, finished, wq, wqJob, tdr, rm>>
    BY <1>3, Zenon DEF SimConfigDone, PhaseDone, PhaseDoneConfig,
       PhaseDoneSpurious
  <2> QED BY <1>3, <2>1, SimFrame, Zenon DEF SimConfigDone, Working
<1>4. CASE SimBypassColumn
  <2>1. /\ sim_job \in Jobs /\ life[sim_job] = "started"
        /\ sim_job \notin hwSignaled /\ finished[sim_job] = "none"
        /\ ~sim_queued /\ copied[sim_job] = sim_col
    BY <1>4, Zenon DEF SimBypassColumn, SimInv, WorkerInv, Working
  <2>2. wq # "run_job"
    BY <1>4, WorkerRests, Zenon DEF SimBypassColumn, Working
  <2>3. copied' \in [Jobs -> Nat] /\ copied'[sim_job] = sim_col + 1
    <3>1. /\ copied \in [Jobs -> Nat] /\ sim_col \in Nat
          /\ copied' = [copied EXCEPT ![sim_job] = copied[sim_job] + 1]
      BY <1>4, Zenon DEF SimBypassColumn, SimInv
    <3>2. sim_col + 1 \in Nat
      BY <3>1
    <3> QED BY <2>1, <3>1, <3>2, Zenon
  <2>4. \A j \in Jobs : j # sim_job => copied'[j] = copied[j]
    BY <1>4, Zenon DEF SimBypassColumn, SimInv
  <2>5. CopiedInv'
    BY <1>4, <2>1, <2>2, <2>4, Zenon DEF SimBypassColumn, SimInv, CopiedInv
  <2> QED BY <1>4, <2>3, <2>5, Zenon DEF SimBypassColumn, SimInv, WorkerInv, Working
<1>5. CASE SimExecDone
  <2>1. /\ sim_job \in Jobs /\ copied[sim_job] = NumCols /\ ~sim_queued
        /\ active \in {sim_job, NoJob}
    BY <1>5, Zenon DEF SimExecDone, SimInv, WorkerInv, Working
  <2>2. CopiedInv'
    <3>1. CASE PhaseDoneExec
      <4>1. \A j \in Jobs : j # active =>
              /\ j \in hwSignaled' => j \in hwSignaled
              /\ finished'[j] = finished[j]
        BY <3>1, Zenon DEF PhaseDoneExec, JobDone, IInv, TypeOK
      <4>2. active = sim_job
        BY <2>1, <3>1, Zenon DEF PhaseDoneExec
      <4> QED BY <1>5, <2>1, <3>1, <4>1, <4>2, Zenon
              DEF PhaseDoneExec, SimExecDone, SimInv, CopiedInv
    <3>2. CASE PhaseDoneSpurious("EXEC")
      BY <1>5, <3>2, Zenon DEF PhaseDoneSpurious, SimExecDone, SimInv,
         CopiedInv
    <3> QED BY <1>5, <3>1, <3>2, Zenon DEF SimExecDone, PhaseDone
  <2> QED
    BY <1>5, <2>2, Zenon DEF SimExecDone, SimReturn, SimInv, WorkerInv, Working
<1> QED BY <1>1, <1>2, <1>3, <1>4, <1>5, Zenon DEF SimWork

\* Any step.
LEMMA SimInvStep ==
  ASSUME IInv, IInv', SimInv, [SimNext]_simAllVars
  PROVE  SimInv'
<1>1. CASE UNCHANGED simAllVars
  BY <1>1, SimFrame, Zenon DEF simAllVars, simVars, SimInv, Working
<1> QED BY <1>1, SimDriverStep, SimDeviceStep, SimWorkStep, Zenon
           DEF SimNext, SimQuiet

\* After strela_core_init.
LEMMA SimInvInit == SimInit => SimInv
BY SimAssumption DEF SimInit, Init, SimInv, WorkerInv, CopiedInv, Working

\* What is copied, and for whom.
LEMMA SimInvImplies ==
  ASSUME IInv, SimInv
  PROVE  WorkerServesActive /\ OkMeansCopied
<1>1. WorkerServesActive
  BY Zenon DEF SimInv, WorkerInv, WorkerServesActive
<1> QED BY <1>1, Zenon DEF SimInv, CopiedInv, OkMeansCopied

\* A column is copied by the worker alone.
LEMMA CopyStep ==
  ASSUME SimInv, [SimNext]_simAllVars, NEW j \in Jobs, copied'[j] # copied[j]
  PROVE  finished[j] = "none"
<1>1. SimBypassColumn
  <2>1. ~ UNCHANGED simVars /\ ~ UNCHANGED simAllVars
    BY Zenon DEF simVars, simAllVars
  <2>2. ~ (SimRunJob \/ SimRaiseAbort \/ SimHwStop \/ SimQuiet)
    BY Zenon DEF SimRunJob, SimRaiseAbort, SimHwStop, SimSettle, SimQuiet,
       simAllVars,
           simVars
  <2>3. ~ (\/ SimTakeJob \/ SimAborted \/ SimConfigDone \/ SimExecDone
           \/ SimStarved \/ SimReturned)
    BY Zenon DEF SimTakeJob, SimAborted, SimConfigDone, SimExecDone, SimStarved,
       SimReturned
  <2> QED BY <2>1, <2>2, <2>3, Zenon DEF SimNext, SimWork
<1>2. j = sim_job
  BY <1>1, Zenon DEF SimBypassColumn, SimInv
<1> QED BY <1>1, <1>2, Zenon DEF SimBypassColumn, SimInv, WorkerInv, Working

-----------------------------------------------------------------------------
(* The CGRA. *)

\* run_job is called while the engine rests.
LEMMA EngineRestsBefore ==
  ASSUME IInv, HwInv, wq = "run_job"
  PROVE  /\ EngineRests
         /\ wqJob \in Jobs
         /\ wqJob \notin configured \cup executed \cup {engineJob}
<1>1. active = NoJob /\ ~Stopping
  BY Zenon DEF IInv, NoWarning, ThreadInv, RemovalInv
<1>2. wqJob \in Jobs
  BY Zenon DEF IInv, TypeOK, ThreadInv
<1>3. EngineRests
  BY <1>1, Zenon DEF HwInv, ActiveInv
<1> QED BY <1>2, <1>3, Zenon DEF HwInv, EngineJobsInv

\* A step of the driver in which the device does not take part.
LEMMA HwDriverStep ==
  ASSUME IInv, HwInv, DriverNext, UNCHANGED hwVars
  PROVE  HwInv'
<1>1. Rely
  BY DriverRely, Zenon
<1>2. EngineInv'
  BY Zenon DEF HwInv, EngineInv, PassedOn, hwVars
<1>3. ActiveInv'
  BY <1>1, Zenon DEF Rely, DeviceRely, HwInv, ActiveInv, EngineRests,
     PassedOn, hwVars
<1>4. EngineJobsInv'
  BY <1>1, Zenon DEF Rely, JobRely, HwInv, EngineJobsInv, hwVars
<1> QED BY <1>2, <1>3, <1>4, Zenon DEF HwInv, hwVars

\* strela_run_job.
LEMMA HwRunJobStep ==
  ASSUME IInv, HwInv, HwRunJob
  PROVE  HwInv'
<1>1. /\ EngineRests /\ wqJob \in Jobs
      /\ wqJob \notin configured \cup executed \cup {engineJob}
  BY EngineRestsBefore, Zenon DEF HwRunJob, RunJob
<1>2. life[wqJob] = "started"
  BY <1>1, Zenon DEF IInv, UnfinishedInv, HwRunJob, RunJob
<1>3. EngineInv'
  BY <1>1, Zenon DEF HwRunJob, HwInv, EngineInv, EngineRests
<1>4. ActiveInv'
  BY <1>1 DEF HwRunJob, RunJob, ActiveInv, Jobs
<1>5. EngineJobsInv'
  BY <1>1, <1>2, Zenon DEF HwRunJob, RunJob, HwInv, EngineJobsInv
<1> QED BY <1>3, <1>4, <1>5, Zenon DEF HwRunJob, HwInv

\* strela_hw_stop: PromptIrq says that no interrupt is pending.
LEMMA HwStopStep ==
  ASSUME PromptIrq, IInv, HwInv, HwStop
  PROVE  HwInv'
<1>1. /\ UNCHANGED <<active, phase, hwSignaled, life, finished, wq, wqJob>>
      /\ Stopping
  BY Zenon DEF HwStop, TdrHwStop, FiniHwStop
<1>2. active = NoJob
  BY <1>1, Zenon DEF IInv, NoWarning
<1>3. EngineRests' /\ UNCHANGED <<engineJob, irqThread, configured, executed>>
  BY Zenon DEF HwStop, HwReset, EngineRests
<1>4. irqThread' = "idle"
  BY <1>3, Zenon DEF HwStop, HwReset, HwInv, EngineInv, EngineRests
<1>5. EngineInv' /\ ActiveInv'
  BY <1>1, <1>2, <1>3, <1>4, Zenon DEF EngineInv, ActiveInv, EngineRests
<1>6. EngineJobsInv'
  BY <1>1, <1>3, Zenon DEF HwInv, EngineJobsInv
<1> QED BY <1>3, <1>4, <1>5, <1>6, Zenon DEF HwInv, EngineRests

\* The engine ends a phase.
LEMMA EngineStep ==
  ASSUME IInv, HwInv, EngineLoaded \/ EngineDone
  PROVE  HwInv'
<1>1. /\ engine # "idle" /\ engine' = "idle"
      /\ UNCHANGED <<vars, engineJob, irq_status, irqThread>>
  BY Zenon DEF EngineLoaded, EngineDone
<1>2. /\ intPending = {} /\ irq_status = {} /\ irqThread = "idle"
      /\ engineJob \in Jobs
  BY <1>1, Zenon DEF HwInv, EngineInv
<1>3. \/ /\ engine = "loading" /\ PassedOn("CONFIG")' /\ executed' = executed
         /\ configured' = configured \cup {engineJob}
      \/ /\ engine = "running" /\ PassedOn("EXEC")' /\ configured' = configured
         /\ executed' = executed \cup ({engineJob} \cap configured)
  BY <1>2, Zenon DEF EngineLoaded, EngineDone, PassedOn
<1>4. EngineInv'
  <2>1. (\E p \in Phases : PassedOn(p))'
    BY <1>3, Zenon DEF Phases
  <2> QED BY <1>1, <1>2, <2>1, Zenon DEF EngineInv
<1>5. ActiveInv'
  <2>1. CASE active = NoJob
    BY <1>1, <2>1, Zenon DEF HwInv, ActiveInv, EngineRests
  <2>2. CASE active # NoJob
    BY <1>1, <1>3, <2>2, Zenon DEF HwInv, ActiveInv, IInv, TypeOK, Phases
  <2> QED BY <2>1, <2>2, Zenon
<1>6. EngineJobsInv'
  BY <1>1, <1>3, Zenon DEF HwInv, EngineJobsInv
<1> QED BY <1>1, <1>4, <1>5, <1>6, Zenon DEF HwInv

\* The hard handler passes the end of the phase on.
LEMMA IrqHandlerStep ==
  ASSUME IInv, HwInv, IrqHandler
  PROVE  HwInv'
<1>1. PICK p \in Phases : intPending = {p} /\ irq_status = {}
  BY Zenon DEF IrqHandler, HwInv, EngineInv, PassedOn
<1>2. /\ intPending' = {} /\ irq_status' = {p} /\ irqThread' = "woken"
      /\ UNCHANGED <<vars, engine, engineJob, configured, executed>>
  BY <1>1, Zenon DEF IrqHandler, Reported, Phases
<1>3. \A q : PassedOn(q) => q = p
  BY <1>1, Zenon DEF PassedOn
<1>4. PassedOn(p)' /\ engine = "idle"
  BY <1>1, <1>2, Zenon DEF PassedOn, HwInv, EngineInv
<1>5. EngineInv'
  BY <1>2, <1>4, Zenon DEF HwInv, EngineInv
<1>6. ActiveInv'
  <2>1. CASE active = NoJob
    BY <1>1, <1>2, <2>1, Zenon DEF HwInv, ActiveInv, EngineRests
  <2>2. CASE active # NoJob
    BY <1>2, <1>3, <1>4, <2>2, Zenon DEF HwInv, ActiveInv
  <2> QED BY <2>1, <2>2, Zenon
<1>7. EngineJobsInv'
  BY <1>2, Zenon DEF HwInv, EngineJobsInv
<1> QED BY <1>2, <1>5, <1>6, <1>7, Zenon DEF HwInv

\* The interrupt thread: the phase that has ended is the one the active job is
\* in, if there is one.
LEMMA IrqThreadStep ==
  ASSUME IInv, HwInv, IrqThread
  PROVE  HwInv'
<1>1. PICK p \in Phases : irq_status = {p} /\ intPending = {} /\ engine = "idle"
  BY Zenon DEF IrqThread, HwInv, EngineInv, PassedOn
<1>2. Reported(irq_status) = p
  BY <1>1, Zenon DEF Reported, Phases
<1>3. /\ intPending' = {} /\ irq_status' = {} /\ irqThread' = "idle"
      /\ UNCHANGED <<engineJob, configured, executed>>
      /\ PhaseDone(p)
      /\ engine' = IF phase = "CONFIG" /\ phase' = "EXEC" THEN "running" ELSE "idle"
  BY <1>1, <1>2, Zenon DEF IrqThread
<1>4. active # NoJob => /\ phase = p /\ engineJob = active
                        /\ active \in Jobs /\ active \in configured
                        /\ p = "CONFIG" => active \notin executed
                        /\ p = "EXEC" => active \in executed
  BY <1>1, Zenon DEF HwInv, ActiveInv, PassedOn, Phases, IInv, TypeOK
<1>5. CASE active = NoJob
  <2>1. UNCHANGED vars
    BY <1>3, <1>5, Zenon DEF PhaseDone, PhaseDoneConfig, PhaseDoneExec,
                      PhaseDoneSpurious
  <2>2. EngineRests'
    BY <1>3, <2>1, Zenon DEF EngineRests
  <2>3. EngineJobsInv'
    BY <1>3, <2>1, Zenon DEF HwInv, EngineJobsInv
  <2> QED BY <1>3, <1>5, <2>1, <2>2, <2>3, Zenon
          DEF HwInv, EngineInv, ActiveInv, EngineRests
<1>6. CASE active # NoJob /\ p = "CONFIG"
  <2>1. /\ phase = "CONFIG" /\ phase' = "EXEC"
        /\ UNCHANGED <<active, hwSignaled, life, finished, wq, wqJob>>
    BY <1>3, <1>4, <1>6, Zenon DEF PhaseDone, PhaseDoneConfig,
       PhaseDoneSpurious
  <2>2. engine' = "running"
    BY <1>3, <2>1, Zenon
  <2>3. EngineJobsInv'
    BY <1>3, <2>1, Zenon DEF HwInv, EngineJobsInv
  <2> QED BY <1>3, <1>4, <1>6, <2>1, <2>2, <2>3, Zenon
             DEF HwInv, EngineInv, ActiveInv
<1>7. CASE active # NoJob /\ p = "EXEC"
  <2>1. PhaseDoneExec
    BY <1>3, <1>4, <1>7, Zenon DEF PhaseDone, PhaseDoneSpurious
  <2>2. active' = NoJob /\ UNCHANGED <<phase, life, wq, wqJob>>
    BY <2>1, Zenon DEF PhaseDoneExec
  <2>3. \A j \in Jobs : j # active => /\ j \in hwSignaled' => j \in hwSignaled
                                      /\ finished'[j] = finished[j]
    BY <2>1, Zenon DEF PhaseDoneExec, JobDone, IInv, TypeOK
  <2>4. EngineRests'
    BY <1>3, <2>2, Zenon DEF EngineRests
  <2>5. EngineJobsInv'
    BY <1>3, <1>4, <1>7, <2>2, <2>3, Zenon DEF HwInv, EngineJobsInv
  <2> QED BY <1>3, <2>2, <2>4, <2>5, Zenon DEF HwInv, EngineInv, ActiveInv,
             EngineRests
<1> QED BY <1>5, <1>6, <1>7, Zenon DEF Phases

\* Any step.
LEMMA HwInvStep ==
  ASSUME PromptIrq, IInv, HwInv, [HwNext]_hwAllVars
  PROVE  HwInv'
<1>1. CASE UNCHANGED hwAllVars
  BY <1>1 DEF hwAllVars, hwVars, HwInv, EngineInv, ActiveInv, EngineJobsInv,
              EngineRests, PassedOn
<1> QED BY <1>1, HwDriverStep, HwRunJobStep, HwStopStep, EngineStep,
           IrqHandlerStep, IrqThreadStep, Zenon DEF HwNext, HwQuiet

\* After strela_core_init.
LEMMA HwInvInit == HwInit => HwInv
BY DEF HwInit, Init, HwInv, EngineInv, ActiveInv, EngineJobsInv, EngineRests,
       Jobs

\* What the interrupts mean.
LEMMA HwInvImplies ==
  ASSUME IInv, HwInv
  PROVE  ExecAfterOwnConfig /\ OkMeansExecuted /\ InterruptIsNotLost
<1>1. ExecAfterOwnConfig
  BY Zenon DEF HwInv, ActiveInv, ExecAfterOwnConfig
<1>2. OkMeansExecuted
  BY Zenon DEF HwInv, EngineJobsInv, OkMeansExecuted
<1>3. InterruptIsNotLost
  BY Zenon DEF HwInv, ActiveInv, PassedOn, InterruptIsNotLost
<1> QED BY <1>1, <1>2, <1>3, Zenon
=============================================================================
