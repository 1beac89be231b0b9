------------------------- MODULE StrelaDriverProofs -------------------------
(***************************************************************************)
(* Three parts of the two drivers that need nothing of each other:         *)
(*  - the checks and the registers of a binding, for every width, every    *)
(*    set of client values and every object size (StrelaBinding);          *)
(*  - the devices of the accel driver, for any number of simulated ones    *)
(*    and whatever their clients do (StrelaDevice);                        *)
(*  - the character device driver, for any number of ioctls                *)
(*    (StrelaCharDev).                                                     *)
(*                                                                         *)
(* A device is taken down in the reverse of the order in which it was set  *)
(* up, so that what it has follows from its state and from the step its    *)
(* probe has reached (StageInv).  As long as no ioctl of the character     *)
(* device gave up, at most one phase is on its way from the engine to the  *)
(* ioctl that waits for it (OneAtATime).                                   *)
(***************************************************************************)
EXTENDS StrelaBinding, StrelaDevice, StrelaCharDev, TLAPS

-----------------------------------------------------------------------------
(* The devices of the accel driver. *)

\* What each step of a probe is, and what it acquires.
LEMMA ProbeStage ==
  ASSUME NEW d \in Devices, NEW n \in 1 .. Len(ProbeSteps(d)),
         NEW step, step = ProbeSteps(d)[n]
  PROVE  /\ step = "drm" <=> n = 1
         /\ step = "sched" <=> n = Len(ProbeSteps(d)) - 1
         /\ step = "register" <=> n = Len(ProbeSteps(d))
         /\ step \in Managed =>
              /\ ManagedCount(d, n) = ManagedCount(d, n - 1) + 1
              /\ ManagedSteps(d)[ManagedCount(d, n)] = step
         /\ step \notin Managed => ManagedCount(d, n) = ManagedCount(d, n - 1)
<1>1. CASE d = Cgra
  <2>1. ProbeSteps(d) = <<"drm", "mask", "base", "challenge", "irq", "sched", "register">>
    BY <1>1 DEF ProbeSteps
  <2>2. n \in 1 .. 7
    BY <2>1
  <2>3. CASE n \in 1 .. 2
    BY <1>1, <2>1, <2>3 DEF ManagedCount, ManagedSteps, Managed
  <2>4. CASE n \in 3 .. 4
    BY <1>1, <2>1, <2>4 DEF ManagedCount, ManagedSteps, Managed
  <2>5. CASE n \in 5 .. 7
    BY <1>1, <2>1, <2>5 DEF ManagedCount, ManagedSteps, Managed
  <2> QED BY <2>2, <2>3, <2>4, <2>5
<1>2. CASE d # Cgra
  <2>1. ProbeSteps(d) = <<"drm", "mask", "sched", "register">>
    BY <1>2 DEF ProbeSteps
  <2> QED BY <1>2, <2>1 DEF ManagedCount, ManagedSteps, Managed
<1> QED BY <1>1, <1>2

\* Where a probe starts and where it ends.
LEMMA ProbeLength ==
  ASSUME NEW d \in Devices
  PROVE  /\ Len(ProbeSteps(d)) \in Nat \ {0, 1}
         /\ ManagedCount(d, 0) = 0
         /\ ManagedCount(d, Len(ProbeSteps(d))) = Len(ManagedSteps(d))
         /\ \A n \in 0 .. Len(ProbeSteps(d)) :
              ManagedCount(d, n) \in 0 .. Len(ManagedSteps(d))
         /\ ManagedSteps(d)[1] = "drm"
         /\ \A i \in 2 .. Len(ManagedSteps(d)) : ManagedSteps(d)[i] # "drm"
  BY DEF ProbeSteps, ManagedCount, ManagedSteps

\* A device a step does not touch.
LEMMA StageFrame ==
  ASSUME NEW d \in Devices, StageInv(d),
         status'[d] = status[d], at'[d] = at[d], devres'[d] = devres[d],
         d \in lock' <=> d \in lock, d \in sched' <=> d \in sched,
         d \in registered' <=> d \in registered
  PROVE  StageInv(d)'
<1>1. \A k : KeepsFirst(d, k)' <=> KeepsFirst(d, k)
  BY Zenon DEF KeepsFirst
<1> QED BY <1>1 DEF StageInv

\* A step of strela_init or strela_exit that changes no device.
LEMMA ModuleFrame ==
  ASSUME DeviceInv, UNCHANGED <<status, at, devres, lock, sched, registered>>,
         module' = "unloaded" => \A d \in Devices : status[d] = "absent"
  PROVE  DeviceInv'
<1>1. ASSUME NEW d \in Devices PROVE StageInv(d)'
  BY StageFrame, Zenon DEF DeviceInv
<1> QED BY <1>1, Zenon DEF DeviceInv

\* A step that changes one device.
LEMMA OneDevice ==
  ASSUME DeviceInv, NEW d \in Devices, NEW s,
         s \in {"probing", "bound", "fini", "release", "unbound", "absent"},
         status' = [status EXCEPT ![d] = s],
         DOMAIN at' = Devices, DOMAIN devres' = Devices,
         \A e \in Devices \ {d} :
           /\ at'[e] = at[e] /\ devres'[e] = devres[e]
           /\ e \in lock' <=> e \in lock
           /\ e \in sched' <=> e \in sched
           /\ e \in registered' <=> e \in registered,
         lock' \cup sched' \cup registered' \subseteq Devices,
         module' # "unloaded", StageInv(d)'
  PROVE  DeviceInv'
<1>1. status' \in [Devices ->
       {"absent", "probing", "bound", "fini", "release", "unbound"}]
  BY DEF DeviceInv
<1>2. ASSUME NEW e \in Devices, e # d PROVE StageInv(e)'
  <2>1. status'[e] = status[e] /\ StageInv(e)
    BY <1>2 DEF DeviceInv
  <2> QED BY <1>2, <2>1, StageFrame
<1> QED BY <1>1, <1>2 DEF DeviceInv

\* A device that is there is one of a module that is loaded.
LEMMA ModuleHolds ==
  ASSUME DeviceInv, NEW d \in Devices, status[d] # "absent"
  PROVE  module # "unloaded"
BY DEF DeviceInv

\* strela_init and strela_exit.
LEMMA ModuleStep ==
  ASSUME DeviceInv, LoadModule \/ InitDone \/ ExitBegin \/ Unloaded
  PROVE  DeviceInv'
<1>1. CASE LoadModule
  <2>1. CASE UNCHANGED status
    BY <1>1, <2>1, ModuleFrame DEF LoadModule
  <2>2. CASE status' = [status EXCEPT ![Cgra] = "probing"]
    <3>1. Cgra \in Devices /\ status[Cgra] = "absent" /\ StageInv(Cgra)
      BY <1>1, DeviceAssumption DEF DeviceInv, LoadModule, Devices, Cgra
    <3>2. StageInv(Cgra)'
      BY <1>1, <2>2, <3>1, ProbeLength DEF LoadModule, DeviceInv, StageInv, KeepsFirst
    <3> QED BY <1>1, <2>2, <3>1, <3>2, OneDevice, Zenon DEF LoadModule, DeviceInv
  <2> QED BY <1>1, <2>1, <2>2 DEF LoadModule
<1>2. CASE InitDone
  BY <1>2, ModuleFrame DEF InitDone
<1>3. CASE ExitBegin
  BY <1>3, ModuleFrame DEF ExitBegin
<1>4. CASE Unloaded
  BY <1>4, ModuleFrame DEF Unloaded
<1> QED BY <1>1, <1>2, <1>3, <1>4

\* The loops of strela_sim_dev_register and strela_sim_dev_unregister, and unbind.
LEMMA BusStep ==
  ASSUME DeviceInv, NEW d \in Devices, SimDevRegister(d) \/ Unregister(d) \/ Unbind(d)
  PROVE  DeviceInv'
<1>1. CASE SimDevRegister(d)
  <2>1. CASE UNCHANGED status
    BY <1>1, <2>1, ModuleFrame DEF SimDevRegister
  <2>2. CASE status' = [status EXCEPT ![d] = "probing"] /\ UNCHANGED module
    <3>1. status[d] = "absent" /\ StageInv(d)
      BY <1>1 DEF SimDevRegister, Sims, DeviceInv, Devices
    <3>2. StageInv(d)'
      BY <1>1, <2>2, <3>1, ProbeLength
       DEF SimDevRegister, DeviceInv, StageInv, KeepsFirst
    <3> QED BY <1>1, <2>2, <3>2, OneDevice, Zenon DEF SimDevRegister, DeviceInv
  <2> QED BY <1>1, <2>1, <2>2 DEF SimDevRegister
<1>2. ASSUME RemoveBegin(d), module' # "unloaded",
             UNCHANGED <<at, devres, lock, sched>>
      PROVE  DeviceInv'
  <2>1. status'[d] = "fini" /\ d \notin registered'
    BY <1>2 DEF RemoveBegin, DeviceInv
  <2>2. StageInv(d)'
    BY <1>2, <2>1 DEF RemoveBegin, DeviceInv, StageInv, KeepsFirst
  <2> QED BY <1>2, <2>2, OneDevice, Zenon DEF RemoveBegin, DeviceInv
<1>3. CASE Unregister(d)
  <2>1. CASE status[d] = "unbound" /\ status' = [status EXCEPT ![d] = "absent"]
             /\ UNCHANGED registered
    <3>1. StageInv(d)'
      BY <1>3, <2>1 DEF Unregister, DeviceInv, StageInv, KeepsFirst
    <3> QED BY <1>3, <2>1, <3>1, OneDevice, Zenon DEF Unregister, DeviceInv
  <2> QED BY <1>2, <1>3, <2>1 DEF Unregister
<1>4. CASE Unbind(d)
  BY <1>2, <1>4 DEF Unbind
<1> QED BY <1>1, <1>3, <1>4

\* The steps of strela_probe that succeed.
LEMMA ProbeStepStep ==
  ASSUME DeviceInv, NEW d \in Devices, ProbeStep(d)
  PROVE  DeviceInv'
<1>1. /\ StageInv(d) /\ status[d] = "probing" /\ module' # "unloaded"
      /\ DOMAIN at = Devices /\ DOMAIN devres = Devices
      /\ DOMAIN status = Devices
      /\ lock \cup sched \cup registered \subseteq Devices
  BY ModuleHolds DEF ProbeStep, DeviceInv
<1>2. PICK n \in 1 .. Len(ProbeSteps(d)) : n = at[d]
  BY <1>1 DEF StageInv
<1> DEFINE step == ProbeSteps(d)[n]
<1>0. /\ Len(ProbeSteps(d)) \in Nat \ {0, 1}
      /\ KeepsFirst(d, ManagedCount(d, n - 1))
  BY <1>1, <1>2, ProbeLength DEF StageInv
<1>3. /\ step = "drm" <=> n = 1
      /\ step = "sched" <=> n = Len(ProbeSteps(d)) - 1
      /\ step = "register" <=> n = Len(ProbeSteps(d))
      /\ step \in Managed =>
           /\ ManagedCount(d, n) = ManagedCount(d, n - 1) + 1
           /\ ManagedSteps(d)[ManagedCount(d, n)] = step
      /\ step \notin Managed => ManagedCount(d, n) = ManagedCount(d, n - 1)
  BY ProbeStage, Zenon
<1>4. ManagedCount(d, n - 1) \in Nat
  <2>1. n - 1 \in 0 .. Len(ProbeSteps(d))
    BY <1>0
  <2> QED BY <2>1, ProbeLength
<1>5. /\ at' = [at EXCEPT ![d] = n + 1]
      /\ status' = [status EXCEPT ![d] =
                      IF n = Len(ProbeSteps(d)) THEN "bound" ELSE "probing"]
      /\ devres' = [devres EXCEPT ![d] =
                      IF step \in Managed THEN Append(devres[d], step) ELSE devres[d]]
      /\ lock' = IF step = "drm" THEN lock \cup {d} ELSE lock
      /\ sched' = IF step = "sched" THEN sched \cup {d} ELSE sched
      /\ registered' = IF step = "register" THEN registered \cup {d} ELSE registered
  BY <1>2, Zenon DEF ProbeStep, Step
<1> HIDE DEF step
<1>6. KeepsFirst(d, ManagedCount(d, n))'
  <2>1. CASE step \in Managed
    <3>1. devres'[d] = Append(devres[d], step)
      BY <1>1, <1>5, <2>1
    <3> QED BY <1>0, <1>3, <1>4, <2>1, <3>1 DEF KeepsFirst
  <2>2. CASE step \notin Managed
    <3>1. devres'[d] = devres[d]
      BY <1>1, <1>5, <2>2
    <3> QED BY <1>0, <1>3, <2>2, <3>1, Zenon DEF KeepsFirst
  <2> QED BY <2>1, <2>2
<1>7. /\ at'[d] = n + 1
      /\ status'[d] = IF n = Len(ProbeSteps(d)) THEN "bound" ELSE "probing"
  BY <1>1, <1>5
<1>8. /\ d \in lock <=> n > 1 
      /\ d \in sched <=> n = Len(ProbeSteps(d))
      /\ d \notin registered
  BY <1>1, <1>2, Zenon DEF StageInv
<1>9. /\ d \in lock'
      /\ d \in sched' <=> n \in {Len(ProbeSteps(d)) - 1, Len(ProbeSteps(d))}
      /\ d \in registered' <=> n = Len(ProbeSteps(d))
  BY <1>0, <1>3, <1>5, <1>8
<1>10. StageInv(d)'
  <2>1. CASE n = Len(ProbeSteps(d))
    <3>1. KeepsFirst(d, Len(ManagedSteps(d)))'
      BY <1>6, <2>1, ProbeLength
    <3> QED BY <1>7, <1>9, <2>1, <3>1 DEF StageInv
  <2>2. CASE n # Len(ProbeSteps(d))
    <3>1. n + 1 - 1 = n /\ n + 1 \in 2 .. Len(ProbeSteps(d))
      BY <1>0, <2>2
    <3> QED BY <1>0, <1>6, <1>7, <1>9, <2>2, <3>1 DEF StageInv
  <2> QED BY <2>1, <2>2
<1>11. /\ DOMAIN at' = Devices /\ DOMAIN devres' = Devices
       /\ lock' \cup sched' \cup registered' \subseteq Devices
       /\ \A e \in Devices \ {d} :
            /\ at'[e] = at[e] /\ devres'[e] = devres[e]
            /\ e \in lock' <=> e \in lock
            /\ e \in sched' <=> e \in sched
            /\ e \in registered' <=> e \in registered
  BY <1>1, <1>5
<1> QED BY <1>1, <1>5, <1>10, <1>11, OneDevice, Zenon

\* A step of strela_probe that fails, and strela_job_fini.
LEMMA ProbeEndStep ==
  ASSUME DeviceInv, NEW d \in Devices, ProbeFails(d) \/ JobFini(d)
  PROVE  DeviceInv'
<1>1. /\ StageInv(d) /\ status[d] \in {"probing", "fini"} /\ module' # "unloaded"
      /\ DOMAIN at = Devices /\ DOMAIN devres = Devices
      /\ lock \cup sched \cup registered \subseteq Devices
  BY ModuleHolds DEF ProbeFails, JobFini, DeviceInv
<1>2. /\ status' = [status EXCEPT ![d] = "release"]
      /\ sched' \subseteq sched /\ sched \subseteq sched' \cup {d}
      /\ UNCHANGED <<module, at, devres, lock, registered>>
  BY DEF ProbeFails, JobFini
<1>3. d \notin sched' /\ d \notin registered
  <2>1. CASE JobFini(d)
    BY <1>1, <2>1 DEF JobFini, StageInv
  <2>2. CASE ProbeFails(d)
    <3>1. /\ at[d] \in 1 .. Len(ProbeSteps(d))
          /\ d \in sched <=> at[d] = Len(ProbeSteps(d))
          /\ d \notin registered
      BY <1>1, <2>2 DEF ProbeFails, StageInv
    <3>2. Step(d) = "register" <=> at[d] = Len(ProbeSteps(d))
      BY <3>1, ProbeStage DEF Step
    <3> QED BY <2>2, <3>1, <3>2 DEF ProbeFails
  <2> QED BY <2>1, <2>2
<1>4. \E k \in 0 .. Len(ManagedSteps(d)) : KeepsFirst(d, k) /\ (d \in lock <=> k > 0)
  <2>1. CASE status[d] = "fini"
    BY <1>1, <2>1 DEF StageInv, ManagedSteps
  <2>2. CASE status[d] = "probing"
    <3>1. /\ at[d] \in 1 .. Len(ProbeSteps(d)) /\ (d \in lock <=> at[d] > 1)
          /\ KeepsFirst(d, ManagedCount(d, at[d] - 1))
      BY <1>1, <2>2 DEF StageInv
    <3>2. ManagedCount(d, at[d] - 1) \in 0 .. Len(ManagedSteps(d))
      BY <3>1, ProbeLength
    <3>3. ManagedCount(d, at[d] - 1) > 0 <=> at[d] > 1
      BY <3>1, ProbeLength DEF ManagedCount
    <3> QED BY <3>1, <3>2, <3>3
  <2> QED BY <1>1, <2>1, <2>2
<1>5. d \in lock <=> devres[d] # <<>>
  BY <1>4 DEF KeepsFirst
<1>6. StageInv(d)'
  <2>1. status'[d] = "release"
    BY <1>2 DEF DeviceInv
  <2>2. (\E k \in 0 .. Len(ManagedSteps(d)) : KeepsFirst(d, k))'
    BY <1>2, <1>4, Zenon DEF KeepsFirst
  <2> QED BY <1>2, <1>3, <1>5, <2>1, <2>2 DEF StageInv
<1> QED BY <1>1, <1>2, <1>6, OneDevice, Zenon

\* The managed resources go one by one, the last one first.
LEMMA DevmReleaseStep ==
  ASSUME DeviceInv, NEW d \in Devices, DevmRelease(d)
  PROVE  DeviceInv'
<1>1. /\ StageInv(d) /\ status[d] = "release" /\ module' # "unloaded"
      /\ DOMAIN at = Devices /\ DOMAIN devres = Devices /\ DOMAIN status = Devices
      /\ lock \cup sched \cup registered \subseteq Devices
      /\ UNCHANGED <<sched, registered>>
  BY ModuleHolds DEF DevmRelease, DeviceInv
<1>2. PICK k \in 0 .. Len(ManagedSteps(d)) : KeepsFirst(d, k)
  BY <1>1 DEF StageInv
<1>3. (d \in lock <=> k > 0) /\ d \notin sched' /\ d \notin registered'
  BY <1>1, <1>2 DEF StageInv, KeepsFirst
<1>4. CASE devres[d] = <<>>
  <2>1. /\ status' = [status EXCEPT ![d] = "unbound"]
        /\ at' = [at EXCEPT ![d] = 1] /\ UNCHANGED <<devres, lock>>
    BY <1>4 DEF DevmRelease
  <2>2. k = 0
    BY <1>2, <1>4 DEF KeepsFirst
  <2>3. KeepsFirst(d, 0)'
    BY <1>2, <2>1, <2>2, Zenon DEF KeepsFirst
  <2>4. StageInv(d)'
    BY <1>1, <1>3, <2>1, <2>2, <2>3 DEF StageInv
  <2> QED BY <1>1, <2>1, <2>4, OneDevice, Zenon
<1>5. CASE devres[d] # <<>>
  <2>1. /\ k \in 1 .. Len(ManagedSteps(d)) /\ Len(devres[d]) = k
        /\ devres[d] \in Seq(Managed) /\ devres[d][k] = ManagedSteps(d)[k]
    BY <1>2, <1>5 DEF KeepsFirst
  <2>2. /\ devres' = [devres EXCEPT ![d] = SubSeq(devres[d], 1, k - 1)]
        /\ lock' = IF devres[d][k] = "drm" THEN lock \ {d} ELSE lock
        /\ status' = status /\ at' = at
    BY <1>5, <2>1, Zenon DEF DevmRelease
  <2>3. devres[d][k] = "drm" <=> k = 1
    BY <2>1, ProbeLength
  <2>4. KeepsFirst(d, k - 1)'
    BY <1>1, <1>2, <2>1, <2>2 DEF KeepsFirst
  <2>5. d \in lock' <=> devres'[d] # <<>>
    BY <1>3, <2>1, <2>2, <2>3, <2>4 DEF KeepsFirst
  <2>6. StageInv(d)'
    <3>1. k - 1 \in 0 .. Len(ManagedSteps(d)) /\ status'[d] = "release"
      BY <1>1, <2>1, <2>2
    <3>2. QED BY <1>3, <2>4, <2>5, <3>1, Zenon DEF StageInv
  <2>7. status' = [status EXCEPT ![d] = "release"]
    BY <1>1, <2>2 DEF DeviceInv
  <2>8. \A e \in Devices \ {d} : devres'[e] = devres[e] /\ (e \in lock' <=> e \in lock)
    BY <1>1, <2>2
  <2> QED BY <1>1, <2>2, <2>6, <2>7, <2>8, OneDevice, Zenon
<1> QED BY <1>4, <1>5

\* Nothing is there before the module is loaded.
LEMMA DeviceInvInit == DeviceInit => DeviceInv
<1> SUFFICES ASSUME DeviceInit PROVE DeviceInv
  OBVIOUS
<1>1. ASSUME NEW d \in Devices PROVE StageInv(d)
  BY DEF DeviceInit, StageInv, KeepsFirst
<1> QED BY <1>1 DEF DeviceInit, DeviceInv

\* What the invariant says of whoever reaches a device, and of what is left.
LEMMA DeviceInvImplies == DeviceInv => ReachableIsReady /\ NothingIsLeft
<1> SUFFICES ASSUME DeviceInv PROVE ReachableIsReady /\ NothingIsLeft
  OBVIOUS
<1>1. ASSUME NEW d \in Devices
      PROVE  \E k \in 0 .. Len(ManagedSteps(d)) :
               KeepsFirst(d, k) /\ (k > 0 => d \in lock)
  <2>1. /\ StageInv(d)
        /\ status[d] \in {"absent", "probing", "bound", "fini", "release", "unbound"}
    BY DEF DeviceInv
  <2>2. Len(ManagedSteps(d)) \in Nat /\ (Len(ManagedSteps(d)) > 0)
    BY DEF ManagedSteps
  <2>3. CASE status[d] = "probing"
    <3>1. /\ at[d] \in 1 .. Len(ProbeSteps(d)) /\ (d \in lock <=> at[d] > 1)
          /\ KeepsFirst(d, ManagedCount(d, at[d] - 1))
      BY <2>1, <2>3 DEF StageInv
    <3>2. ManagedCount(d, at[d] - 1) \in 0 .. Len(ManagedSteps(d))
      BY <3>1, ProbeLength
    <3>3. at[d] = 1 => ManagedCount(d, at[d] - 1) = 0
      BY ProbeLength
    <3> QED BY <3>1, <3>2, <3>3
  <2>4. CASE status[d] # "probing"
    BY <2>1, <2>2, <2>4 DEF StageInv, KeepsFirst
  <2> QED BY <2>3, <2>4
<1>2. ASSUME NEW d \in Devices, "irq" \in Kept(d)
      PROVE  {"base", "drm"} \subseteq Kept(d) /\ d \in lock
  <2>1. PICK k \in 0 .. Len(ManagedSteps(d)) : KeepsFirst(d, k) /\ (k > 0 => d \in lock)
    BY <1>1
  <2>2. PICK i \in 1 .. k : ManagedSteps(d)[i] = "irq"
    BY <1>2, <2>1 DEF Kept, KeepsFirst
  <2>3. k = 3 /\ ManagedSteps(d) = <<"drm", "base", "irq">>
    BY <2>2 DEF ManagedSteps
  <2>4. devres[d][1] = "drm" /\ devres[d][2] = "base" /\ Len(devres[d]) = 3
    BY <2>1, <2>3 DEF KeepsFirst
  <2> QED BY <2>1, <2>3, <2>4 DEF Kept
<1>3. \A d \in Devices : d \in registered => d \in sched /\ d \in lock
  BY DEF DeviceInv, StageInv
<1>4. ReachableIsReady
  BY <1>2, <1>3 DEF ReachableIsReady
<1>5. ASSUME module = "unloaded"
      PROVE /\ \A d \in Devices : status[d] = "absent" /\ devres[d] = <<>>
            /\ sched = {} /\ registered = {}
  <2>1. \A d \in Devices : /\ status[d] = "absent" /\ KeepsFirst(d, 0)
                           /\ d \notin sched /\ d \notin registered
    BY <1>5 DEF DeviceInv, StageInv
  <2>2. \A d \in Devices : devres[d] = <<>>
    BY <2>1 DEF KeepsFirst
  <2> QED BY <2>1, <2>2 DEF DeviceInv
<1> QED BY <1>4, <1>5 DEF NothingIsLeft

\* Every step of the driver preserves the invariant, whatever its clients do.
LEMMA DeviceInvStep ==
  ASSUME DeviceInv, [DeviceNext]_deviceVars
  PROVE  DeviceInv'
<1>1. CASE LoadModule \/ InitDone \/ ExitBegin \/ Unloaded
  BY <1>1, ModuleStep
<1>2. CASE \E d \in Devices : SimDevRegister(d) \/ Unregister(d) \/ Unbind(d)
  BY <1>2, BusStep
<1>3. CASE \E d \in Devices : ProbeStep(d)
  BY <1>3, ProbeStepStep
<1>4. CASE \E d \in Devices : ProbeFails(d) \/ JobFini(d)
  BY <1>4, ProbeEndStep
<1>5. CASE \E d \in Devices : DevmRelease(d)
  BY <1>5, DevmReleaseStep
<1>6. CASE UNCHANGED <<module, sim_dev_count, status, at, devres, lock, sched,
                       registered>>
  BY <1>6, ModuleFrame DEF DeviceInv
<1>7. QED
  BY <1>1, <1>2, <1>3, <1>4, <1>5, <1>6, Zenon DEF DeviceNext, DeviceStep, deviceVars

\* The inductive invariant holds of the devices whatever their files do.
LEMMA DeviceSafety == DeviceSpec => []DeviceInv
BY DeviceInvInit, DeviceInvStep, PTL DEF DeviceSpec

\* A device that can be opened has its scheduler and its lock, and one that can
\* interrupt has its registers mapped (strela_probe, strela_remove), for any
\* number of devices.
THEOREM ReachableSafety == DeviceSpec => []ReachableIsReady
BY DeviceInvImplies, DeviceSafety, PTL

\* Whatever failed on the way, nothing of a device is left once the module is
\* unloaded (strela_exit, the error paths of strela_init and strela_probe).
THEOREM LeftoverSafety == DeviceSpec => []NothingIsLeft
BY DeviceInvImplies, DeviceSafety, PTL

-----------------------------------------------------------------------------
(* The character device driver: what it acquires. *)

\* All that strela_driver_init and strela_probe may leave with the module.
LEMMA AllAcquired ==
  /\ InitResources = {"region", "class", "driver"}
  /\ ProbeResources = {"priv", "base", "dma", "irq", "ida", "cdev", "device"}
<1>1. {CdevInitSteps[i] : i \in 1 .. 3} = {"region", "class", "driver"}
  BY DEF CdevInitSteps
<1>2. {CdevProbeSteps[i] : i \in 1 .. 9}
        = {"priv", "base", "challenge", "dma", "get_irq", "irq", "ida", "cdev", "device"}
  BY DEF CdevProbeSteps
<1>3. Len(CdevInitSteps) = 3 /\ Len(CdevProbeSteps) = 9
  BY DEF CdevInitSteps, CdevProbeSteps
<1>4. QED
  BY <1>1, <1>2, <1>3 DEF InitResources, ProbeResources, CdevAcquired

\* An initialisation that fails takes back all it acquired.
LEMMA InitUnwinds ==
  ASSUME NEW i \in DOMAIN CdevInitSteps
  PROVE  CdevAcquired(CdevInitSteps, i - 1) \ CdevUnwound(CdevInitSteps[i]) = {}
<1>1. i \in 1 .. 3 BY DEF CdevInitSteps
<1>2. CASE i = 1
  BY <1>2 DEF CdevInitSteps, CdevAcquired
<1>3. CASE i = 2
  BY <1>3 DEF CdevInitSteps, CdevAcquired, CdevUnwound
<1>4. CASE i = 3
  BY <1>4 DEF CdevInitSteps, CdevAcquired, CdevUnwound
<1>5. QED BY <1>1, <1>2, <1>3, <1>4

\* A probe that fails takes back all it acquired, but for the pages of one that
\* cannot get its interrupt.
LEMMA ProbeUnwinds ==
  ASSUME NEW i \in DOMAIN CdevProbeSteps
  PROVE  CdevAcquired(CdevProbeSteps, i - 1)
           \ (CdevUnwound(CdevProbeSteps[i]) \cup CdevManaged)
             \subseteq IF CdevProbeSteps[i] \in {"get_irq", "irq"} THEN {"dma"} ELSE {}
<1>1. i \in 1 .. 9 BY DEF CdevProbeSteps
<1>2. CASE i \in 1 .. 4
  BY <1>2 DEF CdevProbeSteps, CdevAcquired, CdevManaged
<1>3. CASE i \in 5 .. 6
  BY <1>3 DEF CdevProbeSteps, CdevAcquired, CdevManaged
<1>4. CASE i = 7
  BY <1>4 DEF CdevProbeSteps, CdevAcquired, CdevManaged, CdevUnwound
<1>5. CASE i = 8
  BY <1>5 DEF CdevProbeSteps, CdevAcquired, CdevManaged, CdevUnwound
<1>6. CASE i = 9
  BY <1>6 DEF CdevProbeSteps, CdevAcquired, CdevManaged, CdevUnwound
<1>7. QED BY <1>1, <1>2, <1>3, <1>4, <1>5, <1>6

\* The resources of the module and of its device, in every step.
LEMMA HeldStep ==
  ASSUME FileInv, HeldInv, CharDevNext
  PROVE  HeldInv'
<1>1. CASE CdevInitFails
  BY <1>1, InitUnwinds, Zenon DEF CdevInitFails, HeldInv, InitResources, ProbeResources
<1>2. CASE CdevProbeFails
  BY <1>2, ProbeUnwinds, Zenon DEF CdevProbeFails, HeldInv
<1>3. CASE CdevProbe
  BY <1>3, Zenon DEF CdevProbe, HeldInv
<1>4. CASE CdevExit
  BY <1>4, Zenon DEF CdevExit, HeldInv, FileInv
<1>5. CASE UNCHANGED <<loaded, held, noIrq>>
  BY <1>5 DEF HeldInv
<1>6. QED
  BY <1>1, <1>2, <1>3, <1>4, <1>5
  DEF CharDevNext, CdevOpen, CdevRelease, Ioctl, IoctlOk, IoctlGivesUp,
      EngineDone, IrqHandler, IrqThread

-----------------------------------------------------------------------------
(* Its interrupt. *)

\* Loading, unloading, opening and closing leave the ioctls alone.
LEMMA CdevQuiet ==
  ASSUME CharDevInv,
         CdevInitFails \/ CdevProbeFails \/ CdevExit \/ CdevOpen \/ CdevRelease
  PROVE  FileInv' /\ IrqInv' /\ OneAtATime' /\ WaiterIsWoken'
<1>1. UNCHANGED <<requests, call, engine, intPending, irq_status, irqThread, done,
                  finished, answered, abandoned>>
  BY DEF CdevInitFails, CdevProbeFails, CdevExit, CdevOpen, CdevRelease, runVars
<1>2. OneAtATime' /\ WaiterIsWoken'
  BY <1>1, Zenon
  DEF CharDevInv, OneAtATime, WaiterIsWoken, Nothing, OnItsWay, Counted
<1>3. irqThread = "woken" => loaded' = "bound"
  BY DEF CharDevInv, IrqInv, CdevInitFails, CdevProbeFails, CdevExit,
         CdevOpen, CdevRelease
<1>4. IrqInv'
  BY <1>1, <1>3 DEF CharDevInv, IrqInv
<1>5. FileInv'
  BY <1>1 DEF CharDevInv, FileInv, Requested, CdevInitFails, CdevProbeFails, CdevExit,
              CdevOpen, CdevRelease, runVars
<1>6. QED BY <1>2, <1>4, <1>5

\* A probe finds no ioctl, and leaves none of an earlier device's completions.
LEMMA CdevProbeStep ==
  ASSUME CharDevInv, CdevProbe
  PROVE  FileInv' /\ IrqInv' /\ OneAtATime' /\ WaiterIsWoken'
<1>1. call = Idle
  BY DEF CharDevInv, FileInv, CdevProbe
<1>2. FileInv'
  BY <1>1 DEF CharDevInv, FileInv, Requested, CdevProbe, Fresh
<1>3. IrqInv'
  BY <1>1 DEF CharDevInv, IrqInv, CdevProbe, Fresh
<1>4. OneAtATime'
  BY <1>1 DEF CharDevInv, OneAtATime, Nothing, Counted, CdevProbe, Fresh, Phases
<1>5. WaiterIsWoken'
  BY <1>1 DEF WaiterIsWoken, CdevProbe, Fresh
<1>6. QED BY <1>2, <1>3, <1>4, <1>5

\* An ioctl is a new one, so that nothing has ended for it yet.
LEMMA IoctlStep ==
  ASSUME CharDevInv, NEW p \in Phases, Ioctl(p)
  PROVE  FileInv' /\ IrqInv' /\ OneAtATime' /\ WaiterIsWoken'
<1>1. /\ call' = [op |-> p, req |-> requests + 1] /\ engine' = call'
      /\ requests' = requests + 1 /\ requests \in Nat
      /\ call' \in [op : Phases, req : Nat] /\ call'.req = requests + 1 /\ call' # Idle
  BY DEF CharDevInv, FileInv, Ioctl, Idle
<1>2. FileInv'
  BY <1>1 DEF CharDevInv, FileInv, Requested, Ioctl
<1>3. IrqInv'
  BY <1>1 DEF CharDevInv, IrqInv, Ioctl
<1>4. ASSUME ~ abandoned PROVE Nothing
  <2>1. call = Idle
    BY DEF Ioctl
  <2>2. QED BY <1>4, <2>1 DEF CharDevInv, OneAtATime
<1>5. OneAtATime'
  BY <1>1, <1>4 DEF CharDevInv, OneAtATime, Nothing, Counted, Ioctl
<1>6. requests + 1 \notin finished /\ finished' = finished
  BY DEF CharDevInv, FileInv, Ioctl
<1>7. WaiterIsWoken'
  BY <1>1, <1>6 DEF WaiterIsWoken
<1>8. QED BY <1>2, <1>3, <1>5, <1>7

\* The end of an ioctl, whatever its result: nobody waits any longer.
LEMMA CallEnds ==
  ASSUME CharDevInv, call' = Idle, engine' \in {engine, Idle},
         done' \in [Phases -> Nat],
         UNCHANGED <<loaded, in_use, requests, intPending, irq_status, irqThread, finished>>
  PROVE  FileInv' /\ IrqInv' /\ WaiterIsWoken'
<1>1. FileInv'
  BY DEF CharDevInv, FileInv, Requested
<1>2. IrqInv'
  BY DEF CharDevInv, IrqInv
<1>3. WaiterIsWoken'
  BY DEF WaiterIsWoken
<1>4. QED BY <1>1, <1>2, <1>3

\* A call that waits names one of the two completions.
LEMMA CallIsTyped ==
  ASSUME FileInv, call # Idle
  PROVE  call.op \in Phases /\ call.req \in Nat
BY DEF FileInv, Requested

\* A completion found done is that of the phase that has ended.
LEMMA IoctlOkStep ==
  ASSUME CharDevInv, IoctlOk
  PROVE  FileInv' /\ IrqInv' /\ OneAtATime' /\ WaiterIsWoken'
<1>1. /\ call.op \in Phases /\ done \in [Phases -> Nat] /\ done[call.op] > 0
      /\ done' = [done EXCEPT ![call.op] = done[call.op] - 1]
  BY CallIsTyped DEF CharDevInv, IrqInv, IoctlOk
<1>2. done' \in [Phases -> Nat]
  BY <1>1
<1>3. FileInv' /\ IrqInv' /\ WaiterIsWoken'
  BY <1>2, CallEnds DEF IoctlOk, ClearState
<1>4. ASSUME ~ abandoned
      PROVE  /\ engine = Idle /\ call.req \in finished /\ answered \subseteq finished
             /\ intPending = {} /\ irqThread = "idle" /\ Counted(call.op)
  <2>1. ~ Counted("none")
    BY <1>1 DEF Counted, Phases
  <2>2. QED BY <1>4, <2>1, Zenon DEF CharDevInv, OneAtATime, Nothing, OnItsWay
<1>5. ASSUME ~ abandoned PROVE Nothing'
  <2>1. \A q \in Phases : done[q] = IF q = call.op THEN 1 ELSE 0
    BY <1>4, <1>5, Zenon DEF Counted
  <2>2. \A q \in Phases : done'[q] = 0
    BY <1>1, <2>1
  <2>3. Counted("none")'
    BY <1>2, <2>2 DEF Counted, Phases
  <2>4. QED BY <1>4, <1>5, <2>3, Zenon DEF Nothing, IoctlOk
<1>6. OneAtATime'
  BY <1>4, <1>5 DEF OneAtATime, IoctlOk, ClearState
<1>7. QED BY <1>3, <1>6

\* One that gives up ends the promise.
LEMMA IoctlGivesUpStep ==
  ASSUME CharDevInv, IoctlGivesUp
  PROVE  FileInv' /\ IrqInv' /\ OneAtATime' /\ WaiterIsWoken'
<1>1. FileInv' /\ IrqInv' /\ WaiterIsWoken'
  BY CallEnds DEF CharDevInv, IrqInv, IoctlGivesUp, ClearState
<1>2. QED BY <1>1 DEF OneAtATime, IoctlGivesUp

\* The engine ends the phase it was started for.
LEMMA EngineDoneStep ==
  ASSUME CharDevInv, EngineDone
  PROVE  FileInv' /\ IrqInv' /\ OneAtATime' /\ WaiterIsWoken'
<1>1. /\ engine # Idle /\ engine.op \in Phases /\ engine.req \in 1 .. requests
      /\ call # Idle => engine = call
  BY DEF CharDevInv, FileInv, IrqInv, Requested, EngineDone
<1>2. FileInv'
  BY <1>1, Zenon DEF CharDevInv, FileInv, Requested, EngineDone
<1>3. IrqInv'
  BY <1>1 DEF CharDevInv, IrqInv, EngineDone
<1>4. OneAtATime'
  BY <1>1 DEF CharDevInv, OneAtATime, Nothing, OnItsWay, Counted, EngineDone
<1>5. WaiterIsWoken'
  BY <1>1 DEF CharDevInv, WaiterIsWoken, EngineDone
<1>6. QED BY <1>2, <1>3, <1>4, <1>5

\* The bit a handler reports is one of those it read.
LEMMA ReportedIsSet ==
  ASSUME NEW S \in SUBSET Phases, S # {}
  PROVE  Reported(S) \in S
BY Zenon DEF Reported, Phases

\* strela_irq_handler leaves to the thread all it does not leave pending.
LEMMA IrqHandlerStep ==
  ASSUME CharDevInv, IrqHandler
  PROVE  FileInv' /\ IrqInv' /\ OneAtATime' /\ WaiterIsWoken'
<1>1. /\ intPending \in SUBSET Phases /\ intPending # {} /\ irq_status = {}
      /\ irqThread = "idle" /\ Reported(intPending) \in intPending
  BY ReportedIsSet DEF CharDevInv, IrqInv, IrqHandler
<1>2. FileInv'
  BY DEF CharDevInv, FileInv, Requested, IrqHandler
<1>3. IrqInv'
  BY <1>1 DEF CharDevInv, IrqInv, IrqHandler
<1>4. ASSUME ~ abandoned
      PROVE  /\ engine = Idle /\ call # Idle /\ call.req \in finished
             /\ answered \subseteq finished
             /\ intPending = {call.op} /\ Counted("none")
  BY <1>1, <1>4 DEF CharDevInv, OneAtATime, Nothing, OnItsWay
<1>5. OneAtATime'
  BY <1>1, <1>4 DEF OneAtATime, OnItsWay, Counted, IrqHandler
<1>6. WaiterIsWoken'
  BY <1>1, Zenon DEF CharDevInv, WaiterIsWoken, IrqHandler
<1>7. QED BY <1>2, <1>3, <1>5, <1>6

\* strela_irq_thread_fn counts one of the bits it was given; the other is still
\* pending.
LEMMA IrqThreadStep ==
  ASSUME CharDevInv, IrqThread
  PROVE  FileInv' /\ IrqInv' /\ OneAtATime' /\ WaiterIsWoken'
<1> DEFINE r == Reported(irq_status)
<1>1. /\ irq_status \in SUBSET Phases /\ r \in irq_status /\ r \in Phases
      /\ irq_status \ {r} \subseteq intPending
      /\ done \in [Phases -> Nat] /\ done' = [done EXCEPT ![r] = done[r] + 1]
      /\ irqThread = "woken"
  BY ReportedIsSet DEF CharDevInv, IrqInv, IrqThread
<1>2. FileInv'
  BY DEF CharDevInv, FileInv, Requested, IrqThread
<1>3. IrqInv'
  BY <1>1 DEF CharDevInv, IrqInv, IrqThread
<1>4. ASSUME ~ abandoned
      PROVE  /\ engine = Idle /\ call # Idle /\ call.req \in finished
             /\ answered \subseteq finished
             /\ intPending = {} /\ irq_status = {call.op} /\ Counted("none")
  BY <1>1, <1>4 DEF CharDevInv, OneAtATime, Nothing, OnItsWay
<1>5. ASSUME ~ abandoned PROVE done' = [q \in Phases |-> IF q = call.op THEN 1 ELSE 0]
  <2>1. \A q \in Phases : done[q] = 0
    BY <1>4, <1>5 DEF Counted, Phases
  <2>2. \A q \in Phases : done'[q] = IF q = call.op THEN 1 ELSE 0
    BY <1>1, <1>4, <1>5, <2>1
  <2>3. done' \in [Phases -> Nat]
    BY <1>1
  <2>4. QED BY <2>2, <2>3
<1>6. OneAtATime'
  BY <1>4, <1>5 DEF OneAtATime, OnItsWay, Counted, IrqThread
<1>7. ASSUME call # Idle, call.req \in finished
      PROVE  call.op \in intPending \/ done'[call.op] > 0
  <2>1. call.op \in Phases
    BY <1>7, CallIsTyped DEF CharDevInv
  <2>2. call.op \in intPending \/ call.op = r \/ done[call.op] > 0
    BY <1>1, <1>7 DEF CharDevInv, WaiterIsWoken
  <2>3. QED BY <1>1, <2>1, <2>2
<1>8. WaiterIsWoken'
  BY <1>7 DEF WaiterIsWoken, IrqThread
<1>9. QED BY <1>2, <1>3, <1>6, <1>8

\* All of the invariant, in every step.
LEMMA CharDevStep ==
  ASSUME CharDevInv, [CharDevNext]_charDevVars
  PROVE  CharDevInv'
<1>1. CASE CharDevNext
  <2>1. HeldInv'
    BY <1>1, HeldStep DEF CharDevInv
  <2>2. FileInv' /\ IrqInv' /\ OneAtATime' /\ WaiterIsWoken'
    BY <1>1, CdevQuiet, CdevProbeStep, IoctlStep, IoctlOkStep, IoctlGivesUpStep,
       EngineDoneStep, IrqHandlerStep, IrqThreadStep DEF CharDevNext
  <2>3. QED BY <2>1, <2>2 DEF CharDevInv
<1>2. CASE UNCHANGED charDevVars
  BY <1>2 DEF charDevVars, CharDevInv, FileInv, Requested, IrqInv, OneAtATime,
     Nothing, OnItsWay, Counted, WaiterIsWoken, HeldInv
<1>3. QED BY <1>1, <1>2

\* Before the module is loaded nothing is held and no request was made.
LEMMA CharDevInvInit == CharDevInit => CharDevInv
<1> SUFFICES ASSUME CharDevInit PROVE CharDevInv
  OBVIOUS
<1>1. FileInv /\ HeldInv
  BY DEF CharDevInit, FileInv, Requested, HeldInv
<1>2. IrqInv /\ WaiterIsWoken
  BY DEF CharDevInit, IrqInv, WaiterIsWoken
<1>3. OneAtATime
  BY DEF CharDevInit, OneAtATime, Nothing, Counted, Phases
<1>4. QED BY <1>1, <1>2, <1>3 DEF CharDevInv

\* The inductive invariant of strela_driver.c: what an ioctl waits for is what the
\* engine does, until one gives up; an interrupt is pending, in the thread or
\* delivered; and what is held is what init and probe have acquired.
THEOREM CharDevSafety == CharDevSpec => []CharDevInv
BY CharDevStep, CharDevInvInit, PTL DEF CharDevSpec

\* Until an ioctl gives up, one that returns 0 has seen its own phase end
\* (strela_ioctl without reinit_completion).
THEOREM OkSafety == CharDevSpec => []OkMeansFinished
<1>1. CharDevInv => OkMeansFinished
  BY DEF CharDevInv, OneAtATime, OkMeansFinished
<1>2. QED BY <1>1, CharDevSafety, PTL

\* The end of the phase an ioctl waits for is not lost between
\* strela_irq_handler and strela_irq_thread_fn.
THEOREM WaiterSafety == CharDevSpec => []WaiterIsWoken
<1>1. CharDevInv => WaiterIsWoken
  BY DEF CharDevInv
<1>2. QED BY <1>1, CharDevSafety, PTL

\* The error paths of strela_driver_init and strela_probe, strela_remove and
\* strela_driver_exit leave nothing but the pages of a probe without interrupt.
THEOREM CharDevResources == CharDevSpec => []CharDevLeavesNothing
<1>1. CharDevInv => CharDevLeavesNothing
  BY DEF CharDevInv, HeldInv, CharDevLeavesNothing
<1>2. QED BY <1>1, CharDevSafety, PTL

-----------------------------------------------------------------------------
(* Arithmetic. *)

\* Products of naturals are monotonic.
LEMMA MulMono ==
  ASSUME NEW a \in Nat, NEW b \in Nat, NEW c \in Nat, NEW d \in Nat,
         a <= b, c <= d
  PROVE  a * c <= b * d
OBVIOUS

\* A value that fits its width is not changed by the arithmetic.
LEMMA ModSmall ==
  ASSUME NEW x \in Nat, NEW m \in Nat, x < m
  PROVE  x % m = x
OBVIOUS

\* A remainder fits the width.
LEMMA ModRange ==
  ASSUME NEW x \in Nat, NEW m \in Nat, 0 < m
  PROVE  x % m \in 0 .. m - 1
OBVIOUS

\* Two halves of a register, read back.
LEMMA TwoHalves ==
  ASSUME NEW x \in Nat, NEW y \in Nat, NEW m \in Nat, y < m
  PROVE  (x * m + y) % m = y /\ (x * m + y) \div m = x
OBVIOUS

\* Shifting a value by half a register clears the low half.
LEMMA ShiftClears ==
  ASSUME NEW x \in Nat, NEW m \in Nat, 0 < m
  PROVE  \E k \in 0 .. m - 1 : (x * m) % (m * m) = k * m
<1> DEFINE k == x % m
           q == x \div m
<1>1. k \in 0 .. m - 1 /\ q \in Nat /\ x = q * m + k
  OBVIOUS
<1> HIDE DEF k, q
<1>2. x * m = q * (m * m) + k * m
  BY <1>1
<1>3. k * m <= (m - 1) * m
  BY <1>1, MulMono
<1>4. k * m \in Nat /\ m * m \in Nat /\ k * m < m * m
  BY <1>1, <1>3
<1>5. (x * m) % (m * m) = k * m
  <2> DEFINE n == m * m
             r == k * m
  <2>1. q \in Nat /\ r \in Nat /\ n \in Nat /\ r < n /\ x * m = q * n + r
    BY <1>1, <1>2, <1>4
  <2> HIDE DEF n, r
  <2>2. (q * n + r) % n = r
    BY <2>1, TwoHalves
  <2>3. (x * m) % n = r
    BY <2>1, <2>2
  <2> QED BY <2>3 DEF n, r
<1> QED BY <1>1, <1>5, Zenon

\* What the assumption says of the widths of the registers and of u32 and u64.
LEMMA Widths ==
  /\ HalfWord \in Nat /\ WordSize \in Nat /\ U32 \in Nat /\ U64 \in Nat
  /\ 1 < HalfWord /\ 1 <= WordSize /\ WordSize < HalfWord
  /\ HalfWord < U32 /\ U32 < U64
  /\ U32 * HalfWord < U64
  /\ U32 * WordSize + HalfWord <= U32 * HalfWord
<1>1. HalfWord \in Nat /\ WordSize \in Nat /\ U32 \in Nat
      /\ 1 < HalfWord /\ 1 <= WordSize /\ WordSize < HalfWord
  BY BindingAssumption DEF U32
<1>2. HalfWord < U32
  BY <1>1 DEF U32
<1>3. U64 \in Nat /\ U32 < U64 /\ U32 * HalfWord < U64
  BY <1>1, <1>2 DEF U64
<1>4. U32 * (WordSize + 1) <= U32 * HalfWord
  BY <1>1, MulMono
<1>5. U32 * WordSize + HalfWord <= U32 * HalfWord
  BY <1>1, <1>2, <1>4
<1> QED BY <1>1, <1>2, <1>3, <1>5

-----------------------------------------------------------------------------
(* What strela_binding_check decides. *)

Bindings == [offset : Offsets, count : Counts, stride : Strides]

\* The numbers of a column are u32, and the stride the code uses is not 0.
LEMMA BindingFields ==
  ASSUME NEW b \in Bindings
  PROVE  /\ b.offset \in 0 .. U32 - 1 /\ b.count \in 0 .. U32 - 1
         /\ b.stride \in 0 .. U32 - 1
         /\ Stride(b) \in 1 .. U32 - 1 /\ b.stride <= Stride(b)
<1>1. b.offset \in Offsets /\ b.count \in Counts /\ b.stride \in Strides
  BY DEF Bindings
<1>2. /\ b.offset \in 0 .. U32 - 1 /\ b.count \in 0 .. U32 - 1
      /\ b.stride \in 0 .. U32 - 1
  BY <1>1, BindingAssumption, Zenon
<1>3. Stride(b) = IF b.stride = 0 THEN 1 ELSE b.stride
  BY DEF Stride
<1> QED BY <1>2, <1>3, Widths

\* A stride that fits its field is small enough for the span not to wrap.
LEMMA SpanIsExact ==
  ASSUME NEW b \in Bindings,
         b.count # 0 => Stride(b) * WordSize <= MaxColumnBytes
  PROVE  SpanBytes(b) = ExactSpan(b) /\ ExactSpan(b) \in Nat
<1> DEFINE c == b.count
           s == Stride(b)
<1>1. c \in Nat /\ s \in Nat /\ c < U32 /\ s < U32 /\ 1 <= s
  BY BindingFields, Widths
<1>2. c * s \in Nat /\ c * s * WordSize \in Nat
  BY <1>1, Widths
<1>3. c * s < U64
  <2>1. c * s <= (U32 - 1) * (U32 - 1)
    BY <1>1, MulMono, Widths
  <2>2. (U32 - 1) * (U32 - 1) < U32 * U32
    BY Widths
  <2> QED BY <1>2, <2>1, <2>2, Widths DEF U64
<1>4. c * s * WordSize < U64
  <2>1. CASE c = 0
    BY <2>1, <1>1, Widths
  <2>2. CASE c # 0
    <3>1. s * WordSize \in Nat /\ s * WordSize <= HalfWord
      BY <2>2, <1>1, Widths DEF MaxColumnBytes
    <3>2. c * (s * WordSize) <= U32 * HalfWord
      BY <1>1, <3>1, MulMono, Widths
    <3>3. c * s * WordSize = c * (s * WordSize)
      BY <1>1, Widths
    <3> QED BY <1>2, <3>2, <3>3, Widths
  <2> QED BY <2>1, <2>2
<1>5. (c * s) % U64 = c * s
  BY <1>2, <1>3, ModSmall, Widths
<1>6. (c * s * WordSize) % U64 = c * s * WordSize
  BY <1>2, <1>4, ModSmall, Widths
<1> QED BY <1>2, <1>5, <1>6 DEF SpanBytes, ExactSpan

\* The comparison of the stride in strela_binding_check does not wrap around.
LEMMA StrideIsExact ==
  ASSUME NEW b \in Bindings
  PROVE  StrideFits(b) <=>
           (b.count # 0 => Stride(b) * WordSize <= MaxColumnBytes)
<1> DEFINE s == Stride(b)
<1>1. s \in Nat /\ s <= U32
  BY BindingFields, Widths
<1>2. s * WordSize <= U32 * HalfWord
  BY <1>1, MulMono, Widths
<1>3. s * WordSize \in Nat /\ s * WordSize < U64
  BY <1>1, <1>2, Widths
<1>4. (s * WordSize) % U64 = s * WordSize
  BY <1>3, ModSmall, Widths
<1> QED BY <1>4 DEF StrideFits

\* Nor does the end, once the span is known to fit.
LEMMA EndIsExact ==
  ASSUME NEW b \in Bindings, SpanBytes(b) = ExactSpan(b),
         ExactSpan(b) \in Nat, ExactSpan(b) <= MaxColumnBytes
  PROVE  End(b) = b.offset * WordSize + ExactSpan(b)
<1> DEFINE o == b.offset * WordSize
<1>1. b.offset \in Nat /\ b.offset <= U32
  BY BindingFields, Widths
<1>2. o <= U32 * WordSize /\ o \in Nat
  BY <1>1, MulMono, Widths
<1>3. o + ExactSpan(b) \in Nat /\ o + ExactSpan(b) < U64 /\ o < U64
  BY <1>2, Widths DEF MaxColumnBytes
<1>4. o % U64 = o /\ (o + ExactSpan(b)) % U64 = o + ExactSpan(b)
  BY <1>2, <1>3, ModSmall, Widths, Zenon
<1> QED BY <1>4 DEF End

\* What the check accepts, in exact arithmetic.
Fits(b) ==
  /\ ExactSpan(b) <= MaxColumnBytes
  /\ b.count # 0 => Stride(b) * WordSize <= MaxColumnBytes
  /\ b.offset * WordSize + ExactSpan(b) <= obj_size

\* Together, the three comparisons of strela_binding_check are the exact ones.
LEMMA CheckDecides ==
  ASSUME NEW b \in Bindings
  PROVE  (SpanFits(b) /\ StrideFits(b) /\ EndFits(b)) <=> Fits(b)
<1>1. CASE ~ StrideFits(b)
  BY <1>1, StrideIsExact DEF Fits
<1>2. CASE StrideFits(b)
  <2>1. b.count # 0 => Stride(b) * WordSize <= MaxColumnBytes
    BY <1>2, StrideIsExact
  <2>2. SpanBytes(b) = ExactSpan(b) /\ ExactSpan(b) \in Nat
    BY <2>1, SpanIsExact
  <2>3. SpanFits(b) <=> ExactSpan(b) <= MaxColumnBytes
    BY <2>2 DEF SpanFits
  <2>4. CASE ~ SpanFits(b)
    BY <2>3, <2>4 DEF Fits
  <2>5. CASE SpanFits(b)
    <3>1. End(b) = b.offset * WordSize + ExactSpan(b)
      BY <2>2, <2>3, <2>5, EndIsExact
    <3> QED BY <1>2, <2>1, <2>3, <2>5, <3>1 DEF Fits, EndFits
  <2> QED BY <2>4, <2>5
<1> QED BY <1>1, <1>2

\* So is the one of strela_check_bounds: what wraps around is beyond the region.
LEMMA CheckBoundsDecides ==
  ASSUME NEW b \in Bindings
  PROVE  CheckBounds(b) <=>
           ~ (b.offset * WordSize + b.count * b.stride * WordSize <= RegionSize)
<1>1. /\ b.offset \in Nat /\ b.count \in Nat /\ b.stride \in Nat
      /\ WordSize \in Nat /\ 1 <= WordSize
      /\ RegionSize \in Nat /\ RegionSize < U32 /\ U32 \in Nat
  BY BindingFields, BindingAssumption, Widths
<1>2. PICK o \in Nat : o = b.offset * WordSize
  BY <1>1
<1>3. PICK c \in Nat : c = b.count * b.stride
  BY <1>1
<1>4. PICK n \in Nat : n = c * WordSize
  BY <1>1
<1>5. c <= n
  <2>1. c * 1 <= c * WordSize
    BY <1>1, MulMono
  <2> QED BY <1>4, <2>1
<1> SUFFICES CheckBounds(b) <=> ~ (o + n <= RegionSize)
  BY <1>2, <1>3, <1>4
<1>6. /\ MulOverflows(b.offset, WordSize) <=> o >= U32
      /\ MulOverflows(b.count, b.stride) <=> c >= U32
      /\ MulOverflows(c, WordSize) <=> n >= U32
      /\ AddOverflows(o, n) <=> o + n >= U32
  BY <1>2, <1>3, <1>4, Zenon DEF MulOverflows, AddOverflows
<1>7. /\ o < U32 => Mul32(b.offset, WordSize) = o
      /\ c < U32 => Mul32(b.count, b.stride) = c
      /\ n < U32 => Mul32(c, WordSize) = n
      /\ o + n < U32 => Add32(o, n) = o + n
  <2>1. \A x \in Nat : x < U32 => x % U32 = x
    BY <1>1, ModSmall, Zenon
  <2>2. o + n \in Nat
    OBVIOUS
  <2> QED BY <1>2, <1>3, <1>4, <2>1, <2>2, Zenon DEF Mul32, Add32
<1>8. CASE o >= U32 \/ c >= U32 \/ n >= U32
  <2>1. CheckBounds(b)
    BY <1>1, <1>6, <1>7, <1>8 DEF CheckBounds
  <2> QED BY <1>1, <1>5, <1>8, <2>1
<1>9. CASE o < U32 /\ c < U32 /\ n < U32
  <2>1. CheckBounds(b) <=> o + n >= U32 \/ Add32(o, n) > RegionSize
    BY <1>1, <1>6, <1>7, <1>9 DEF CheckBounds
  <2> QED BY <1>1, <1>7, <2>1
<1> QED BY <1>1, <1>8, <1>9

-----------------------------------------------------------------------------
(* What strela_input_size packs. *)

\* strela_input_size of an accepted column keeps its two halves apart.
LEMMA InputSizeDecodes ==
  ASSUME NEW b \in Bindings, Fits(b)
  PROVE  /\ InputSize(b) \in 0 .. U32 - 1
         /\ InputSize(b) % HalfWord = ExactSpan(b)
         /\ b.count # 0 => InputSize(b) \div HalfWord = b.stride * WordSize
<1> DEFINE x == (b.stride * WordSize) % U32
           hi == (x * HalfWord) % U32
           span == ExactSpan(b)
<1>1. b.count \in Nat /\ Stride(b) \in Nat /\ b.stride \in Nat
      /\ 1 <= Stride(b) /\ b.stride <= Stride(b) /\ Stride(b) < U32
  BY BindingFields, Widths
<1>2. span \in Nat /\ span < HalfWord /\ span < U32
  BY SpanIsExact, Widths DEF Fits, MaxColumnBytes
<1>3. Stride(b) * b.count \in Nat /\ Stride(b) * b.count <= span
      /\ span = Stride(b) * b.count * WordSize
  <2>1. Stride(b) * b.count \in Nat /\ Stride(b) * b.count = b.count * Stride(b)
    BY <1>1
  <2>2. span = (Stride(b) * b.count) * WordSize
    BY <2>1 DEF ExactSpan
  <2>3. (Stride(b) * b.count) * 1 <= (Stride(b) * b.count) * WordSize
    BY <2>1, MulMono, Widths
  <2> QED BY <2>1, <2>2, <2>3
<1>4. (((Stride(b) * b.count) % U32) * WordSize) % U32 = span
  <2>1. (Stride(b) * b.count) % U32 = Stride(b) * b.count
    BY <1>2, <1>3, ModSmall, Widths
  <2>2. span % U32 = span
    BY <1>2, ModSmall, Widths
  <2> QED BY <1>3, <2>1, <2>2
<1>5. x \in Nat
  <2>1. b.stride * WordSize \in Nat
    BY <1>1, Widths
  <2> QED BY <2>1, ModRange, Widths
<1>6. PICK k \in 0 .. HalfWord - 1 : hi = k * HalfWord
  <2> HIDE DEF x
  <2>1. \E k \in 0 .. HalfWord - 1 :
          (x * HalfWord) % (HalfWord * HalfWord) = k * HalfWord
    <3>1. HalfWord \in Nat /\ 0 < HalfWord
      BY Widths
    <3> QED BY <1>5, <3>1, ShiftClears, Zenon
  <2> QED BY <2>1 DEF U32
<1>7. k * HalfWord <= (HalfWord - 1) * HalfWord
  BY <1>6, MulMono, Widths
<1>8. hi + span \in Nat /\ hi + span < U32
  BY <1>2, <1>6, <1>7, Widths DEF U32
<1>9. InputSize(b) = k * HalfWord + span
  <2>1. (hi + span) % U32 = hi + span
    BY <1>8, ModSmall, Widths
  <2> QED BY <1>4, <1>6, <2>1 DEF InputSize
<1>10. InputSize(b) % HalfWord = span /\ InputSize(b) \div HalfWord = k
  BY <1>2, <1>6, <1>9, TwoHalves, Widths
<1>11. b.count # 0 => k = b.stride * WordSize
  <2> HAVE b.count # 0
  <2>1. b.stride * WordSize <= Stride(b) * WordSize
    BY <1>1, MulMono, Widths
  <2>2. b.stride * WordSize \in Nat /\ b.stride * WordSize < HalfWord
    BY <1>1, <2>1, Widths DEF Fits, MaxColumnBytes
  <2>3. x = b.stride * WordSize
    BY <2>2, ModSmall, Widths
  <2>4. x * HalfWord <= (HalfWord - 1) * HalfWord
    BY <2>2, <2>3, MulMono, Widths
  <2>5. x * HalfWord \in Nat /\ x * HalfWord < U32
    BY <1>5, <2>4, Widths DEF U32
  <2>6. x * HalfWord = k * HalfWord
    BY <1>6, <2>5, ModSmall, Widths
  <2> QED BY <1>5, <1>6, <2>3, <2>6, Widths
<1>12. InputSize(b) \in 0 .. U32 - 1
  <2> HIDE DEF hi, span
  <2> QED BY <1>6, <1>8, <1>9, Widths
<1> QED BY <1>10, <1>11, <1>12

-----------------------------------------------------------------------------
(* The invariant: the verdict, what an accepted column implies, and that   *)
(* the copy never runs past the shorter count.                             *)

BInv ==
  /\ BindingTypeOK
  /\ CheckIsExact
  /\ RegisterDecodes
  /\ words # 0 => words <= binding.count
  /\ pc = "submit" => words = 0

\* Before strela_binding_check nothing is claimed.
LEMMA BInvInit == BindingInit => BInv
  BY Widths DEF BindingInit, BInv, BindingTypeOK, CheckIsExact, RegisterDecodes

\* The check, programming the register and reading a word keep the invariant.
LEMMA BInvStep == BInv /\ [BindingNext]_bindingVars => BInv'
<1> SUFFICES ASSUME BInv, [BindingNext]_bindingVars PROVE BInv'
  OBVIOUS
<1> USE DEF BInv
<1>b. binding \in Bindings
  BY DEF BindingTypeOK, Bindings
<1>1. CASE BindingCheck
  <2>1. pc' = IF Fits(binding) THEN "accepted" ELSE "EINVAL"
    BY <1>1, <1>b, CheckDecides DEF BindingCheck
  <2>2. UNCHANGED <<binding, obj_size, size_reg, outs, words>>
    BY <1>1 DEF BindingCheck
  <2>3. CheckIsExact'
    BY <2>1, <2>2 DEF CheckIsExact, Fits, ExactSpan, Stride
  <2> QED BY <1>1, <2>1, <2>2, <2>3
          DEF BindingCheck, BindingTypeOK, RegisterDecodes
<1>2. CASE HwProgram
  <2>1. pc = "accepted" /\ pc' = "programmed" /\ size_reg' = InputSize(binding)
        /\ UNCHANGED <<binding, obj_size, outs, words>>
    BY <1>2 DEF HwProgram
  <2>2. Fits(binding)
    BY <2>1 DEF CheckIsExact, Fits
  <2>3. /\ size_reg' \in 0 .. U32 - 1
        /\ size_reg' % HalfWord = ExactSpan(binding)
        /\ binding.count # 0 => size_reg' \div HalfWord = binding.stride * WordSize
    BY <1>b, <2>1, <2>2, InputSizeDecodes
  <2>4. RegisterDecodes'
    BY <2>1, <2>3 DEF RegisterDecodes, ExactSpan, Stride
  <2>5. CheckIsExact'
    BY <2>1, <2>2 DEF CheckIsExact, Fits, ExactSpan, Stride
  <2> QED BY <2>1, <2>3, <2>4, <2>5 DEF BindingTypeOK
<1>3. CASE SimWord
  <2>1. words' = words + 1 /\ words < binding.count /\ pc = "programmed"
        /\ UNCHANGED <<binding, obj_size, pc, size_reg, outs>>
    BY <1>3 DEF SimWord
  <2>2. binding.count \in 0 .. U32 - 1
    BY <1>b, BindingFields
  <2>3. BindingTypeOK' /\ words' <= binding'.count
    BY <2>1, <2>2, Widths DEF BindingTypeOK
  <2>4. CheckIsExact' /\ RegisterDecodes'
    BY <2>1 DEF CheckIsExact, RegisterDecodes, ExactSpan, Stride
  <2> QED BY <2>1, <2>3, <2>4
<1>5. CASE Control
  <2>1. pc' = IF CheckBounds(binding) THEN "cdev_EINVAL" ELSE "cdev_accepted"
    BY <1>5 DEF Control
  <2>2. UNCHANGED <<binding, obj_size, size_reg, outs, words>>
    BY <1>5 DEF Control
  <2>3. CheckIsExact'
    <3>1. CheckBounds(binding) <=>
            ~ (binding.offset * WordSize + binding.count * binding.stride * WordSize
                 <= RegionSize)
      BY <1>b, CheckBoundsDecides
    <3> QED BY <2>1, <2>2, <3>1 DEF CheckIsExact
  <2> QED BY <1>5, <2>1, <2>2, <2>3
          DEF Control, BindingTypeOK, RegisterDecodes
<1>4. CASE UNCHANGED bindingVars
  BY <1>4 DEF bindingVars, BindingTypeOK, CheckIsExact, RegisterDecodes,
              ExactSpan, Stride
<1> QED BY <1>1, <1>2, <1>3, <1>4, <1>5 DEF BindingNext, Over

\* Every word that is read lies inside the span that was checked.
LEMMA BInvInBounds == BInv => WordsInBounds
<1> SUFFICES ASSUME BInv, pc = "programmed", NEW i \in 0 .. words - 1
             PROVE  (WordRead(binding, i) + 1) * WordSize <= obj_size
  BY DEF WordsInBounds
<1> DEFINE b == binding
<1>1. b \in Bindings /\ words \in Nat
  BY Widths DEF BInv, BindingTypeOK, Bindings
<1>2. b.offset \in Nat /\ b.count \in Nat /\ b.stride \in Nat
      /\ Stride(b) \in Nat /\ 1 <= Stride(b) /\ b.stride <= Stride(b)
  BY <1>1, BindingFields, Widths
<1>3. i \in Nat /\ i + 1 <= b.count
  BY <1>1, <1>2 DEF BInv
<1>4. Fits(b)
  BY DEF BInv, CheckIsExact, Fits
<1>5. i * b.stride <= i * Stride(b)
  BY <1>2, <1>3, MulMono
<1>6. (i + 1) * Stride(b) <= b.count * Stride(b)
  BY <1>2, <1>3, MulMono
<1>7. i * b.stride \in Nat /\ i * b.stride + 1 <= b.count * Stride(b)
  <2>1. (i + 1) * Stride(b) = i * Stride(b) + Stride(b)
    BY <1>2, <1>3
  <2>2. i * b.stride \in Nat /\ i * Stride(b) \in Nat /\ b.count * Stride(b) \in Nat
    BY <1>2, <1>3
  <2> QED BY <1>2, <1>5, <1>6, <2>1, <2>2
<1>8. (i * b.stride) % U32 \in Nat /\ (i * b.stride) % U32 <= i * b.stride
  BY <1>7, Widths
<1> DEFINE w == (i * b.stride) % U32
<1> HIDE DEF w
<1>9. w \in Nat /\ w + 1 <= b.count * Stride(b)
  BY <1>2, <1>7, <1>8 DEF w
<1>10. (w + 1) * WordSize <= (b.count * Stride(b)) * WordSize
  BY <1>2, <1>9, MulMono, Widths
<1>11. (b.offset + w + 1) * WordSize <= b.offset * WordSize + ExactSpan(b)
  BY <1>2, <1>9, <1>10, Widths DEF ExactSpan
<1>12. WordRead(b, i) = b.offset + w
  BY DEF WordRead, w
<1>13. obj_size \in Int /\ ExactSpan(b) \in Int
  BY <1>2, BindingAssumption, Widths DEF BInv, BindingTypeOK, ExactSpan
<1> QED BY <1>2, <1>4, <1>9, <1>11, <1>12, <1>13, Widths DEF Fits

\* What strela_binding_check has decided stays true of the register that is
\* programmed and of the words that are read.
THEOREM BindingSafety == BindingSpec => []BInv
<1> QED BY BInvInit, BInvStep, PTL DEF BindingSpec

\* strela_binding_check decides in u64 what it would decide without overflow,
\* for all u32 inputs.
THEOREM BindingCheckIsExact == BindingSpec => []CheckIsExact
<1>1. BInv => CheckIsExact
  BY DEF BInv
<1> QED BY <1>1, BindingSafety, PTL

\* The size register of an accepted column decodes to what was asked for.
THEOREM BindingRegisterDecodes == BindingSpec => []RegisterDecodes
<1>1. BInv => RegisterDecodes
  BY DEF BInv
<1> QED BY <1>1, BindingSafety, PTL

\* The copy of the simulated device reads inside the object.
THEOREM BindingWordsInBounds == BindingSpec => []WordsInBounds
<1> QED BY BInvInBounds, BindingSafety, PTL
=============================================================================
