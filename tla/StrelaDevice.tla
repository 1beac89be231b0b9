---------------------------- MODULE StrelaDevice ----------------------------
(***************************************************************************)
(* The life of the module and of its devices: strela_init registers the    *)
(* platform driver and the simulated devices, strela_probe builds a device *)
(* step by step, strela_remove and the managed resources (devm) take it    *)
(* apart, strela_exit undoes everything.  Any step may fail and is then    *)
(* unwound.  Sources: driver/strela_drv.c and strela_hw_setup in           *)
(* driver/strela_core.c.                                                   *)
(*                                                                         *)
(* Device 0 is the CGRA of the device tree, device i > 0 is                *)
(* strela_sim_pdevs[i-1].  The platform bus probes and removes in the      *)
(* thread that registers and unregisters, so that at most one device at a  *)
(* time is built or taken apart; the sysfs file unbind removes a device of *)
(* a loaded module, whether or not a client has it open.                   *)
(***************************************************************************)
EXTENDS Naturals, Sequences

CONSTANTS
  MaxSimDevs,   \* STRELA_MAX_SIM_DEVS
  SimCounts,    \* values of the parameter sim_dev_count
  Files         \* open files a client may have

ASSUME DeviceAssumption ==
  /\ MaxSimDevs \in Nat
  /\ SimCounts \subseteq Nat

Cgra == 0
Devices == 0 .. MaxSimDevs

VARIABLES
  module,         \* how far strela_init or strela_exit has got
  sim_dev_count,  \* module parameter
  status,         \* of each device, on the platform bus
  at,             \* the step of strela_probe that comes next
  devres,         \* managed resources of each device, in order of acquisition
  lock,           \* devices whose lock is initialised
  sched,          \* devices whose scheduler runs (strela_job_init)
  registered,     \* devices a client can open (drm_dev_register)
  file            \* files: "closed", "open" or "closing"

deviceVars ==
  <<module, sim_dev_count, status, at, devres, lock, sched, registered, file>>

\* Mutant: the interrupt is requested before the registers are
\* mapped.
ProbeStepsIrqFirst(d) ==
  IF d = Cgra
  THEN <<"drm", "mask", "irq", "base", "challenge", "sched", "register">>
  ELSE <<"drm", "mask", "sched", "register">>

\* strela_probe with strela_hw_setup: the steps that may fail.
ProbeSteps(d) ==
  IF d = Cgra
  THEN <<"drm", "mask", "base", "challenge", "irq", "sched", "register">>
  ELSE <<"drm", "mask", "sched", "register">>

\* The steps whose results the driver core releases by itself.
Managed == {"drm", "base", "irq"}

Settled == \A d \in Devices : status[d] \in {"absent", "unbound", "bound"}

Sims == {d \in Devices \ {Cgra} : status[d] # "absent"}

DeviceInit ==
  /\ module = "unloaded"
  /\ sim_dev_count = 0
  /\ status = [d \in Devices |-> "absent"]
  /\ at = [d \in Devices |-> 1]
  /\ devres = [d \in Devices |-> <<>>]
  /\ lock = {}
  /\ sched = {}
  /\ registered = {}
  /\ file = [f \in Files |-> "closed"]

-----------------------------------------------------------------------------
(* strela_init and strela_exit. *)

\* platform_driver_register, which probes the CGRA if there is one.  When it
\* fails nothing has happened.
LoadModule ==
  /\ module = "unloaded"
  /\ module' = "init"
  /\ sim_dev_count' \in SimCounts
  /\ status' \in {status, [status EXCEPT ![Cgra] = "probing"]}
  /\ UNCHANGED <<at, devres, lock, sched, registered, file>>

\* strela_sim_dev_register: one turn of its loop.
SimDevRegister(d) ==
  /\ module = "init" /\ Settled
  /\ d \in Devices \ {Cgra} /\ d <= sim_dev_count
  /\ Sims = 1 .. d - 1
  /\ \/ status' = [status EXCEPT ![d] = "probing"]
        /\ UNCHANGED module
     \/ module' = "unwind"
        /\ UNCHANGED status
  /\ UNCHANGED <<sim_dev_count, at, devres, lock, sched, registered, file>>

InitDone ==
  /\ module = "init" /\ Settled
  /\ \A d \in Devices \ {Cgra} : d <= sim_dev_count => d \in Sims
  /\ module' = "loaded"
  /\ UNCHANGED <<sim_dev_count, status, at, devres, lock, sched, registered, file>>

\* strela_exit runs only when no file is open: an open file holds the module.
ExitBegin ==
  /\ module = "loaded" /\ Settled
  /\ \A f \in Files : file[f] = "closed"
  /\ module' = "exit"
  /\ UNCHANGED <<sim_dev_count, status, at, devres, lock, sched, registered, file>>

\* A removal starts: strela_remove, up to drm_dev_unregister.
RemoveBegin(d) ==
  /\ status[d] = "bound"
  /\ registered' = registered \ {d}
  /\ status' = [status EXCEPT ![d] = "fini"]

\* strela_sim_dev_unregister, first to last, then platform_driver_unregister.
Unregister(d) ==
  /\ module \in {"unwind", "exit"} /\ Settled
  /\ d # Cgra => \A e \in Sims : d <= e
  /\ d = Cgra => Sims = {}
  /\ \/ RemoveBegin(d)
     \/ status[d] = "unbound"
        /\ status' = [status EXCEPT ![d] = "absent"]
        /\ UNCHANGED registered
  /\ UNCHANGED <<module, sim_dev_count, at, devres, lock, sched, file>>

\* Both functions return once every device is gone.
Unloaded ==
  /\ module \in {"unwind", "exit"} /\ Settled
  /\ \A d \in Devices : status[d] = "absent"
  /\ module' = "unloaded"
  /\ sim_dev_count' = 0
  /\ UNCHANGED <<status, at, devres, lock, sched, registered, file>>

\* The sysfs file unbind of the platform driver.
Unbind(d) ==
  /\ module = "loaded" /\ Settled
  /\ RemoveBegin(d)
  /\ UNCHANGED <<module, sim_dev_count, at, devres, lock, sched, file>>

-----------------------------------------------------------------------------
(* strela_probe and strela_remove. *)

Step(d) == ProbeSteps(d)[at[d]]

\* A step succeeds.  The lock is initialised right after the allocation.
ProbeStep(d) ==
  /\ status[d] = "probing"
  /\ devres' = [devres EXCEPT ![d] =
                  IF Step(d) \in Managed THEN Append(@, Step(d)) ELSE @]
  /\ lock' = IF Step(d) = "drm" THEN lock \cup {d} ELSE lock
  /\ sched' = IF Step(d) = "sched" THEN sched \cup {d} ELSE sched
  /\ registered' = IF Step(d) = "register" THEN registered \cup {d} ELSE registered
  /\ at' = [at EXCEPT ![d] = @ + 1]
  /\ status' = [status EXCEPT ![d] =
                  IF at[d] = Len(ProbeSteps(d)) THEN "bound" ELSE "probing"]
  /\ UNCHANGED <<module, sim_dev_count, file>>

\* Mutant: the scheduler is left running.
ProbeFailsBare(d) ==
  /\ status[d] = "probing"
  /\ status' = [status EXCEPT ![d] = "release"]
  /\ UNCHANGED <<module, sim_dev_count, at, devres, lock, sched, registered, file>>

\* A step fails.  Only a failed drm_dev_register has something to undo.
ProbeFails(d) ==
  /\ status[d] = "probing"
  /\ status' = [status EXCEPT ![d] = "release"]
  /\ sched' = IF Step(d) = "register" THEN sched \ {d} ELSE sched
  /\ UNCHANGED <<module, sim_dev_count, at, devres, lock, registered, file>>

\* strela_job_fini.
JobFini(d) ==
  /\ status[d] = "fini"
  /\ sched' = sched \ {d}
  /\ status' = [status EXCEPT ![d] = "release"]
  /\ UNCHANGED <<module, sim_dev_count, at, devres, lock, registered, file>>

\* The driver core releases the managed resources, last acquired first.
DevmRelease(d) ==
  /\ status[d] = "release"
  /\ IF devres[d] = <<>>
     THEN /\ status' = [status EXCEPT ![d] = "unbound"]
          /\ at' = [at EXCEPT ![d] = 1]
          /\ UNCHANGED <<devres, lock>>
     ELSE LET last == Len(devres[d])
          IN /\ devres' = [devres EXCEPT ![d] = SubSeq(@, 1, last - 1)]
             /\ lock' = IF devres[d][last] = "drm" THEN lock \ {d} ELSE lock
             /\ UNCHANGED <<status, at>>
  /\ UNCHANGED <<module, sim_dev_count, sched, registered, file>>

-----------------------------------------------------------------------------
DeviceStep ==
  \/ LoadModule \/ InitDone \/ Unloaded
  \/ \E d \in Devices :
       \/ SimDevRegister(d) \/ Unregister(d) \/ Unbind(d)
       \/ ProbeStep(d) \/ ProbeFails(d) \/ DevmRelease(d)

\* The devices on their own, whoever opens and closes their files: StrelaGem
\* does so, and removes a device only when its clients and jobs let it.
DeviceNext ==
  \/ DeviceStep
  \/ ExitBegin
  \/ \E d \in Devices : JobFini(d)
  \/ UNCHANGED <<module, sim_dev_count, status, at, devres, lock, sched, registered>>

DeviceSpec == DeviceInit /\ [][DeviceNext]_deviceVars

-----------------------------------------------------------------------------
(* Properties. *)

Kept(d) == {devres[d][i] : i \in 1 .. Len(devres[d])}

\* Whoever can reach a device finds what its code relies on, at every step of a
\* probe, of its unwinding and of a removal: the interrupt line is shared
\* (IRQF_SHARED), so that strela_irq_handler may be called as long as it is
\* requested and needs the registers, the lock and the device; a client that
\* opens the device needs the scheduler (strela_open_file).
ReachableIsReady ==
  \A d \in Devices :
    /\ "irq" \in Kept(d) => {"base", "drm"} \subseteq Kept(d) /\ d \in lock
    /\ d \in registered => d \in sched /\ d \in lock

\* A module that is not loaded, because strela_exit ran or because strela_init
\* failed half way, leaves nothing behind: no device on the bus, no managed
\* resource, no scheduler, no node a client could open.
NothingIsLeft ==
  module = "unloaded" =>
    /\ \A d \in Devices : status[d] = "absent" /\ devres[d] = <<>>
    /\ sched = {}
    /\ registered = {}

-----------------------------------------------------------------------------
(* The inductive invariant behind both properties. *)

\* The managed resources of a device in the order in which they are acquired,
\* and how many of them it has after the first n steps of its probe.
ManagedSteps(d) == IF d = Cgra THEN <<"drm", "base", "irq">> ELSE <<"drm">>
ManagedCount(d, n) ==
  CASE n < 1 -> 0
    [] n >= 1 /\ (d # Cgra \/ n < 3) -> 1
    [] d = Cgra /\ n \in 3 .. 4 -> 2
    [] d = Cgra /\ n > 4 -> 3

\* It has the first k of them.
KeepsFirst(d, k) ==
  /\ devres[d] \in Seq(Managed) /\ Len(devres[d]) = k
  /\ \A i \in 1 .. k : devres[d][i] = ManagedSteps(d)[i]

\* What a device has is a matter of its state and of how far its probe got.
StageInv(d) ==
  /\ status[d] \in {"absent", "unbound"} =>
       at[d] = 1 /\ KeepsFirst(d, 0) /\ d \notin lock \cup sched \cup registered
  /\ status[d] = "probing" =>
       /\ at[d] \in 1 .. Len(ProbeSteps(d))
       /\ KeepsFirst(d, ManagedCount(d, at[d] - 1))
       /\ d \in lock <=> at[d] > 1
       /\ d \in sched <=> at[d] = Len(ProbeSteps(d))
       /\ d \notin registered
  /\ status[d] \in {"bound", "fini"} =>
       /\ KeepsFirst(d, Len(ManagedSteps(d)))
       /\ d \in lock /\ d \in sched
       /\ d \in registered <=> status[d] = "bound"
  /\ status[d] = "release" =>
       /\ \E k \in 0 .. Len(ManagedSteps(d)) : KeepsFirst(d, k)
       /\ d \in lock <=> devres[d] # <<>>
       /\ d \notin sched \cup registered

DeviceInv ==
  /\ status \in [Devices ->
       {"absent", "probing", "bound", "fini", "release", "unbound"}]
  /\ DOMAIN at = Devices /\ DOMAIN devres = Devices
  /\ \A d \in Devices : StageInv(d)
  /\ module = "unloaded" => \A d \in Devices : status[d] = "absent"
  /\ lock \cup sched \cup registered \subseteq Devices
=============================================================================
