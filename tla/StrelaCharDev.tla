--------------------------- MODULE StrelaCharDev ---------------------------
(***************************************************************************)
(* The character device driver that came before the accel driver: its      *)
(* exclusive open, the blocking ioctls CONFIG and EXEC, the interrupt and  *)
(* the two completions it ends with, and the resources its init, probe,    *)
(* remove and exit acquire and release.  Source: driver/strela_driver.c.   *)
(* The check of CONTROL, strela_check_bounds, is in StrelaBinding.         *)
(*                                                                         *)
(* One thread uses the open file.  The engine is modelled as in StrelaHw:  *)
(* a phase that ends sets a bit that stays pending until the matching      *)
(* CLEAR_INT command, and any phase may hang.                              *)
(***************************************************************************)
EXTENDS Naturals, Sequences

CONSTANT MaxRequests   \* bound on the ioctls of a behaviour

ASSUME CharDevAssumption == MaxRequests \in Nat

VARIABLES
  loaded,       \* the module: "no", "bound" to the device or "unbound"
  held,         \* resources acquired and not released
  noIrq,        \* some probe could not get its interrupt
  in_use,       \* the device is open
  requests,     \* ioctls so far
  call,         \* the ioctl that waits, and its number
  engine,       \* phase the engine is in, and the ioctl it works for
  intPending,   \* interrupt bits that are set
  irq_status,   \* bits the hard handler left for the thread
  irqThread,    \* "idle", or "woken" with the line masked (ONESHOT)
  done,         \* the counts of conf_done and exec_done
  finished,     \* ioctls whose phase the engine has ended
  answered,     \* ioctls that returned 0
  abandoned     \* some ioctl timed out or was interrupted

charDevVars == <<loaded, held, noIrq, in_use, requests, call, engine, intPending,
                 irq_status, irqThread, done, finished, answered, abandoned>>

runVars == <<in_use, requests, call, engine, intPending, irq_status, irqThread,
             done, finished, answered, abandoned>>

Phases == {"CONFIG", "EXEC"}
Idle == [op |-> "none", req |-> 0]

\* A probe starts from a zeroed structure and fresh completions; the hardware
\* goes on from where it was.
Fresh ==
  /\ in_use' = FALSE
  /\ irq_status' = {}
  /\ done' = [p \in Phases |-> 0]
  /\ UNCHANGED <<requests, call, engine, intPending, irqThread, finished,
                 answered, abandoned>>

CharDevInit ==
  /\ loaded = "no"
  /\ held = {}
  /\ noIrq = FALSE
  /\ in_use = FALSE
  /\ requests = 0
  /\ call = Idle
  /\ engine = Idle
  /\ intPending = {}
  /\ irq_status = {}
  /\ irqThread = "idle"
  /\ done = [p \in Phases |-> 0]
  /\ finished = {}
  /\ answered = {}
  /\ abandoned = FALSE

-----------------------------------------------------------------------------
(* strela_driver_init, strela_probe, strela_remove, strela_driver_exit. *)

\* The steps that may fail, in order; two of them acquire nothing.
CdevInitSteps == <<"region", "class", "driver">>
CdevProbeSteps == <<"priv", "base", "challenge", "dma", "get_irq", "irq", "ida",
                "cdev", "device">>

CdevAcquired(steps, n) == {steps[i] : i \in 1 .. n} \ {"challenge", "get_irq"}

InitResources == CdevAcquired(CdevInitSteps, Len(CdevInitSteps))
ProbeResources == CdevAcquired(CdevProbeSteps, Len(CdevProbeSteps))

\* devm: released by the driver core.
CdevManaged == {"priv", "base", "irq"}

\* Mutant: free_ida is left out.
CdevUnwoundNoIda(step) ==
  CASE step = "class" -> {"region"}
    [] step = "driver" -> {"class", "region"}
    [] step = "ida" -> {"dma"}
    [] step = "cdev" -> {"dma"}
    [] step = "device" -> {"cdev", "dma"}
    [] OTHER -> {}

\* What the error path of a step releases: destroy_class and
\* unregister_chrdev, delete_cdev, free_ida and free_dma.
CdevUnwound(step) ==
  CASE step = "class" -> {"region"}
    [] step = "driver" -> {"class", "region"}
    [] step = "ida" -> {"dma"}
    [] step = "cdev" -> {"ida", "dma"}
    [] step = "device" -> {"cdev", "ida", "dma"}
    [] OTHER -> {}

CdevInitFails ==
  /\ loaded = "no"
  /\ \E i \in DOMAIN CdevInitSteps :
       held' = held \cup
         (CdevAcquired(CdevInitSteps, i - 1) \ CdevUnwound(CdevInitSteps[i]))
  /\ UNCHANGED <<loaded, noIrq, runVars>>

\* The module loads without a device it can use.
CdevProbeFails ==
  /\ loaded = "no"
  /\ \E i \in DOMAIN CdevProbeSteps :
       /\ held' = held \cup InitResources \cup
            (CdevAcquired(CdevProbeSteps, i - 1)
               \ (CdevUnwound(CdevProbeSteps[i]) \cup CdevManaged))
       /\ noIrq' = (noIrq \/ CdevProbeSteps[i] \in {"get_irq", "irq"})
  /\ loaded' = "unbound"
  /\ UNCHANGED runVars

CdevProbe ==
  /\ loaded = "no"
  /\ held' = held \cup InitResources \cup ProbeResources
  /\ loaded' = "bound"
  /\ Fresh
  /\ UNCHANGED noIrq

\* strela_driver_exit, when no file is open; strela_remove for a device.  The
\* interrupt is freed once its thread is done.
CdevExit ==
  /\ loaded # "no" /\ ~ in_use /\ irqThread = "idle"
  /\ held' = held \ (InitResources
                       \cup IF loaded = "bound" THEN ProbeResources ELSE {})
  /\ loaded' = "no"
  /\ UNCHANGED <<noIrq, runVars>>

-----------------------------------------------------------------------------
(* The open file. *)

\* A second open is refused with EBUSY.
CdevOpen ==
  /\ loaded = "bound" /\ ~ in_use
  /\ in_use' = TRUE
  /\ UNCHANGED <<loaded, held, noIrq, requests, call, engine, intPending,
                 irq_status, irqThread, done, finished, answered, abandoned>>

\* The engine is left to whatever it is doing.
CdevRelease ==
  /\ in_use /\ call = Idle
  /\ in_use' = FALSE
  /\ UNCHANGED <<loaded, held, noIrq, requests, call, engine, intPending,
                 irq_status, irqThread, done, finished, answered, abandoned>>

\* IOCTL_STRELA_CONFIG and IOCTL_STRELA_EXEC, up to their wait.  The completion
\* is not reinitialised.
Ioctl(p) ==
  /\ in_use /\ call = Idle
  /\ requests < MaxRequests
  /\ requests' = requests + 1
  /\ call' = [op |-> p, req |-> requests']
  /\ engine' = call'
  /\ UNCHANGED <<loaded, held, noIrq, in_use, intPending, irq_status, irqThread,
                 done, finished, answered, abandoned>>

\* STRELA_CMD_CLEAR_STATE, which ends IOCTL_STRELA_CONFIG, may stop a phase
\* that is still going on.
ClearState ==
  IF call.op = "CONFIG" THEN engine' \in {engine, Idle} ELSE UNCHANGED engine

\* wait_for_completion_interruptible_timeout finds the completion done.
IoctlOk ==
  /\ call # Idle /\ done[call.op] > 0
  /\ done' = [done EXCEPT ![call.op] = @ - 1]
  /\ answered' = answered \cup {call.req}
  /\ call' = Idle
  /\ ClearState
  /\ UNCHANGED <<loaded, held, noIrq, in_use, requests, intPending, irq_status,
                 irqThread, finished, abandoned>>

\* Mutant: a wait that ends without its completion is taken for a success.
IoctlGivesUpOk ==
  /\ call # Idle /\ done[call.op] = 0
  /\ answered' = answered \cup {call.req}
  /\ call' = Idle
  /\ ClearState
  /\ UNCHANGED <<loaded, held, noIrq, in_use, requests, intPending, irq_status,
                 irqThread, done, finished, abandoned>>

\* It times out or a signal ends it: ETIMEDOUT, ERESTARTSYS.
IoctlGivesUp ==
  /\ call # Idle /\ done[call.op] = 0
  /\ abandoned' = TRUE
  /\ call' = Idle
  /\ ClearState
  /\ UNCHANGED <<loaded, held, noIrq, in_use, requests, intPending, irq_status,
                 irqThread, done, finished, answered>>

-----------------------------------------------------------------------------
(* The engine and its interrupt. *)

EngineDone ==
  /\ engine # Idle
  /\ engine' = Idle
  /\ intPending' = intPending \cup {engine.op}
  /\ finished' = finished \cup {engine.req}
  /\ UNCHANGED <<loaded, held, noIrq, in_use, requests, call, irq_status,
                 irqThread, done, answered, abandoned>>

Reported(bits) == IF "CONFIG" \in bits THEN "CONFIG" ELSE "EXEC"

\* Mutant: the handler clears all it has read.
IrqHandlerClearsAll ==
  /\ loaded = "bound" /\ irqThread = "idle" /\ intPending # {}
  /\ intPending' = {}
  /\ irq_status' = intPending
  /\ irqThread' = "woken"
  /\ UNCHANGED <<loaded, held, noIrq, in_use, requests, call, engine, done,
                 finished, answered, abandoned>>

\* strela_irq_handler clears one bit and leaves all it has read to the thread.
IrqHandler ==
  /\ loaded = "bound" /\ irqThread = "idle" /\ intPending # {}
  /\ intPending' = intPending \ {Reported(intPending)}
  /\ irq_status' = intPending
  /\ irqThread' = "woken"
  /\ UNCHANGED <<loaded, held, noIrq, in_use, requests, call, engine, done,
                 finished, answered, abandoned>>

\* strela_irq_thread_fn
IrqThread ==
  /\ irqThread = "woken"
  /\ done' = [done EXCEPT ![Reported(irq_status)] = @ + 1]
  /\ irq_status' = {}
  /\ irqThread' = "idle"
  /\ UNCHANGED <<loaded, held, noIrq, in_use, requests, call, engine, intPending,
                 finished, answered, abandoned>>

CharDevNext ==
  \/ CdevInitFails \/ CdevProbeFails \/ CdevProbe \/ CdevExit
  \/ CdevOpen \/ CdevRelease
  \/ \E p \in Phases : Ioctl(p)
  \/ IoctlOk \/ IoctlGivesUp
  \/ EngineDone \/ IrqHandler \/ IrqThread

CharDevSpec == CharDevInit /\ [][CharDevNext]_charDevVars

-----------------------------------------------------------------------------
(* Properties. *)

\* "is there any case in which I should reinit_completion?" (strela_ioctl): not
\* as long as every wait sees its completion.  Until an ioctl times out or is
\* interrupted, one that returns 0 does so because the engine has ended the
\* phase it asked for.  Afterwards a late completion answers the next ioctl.
OkMeansFinished == ~ abandoned => answered \subseteq finished

\* The handler clears one bit, the thread forgets the status it was given, and
\* both bits may be set at once; still the end of the phase an ioctl waits for is
\* pending, being handled or counted, whatever was abandoned before.
WaiterIsWoken ==
  call # Idle /\ call.req \in finished =>
    call.op \in intPending \cup irq_status \/ done[call.op] > 0

\* The module leaves nothing behind, wherever strela_driver_init or
\* strela_probe failed, but for the pages of a probe that could not get its
\* interrupt: those two error paths return without freeing them.
CharDevLeavesNothing ==
  loaded = "no" => held \subseteq IF noIrq THEN {"dma"} ELSE {}

-----------------------------------------------------------------------------
(* The inductive invariant behind the properties. *)

Requested(r) ==
  r = Idle \/ (r \in [op : Phases, req : Nat] /\ r.req \in 1 .. requests)

\* A thread waits only in an open file of a loaded module.
FileInv ==
  /\ loaded \in {"no", "bound", "unbound"}
  /\ requests \in Nat
  /\ Requested(call) /\ Requested(engine)
  /\ finished \subseteq 1 .. requests
  /\ in_use => loaded = "bound"
  /\ call # Idle => in_use

\* The engine works for the ioctl that waits, if one does, and the thread has
\* been given all that was pending when it was woken.
IrqInv ==
  /\ engine # Idle /\ call # Idle => engine = call
  /\ done \in [Phases -> Nat]
  /\ intPending \subseteq Phases /\ irq_status \subseteq Phases
  /\ irqThread \in {"idle", "woken"}
  /\ irqThread = "idle" => irq_status = {}
  /\ irqThread = "woken" =>
       /\ loaded = "bound"
       /\ irq_status # {} /\ irq_status \ {Reported(irq_status)} \subseteq intPending

\* Where the end of the phase p is: with the engine, pending, with the thread or
\* counted; nowhere if it is Nothing.
Counted(p) == done = [q \in Phases |-> IF q = p THEN 1 ELSE 0]
Nothing == intPending = {} /\ irqThread = "idle" /\ Counted("none")
OnItsWay(p) ==
  \/ intPending = {p} /\ irqThread = "idle" /\ Counted("none")
  \/ intPending = {} /\ irqThread = "woken" /\ irq_status = {p} /\ Counted("none")
  \/ intPending = {} /\ irqThread = "idle" /\ Counted(p)

\* As long as no ioctl gave up, at most one phase is on its way, that of the
\* ioctl that waits.
OneAtATime ==
  ~ abandoned =>
    /\ answered \subseteq finished
    /\ \/ engine = call /\ Nothing
       \/ /\ engine = Idle /\ call # Idle
          /\ call.req \in finished
          /\ OnItsWay(call.op)

HeldInv ==
  held \subseteq (IF noIrq THEN {"dma"} ELSE {})
                   \cup (IF loaded = "no" THEN {} ELSE InitResources)
                   \cup (IF loaded = "bound" THEN ProbeResources ELSE {})

CharDevInv == FileInv /\ IrqInv /\ OneAtATime /\ WaiterIsWoken /\ HeldInv
=============================================================================
