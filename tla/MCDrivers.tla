----------------------------- MODULE MCDrivers -----------------------------
(* The two drivers claim the same device, and a machine loads one of them:  *)
(* the accel driver with its devices, clients and buffer objects, or the    *)
(* character device driver.  A page has 4 units of memory, a cache line 2;  *)
(* u64 wraps around at 32 and size_t at 16, so that an object of 30 units   *)
(* would have size 0, and one of 17 the size of one page.  The arithmetic   *)
(* on a column, which has no state of a driver in it, is a case by itself.  *)
EXTENDS StrelaGem, StrelaCharDev, MCBinding, TLC

VARIABLE driver

\* A column nobody submits.
NoColumn ==
  /\ binding = [offset |-> 0, count |-> 0, stride |-> 0]
  /\ obj_size = 0 /\ outs = 0
  /\ pc = "submit" /\ size_reg = 0 /\ words = 0

DriversInit ==
  /\ \/ driver \in {"accel", "chardev"} /\ NoColumn
     \/ driver = "column" /\ BindingInit
  /\ GemInit
  /\ CharDevInit

DriversNext ==
  /\ UNCHANGED driver
  /\ \/ driver = "accel" /\ GemNext /\ UNCHANGED <<charDevVars, bindingVars>>
     \/ driver = "chardev" /\ CharDevNext /\ UNCHANGED <<gemDeviceVars, bindingVars>>
     \/ driver = "column" /\ BindingNext /\ UNCHANGED <<gemDeviceVars, charDevVars>>

DriversSpec ==
  DriversInit
  /\ [][DriversNext]_<<driver, gemDeviceVars, charDevVars, bindingVars>>

Interchangeable == Permutations(Files) \cup Permutations(Jobs)
=============================================================================
