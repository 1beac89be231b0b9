----------------------------- MODULE MCLibrary -----------------------------
(***************************************************************************)
(* The user space library: the jobs of StrelaLib, the buffers and the      *)
(* kernels of StrelaBuffer, and the free list as the torture test of the   *)
(* repository uses it, with best fit and with small alignments.  What is   *)
(* used is chosen at first; the four have only the error in common.        *)
(*                                                                         *)
(* Jobs: two slots, four descriptors beside standard input, any number of  *)
(* entries in /dev/accel, of which the second STRELA is opened, and three  *)
(* submissions for every opening of the device: enough for a slot to be    *)
(* resubmitted while the other has a job, and for a leaked descriptor.     *)
(* The wait of strela_execute is one and a half timeouts, so that two jobs *)
(* may use it up; MCLibExecute has the code's ratio of four.               *)
(*                                                                         *)
(* Memory, in words of 4 bytes: nodes of 2, headers of 3, max_align_t of 4 *)
(* and cache lines of 16.  The tensor memory has room for four buffers, of *)
(* no word, less than a line, a line and more than one; the torture test's *)
(* starts where malloc may put it.  A size_t counts up to 512 words, over  *)
(* three times the tensor memory.                                          *)
(***************************************************************************)
EXTENDS StrelaLib, StrelaBuffer

VARIABLE used_for

MCMemories == {[data |-> 0, size |-> 144], [data |-> 2, size |-> 84]}

MCRequests ==
  {[size |-> s, alignment |-> 16] : s \in {0, 1, 16, 34}}
    \cup {[size |-> s, alignment |-> 2] : s \in {3, 9}}

\* One word less than a size_t can count.
MCWrapRequests == {[size |-> 511, alignment |-> 16]}

LibraryInit ==
  /\ LibInit
  /\ \/ used_for \in {"jobs", "buffers", "kernels"} /\ BufferInit
     \/ /\ used_for = "torture"
        /\ FreeListInit /\ fl_data # 0
        /\ res = "OK" /\ buffers = {} /\ sync = NoSync
        /\ head = Null /\ next = [c \in Chunks |-> Null] /\ kernels = Chunks

LibraryNext ==
  /\ UNCHANGED used_for
  /\ \/ used_for = "jobs" /\ LibNext /\ UNCHANGED <<flVars, bufferVars>>
     \/ used_for = "buffers" /\ BufferNext /\ UNCHANGED libVars
     \/ used_for = "kernels" /\ KernelNext /\ UNCHANGED libVars
     \/ /\ used_for = "torture"
        /\ FreeListNext
        /\ UNCHANGED <<libVars, bufferVars>>

LibrarySpec == LibraryInit /\ [][LibraryNext]_<<libVars, flVars, bufferVars, used_for>>

\* The behaviours in which nothing fails, strela_dev_count finds no entry and no job
\* ends unless strela_execute waits: with four slots, three jobs are ahead of its own.
QueuedAhead ==
  /\ used_for = "jobs"
  /\ search = "count" => entry' = NoFd
  /\ errnum' = "ok"
  /\ executing = "no" =>
       \A k \in DOMAIN jobs \cap DOMAIN jobs' : jobs[k].state = jobs'[k].state

QueuedAheadSpec ==
  /\ LibraryInit /\ used_for = "jobs"
  /\ [][LibraryNext /\ QueuedAhead]_<<libVars, flVars, bufferVars, used_for>>
=============================================================================
