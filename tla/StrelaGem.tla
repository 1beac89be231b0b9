----------------------------- MODULE StrelaGem -----------------------------
(***************************************************************************)
(* Buffer objects and who refers to them: GEM_NEW with the unwinding of    *)
(* strela_gem_create, GEM_SYNC, the bindings of a submission, the handles, *)
(* mappings and dma-bufs of the DRM core, and strela_gem_free when the     *)
(* last reference is dropped.  Sources: driver/strela_gem.c, the binding   *)
(* half of driver/strela_job.c, strela_open_file and strela_postclose.     *)
(*                                                                         *)
(* A file runs one ioctl at a time, and another thread of the same client  *)
(* may close a handle in the middle of it.  Reference counts are explicit: *)
(* count is what the code counts, holders what it still points with.       *)
(* An ioctl that refuses its arguments before it looks anything up changes *)
(* nothing and is left out.                                                *)
(***************************************************************************)
EXTENDS StrelaDevice, FiniteSets

CONSTANTS
  Objects,      \* buffer objects that may exist at a time
  Jobs,         \* jobs that may exist at a time
  NumBindings,  \* bindings of a job: config, inputs, outputs
  OpenOn,       \* the device the clients open
  OpenLoads,    \* bound: the values of sim_dev_count with which they do
  PageSize, WordBytes, CacheAlign,   \* in bytes
  U64Numbers, SizeT,   \* values of __u64 and of size_t
  Sizes, SyncOffsets, SyncLengths   \* arguments a client may give

ASSUME GemAssumption ==
  /\ NumBindings \in Nat
  /\ {PageSize, WordBytes, CacheAlign, U64Numbers, SizeT} \subseteq Nat \ {0}
  /\ OpenOn \in Devices
  /\ Sizes \cup SyncOffsets \cup SyncLengths \subseteq 0 .. U64Numbers - 1

VARIABLES
  res,      \* what strela_gem_create acquired for each object
  size,     \* obj->size
  count,    \* obj->refcount
  holders,  \* the pointers that go with a reference, for each object
  ioctl,    \* the ioctl each file is in
  job       \* state of each job, the file it came from

gemVars == <<res, size, count, holders, ioctl, job>>
gemDeviceVars == <<deviceVars, gemVars>>

\* Who may hold a reference: a handle, a mapping, a dma-buf, an ioctl on its
\* way, binding i of a job.
Handle(f) == <<"handle", f>>
Mapping(f) == <<"map", f>>
Dmabuf == <<"dmabuf">>
InIoctl(f) == <<"ioctl", f>>
Binding(j, i) == <<"binding", j, i>>

NoIoctl == [op |-> "none"]
NoJob == [st |-> "none"]

\* kzalloc, drm_gem_object_init, drm_gem_create_mmap_offset,
\* dma_alloc_noncoherent
Resources == {"obj", "gem", "offset", "dma"}

GemInit ==
  /\ DeviceInit
  /\ res = [o \in Objects |-> {}]
  /\ size = [o \in Objects |-> 0]
  /\ count = [o \in Objects |-> 0]
  /\ holders = [o \in Objects |-> {}]
  /\ ioctl = [f \in Files |-> NoIoctl]
  /\ job = [j \in Jobs |-> NoJob]

Holds(f, o) == Handle(f) \in holders[o]
Ready(f) == file[f] = "open" /\ ioctl[f] = NoIoctl

Get(o, h) ==
  /\ count' = [count EXCEPT ![o] = @ + 1]
  /\ holders' = [holders EXCEPT ![o] = @ \cup {h}]
  /\ UNCHANGED <<res, size>>

\* drm_gem_object_put; the last one calls strela_gem_free.
Put(o, h) ==
  /\ count' = [count EXCEPT ![o] = @ - 1]
  /\ holders' = [holders EXCEPT ![o] = @ \ {h}]
  /\ res' = IF count[o] = 1 THEN [res EXCEPT ![o] = {}] ELSE res
  /\ size' = IF count[o] = 1 THEN [size EXCEPT ![o] = 0] ELSE size

-----------------------------------------------------------------------------
(* GEM_NEW. *)

\* What strela_gem_create has acquired when a step fails, and what the error
\* path of that step releases.
Acquired(step) ==
  CASE step = "kzalloc" -> {}
    [] step = "init" -> {"obj"}
    [] step = "offset" -> {"obj", "gem"}
    [] step = "dma" -> {"obj", "gem", "offset"}
    [] step = "mapping" -> {"obj", "gem", "offset", "dma"}

ReleasedOnError(step) ==
  CASE step = "kzalloc" -> {}
    [] step = "init" -> {"obj"}
    [] step \in {"offset", "dma"} -> {"obj", "gem", "offset"}
    [] step = "mapping" -> {"obj", "gem", "offset", "dma"}

\* PAGE_ALIGN in u64, then the size_t parameter of strela_gem_create.
ObjSize(s) == ((((s + PageSize - 1) \div PageSize) * PageSize) % U64Numbers) % SizeT

\* No mmap offset can be made for an object of size 0.
GemNewFails(f, o) ==
  /\ Ready(f) /\ res[o] = {}
  /\ \E s \in Sizes \ {0}, step \in {"kzalloc", "init", "offset", "dma", "mapping"} :
       /\ s % WordBytes = 0
       /\ ObjSize(s) = 0 => step \in {"kzalloc", "init", "offset"}
       /\ res' = [res EXCEPT ![o] = Acquired(step) \ ReleasedOnError(step)]
  /\ UNCHANGED <<deviceVars, size, count, holders, ioctl, job>>

GemNew(f, o) ==
  /\ Ready(f) /\ res[o] = {}
  /\ \E s \in Sizes \ {0} :
       /\ s % WordBytes = 0 /\ ObjSize(s) # 0
       /\ size' = [size EXCEPT ![o] = ObjSize(s)]
  /\ res' = [res EXCEPT ![o] = Resources]
  /\ count' = [count EXCEPT ![o] = 1]
  /\ holders' = [holders EXCEPT ![o] = {InIoctl(f)}]
  /\ ioctl' = [ioctl EXCEPT ![f] = [op |-> "new", obj |-> o, pc |-> "handle"]]
  /\ UNCHANGED <<deviceVars, job>>

\* drm_gem_handle_create: from here on the client can name the object.
GemNewHandle(f) ==
  /\ ioctl[f].op = "new" /\ ioctl[f].pc = "handle"
  /\ ioctl' = [ioctl EXCEPT ![f].pc = "offset"]
  /\ Get(ioctl[f].obj, Handle(f))
  /\ UNCHANGED <<deviceVars, job>>

\* The handle was made and the mmap offset is read, or it could not be made;
\* the reference of the creation is dropped.
GemNewPut(f) ==
  /\ ioctl[f].op = "new"
  /\ ioctl' = [ioctl EXCEPT ![f] = NoIoctl]
  /\ Put(ioctl[f].obj, InIoctl(f))
  /\ UNCHANGED <<deviceVars, job>>

-----------------------------------------------------------------------------
(* GEM_SYNC. *)

SyncLookup(f, o) ==
  /\ Ready(f) /\ Holds(f, o)
  /\ ioctl' = [ioctl EXCEPT ![f] = [op |-> "sync", obj |-> o, pc |-> "check"]]
  /\ Get(o, InIoctl(f))
  /\ UNCHANGED <<deviceVars, job>>

\* Mutant: the end is computed in u64 and may wrap around.
SyncInObjectWrap(o, offset, length) == (offset + length) % U64Numbers <= size[o]

SyncInObject(o, offset, length) ==
  offset <= size[o] /\ length <= size[o] - offset

\* The range is checked and handed to the DMA API.
Sync(f) ==
  /\ ioctl[f].op = "sync" /\ ioctl[f].pc = "check"
  /\ \E offset \in SyncOffsets, length \in SyncLengths :
       /\ SyncInObject(ioctl[f].obj, offset, length)
       /\ offset % CacheAlign = 0 /\ length % CacheAlign = 0
       /\ length # 0
       /\ ioctl' = [ioctl EXCEPT ![f] = [op |-> "sync", obj |-> ioctl[f].obj,
                      pc |-> "dma", offset |-> offset, length |-> length]]
  /\ UNCHANGED <<deviceVars, res, size, count, holders, job>>

\* Mutant: a refused range keeps its reference.
SyncPutLeak(f) ==
  /\ ioctl[f].op = "sync"
  /\ ioctl' = [ioctl EXCEPT ![f] = NoIoctl]
  /\ IF ioctl[f].pc = "dma"
     THEN Put(ioctl[f].obj, InIoctl(f))
     ELSE /\ holders' = [holders EXCEPT ![ioctl[f].obj] = @ \ {InIoctl(f)}]
          /\ UNCHANGED <<res, size, count>>
  /\ UNCHANGED <<deviceVars, job>>

\* out: the range was synced, was refused or is empty.
SyncPut(f) ==
  /\ ioctl[f].op = "sync"
  /\ ioctl' = [ioctl EXCEPT ![f] = NoIoctl]
  /\ Put(ioctl[f].obj, InIoctl(f))
  /\ UNCHANGED <<deviceVars, job>>

-----------------------------------------------------------------------------
(* The bindings of a job. *)

Bound(j, i) == {o \in Objects : Binding(j, i) \in holders[o]}
Resolved(j) == {i \in 1 .. NumBindings : Bound(j, i) # {}}

\* strela_submit_ioctl allocates the job.
SubmitBegin(f, j) ==
  /\ Ready(f) /\ job[j] = NoJob
  /\ job' = [job EXCEPT ![j] = [st |-> "new", file |-> f]]
  /\ ioctl' = [ioctl EXCEPT ![f] = [op |-> "submit", job |-> j]]
  /\ UNCHANGED <<deviceVars, res, size, count, holders>>

\* Mutant: the reference of the lookup is dropped once the binding is checked.
BindingGetBare(f, o) ==
  /\ ioctl[f].op = "submit" /\ Holds(f, o)
  /\ LET j == ioctl[f].job
         i == Cardinality(Resolved(j)) + 1
     IN /\ job[j].st = "new" /\ i <= NumBindings
        /\ holders' = [holders EXCEPT ![o] = @ \cup {Binding(j, i)}]
  /\ UNCHANGED <<deviceVars, res, size, count, ioctl, job>>

\* strela_strided_binding_get: the next binding is looked up and passes its
\* check (StrelaBinding).
BindingGet(f, o) ==
  /\ ioctl[f].op = "submit" /\ Holds(f, o)
  /\ LET j == ioctl[f].job
         i == Cardinality(Resolved(j)) + 1
     IN /\ job[j].st = "new" /\ i <= NumBindings
        /\ Get(o, Binding(j, i))
  /\ UNCHANGED <<deviceVars, ioctl, job>>

\* A binding names no object or fails its check, or the sync object to signal
\* does not exist: err_cleanup.
SubmitFails(f) ==
  /\ ioctl[f].op = "submit" /\ job[ioctl[f].job].st = "new"
  /\ job' = [job EXCEPT ![ioctl[f].job].st = "put"]
  /\ UNCHANGED <<deviceVars, res, size, count, holders, ioctl>>

\* drm_sched_entity_push_job
SubmitPush(f) ==
  /\ ioctl[f].op = "submit" /\ job[ioctl[f].job].st = "new"
  /\ Cardinality(Resolved(ioctl[f].job)) = NumBindings
  /\ job' = [job EXCEPT ![ioctl[f].job].st = "queued"]
  /\ ioctl' = [ioctl EXCEPT ![f] = NoIoctl]
  /\ UNCHANGED <<deviceVars, res, size, count, holders>>

\* The scheduler starts a job; strela_run_job programs its addresses.
RunJob(j) ==
  /\ job[j].st = "queued"
  /\ OpenOn \in sched
  /\ \A k \in Jobs : job[k].st # "started"
  /\ job' = [job EXCEPT ![j].st = "started"]
  /\ UNCHANGED <<deviceVars, res, size, count, holders, ioctl>>

\* strela_free_job: of a job that ended, or of one that was queued when its
\* client closed the file.
FreeJob(j) ==
  /\ \/ job[j].st = "started"
     \/ job[j].st = "queued" /\ file[job[j].file] = "closing"
  /\ job' = [job EXCEPT ![j].st = "put"]
  /\ UNCHANGED <<deviceVars, res, size, count, holders, ioctl>>

\* strela_job_put_bindings: one turn of it, or its end.  An error path leaves
\* the ioctl with it.
PutBinding(j) ==
  /\ job[j].st = "put"
  /\ IF Resolved(j) # {}
     THEN \E i \in Resolved(j) : \E o \in Bound(j, i) :
            /\ Put(o, Binding(j, i))
            /\ UNCHANGED <<ioctl, job>>
     ELSE /\ job' = [job EXCEPT ![j] = NoJob]
          /\ ioctl' = [f \in Files |->
                         IF ioctl[f] = [op |-> "submit", job |-> j]
                         THEN NoIoctl ELSE ioctl[f]]
          /\ UNCHANGED <<res, size, count, holders>>
  /\ UNCHANGED deviceVars

\* strela_job_fini retires the job that is on the device, and waits for it.
GemJobFini(d) ==
  /\ JobFini(d)
  /\ d = OpenOn => \A j \in Jobs : job[j].st # "started"
  /\ UNCHANGED gemVars

-----------------------------------------------------------------------------
(* The DRM core: files, handles, mappings, dma-bufs. *)

\* strela_open_file succeeds.  The node is there as soon as the probe has
\* registered it, whether or not strela_init has returned; only a module that is
\* on its way out refuses.
OpenFile(f) ==
  /\ module \in {"init", "unwind", "loaded"} /\ OpenOn \in registered
  /\ sim_dev_count \in OpenLoads
  /\ file[f] = "closed"
  /\ file' = [file EXCEPT ![f] = "open"]
  /\ UNCHANGED <<module, sim_dev_count, status, at, devres, lock, sched,
                 registered, gemVars>>

\* GEM_CLOSE, from any thread of the client.
GemClose(f, o) ==
  /\ file[f] \in {"open", "closing"} /\ Holds(f, o)
  /\ Put(o, Handle(f))
  /\ UNCHANGED <<deviceVars, ioctl, job>>

\* A mapping keeps its file open.
Mmap(f, o) ==
  /\ file[f] = "open" /\ Holds(f, o) /\ Mapping(f) \notin holders[o]
  /\ Get(o, Mapping(f))
  /\ UNCHANGED <<deviceVars, ioctl, job>>

Munmap(f, o) ==
  /\ Mapping(f) \in holders[o]
  /\ Put(o, Mapping(f))
  /\ UNCHANGED <<deviceVars, ioctl, job>>

\* A dma-buf of an object, which any client of the device may import.
Export(f, o) ==
  /\ Ready(f) /\ Holds(f, o) /\ Dmabuf \notin holders[o]
  /\ Get(o, Dmabuf)
  /\ UNCHANGED <<deviceVars, ioctl, job>>

Import(f, o) ==
  /\ Ready(f) /\ ~ Holds(f, o) /\ Dmabuf \in holders[o]
  /\ Get(o, Handle(f))
  /\ UNCHANGED <<deviceVars, ioctl, job>>

DmabufRelease(o) ==
  /\ Dmabuf \in holders[o]
  /\ Put(o, Dmabuf)
  /\ UNCHANGED <<deviceVars, ioctl, job>>

\* The last reference to a file is gone; its handles are closed one by one
\* (GemClose).
CloseFile(f) ==
  /\ Ready(f)
  /\ \A o \in Objects : Mapping(f) \notin holders[o]
  /\ file' = [file EXCEPT ![f] = "closing"]
  /\ UNCHANGED <<module, sim_dev_count, status, at, devres, lock, sched,
                 registered, gemVars>>

\* strela_postclose: drm_sched_entity_destroy has waited for the jobs that were
\* queued, or killed them.
Postclose(f) ==
  /\ file[f] = "closing"
  /\ \A o \in Objects : ~ Holds(f, o)
  /\ \A j \in Jobs : job[j].st \in {"queued", "put"} => job[j].file # f
  /\ file' = [file EXCEPT ![f] = "closed"]
  /\ UNCHANGED <<module, sim_dev_count, status, at, devres, lock, sched,
                 registered, gemVars>>

\* A dma-buf holds the module, as a file does.
GemExitBegin ==
  /\ ExitBegin
  /\ \A o \in Objects : Dmabuf \notin holders[o]
  /\ UNCHANGED gemVars

-----------------------------------------------------------------------------
GemNext ==
  \/ DeviceStep /\ UNCHANGED gemVars
  \/ GemExitBegin
  \/ \E d \in Devices : GemJobFini(d)
  \/ \E f \in Files :
       \/ OpenFile(f) \/ CloseFile(f) \/ Postclose(f)
       \/ GemNewHandle(f) \/ GemNewPut(f)
       \/ Sync(f) \/ SyncPut(f)
       \/ SubmitFails(f) \/ SubmitPush(f)
       \/ \E j \in Jobs : SubmitBegin(f, j)
       \/ \E o \in Objects :
            \/ GemNewFails(f, o) \/ GemNew(f, o) \/ GemClose(f, o)
            \/ SyncLookup(f, o) \/ BindingGet(f, o)
            \/ Mmap(f, o) \/ Munmap(f, o) \/ Export(f, o) \/ Import(f, o)
  \/ \E j \in Jobs : RunJob(j) \/ FreeJob(j) \/ PutBinding(j)
  \/ \E o \in Objects : DmabufRelease(o)

GemSpec == GemInit /\ [][GemNext]_gemDeviceVars

-----------------------------------------------------------------------------
(* Properties. *)

\* "This is what stops a buffer from going away under a queued job"
\* (strela_strided_binding_get): whoever still points at an object, a job that
\* is queued or on the device, a mapping, an ioctl whose client has just closed
\* the handle, finds it whole, its pages included.
UsedIsAlive == \A o \in Objects : holders[o] # {} => res[o] = Resources

\* An object nobody points at is freed, and a creation that failed at any of its
\* steps has released all it had acquired (err_release in strela_gem_create).
NothingIsLeaked == \A o \in Objects : res[o] # {} => holders[o] # {}

\* A range that reaches the DMA API lies inside its object, in whole cache
\* lines: the check of strela_gem_sync_ioctl does not wrap around, and the
\* object cannot be freed or replaced between the check and the transfer.
SyncInBounds ==
  \A f \in Files :
    ioctl[f].op = "sync" /\ ioctl[f].pc = "dma" =>
      /\ ioctl[f].offset + ioctl[f].length <= size[ioctl[f].obj]
      /\ ioctl[f].offset % CacheAlign = 0
      /\ ioctl[f].length % CacheAlign = 0
=============================================================================
