---------------------------- MODULE StrelaBuffer ----------------------------
(***************************************************************************)
(* The buffers and kernels of lib/strela.c: tensor memory given out by the *)
(* free list, kernel memory given out by the Pool of lib/allocators.c, and *)
(* the cache maintenance of both, which the driver does in whole cache     *)
(* lines of memory it was asked for.  The free list's nodes and headers,   *)
(* and the links of the pool, live in the memory that is given out.        *)
(*                                                                         *)
(* Everything is in strela_words on a 32-bit machine such as the board,    *)
(* where a word has the size of a pointer.  The program uses only handles  *)
(* it was given and has not freed, and stays inside its buffers.           *)
(***************************************************************************)
EXTENDS StrelaFreeList

CONSTANTS
  Line,           \* CACHELINE_SIZE, and the alignment the driver asks for
  BufferSizes,    \* arguments of strela_buffer_alloc
  SyncStarts,     \* offsets given to strela_buffer_flush and _inval
  SyncCounts,     \* counts given to them
  KernelCount,    \* kernels the pool has room for: 128
  KernelSize      \* STRELA_KERNEL_SIZE

\* A size_t holds as many numbers as SizeT words, of four bytes, have bytes: a number
\* of words wraps around later than one of bytes.
SizeTNumbers == 4 * SizeT

ASSUME BufferAssumption ==
  /\ Line \in Nat \ {0} /\ KernelCount \in Nat \ {0} /\ KernelSize \in Nat \ {0}
  /\ KernelSize % Line = 0 /\ SizeTNumbers % Line = 0
  /\ \A s \in BufferSizes :
       s \in Nat /\ [size |-> s % SizeT, alignment |-> Line] \in Requests
  /\ SyncStarts \cup SyncCounts \subseteq 0 .. SizeTNumbers - 1

Chunks == 0 .. KernelCount - 1
Null == -1
KernelData == -2    \* the first word of a kernel where a link would be
NoSync == [of |-> "none"]

VARIABLES
  res,              \* dev->res: "OK" or the error that stands
  buffers,          \* handles of the program: [offset_words_from_base, size_words]
  sync,             \* the DRM_IOCTL_STRELA_GEM_SYNC the last call made
  head, next,       \* kernel_pool: its head and the first word of each chunk
  kernels           \* handles of the program

bufferVars == <<res, buffers, sync, head, next, kernels>>
poolVars == <<head, next, kernels>>

\* Mutant: the chunks still on the list stay on it.
PoolListKept(old) == old

\* What pool_free_all makes of the list first: "drop it first, or they would
\* appear twice and the list would loop".
PoolListDropped(old) == Null

\* pool_free_all: the list after all chunks were pushed on it in turn.
PoolFreeAll(old) ==
  [head |-> KernelCount - 1,
   next |-> [c \in Chunks |-> IF c = 0 THEN PoolListDropped(old) ELSE c - 1]]

\* strela_dev_init: the tensors are mapped at address 0, a page, and the policy
\* is that of a zeroed Free_List.
BufferInit ==
  /\ FreeListInit
  /\ fl_data = 0 /\ policy = "Find_First"
  /\ res = "OK"
  /\ buffers = {}
  /\ sync = NoSync
  /\ head = PoolFreeAll(Null).head /\ next = PoolFreeAll(Null).next
  /\ kernels = {}

NoError == res = "OK"

\* Any call that is refused because its handle is not valid.
BadHandle ==
  /\ NoError
  /\ res' = "BAD_ARG"
  /\ sync' = NoSync
  /\ UNCHANGED <<flVars, buffers, poolVars>>

\* strela_dev_reset_err
BufferResetErr ==
  /\ ~ NoError
  /\ res' = "OK"
  /\ sync' = NoSync
  /\ UNCHANGED <<flVars, buffers, poolVars>>

-----------------------------------------------------------------------------
(* Cache maintenance. *)

\* strela_gem_sync_ioctl: does the driver accept a range of an object?
DriverAccepts(offset, length, size) ==
  /\ offset <= size /\ length <= size - offset
  /\ offset % Line = 0 /\ length % Line = 0

\* strela_sync of words of the object of: the kernels or the tensors.
Sync(of, size, offset, words) ==
  IF DriverAccepts(offset, words, size)
  THEN sync' = [of |-> of, at |-> offset, length |-> words] /\ UNCHANGED res
  ELSE sync' = NoSync /\ res' = "EINVAL"

\* Mutant: only the offset is compared with the size of the buffer.
StartsInBuffer(b, offset, count) ==
  offset <= b.size_words /\ b.offset_words_from_base + offset + count <= fl_size

\* The range is in the buffer, and the buffer in the memory.
InBuffer(b, offset, count) ==
  /\ offset <= b.size_words /\ count <= b.size_words - offset
  /\ b.offset_words_from_base <= fl_size
  /\ b.size_words <= fl_size - b.offset_words_from_base

\* strela_buffer_sync
BufferSync(of, b, offset, count) ==
  IF InBuffer(b, offset, count)
  THEN Sync(of, fl_size, b.offset_words_from_base + offset, count)
  ELSE res' = "BAD_ARG" /\ sync' = NoSync

\* strela_buffer_flush: the range is rounded out to whole lines, in a size_t.
BufferFlush(b, offset, count) ==
  LET start == offset - (offset % Line)
      past == (offset + count + Line - 1) % SizeTNumbers
      end == past - (past % Line)
  IN /\ NoError /\ count # 0
     /\ BufferSync("flush", b, start, (end - start) % SizeTNumbers)
     /\ UNCHANGED <<flVars, buffers, poolVars>>

\* strela_buffer_inval: a range that is not of whole lines is an error, which
\* replaces one that stands.
BufferInval(b, offset, count) ==
  /\ \/ /\ offset % Line # 0 \/ count % Line # 0
        /\ res' = "BAD_ARG" /\ sync' = NoSync
     \/ /\ offset % Line = 0 /\ count % Line = 0
        /\ NoError /\ count # 0
        /\ BufferSync("inval", b, offset, count)
  /\ UNCHANGED <<flVars, buffers, poolVars>>

-----------------------------------------------------------------------------
(* Buffers. *)

\* strela_buffer_to_ptr, and the header of the allocation at a pointer.
BufferToPtr(b) == fl_data + b.offset_words_from_base
HeaderAt(ptr) == CHOOSE h \in header : h.ptr = ptr

\* strela_buffer_from_ptr
BufferFromPtr(ptr) ==
  [offset_words_from_base |-> ptr - fl_data, size_words |-> HeaderAt(ptr).orig_size]

\* strela_buffer_alloc of size_words words, which are size bytes modulo the
\* number of values of a size_t.
BufferAlloc(size_words) ==
  LET size == size_words % SizeT
      r == [size |-> size, alignment |-> Line]
  IN /\ NoError
     /\ sync' = NoSync
     /\ \/ /\ 4 * size >= size_words
           /\ Alloc(r)
           /\ buffers' = buffers \cup
                {[offset_words_from_base |-> h.ptr - fl_data, size_words |-> size_words] :
                   h \in header' \ header}
           /\ UNCHANGED res
        \/ /\ 4 * size >= size_words
           /\ ~ Fits(r)
           /\ res' = "NO_MEM"
           /\ UNCHANGED <<flVars, buffers>>
        \/ /\ 4 * size < size_words
           /\ res' = "BAD_ARG"
           /\ UNCHANGED <<flVars, buffers>>
     /\ UNCHANGED poolVars

\* strela_buffer_free
BufferFree(b) ==
  /\ NoError
  /\ Free(HeaderAt(BufferToPtr(b)))
  /\ buffers' = buffers \ {b}
  /\ sync' = NoSync
  /\ UNCHANGED <<res, poolVars>>

\* strela_buffer_free_all
BufferFreeAll ==
  /\ NoError
  /\ FreeAll
  /\ buffers' = {}
  /\ sync' = NoSync
  /\ UNCHANGED <<res, poolVars>>

-----------------------------------------------------------------------------
(* Kernels. *)

\* pool_alloc in strela_kernel_alloc: the chunk is taken off the list and zeroed.
KernelAlloc ==
  /\ NoError
  /\ sync' = NoSync
  /\ \/ /\ head # Null
        /\ kernels' = kernels \cup {head}
        /\ head' = next[head]
        /\ next' = [next EXCEPT ![head] = Null]
        /\ UNCHANGED res
     \/ /\ head = Null
        /\ res' = "NO_MEM"
        /\ UNCHANGED poolVars
  /\ UNCHANGED <<flVars, buffers>>

\* strela_kernel_set: the chunk is written and flushed.
KernelSet(k) ==
  /\ NoError
  /\ next' = [next EXCEPT ![k] = KernelData]
  /\ Sync("kernels", KernelCount * KernelSize, k * KernelSize, KernelSize)
  /\ UNCHANGED <<flVars, buffers, head, kernels>>

\* strela_kernel_free_all
KernelFreeAll ==
  /\ NoError
  /\ head' = PoolFreeAll(head).head
  /\ next' = PoolFreeAll(head).next
  /\ kernels' = {}
  /\ sync' = NoSync
  /\ UNCHANGED <<res, flVars, buffers>>

BufferNext ==
  \/ BadHandle \/ BufferResetErr
  \/ BufferFreeAll
  \/ \E s \in BufferSizes : BufferAlloc(s)
  \/ \E b \in buffers :
       \/ BufferFree(b)
       \/ \E offset \in SyncStarts, count \in SyncCounts :
            BufferFlush(b, offset, count) \/ BufferInval(b, offset, count)

KernelNext ==
  \/ BadHandle \/ BufferResetErr
  \/ KernelAlloc \/ KernelFreeAll
  \/ \E k \in kernels : KernelSet(k)

\* A program uses both.
MemorySpec == BufferInit /\ [][BufferNext \/ KernelNext]_<<flVars, bufferVars>>

-----------------------------------------------------------------------------
(* Properties. *)

Words(at, size) == at .. at + size - 1
BufferWords(b) == Words(BufferToPtr(b), b.size_words)
Metadata ==
  UNION ({Words(list[i].at, NodeSize) : i \in DOMAIN list}
         \cup {Words(h.ptr - HeaderSize, HeaderSize) : h \in header})

\* "We allocate the metadata in a separate cache line outside the buffer memory
\* and disallow memory syncs outise the buffer memory this keeps things safe"
\* (strela.h): what the library asks of the driver the driver accepts, and it is
\* inside one buffer, so that no node, header or other buffer loses what the
\* processor has not written back yet.  A buffer is known by its pointer too
\* (strela_buffer_from_ptr after strela_buffer_to_ptr).
SyncIsSafe ==
  /\ res # "EINVAL"
  /\ \A b \in buffers : BufferFromPtr(BufferToPtr(b)) = b
  /\ sync.of \in {"flush", "inval"} =>
       LET synced == Words(fl_data + sync.at, sync.length)
       IN /\ synced \cap Metadata = {}
          /\ \E b \in buffers :
               /\ synced \subseteq BufferWords(b)
               /\ \A c \in buffers \ {b} : synced \cap BufferWords(c) = {}

\* "strela_kernel_free_all() with kernels still free must give back each slot
\* exactly once: as many allocations succeed as there are slots, and no handle is
\* handed out twice" (test_strela2.c), whatever was allocated and written before:
\* the list goes through every free chunk once and ends.
PoolIsSound ==
  LET free == KernelCount - Cardinality(kernels)
  IN \E order \in [1 .. free -> Chunks] :
       /\ {order[n] : n \in 1 .. free} = Chunks \ kernels
       /\ \A m, n \in 1 .. free : order[m] = order[n] => m = n
       /\ head = IF free = 0 THEN Null ELSE order[1]
       /\ \A n \in 1 .. free :
            next[order[n]] = IF n = free THEN Null ELSE order[n + 1]

\* "a normal error (e.g. allocating a buffer too big for the available memory)"
\* (strela.h): a buffer that strela_buffer_alloc returns has its words.
TooBigIsRefused == \A b \in buffers : b.size_words <= fl_size
=============================================================================
