------------------------ MODULE StrelaLibraryProofs ------------------------
(***************************************************************************)
(* That the allocators of the library are right, for memories, requests    *)
(* and kernels of any number and size: the free list loses no memory and   *)
(* gives none out twice, joins what is freed, and keeps its nodes and      *)
(* headers apart from what its users write; the pool has every free chunk  *)
(* once; and the cache maintenance of a buffer stays inside that buffer.   *)
(* The steps of the free list are in StrelaFreeListProofs.                 *)
(***************************************************************************)
EXTENDS StrelaBuffer, StrelaFreeListProofs

-----------------------------------------------------------------------------
(* Buffers and their cache maintenance. *)

\* strela_buffer_from_ptr, of the allocation h.
BufferOf(h) == [offset_words_from_base |-> h.ptr - fl_data, size_words |-> h.orig_size]

\* The last cache maintenance of tensor memory was of words of one buffer.
SyncedInside(b) ==
  /\ b.offset_words_from_base <= sync.at
  /\ sync.at + sync.length <= b.offset_words_from_base + b.size_words

SyncInv ==
  sync.of \in {"flush", "inval"} =>
    /\ sync.at \in Nat /\ sync.length \in Nat
    /\ \E b \in buffers : SyncedInside(b)

\* A handle is that of an allocation that starts at a cache line.
BuffersInv == \A b \in buffers : \E h \in header : b = BufferOf(h) /\ h.ptr % Line = 0

\* The arena of a device starts at address 0, and is small.
DeviceInv == fl_data = 0 /\ 3 * fl_size <= SizeT

\* Errors of the library alone: the driver refused nothing.
Results == {"OK", "BAD_ARG", "NO_MEM"}

\* The invariant of the buffers.
BufferInv ==
  /\ FreeListInv /\ HeadersAreSafe /\ DeviceInv
  /\ BuffersInv /\ SyncInv /\ res \in Results

\* The memory of a device is at most a third of what a size_t can count.
SmallMemories == \A m \in Memories : 3 * m.size <= SizeT

\* Sums and differences of multiples.
LEMMA MultipleSums ==
  ASSUME NEW p \in Int, NEW q \in Int, NEW a \in Nat \ {0}, p % a = 0, q % a = 0
  PROVE  (p + q) % a = 0 /\ (p - q) % a = 0
<1>1. p = (p \div a) * a /\ q = (q \div a) * a /\ p \div a \in Int /\ q \div a \in Int
  BY Quotient, Zenon
<1>2. PICK u \in Int : p = u * a
  BY <1>1, Zenon
<1>3. PICK v \in Int : q = v * a
  BY <1>1, Zenon
<1>4. p + q = (u + v) * a /\ p - q = (u - v) * a
  BY <1>2, <1>3
<1>5. u + v \in Int /\ u - v \in Int
  OBVIOUS
<1>6. ((u + v) * a) % a = 0 /\ ((u - v) * a) % a = 0
  BY <1>5, Multiples, Zenon
<1> QED BY <1>4, <1>6, Zenon

\* What a handle says.
LEMMA BufferNumbers ==
  ASSUME BufferInv, NEW b \in buffers
  PROVE  /\ b.offset_words_from_base \in Nat /\ b.size_words \in Nat
         /\ b.offset_words_from_base % Line = 0
         /\ b.offset_words_from_base + b.size_words <= fl_size
         /\ fl_size \in Nat
<1>1. PICK h \in header : b = BufferOf(h) /\ h.ptr % Line = 0
  BY Zenon DEF BufferInv, BuffersInv
<1>2. HeaderIsSafe(h) /\ IsBlock(h, list) /\ fl_data = 0 /\ fl_size \in Nat
  BY Zenon DEF BufferInv, HeadersAreSafe, FreeListInv, ArenaInv, Tiled,
     DeviceInv
<1>3. /\ h.ptr \in Nat /\ h.orig_size \in Nat /\ h.ptr + h.orig_size <= BlockEnd(h)
      /\ BlockEnd(h) <= fl_data + fl_size /\ BlockEnd(h) \in Nat
  BY <1>2, FreeListAssumption DEF HeaderIsSafe, IsBlock, BlockEnd
<1>4. b.offset_words_from_base = h.ptr - fl_data /\ b.size_words = h.orig_size
  BY <1>1, Zenon DEF BufferOf
<1>5. h.ptr - fl_data = h.ptr /\ h.ptr + h.orig_size <= fl_size
  BY <1>2, <1>3
<1> QED BY <1>1, <1>2, <1>3, <1>4, <1>5, Zenon

\* strela_buffer_sync of whole lines: the driver accepts it.
LEMMA BufferSyncStep ==
  ASSUME BufferInv, NEW b \in buffers, NEW of \in {"flush", "inval"},
         NEW start \in Nat, NEW count \in Nat, start % Line = 0, count % Line = 0,
         BufferSync(of, b, start, count), UNCHANGED buffers
  PROVE  SyncInv' /\ res' \in Results
<1> DEFINE base == b.offset_words_from_base
<1>1. /\ base \in Nat /\ b.size_words \in Nat /\ base % Line = 0
      /\ base + b.size_words <= fl_size /\ fl_size \in Nat
  BY BufferNumbers, Zenon
<1>2. CASE ~ InBuffer(b, start, count)
  <2>1. res' = "BAD_ARG" /\ sync' = NoSync
    BY <1>2, Zenon DEF BufferSync
  <2> QED BY <2>1, Zenon DEF SyncInv, NoSync, Results
<1>3. CASE InBuffer(b, start, count)
  <2>1. start + count <= b.size_words
    BY <1>1, <1>3 DEF InBuffer
  <2>2. Line \in Nat \ {0}
    BY BufferAssumption, Zenon
  <2>3. (base + start) % Line = 0
    <3>1. base \in Int /\ start \in Int
      BY <1>1
    <3> QED BY <1>1, <2>2, <3>1, MultipleSums, Zenon
  <2>4. DriverAccepts(base + start, count, fl_size)
    BY <1>1, <2>1, <2>3 DEF DriverAccepts
  <2>5. sync' = [of |-> of, at |-> base + start, length |-> count] /\ res' = res
    BY <1>3, <2>4, Zenon DEF BufferSync, Sync
  <2>6. sync'.at = base + start /\ sync'.length = count
    BY <2>5, Zenon
  <2>7. SyncedInside(b)'
    BY <1>1, <2>1, <2>6 DEF SyncedInside
  <2>8. SyncInv'
    BY <1>1, <2>6, <2>7 DEF SyncInv
  <2> QED BY <2>5, <2>8, Zenon DEF BufferInv
<1> QED BY <1>2, <1>3, Zenon

\* The largest multiple that is not larger.
LEMMA RoundedDown ==
  ASSUME NEW p \in Nat, NEW a \in Nat \ {0}
  PROVE  p - (p % a) \in Nat /\ (p - (p % a)) % a = 0
<1>1. /\ p \div a \in Int /\ p - (p % a) = (p \div a) * a
      /\ p % a \in Nat
  BY Quotient
<1>2. p \div a >= 0
  OBVIOUS
<1>3. (p \div a) * a >= 0 /\ (p \div a) * a \in Int
  BY <1>1, <1>2
<1>4. ((p \div a) * a) % a = 0
  BY <1>1, Multiples, Zenon
<1>5. (p \div a) * a \in Nat
  BY <1>3
<1> QED BY <1>1, <1>4, <1>5, Zenon

\* What is left of a multiple of a after wrapping around at another is one too.
LEMMA WrappedMultiple ==
  ASSUME NEW p \in Int, NEW m \in Nat \ {0}, NEW a \in Nat \ {0}, p % a = 0, m % a = 0
  PROVE  p % m \in Nat /\ (p % m) % a = 0
<1>1. p % m \in Nat /\ p \div m \in Int
  BY Quotient, Zenon
<1>2. PICK u \in Int : m = u * a
  BY Quotient
<1>3. PICK k \in Int : k = (p \div m) * m /\ k = ((p \div m) * u) * a /\ p % m = p - k
  <2>1. PICK k \in Int : k = (p \div m) * m
    OBVIOUS
  <2>2. p = k + (p % m)
    BY <2>1
  <2>3. k = ((p \div m) * u) * a
    BY <1>1, <1>2, <2>1
  <2> QED BY <1>1, <2>1, <2>2, <2>3
<1>4. k % a = 0
  <2>1. (p \div m) * u \in Int
    BY <1>1
  <2>2. (((p \div m) * u) * a) % a = 0
    BY <2>1, Multiples, Zenon
  <2> QED BY <1>3, <2>2, Zenon
<1>5. (p - k) % a = 0
  BY <1>4, MultipleSums, Zenon
<1> QED BY <1>1, <1>3, <1>5, Zenon

\* strela_buffer_flush asks for whole lines, also when a sum wraps around.
LEMMA FlushStep ==
  ASSUME BufferInv, NEW b \in buffers, NEW offset \in SyncStarts, NEW count \in SyncCounts,
         BufferFlush(b, offset, count)
  PROVE  SyncInv' /\ res' \in Results
<1> DEFINE start == offset - (offset % Line)
           past == (offset + count + Line - 1) % SizeTNumbers
           end == past - (past % Line)
           words == (end - start) % SizeTNumbers
<1>1. /\ offset \in Nat /\ count \in Nat /\ Line \in Nat \ {0}
      /\ SizeTNumbers \in Nat \ {0} /\ SizeTNumbers % Line = 0
  BY BufferAssumption, FreeListAssumption DEF SizeTNumbers
<1>2. start \in Nat /\ start % Line = 0
  BY <1>1, RoundedDown, Zenon
<1>3. past \in Nat
  <2>1. offset + count + Line - 1 \in Int
    BY <1>1
  <2> QED BY <1>1, <2>1, Quotient, Zenon
<1>4. BufferSync("flush", b, start, words) /\ UNCHANGED buffers
  BY Zenon DEF BufferFlush
<1> HIDE DEF past
<1>5. end \in Nat /\ end % Line = 0
  BY <1>1, <1>3, RoundedDown, Zenon
<1> HIDE DEF start, end
<1>6. start \in Int /\ end \in Int /\ end - start \in Int
  BY <1>2, <1>5
<1>7. (end - start) % Line = 0
  BY <1>1, <1>2, <1>5, <1>6, MultipleSums, Zenon
<1>8. words \in Nat /\ words % Line = 0
  BY <1>1, <1>6, <1>7, WrappedMultiple, Zenon
<1> HIDE DEF words
<1> QED BY <1>2, <1>4, <1>8, BufferSyncStep, Zenon

\* strela_buffer_inval
LEMMA InvalStep ==
  ASSUME BufferInv, NEW b \in buffers, NEW offset \in SyncStarts, NEW count \in SyncCounts,
         BufferInval(b, offset, count)
  PROVE  SyncInv' /\ res' \in Results
<1>1. CASE res' = "BAD_ARG" /\ sync' = NoSync
  BY <1>1, Zenon DEF SyncInv, NoSync, Results
<1>2. CASE offset % Line = 0 /\ count % Line = 0 /\ count # 0
             /\ BufferSync("inval", b, offset, count) /\ UNCHANGED buffers
  <2>1. offset \in Nat /\ count \in Nat
    BY <1>2, BufferAssumption
  <2> QED BY <1>2, <2>1, BufferSyncStep, Zenon
<1> QED BY <1>1, <1>2, Zenon DEF BufferInval

\* Allocations are told apart by their pointers.
LEMMA PointersDiffer ==
  ASSUME FreeListInv, HeadersAreSafe, NEW h \in header, NEW g \in header, h.ptr = g.ptr
  PROVE  h = g
<1>1. SUFFICES ASSUME h # g PROVE FALSE
  BY Zenon
<1>2. BlockEnd(g) <= BlockStart(h) \/ BlockEnd(h) <= BlockStart(g)
  BY <1>1, Zenon DEF FreeListInv, Tiled
<1>3. ASSUME NEW k \in header
      PROVE  /\ k.ptr \in Nat /\ BlockStart(k) \in Nat /\ BlockStart(k) < k.ptr
             /\ k.ptr <= BlockEnd(k)
  <2>1. HeaderIsSafe(k) /\ IsBlock(k, list)
    BY Zenon DEF FreeListInv, Tiled, HeadersAreSafe
  <2>2. k.orig_size \in Nat
    BY <2>1, FreeListAssumption, Zenon DEF HeaderIsSafe
  <2>3. /\ k.ptr \in Nat /\ BlockStart(k) \in Nat /\ k.padding \in Nat
        /\ k.ptr + k.orig_size <= BlockEnd(k) /\ BlockEnd(k) \in Nat
    BY <2>1 DEF HeaderIsSafe, IsBlock, BlockEnd
  <2>4. BlockStart(k) < k.ptr
    BY <2>3, Sizes DEF BlockStart
  <2> QED BY <2>2, <2>3, <2>4
<1>4. /\ h.ptr \in Nat /\ BlockStart(h) \in Nat /\ BlockStart(h) < h.ptr /\ h.ptr <= BlockEnd(h)
      /\ g.ptr \in Nat /\ BlockStart(g) \in Nat /\ BlockStart(g) < g.ptr /\ g.ptr <= BlockEnd(g)
  BY <1>3, Zenon
<1>5. h.block_size \in Nat /\ g.block_size \in Nat
  BY Zenon DEF FreeListInv, Tiled, IsBlock
<1> QED BY <1>2, <1>4, <1>5 DEF BlockEnd

\* strela_buffer_to_ptr finds the allocation of a handle.
LEMMA HeaderFound ==
  ASSUME BufferInv, NEW b \in buffers
  PROVE  /\ HeaderAt(BufferToPtr(b)) \in header
         /\ b = BufferOf(HeaderAt(BufferToPtr(b)))
         /\ HeaderAt(BufferToPtr(b)).ptr = BufferToPtr(b)
<1>1. PICK h \in header : b = BufferOf(h)
  BY Zenon DEF BufferInv, BuffersInv
<1>2. h.ptr \in Nat /\ fl_data = 0
  BY Zenon DEF BufferInv, HeadersAreSafe, HeaderIsSafe, DeviceInv
<1>3. BufferToPtr(b) = h.ptr
  BY <1>1, <1>2 DEF BufferToPtr, BufferOf
<1>4. HeaderAt(h.ptr) \in header /\ HeaderAt(h.ptr).ptr = h.ptr
  BY Zenon DEF HeaderAt
<1>5. HeaderAt(h.ptr) = h
  BY <1>4, PointersDiffer, Zenon DEF BufferInv
<1> QED BY <1>1, <1>3, <1>5, Zenon

\* strela_buffer_alloc: the size in bytes of a buffer there is room for did not
\* wrap around.
LEMMA NoWrap ==
  ASSUME NEW n \in Nat, NEW t \in Nat \ {0}, NEW size \in Nat, 3 * size <= t,
         4 * (n % t) >= n, n % t < size
  PROVE  n % t = n
<1>1. n % t \in Nat /\ n % t < t
  BY Quotient
<1>2. PICK q \in Nat : n = q * t + (n % t)
  <2>1. n \div t \in Nat /\ n = (n \div t) * t + (n % t)
    OBVIOUS
  <2> QED BY <2>1, Zenon
<1>3. q = 0 \/ q * t >= t
  BY <1>2
<1> QED BY <1>1, <1>2, <1>3

\* strela_buffer_alloc: the free list makes a step of its own or none, and the new
\* handle is that of the new allocation.
LEMMA BufferAllocStep ==
  ASSUME SizesFit, BufferInv, NEW s \in BufferSizes, BufferAlloc(s)
  PROVE  [FreeListNext]_flVars /\ BuffersInv' /\ SyncInv' /\ res' \in Results
<1> DEFINE r == [size |-> s % SizeT, alignment |-> Line]
<1>1. /\ r \in Requests /\ r.size = s % SizeT /\ r.alignment = Line
      /\ s \in Nat /\ SizeT \in Nat /\ s % SizeT < SizeT /\ s % SizeT \in Nat
  <2>1. s \in Nat /\ r \in Requests /\ r.size = s % SizeT /\ r.alignment = Line
    BY BufferAssumption, Zenon
  <2> QED BY <2>1, FreeListAssumption, Zenon
<1> HIDE DEF r
<1>2. SyncInv'
  <2>1. sync' = NoSync
    BY Zenon DEF BufferAlloc
  <2> QED BY <2>1, Zenon DEF SyncInv, NoSync
<1>3. CASE /\ res' \in {"NO_MEM", "BAD_ARG"} /\ UNCHANGED <<flVars, buffers>>
  <2>1. BuffersInv'
    BY <1>3, Zenon DEF BuffersInv, BufferOf, BufferInv, flVars
  <2> QED BY <1>2, <1>3, <2>1, Zenon DEF Results
<1>4. CASE /\ 4 * (s % SizeT) >= s /\ Alloc(r) /\ UNCHANGED res
           /\ buffers' = buffers \cup
                {[offset_words_from_base |-> h.ptr - fl_data, size_words |-> s] :
                   h \in header' \ header}
  <2>1. PICK g :
          /\ header' = header \cup {g} /\ HeaderIsSafe(g)
          /\ g.orig_size = r.size /\ g.ptr % r.alignment = 0
          /\ g.ptr + g.orig_size <= fl_data + fl_size /\ fl_data + HeaderSize <= g.ptr
    BY <1>1, <1>4, AllocSafe, Zenon DEF BufferInv, FreeListInv
  <2>2. s % SizeT = s
    <3>1. s % SizeT < fl_size /\ fl_size \in Nat /\ 3 * fl_size <= SizeT
      BY <1>1, <2>1, Sizes DEF HeaderIsSafe, BufferInv, FreeListInv, ArenaInv,
         DeviceInv
    <3>2. SizeT \in Nat \ {0}
      BY <1>1
    <3> QED BY <1>1, <1>4, <3>1, <3>2, NoWrap, Zenon
  <2>3. UNCHANGED <<fl_data, fl_size>>
    BY <1>4, Zenon DEF Alloc
  <2>4. ASSUME NEW b \in buffers' PROVE \E h \in header' : b = BufferOf(h)' /\ h.ptr % Line = 0
    <3>1. CASE b \in buffers
      <4>1. PICK h \in header : b = BufferOf(h) /\ h.ptr % Line = 0
        BY <3>1, Zenon DEF BufferInv, BuffersInv
      <4> QED BY <2>1, <2>3, <4>1, Zenon DEF BufferOf
    <3>2. CASE b \notin buffers
      <4>1. b = [offset_words_from_base |-> g.ptr - fl_data, size_words |-> s]
        BY <1>4, <2>1, <3>2, Zenon
      <4> QED BY <1>1, <2>1, <2>2, <2>3, <4>1, Zenon DEF BufferOf
    <3> QED BY <3>1, <3>2, Zenon
  <2>5. BuffersInv'
    BY <2>4, Zenon DEF BuffersInv, BufferOf
  <2>6. [FreeListNext]_flVars
    BY <1>1, <1>4, Zenon DEF FreeListNext
  <2> QED BY <1>2, <1>4, <2>5, <2>6, Zenon DEF BufferInv
<1>5. \/ /\ res' \in {"NO_MEM", "BAD_ARG"} /\ UNCHANGED <<flVars, buffers>>
      \/ /\ 4 * (s % SizeT) >= s /\ Alloc(r) /\ UNCHANGED res
         /\ buffers' = buffers \cup
              {[offset_words_from_base |-> h.ptr - fl_data, size_words |-> s] :
                 h \in header' \ header}
  BY Zenon DEF BufferAlloc, r
<1> QED BY <1>3, <1>4, <1>5, Zenon

\* strela_buffer_free: only the allocation of the handle goes.
LEMMA BufferFreeStep ==
  ASSUME BufferInv, NEW b \in buffers, BufferFree(b)
  PROVE  [FreeListNext]_flVars /\ BuffersInv' /\ SyncInv' /\ res' \in Results
<1> DEFINE h == HeaderAt(BufferToPtr(b))
<1>1. h \in header /\ b = BufferOf(h)
  BY HeaderFound, Zenon
<1>2. /\ Free(h) /\ buffers' = buffers \ {b} /\ sync' = NoSync /\ res' = res
  BY Zenon DEF BufferFree
<1> HIDE DEF h
<1>3. [FreeListNext]_flVars
  BY <1>1, <1>2, Zenon DEF FreeListNext
<1>4. header' = header \ {h} /\ UNCHANGED <<fl_data, fl_size>>
  BY <1>2, Zenon DEF Free
<1>5. BuffersInv'
  <2>1. SUFFICES ASSUME NEW c \in buffers'
                 PROVE  \E g \in header' : c = BufferOf(g)' /\ g.ptr % Line = 0
    BY Zenon DEF BuffersInv, BufferOf
  <2>2. PICK g \in header : c = BufferOf(g) /\ g.ptr % Line = 0
    BY <1>2, Zenon DEF BufferInv, BuffersInv
  <2>3. g # h
    BY <1>1, <1>2, <2>1, <2>2, Zenon
  <2> QED BY <1>4, <2>2, <2>3, Zenon DEF BufferOf
<1>6. SyncInv'
  BY <1>2, Zenon DEF SyncInv, NoSync
<1> QED BY <1>2, <1>3, <1>5, <1>6, Zenon DEF BufferInv

\* The calls of the kernels are none of the buffers' but for the error.
LEMMA KernelSyncStep ==
  ASSUME BufferInv, kernels \subseteq Chunks, KernelNext
  PROVE  SyncInv' /\ res' \in Results /\ UNCHANGED <<flVars, buffers>>
<1>1. CASE BadHandle
  BY <1>1, Zenon DEF BadHandle, SyncInv, NoSync, Results
<1>2. CASE BufferResetErr
  BY <1>2, Zenon DEF BufferResetErr, SyncInv, NoSync, Results
<1>3. CASE KernelAlloc
  BY <1>3, Zenon DEF KernelAlloc, SyncInv, NoSync, Results, BufferInv
<1>4. CASE KernelFreeAll
  BY <1>4, Zenon DEF KernelFreeAll, SyncInv, NoSync, Results, BufferInv
<1>5. ASSUME NEW k \in kernels, KernelSet(k)
      PROVE  SyncInv' /\ res' \in Results /\ UNCHANGED <<flVars, buffers>>
  <2>1. /\ k \in Nat /\ k < KernelCount /\ KernelCount \in Nat /\ KernelSize \in Nat \ {0}
        /\ Line \in Nat \ {0} /\ KernelSize % Line = 0
    BY BufferAssumption DEF Chunks
  <2>2. (k * KernelSize) % Line = 0
    <3>1. k * KernelSize \in Int /\ (k * KernelSize) % KernelSize = 0
      BY <2>1, Multiples
    <3> QED BY <2>1, <3>1, MultipleOfMultiple, Zenon
  <2>3. k * KernelSize + KernelSize <= KernelCount * KernelSize /\ k * KernelSize \in Nat
    BY <2>1
  <2>4. DriverAccepts(k * KernelSize, KernelSize, KernelCount * KernelSize)
    BY <2>1, <2>2, <2>3 DEF DriverAccepts
  <2>5. /\ sync' = [of |-> "kernels", at |-> k * KernelSize, length |-> KernelSize]
        /\ res' = res /\ UNCHANGED <<flVars, buffers>>
    BY <1>5, <2>4, Zenon DEF KernelSet, Sync
  <2> QED BY <2>5, Zenon DEF SyncInv, BufferInv
<1> QED BY <1>1, <1>2, <1>3, <1>4, <1>5, Zenon DEF KernelNext

-----------------------------------------------------------------------------
(* The pool of kernels. *)

\* order is the list of the free chunks, of which there are free.
IsOrder(order, free, taken, hd, nx) ==
  /\ order \in [1 .. free -> Chunks]
  /\ {order[n] : n \in 1 .. free} = Chunks \ taken
  /\ \A m, n \in 1 .. free : order[m] = order[n] => m = n
  /\ hd = IF free = 0 THEN Null ELSE order[1]
  /\ \A n \in 1 .. free : nx[order[n]] = IF n = free THEN Null ELSE order[n + 1]

\* The invariant of the pool.
PoolInv ==
  /\ kernels \subseteq Chunks /\ next \in [Chunks -> Int]
  /\ \E order : IsOrder(order, KernelCount - Cardinality(kernels), kernels, head, next)

\* pool_free_all
LEMMA WholeOrder ==
  ASSUME NEW old, Cardinality({}) = 0
  PROVE  /\ PoolFreeAll(old).next \in [Chunks -> Int]
         /\ \E order : IsOrder(order, KernelCount - Cardinality({}), {},
                               PoolFreeAll(old).head, PoolFreeAll(old).next)
<1> DEFINE nx == [c \in Chunks |-> IF c = 0 THEN Null ELSE c - 1]
           order == [n \in 1 .. KernelCount |-> KernelCount - n]
<1>1. KernelCount \in Nat \ {0}
  BY BufferAssumption, Zenon
<1>2. Cardinality({}) = 0 /\ KernelCount - 0 = KernelCount
  BY <1>1
<1>3. PoolFreeAll(old).head = KernelCount - 1 /\ PoolFreeAll(old).next = nx
  BY Zenon DEF PoolFreeAll, PoolListDropped
<1>4. nx \in [Chunks -> Int]
  BY <1>1 DEF Chunks, Null
<1>5. \A c \in Chunks : (c = 0 => nx[c] = Null) /\ (c # 0 => nx[c] = c - 1)
  BY Zenon
<1>6. \A n \in 1 .. KernelCount : order[n] = KernelCount - n /\ order[n] \in Chunks
  BY <1>1 DEF Chunks
<1>7. order \in [1 .. KernelCount -> Chunks]
  BY <1>6, Zenon
<1> HIDE DEF order, nx
<1>8. {order[n] : n \in 1 .. KernelCount} = Chunks \ {}
  <2>1. ASSUME NEW c \in Chunks PROVE \E n \in 1 .. KernelCount : order[n] = c
    <3>1. KernelCount - c \in 1 .. KernelCount /\ KernelCount - (KernelCount - c) = c
      BY <1>1 DEF Chunks
    <3> QED BY <1>6, <3>1, Zenon
  <2> QED BY <1>6, <2>1, Zenon
<1>9. \A m, n \in 1 .. KernelCount : order[m] = order[n] => m = n
  BY <1>1, <1>6
<1>10. KernelCount - 1 = order[1]
  BY <1>1, <1>6
<1>11. ASSUME NEW n \in 1 .. KernelCount
       PROVE  nx[order[n]] = IF n = KernelCount THEN Null ELSE order[n + 1]
  <2>1. CASE n = KernelCount
    BY <1>1, <1>5, <1>6, <2>1
  <2>2. CASE n # KernelCount
    <3>1. n + 1 \in 1 .. KernelCount /\ order[n] # 0 /\ order[n] - 1 = KernelCount - (n + 1)
      BY <1>1, <1>6, <2>2
    <3> QED BY <1>5, <1>6, <2>2, <3>1
  <2> QED BY <2>1, <2>2, Zenon
<1>12. IsOrder(order, KernelCount, {}, KernelCount - 1, nx)
  BY <1>1, <1>7, <1>8, <1>9, <1>10, <1>11, Zenon DEF IsOrder
<1> QED BY <1>2, <1>3, <1>4, <1>12, Zenon

\* pool_alloc
LEMMA TakenOrder ==
  ASSUME NEW free \in Nat, NEW order, NEW nx \in [Chunks -> Int], NEW hd,
         IsOrder(order, free, kernels, hd, nx), hd # Null
  PROVE  /\ hd \in Chunks \ kernels /\ free # 0
         /\ [nx EXCEPT ![hd] = Null] \in [Chunks -> Int]
         /\ \E o : IsOrder(o, free - 1, kernels \cup {hd}, nx[hd], [nx EXCEPT ![hd] = Null])
<1> DEFINE o == [n \in 1 .. free - 1 |-> order[n + 1]]
           ny == [nx EXCEPT ![hd] = Null]
<1>0. /\ order \in [1 .. free -> Chunks]
      /\ {order[n] : n \in 1 .. free} = Chunks \ kernels
      /\ \A m, n \in 1 .. free : order[m] = order[n] => m = n
      /\ hd = IF free = 0 THEN Null ELSE order[1]
      /\ \A n \in 1 .. free : nx[order[n]] = IF n = free THEN Null ELSE order[n + 1]
  BY Zenon DEF IsOrder
<1>11. /\ \A n \in 1 .. free : order[n] \in Chunks \ kernels
       /\ \A c \in Chunks \ kernels : \E n \in 1 .. free : order[n] = c
  <2>1. {order[n] : n \in 1 .. free} = Chunks \ kernels
    BY <1>0, Zenon
  <2>2. ASSUME NEW n \in 1 .. free PROVE order[n] \in Chunks \ kernels
    BY <2>1, Zenon
  <2>3. ASSUME NEW c \in Chunks \ kernels PROVE \E n \in 1 .. free : order[n] = c
    BY <2>1, Zenon
  <2> QED BY <2>2, <2>3, Zenon
<1>12. \A m, n \in 1 .. free : order[m] = order[n] => m = n
  BY <1>0, Zenon
<1>1. free # 0 /\ hd = order[1] /\ 1 \in 1 .. free
  <2>1. free # 0 /\ hd = order[1]
    BY <1>0, Zenon
  <2> QED BY <2>1
<1>2. hd \in Chunks \ kernels
  BY <1>1, <1>11, Zenon
<1>3. \A n \in 1 .. free - 1 :
        n + 1 \in 1 .. free /\ o[n] = order[n + 1] /\ o[n] \in Chunks /\ o[n] # hd
  BY <1>0, <1>1
<1>4. o \in [1 .. free - 1 -> Chunks]
  BY <1>3, Zenon
<1>5. ny \in [Chunks -> Int] /\ \A c \in Chunks : c # hd => ny[c] = nx[c]
  BY <1>2 DEF Null
<1> HIDE DEF o, ny
<1>6. {o[n] : n \in 1 .. free - 1} = Chunks \ (kernels \cup {hd})
  <2>1. ASSUME NEW n \in 1 .. free - 1 PROVE o[n] \in Chunks \ (kernels \cup {hd})
    BY <1>3, <1>11, Zenon
  <2>2. ASSUME NEW c \in Chunks \ (kernels \cup {hd})
        PROVE  \E n \in 1 .. free - 1 : o[n] = c
    <3>1. PICK n \in 1 .. free : order[n] = c
      BY <1>11, Zenon
    <3>2. n # 1
      BY <1>1, <3>1, Zenon
    <3>3. n - 1 \in 1 .. free - 1 /\ (n - 1) + 1 = n
      BY <3>2
    <3> QED BY <1>3, <3>1, <3>3, Zenon
  <2> QED BY <2>1, <2>2, Zenon
<1>7. \A m, n \in 1 .. free - 1 : o[m] = o[n] => m = n
  <2>1. ASSUME NEW m \in 1 .. free - 1, NEW n \in 1 .. free - 1, o[m] = o[n]
        PROVE  m + 1 = n + 1
    <3>1. /\ m + 1 \in 1 .. free /\ n + 1 \in 1 .. free
          /\ order[m + 1] = order[n + 1]
      BY <1>3, <2>1, Zenon
    <3> QED BY <1>12, <3>1, Zenon
  <2> QED BY <2>1
<1>8. nx[hd] = IF free - 1 = 0 THEN Null ELSE o[1]
  <2>1. nx[hd] = IF 1 = free THEN Null ELSE order[1 + 1]
    BY <1>0, <1>1, Zenon
  <2>2. CASE free = 1
    BY <2>1, <2>2
  <2>3. CASE free # 1
    <3>1. 1 \in 1 .. free - 1
      BY <1>1, <2>3
    <3> QED BY <1>3, <2>1, <2>3, <3>1
  <2> QED BY <2>2, <2>3, Zenon
<1>9. ASSUME NEW n \in 1 .. free - 1
      PROVE  ny[o[n]] = IF n = free - 1 THEN Null ELSE o[n + 1]
  <2>1. ny[o[n]] = nx[order[n + 1]]
    BY <1>3, <1>5, Zenon
  <2>2. nx[order[n + 1]] = IF n + 1 = free THEN Null ELSE order[(n + 1) + 1]
    BY <1>0, <1>3, Zenon
  <2>3. CASE n = free - 1
    BY <2>1, <2>2, <2>3
  <2>4. CASE n # free - 1
    <3>1. n + 1 \in 1 .. free - 1 /\ n + 1 # free
      BY <2>4
    <3>2. o[n + 1] = order[(n + 1) + 1]
      BY <1>3, <3>1, Zenon
    <3> QED BY <2>1, <2>2, <2>4, <3>1, <3>2, Zenon
  <2> QED BY <2>3, <2>4, Zenon
<1>10. IsOrder(o, free - 1, kernels \cup {hd}, nx[hd], ny)
  BY <1>4, <1>6, <1>7, <1>8, <1>9, Zenon DEF IsOrder
<1> QED BY <1>1, <1>2, <1>5, <1>10, Zenon DEF ny

\* The calls of the buffers are none of the pool's.
LEMMA PoolKept == PoolInv /\ (BufferNext \/ UNCHANGED bufferVars) => PoolInv'
<1> SUFFICES ASSUME PoolInv, BufferNext \/ UNCHANGED bufferVars PROVE PoolInv'
  BY Zenon
<1>1. UNCHANGED poolVars
  BY Zenon DEF BufferNext, bufferVars, poolVars, BadHandle, BufferResetErr,
     BufferFreeAll,
     BufferAlloc, BufferFree, BufferFlush, BufferInval
<1> QED BY <1>1, Zenon DEF PoolInv, IsOrder, poolVars

\* The invariant of the pool implies PoolIsSound.
LEMMA PoolIs == PoolInv => PoolIsSound
BY Zenon DEF PoolInv, IsOrder, PoolIsSound

-----------------------------------------------------------------------------
(* Cache maintenance is safe. *)

\* The words of a buffer are in the block of its allocation, after its header.
LEMMA BufferPlace ==
  ASSUME BufferInv, NEW b \in buffers
  PROVE  \E h \in header :
           /\ b = BufferOf(h) /\ HeaderIsSafe(h) /\ IsBlock(h, list)
           /\ BufferToPtr(b) = h.ptr /\ h.ptr \in Nat
           /\ b.size_words = h.orig_size /\ h.orig_size \in Nat
           /\ BlockEnd(h) \in Nat /\ h.ptr + h.orig_size <= BlockEnd(h)
           /\ BlockStart(h) \in Nat /\ BlockStart(h) + HeaderSize <= h.ptr
<1> DEFINE h == HeaderAt(BufferToPtr(b))
<1>1. h \in header /\ b = BufferOf(h) /\ h.ptr = BufferToPtr(b)
  BY HeaderFound, Zenon
<1> HIDE DEF h
<1>2. HeaderIsSafe(h) /\ IsBlock(h, list)
  BY <1>1, Zenon DEF BufferInv, FreeListInv, Tiled, HeadersAreSafe
<1>3. b.size_words = h.orig_size
  BY <1>1, Zenon DEF BufferOf
<1>4. h.orig_size \in Nat
  BY <1>2, FreeListAssumption, Zenon DEF HeaderIsSafe
<1>5. /\ h.ptr \in Nat /\ BlockStart(h) \in Nat /\ BlockEnd(h) \in Nat /\ h.padding \in Nat
      /\ h.ptr + h.orig_size <= BlockEnd(h)
  BY <1>2 DEF HeaderIsSafe, IsBlock, BlockEnd
<1>6. BlockStart(h) + HeaderSize <= h.ptr
  BY <1>5, Sizes DEF BlockStart
<1> QED BY <1>1, <1>2, <1>3, <1>4, <1>5, <1>6, Zenon

\* The invariant implies SyncIsSafe: the blocks of two buffers are apart, and so is
\* what is synced in one of them from the nodes, the headers and the other.
LEMMA SyncIs == BufferInv => SyncIsSafe
<1> SUFFICES ASSUME BufferInv PROVE SyncIsSafe
  BY Zenon
<1>1. res # "EINVAL"
  BY Zenon DEF BufferInv, Results
<1>2. ASSUME NEW b \in buffers PROVE BufferFromPtr(BufferToPtr(b)) = b
  BY HeaderFound, Zenon DEF BufferFromPtr, BufferOf
<1>3. ASSUME sync.of \in {"flush", "inval"}
      PROVE  LET synced == Words(fl_data + sync.at, sync.length)
             IN /\ synced \cap Metadata = {}
                /\ \E b \in buffers :
                     /\ synced \subseteq BufferWords(b)
                     /\ \A c \in buffers \ {b} : synced \cap BufferWords(c) = {}
  <2> DEFINE synced == Words(fl_data + sync.at, sync.length)
  <2>1. /\ sync.at \in Nat /\ sync.length \in Nat /\ fl_data = 0
        /\ \E b \in buffers : SyncedInside(b)
    BY <1>3, Zenon DEF BufferInv, SyncInv, DeviceInv
  <2>2. PICK b \in buffers : SyncedInside(b)
    BY <2>1, Zenon
  <2>3. PICK h \in header :
          /\ b = BufferOf(h) /\ HeaderIsSafe(h) /\ IsBlock(h, list)
          /\ BufferToPtr(b) = h.ptr /\ h.ptr \in Nat
          /\ b.size_words = h.orig_size /\ h.orig_size \in Nat
          /\ BlockEnd(h) \in Nat /\ h.ptr + h.orig_size <= BlockEnd(h)
          /\ BlockStart(h) \in Nat /\ BlockStart(h) + HeaderSize <= h.ptr
    BY BufferPlace, Zenon
  <2>4. b.offset_words_from_base = h.ptr
    BY <2>1, <2>3 DEF BufferOf
  <2>5. /\ h.ptr <= sync.at /\ sync.at + sync.length <= h.ptr + h.orig_size
    BY <2>2, <2>3, <2>4, Zenon DEF SyncedInside
  <2>6. \A x : x \in synced <=> x \in Int /\ sync.at <= x /\ x < sync.at + sync.length
    BY <2>1 DEF Words
  <2> HIDE DEF synced
  <2>8. \A x \in synced : x \in Int /\ h.ptr <= x /\ x < h.ptr + h.orig_size
    BY <2>1, <2>3, <2>5, <2>6
  <2>9. synced \subseteq BufferWords(b)
    BY <2>3, <2>8 DEF BufferWords, Words
  <2>10. ASSUME NEW g \in header, g # h
         PROVE  BlockEnd(g) <= BlockStart(h) \/ BlockEnd(h) <= BlockStart(g)
    BY <2>10, Zenon DEF BufferInv, FreeListInv, Tiled
  <2>11. ASSUME NEW i \in DOMAIN list
         PROVE  synced \cap Words(list[i].at, NodeSize) = {}
    <3>1. list \in Seq(Nodes) /\ i \in 1 .. Len(list)
      BY DEF BufferInv, FreeListInv, Tiled, Ordered
    <3>2. /\ list[i].at \in Nat /\ list[i].block_size \in Nat
          /\ At(list)[i] = list[i].at /\ End(list)[i] = list[i].at + list[i].block_size
      BY <3>1, ListNumbers, Zenon
    <3>3. End(list)[i] <= BlockStart(h) \/ BlockEnd(h) <= At(list)[i]
      BY <2>3, <3>1, Zenon DEF IsBlock, AwayFrom, Apart
    <3>4. At(list)[i] + NodeSize <= End(list)[i]
      BY <3>1, Zenon DEF BufferInv, FreeListInv, Tiled, Ordered, Fine
    <3>5. list[i].at + NodeSize <= h.ptr \/ h.ptr + h.orig_size <= list[i].at
      BY <2>3, <3>2, <3>3, <3>4, Sizes
    <3>6. ASSUME NEW x \in synced, list[i].at <= x, x < list[i].at + NodeSize PROVE FALSE
      <4>1. x \in Int /\ h.ptr <= x /\ x < h.ptr + h.orig_size
        BY <2>8, Zenon
      <4> QED BY <2>3, <3>2, <3>5, <3>6, <4>1, Sizes
    <3>7. \A x \in Words(list[i].at, NodeSize) : list[i].at <= x /\ x < list[i].at + NodeSize
      BY <3>2, Sizes DEF Words
    <3> QED BY <3>6, <3>7, Zenon
  <2>12. ASSUME NEW g \in header
         PROVE  synced \cap Words(g.ptr - HeaderSize, HeaderSize) = {}
    <3>1. /\ g.ptr \in Nat /\ g.padding \in Nat /\ BlockStart(g) \in Nat
          /\ g.block_size \in Nat
      BY Zenon DEF BufferInv, FreeListInv, Tiled, HeadersAreSafe,
         HeaderIsSafe, IsBlock
    <3>2. g.orig_size \in Nat /\ g.ptr + g.orig_size <= BlockEnd(g)
      BY FreeListAssumption, Zenon DEF BufferInv, HeadersAreSafe, HeaderIsSafe
    <3>3. BlockStart(g) <= g.ptr - HeaderSize /\ g.ptr <= BlockEnd(g)
      BY <3>1, <3>2, Sizes DEF BlockStart, BlockEnd
    <3>4. CASE g = h
      BY <2>8, <3>1, <3>4, Sizes DEF Words
    <3>5. CASE g # h
      <4>1. BlockEnd(g) <= BlockStart(h) \/ BlockEnd(h) <= BlockStart(g)
        BY <2>10, <3>5, Zenon
      <4>2. BlockEnd(g) \in Nat
        BY <3>1 DEF BlockEnd
      <4> QED BY <2>3, <2>8, <3>1, <3>3, <4>1, <4>2, Sizes DEF Words
    <3> QED BY <3>4, <3>5, Zenon
  <2>13. synced \cap Metadata = {}
    <3>1. SUFFICES ASSUME NEW x \in synced, x \in Metadata PROVE FALSE
      BY Zenon
    <3>2. \/ \E i \in DOMAIN list : x \in Words(list[i].at, NodeSize)
          \/ \E g \in header : x \in Words(g.ptr - HeaderSize, HeaderSize)
      BY <3>1, Zenon DEF Metadata
    <3> QED BY <2>11, <2>12, <3>2, Zenon
  <2>14. ASSUME NEW c \in buffers, synced \cap BufferWords(c) # {} PROVE c = b
    <3>1. PICK g \in header :
            /\ c = BufferOf(g) /\ HeaderIsSafe(g) /\ IsBlock(g, list)
            /\ BufferToPtr(c) = g.ptr /\ g.ptr \in Nat
            /\ c.size_words = g.orig_size /\ g.orig_size \in Nat
            /\ BlockEnd(g) \in Nat /\ g.ptr + g.orig_size <= BlockEnd(g)
            /\ BlockStart(g) \in Nat /\ BlockStart(g) + HeaderSize <= g.ptr
      BY BufferPlace, Zenon
    <3>2. PICK x \in synced : x \in BufferWords(c)
      BY <2>14, Zenon
    <3>3. g.ptr <= x /\ x < g.ptr + g.orig_size
      BY <3>1, <3>2 DEF BufferWords, Words
    <3>4. x \in Int /\ h.ptr <= x /\ x < h.ptr + h.orig_size
      BY <2>8, Zenon
    <3>5. g = h
      <4>1. SUFFICES ASSUME g # h PROVE FALSE
        BY Zenon
      <4>2. BlockEnd(g) <= BlockStart(h) \/ BlockEnd(h) <= BlockStart(g)
        BY <2>10, <4>1, Zenon
      <4> QED BY <2>3, <3>1, <3>3, <3>4, <4>2, Sizes
    <3> QED BY <2>3, <3>1, <3>5, Zenon
  <2> QED BY <2>9, <2>13, <2>14, Zenon DEF synced
<1> QED BY <1>1, <1>2, <1>3, Zenon DEF SyncIsSafe

-----------------------------------------------------------------------------
(* What is in use: from here on sets are counted. *)

INSTANCE FiniteSetTheorems

\* A live block has as many words as its header says.
LEMMA LiveBlockIs ==
  ASSUME NEW h, h.block_size \in Nat, h.block_size >= HeaderSize, BlockStart(h) \in Nat
  PROVE  IsFiniteSet(LiveBlock(h)) /\ Cardinality(LiveBlock(h)) = h.block_size
<1>1. /\ BlockStart(h) \in Int /\ BlockStart(h) + h.block_size - 1 \in Int
      /\ ~ (BlockStart(h) > BlockStart(h) + h.block_size - 1)
      /\ (BlockStart(h) + h.block_size - 1) - BlockStart(h) + 1 = h.block_size
  BY Sizes
<1> QED BY <1>1, FS_Interval, Zenon DEF LiveBlock, Extent

\* The live blocks are finite, and one that is apart from them counts for itself.
LEMMA LiveCount ==
  ASSUME ArenaInv, NEW l, NEW H, Tiled(l, H), NEW g,
         g.block_size \in Nat, g.block_size >= HeaderSize, BlockStart(g) \in Nat,
         \A h \in H : BlockEnd(g) <= BlockStart(h) \/ BlockEnd(h) <= BlockStart(g)
  PROVE  /\ Cardinality(LiveWords(H)) \in Nat
         /\ Cardinality(LiveWords(H \cup {g})) = Cardinality(LiveWords(H)) + g.block_size
<1>1. \A h \in H : /\ h.block_size \in Nat /\ h.block_size >= HeaderSize
                   /\ BlockStart(h) \in Nat /\ BlockEnd(h) \in Int
                   /\ fl_data <= BlockStart(h) /\ BlockEnd(h) <= fl_data + fl_size
  BY DEF Tiled, IsBlock, BlockEnd
<1>2. \A h \in H : \A x :
        x \in LiveBlock(h) <=> x \in Int /\ BlockStart(h) <= x /\ x < BlockEnd(h)
  BY <1>1, LiveBlockWords, Zenon
<1>3. IsFiniteSet(LiveWords(H))
  <2>1. IsFiniteSet(fl_data .. fl_data + fl_size)
    BY FS_Interval DEF ArenaInv
  <2>2. ASSUME NEW h \in H, NEW x \in LiveBlock(h) PROVE x \in fl_data .. fl_data + fl_size
    BY <1>1, <1>2 DEF ArenaInv
  <2>3. LiveWords(H) \in SUBSET (fl_data .. fl_data + fl_size)
    BY <2>2, Zenon DEF LiveWords
  <2> QED BY <2>1, <2>3, FS_Subset, Zenon
<1>4. /\ IsFiniteSet(LiveBlock(g)) /\ Cardinality(LiveBlock(g)) = g.block_size
      /\ \A x : x \in LiveBlock(g) <=> x \in Int /\ BlockStart(g) <= x /\ x < BlockEnd(g)
  BY LiveBlockIs, LiveBlockWords, Zenon
<1>5. LiveWords(H) \cap LiveBlock(g) = {}
  <2>1. ASSUME NEW h \in H, NEW x \in LiveBlock(h), x \in LiveBlock(g) PROVE FALSE
    BY <1>1, <1>2, <1>4, <2>1 DEF BlockEnd
  <2> QED BY <2>1, Zenon DEF LiveWords
<1>6. LiveWords(H \cup {g}) = LiveWords(H) \cup LiveBlock(g)
  BY Zenon DEF LiveWords
<1>7. Cardinality(LiveWords(H)) \in Nat
  BY <1>3, FS_CardinalityType, Zenon
<1>8. Cardinality(LiveWords(H) \cup LiveBlock(g)) =
        Cardinality(LiveWords(H)) + Cardinality(LiveBlock(g)) - Cardinality({})
  BY <1>3, <1>4, <1>5, FS_Union
<1>9. Cardinality({}) = 0
  BY FS_EmptySet, Zenon
<1>10. Cardinality(LiveWords(H)) + g.block_size - 0
         = Cardinality(LiveWords(H)) + g.block_size
  BY <1>7
<1>11. Cardinality(LiveWords(H \cup {g})) = Cardinality(LiveWords(H)) + g.block_size - 0
  BY <1>4, <1>6, <1>8, <1>9, Zenon
<1> QED BY <1>7, <1>10, <1>11, Zenon

\* Init, every call and every stutter.
LEMMA FreeListStep == FreeListInv /\ [FreeListNext]_flVars => FreeListInv'
<1> SUFFICES ASSUME FreeListInv, [FreeListNext]_flVars PROVE FreeListInv'
  BY Zenon
<1>1. ArenaInv /\ Tiled(list, header) /\ used = Cardinality(LiveWords(header))
  BY Zenon DEF FreeListInv
<1>2. SUFFICES /\ UNCHANGED <<fl_data, fl_size>>
               /\ Tiled(list', header') /\ used' = Cardinality(LiveWords(header'))
  BY <1>1, Zenon
     DEF FreeListInv, ArenaInv, Tiled, Ordered, Fine, IsBlock, HasWord,
     AwayFrom, LiveWords
<1>3. ASSUME NEW r \in Requests, Alloc(r)
      PROVE  /\ UNCHANGED <<fl_data, fl_size>>
             /\ Tiled(list', header') /\ used' = Cardinality(LiveWords(header'))
  <2>1. UNCHANGED <<fl_data, fl_size>>
    BY <1>3, Zenon DEF Alloc
  <2>2. PICK g :
          /\ g.block_size \in Nat /\ g.block_size >= HeaderSize /\ BlockStart(g) \in Nat
          /\ fl_data <= BlockStart(g) /\ BlockEnd(g) <= fl_data + fl_size
          /\ Takes(list, list', BlockStart(g), BlockEnd(g))
          /\ header' = header \cup {g} /\ used' = used + g.block_size
    BY <1>1, <1>3, AllocStep, Zenon
  <2>3. /\ Tiled(list', header \cup {g})
        /\ \A h \in header : BlockEnd(g) <= BlockStart(h) \/ BlockEnd(h) <= BlockStart(g)
    BY <1>1, <2>2, TakesIsTiled, Zenon
  <2>4. Cardinality(LiveWords(header \cup {g})) = Cardinality(LiveWords(header)) + g.block_size
    BY <1>1, <2>2, <2>3, LiveCount, Zenon
  <2> QED BY <1>1, <2>1, <2>2, <2>3, <2>4, Zenon
<1>4. ASSUME NEW h \in header, Free(h)
      PROVE  /\ UNCHANGED <<fl_data, fl_size>>
             /\ Tiled(list', header') /\ used' = Cardinality(LiveWords(header'))
  <2>1. UNCHANGED <<fl_data, fl_size>>
    BY <1>4, Zenon DEF Free
  <2>2. /\ Tiled(list', header \ {h})
        /\ header' = header \ {h} /\ used' = used - h.block_size
    BY <1>1, <1>4, FreeStep, Zenon
  <2>3. /\ h.block_size \in Nat /\ h.block_size >= HeaderSize /\ BlockStart(h) \in Nat
        /\ \A k \in header \ {h} :
             BlockEnd(h) <= BlockStart(k) \/ BlockEnd(k) <= BlockStart(h)
    BY <1>1, Zenon DEF Tiled, IsBlock
  <2>4. /\ Cardinality(LiveWords(header \ {h})) \in Nat
        /\ Cardinality(LiveWords((header \ {h}) \cup {h})) =
             Cardinality(LiveWords(header \ {h})) + h.block_size
    BY <1>1, <2>2, <2>3, LiveCount, Zenon
  <2>5. (header \ {h}) \cup {h} = header
    BY Zenon
  <2>6. used - h.block_size = Cardinality(LiveWords(header \ {h}))
    BY <1>1, <2>3, <2>4, <2>5
  <2> QED BY <2>1, <2>2, <2>6, Zenon
<1>5. CASE FreeAll
  <2>1. Tiled(list', header') /\ header' = {} /\ used' = 0 /\ UNCHANGED <<fl_data, fl_size>>
    BY <1>1, <1>5, WholeIsTiled, Zenon DEF FreeAll
  <2>2. LiveWords({}) = {}
    BY Zenon DEF LiveWords
  <2> QED BY <2>1, <2>2, FS_EmptySet, Zenon
<1>6. CASE UNCHANGED flVars
  BY <1>1, <1>6, Zenon DEF flVars
<1> QED BY <1>3, <1>4, <1>5, <1>6, Zenon DEF FreeListNext

\* free_list_init establishes the invariant.
LEMMA FreeListStart == FreeListInit => FreeListInv
<1> SUFFICES ASSUME FreeListInit PROVE FreeListInv
  BY Zenon
<1>1. PICK m \in Memories :
        /\ fl_data = AlignForward(m.data, MaxAlign)
        /\ fl_size = m.size - (AlignForward(m.data, MaxAlign) - m.data)
  BY Zenon DEF FreeListInit
<1>2. /\ m.data \in Nat /\ m.data \in Int /\ m.size \in Nat /\ MaxAlign \in Nat \ {0}
      /\ NodeSize \in Nat /\ m.size >= MaxAlign + NodeSize
  BY FreeListAssumption
<1>3. /\ AlignForward(m.data, MaxAlign) \in Int /\ m.data <= AlignForward(m.data, MaxAlign)
      /\ AlignForward(m.data, MaxAlign) < m.data + MaxAlign
  BY <1>2, AlignForwardIs, Zenon
<1>4. ArenaInv
  BY <1>1, <1>2, <1>3 DEF ArenaInv
<1>5. Tiled(list, header)
  BY <1>4, WholeIsTiled, Zenon DEF FreeListInit
<1>6. LiveWords({}) = {}
  BY Zenon DEF LiveWords
<1> QED BY <1>4, <1>5, <1>6, FS_EmptySet, Zenon DEF FreeListInv, FreeListInit

\* The chunks are finite and can be counted.
LEMMA ChunkCount ==
  ASSUME NEW K, K \subseteq Chunks
  PROVE  /\ IsFiniteSet(K) /\ KernelCount - Cardinality(K) \in Nat
         /\ \A k : k \notin K => Cardinality(K \cup {k}) = Cardinality(K) + 1
<1>1. KernelCount \in Nat \ {0}
  BY BufferAssumption, Zenon
<1>2. /\ 0 \in Int /\ KernelCount - 1 \in Int /\ ~ (0 > KernelCount - 1)
      /\ (KernelCount - 1) - 0 + 1 = KernelCount
  BY <1>1
<1>3. IsFiniteSet(Chunks) /\ Cardinality(Chunks) = KernelCount
  BY <1>2, FS_Interval, Zenon DEF Chunks
<1>4. IsFiniteSet(K) /\ Cardinality(K) <= KernelCount
  BY <1>3, FS_Subset, Zenon
<1>5. Cardinality(K) \in Nat
  BY <1>4, FS_CardinalityType, Zenon
<1>6. KernelCount - Cardinality(K) \in Nat
  BY <1>1, <1>4, <1>5
<1>7. \A k : k \notin K => Cardinality(K \cup {k}) = Cardinality(K) + 1
  BY <1>4, FS_AddElement, Zenon
<1> QED BY <1>4, <1>6, <1>7

\* pool_init, by pool_free_all, puts every chunk on the list.
LEMMA PoolStart == BufferInit => PoolInv
<1>1. {} \subseteq Chunks
  BY Zenon
<1> QED BY <1>1, WholeOrder, FS_EmptySet, Zenon DEF BufferInit, PoolInv

\* Every call of the kernels keeps the list of free chunks.
LEMMA PoolStep == PoolInv /\ KernelNext => PoolInv'
<1> SUFFICES ASSUME PoolInv, KernelNext PROVE PoolInv'
  BY Zenon
<1>1. /\ kernels \subseteq Chunks /\ next \in [Chunks -> Int]
      /\ KernelCount - Cardinality(kernels) \in Nat
  BY ChunkCount, Zenon DEF PoolInv
<1>2. PICK order : IsOrder(order, KernelCount - Cardinality(kernels), kernels, head, next)
  BY Zenon DEF PoolInv
<1>3. CASE UNCHANGED poolVars
  BY <1>3, Zenon DEF PoolInv, IsOrder, poolVars
<1>4. CASE KernelFreeAll
  <2>1. /\ head' = PoolFreeAll(head).head /\ next' = PoolFreeAll(head).next /\ kernels' = {}
    BY <1>4, Zenon DEF KernelFreeAll
  <2>2. {} \subseteq Chunks
    BY Zenon
  <2> QED BY <2>1, <2>2, WholeOrder, FS_EmptySet, Zenon DEF PoolInv
<1>5. CASE /\ head # Null /\ kernels' = kernels \cup {head} /\ head' = next[head]
           /\ next' = [next EXCEPT ![head] = Null]
  <2>1. /\ head \in Chunks \ kernels
        /\ [next EXCEPT ![head] = Null] \in [Chunks -> Int]
        /\ \E o : IsOrder(o, KernelCount - Cardinality(kernels) - 1, kernels \cup {head},
                          next[head], [next EXCEPT ![head] = Null])
    BY <1>1, <1>2, <1>5, TakenOrder, Zenon
  <2>2. /\ Cardinality(kernels \cup {head}) = Cardinality(kernels) + 1
        /\ Cardinality(kernels) \in Nat
    BY <1>1, <2>1, ChunkCount, FS_CardinalityType, Zenon
  <2>3. KernelCount - Cardinality(kernels \cup {head}) = KernelCount - Cardinality(kernels) - 1
    BY <2>2, BufferAssumption
  <2>4. kernels \cup {head} \subseteq Chunks
    BY <1>1, <2>1, Zenon
  <2> QED BY <1>5, <2>1, <2>3, <2>4, Zenon DEF PoolInv
<1>6. ASSUME NEW k \in kernels, KernelSet(k) PROVE PoolInv'
  <2>1. next' = [next EXCEPT ![k] = KernelData] /\ UNCHANGED <<head, kernels>>
    BY <1>6, Zenon DEF KernelSet
  <2>2. next' \in [Chunks -> Int] /\ \A c \in Chunks \ kernels : next'[c] = next[c]
    BY <1>1, <2>1 DEF KernelData
  <2>3. IsOrder(order, KernelCount - Cardinality(kernels), kernels, head, next')
    <3>1. \A n \in 1 .. KernelCount - Cardinality(kernels) : next'[order[n]] = next[order[n]]
      BY <1>2, <2>2, Zenon DEF IsOrder
    <3> QED BY <1>2, <3>1, Zenon DEF IsOrder
  <2> QED BY <1>1, <2>1, <2>2, <2>3, Zenon DEF PoolInv
<1>7. CASE KernelAlloc
  BY <1>3, <1>5, <1>7, Zenon DEF KernelAlloc
<1>8. CASE BadHandle \/ BufferResetErr
  BY <1>3, <1>8, Zenon DEF BadHandle, BufferResetErr
<1> QED BY <1>4, <1>6, <1>7, <1>8, Zenon DEF KernelNext

\* strela_dev_init establishes the invariant of the buffers.
LEMMA BufferStart == ASSUME SmallMemories PROVE BufferInit => BufferInv
<1> SUFFICES ASSUME BufferInit PROVE BufferInv
  BY Zenon
<1>1. FreeListInv
  BY FreeListStart, Zenon DEF BufferInit
<1>2. HeadersAreSafe /\ BuffersInv /\ SyncInv /\ res \in Results
  BY Zenon DEF BufferInit, FreeListInit, HeadersAreSafe, BuffersInv, SyncInv,
     NoSync, Results
<1>3. PICK m \in Memories : fl_data = AlignForward(m.data, MaxAlign)
                            /\ fl_size = m.size - (AlignForward(m.data, MaxAlign) - m.data)
  BY Zenon DEF BufferInit, FreeListInit
<1>4. /\ m.data \in Nat /\ m.data \in Int /\ m.size \in Nat /\ MaxAlign \in Nat \ {0}
      /\ 3 * m.size <= SizeT /\ SizeT \in Nat
  BY FreeListAssumption DEF SmallMemories
<1>5. m.data <= AlignForward(m.data, MaxAlign) /\ AlignForward(m.data, MaxAlign) \in Int
  BY <1>4, AlignForwardIs, Zenon
<1>6. 3 * fl_size <= SizeT
  BY <1>3, <1>4, <1>5
<1> QED BY <1>1, <1>2, <1>6, Zenon DEF BufferInv, DeviceInv, BufferInit

\* Every call of the buffers and of the kernels keeps it.
LEMMA BufferStep ==
  ASSUME SizesFit
  PROVE  BufferInv /\ PoolInv /\ [BufferNext \/ KernelNext]_<<flVars, bufferVars>> => BufferInv'
<1> SUFFICES ASSUME BufferInv, PoolInv, [BufferNext \/ KernelNext]_<<flVars, bufferVars>>
             PROVE  BufferInv'
  BY Zenon
<1>1. SUFFICES [FreeListNext]_flVars /\ BuffersInv' /\ SyncInv' /\ res' \in Results
  <2>1. FreeListInv'
    BY <1>1, FreeListStep, Zenon DEF BufferInv
  <2>2. HeadersAreSafe'
    BY <1>1, HeadersStep, Zenon DEF BufferInv
  <2>3. UNCHANGED <<fl_data, fl_size>>
    BY <1>1, Zenon DEF FreeListNext, Alloc, Free, FreeAll, flVars
  <2>4. DeviceInv'
    BY <2>3, Zenon DEF BufferInv, DeviceInv
  <2> QED BY <1>1, <2>1, <2>2, <2>4, Zenon DEF BufferInv
<1>2. ASSUME UNCHANGED <<flVars, buffers>>
      PROVE  [FreeListNext]_flVars /\ BuffersInv'
  BY <1>2, Zenon DEF BufferInv, BuffersInv, BufferOf, flVars
<1>3. CASE UNCHANGED <<flVars, bufferVars>>
  <2>1. UNCHANGED <<sync, res, flVars, buffers>>
    BY <1>3, Zenon DEF bufferVars
  <2>2. SyncInv' /\ res' \in Results
    BY <2>1, Zenon DEF BufferInv, SyncInv, SyncedInside
  <2> QED BY <1>2, <2>1, <2>2, Zenon
<1>4. CASE KernelNext
  <2>1. kernels \subseteq Chunks
    BY Zenon DEF PoolInv
  <2> QED BY <1>2, <1>4, <2>1, KernelSyncStep, Zenon
<1>5. CASE BadHandle \/ BufferResetErr
  <2>1. UNCHANGED <<flVars, buffers>> /\ sync' = NoSync /\ res' \in Results
    BY <1>5, Zenon DEF BadHandle, BufferResetErr, Results
  <2>2. SyncInv'
    BY <2>1, Zenon DEF SyncInv, NoSync
  <2> QED BY <1>2, <2>1, <2>2, Zenon
<1>6. CASE BufferFreeAll
  <2>1. FreeAll /\ buffers' = {} /\ sync' = NoSync /\ res' = res
    BY <1>6, Zenon DEF BufferFreeAll
  <2>2. SyncInv'
    BY <2>1, Zenon DEF SyncInv, NoSync
  <2>3. BuffersInv'
    BY <2>1, Zenon DEF BuffersInv
  <2> QED BY <2>1, <2>2, <2>3, Zenon DEF FreeListNext, BufferInv
<1>7. ASSUME NEW s \in BufferSizes, BufferAlloc(s)
      PROVE  [FreeListNext]_flVars /\ BuffersInv' /\ SyncInv' /\ res' \in Results
  BY <1>7, BufferAllocStep, Zenon
<1>8. ASSUME NEW b \in buffers, BufferFree(b)
      PROVE  [FreeListNext]_flVars /\ BuffersInv' /\ SyncInv' /\ res' \in Results
  BY <1>8, BufferFreeStep, Zenon
<1>9. ASSUME NEW b \in buffers, NEW offset \in SyncStarts, NEW count \in SyncCounts,
             BufferFlush(b, offset, count) \/ BufferInval(b, offset, count)
      PROVE  [FreeListNext]_flVars /\ BuffersInv' /\ SyncInv' /\ res' \in Results
  <2>1. UNCHANGED <<flVars, buffers>>
    BY <1>9, Zenon DEF BufferFlush, BufferInval
  <2>2. SyncInv' /\ res' \in Results
    BY <1>9, FlushStep, InvalStep, Zenon
  <2> QED BY <1>2, <2>1, <2>2, Zenon
<1>10. ASSUME BufferNext
       PROVE  [FreeListNext]_flVars /\ BuffersInv' /\ SyncInv' /\ res' \in Results
  BY <1>10, <1>5, <1>6, <1>7, <1>8, <1>9, Zenon DEF BufferNext
<1> QED BY <1>3, <1>4, <1>10, Zenon

-----------------------------------------------------------------------------
(* The theorems. *)

\* FreeListInv is an invariant.
LEMMA FreeListSafe == FreeListSpec => []FreeListInv
BY FreeListStart, FreeListStep, PTL DEF FreeListSpec

\* ArenaIsTiled: no word of the arena is lost or given out twice, whatever the
\* calls of free_list_alloc, free_list_free and free_list_free_all, their order
\* and their sizes, and even where rounding a size wraps around.
THEOREM TiledSafety == FreeListSpec => []ArenaIsTiled
BY FreeListSafe, TiledIs, PTL

\* FreeBlocksAreJoined: free_list_free joins a block with both of its free
\* neighbours, and the list stays in the order of the addresses, so that once
\* all is freed the arena is one node again.
THEOREM JoinedSafety == FreeListSpec => []FreeBlocksAreJoined
<1>1. FreeListInv => FreeBlocksAreJoined
  BY JoinedIs, FS_EmptySet, Zenon
<1> QED BY <1>1, FreeListSafe, PTL

\* MetadataIsSafe: where no size wraps around, what a user asked free_list_alloc
\* for never reaches a node or a header, and is aligned as they asked.
THEOREM MetadataSafety ==
  ASSUME SizesFit
  PROVE  FreeListSpec => []MetadataIsSafe
<1>1. FreeListInit => HeadersAreSafe
  BY Zenon DEF FreeListInit, HeadersAreSafe
<1> QED BY <1>1, FreeListStart, FreeListStep, HeadersStep, SafeIs, PTL
           DEF FreeListSpec

\* PoolIsSound: whatever strela_kernel_alloc, strela_kernel_set and
\* strela_kernel_free_all did before, and between which calls of the buffers,
\* the list of the pool has every chunk that is free, once.
THEOREM PoolSafety == MemorySpec => []PoolIsSound
<1>1. PoolInv /\ [BufferNext \/ KernelNext]_<<flVars, bufferVars>> => PoolInv'
  BY PoolStep, PoolKept, Zenon
<1> QED BY <1>1, PoolStart, PoolIs, PTL DEF MemorySpec

\* SyncIsSafe: strela_buffer_flush and strela_buffer_inval ask the driver only
\* for what it accepts, and for words of one buffer that is still allocated, so
\* that no metadata of the allocator and no other buffer is touched.
THEOREM SyncSafety ==
  ASSUME SizesFit, SmallMemories
  PROVE  MemorySpec => []SyncIsSafe
<1>1. PoolInv /\ [BufferNext \/ KernelNext]_<<flVars, bufferVars>> => PoolInv'
  BY PoolStep, PoolKept, Zenon
<1> QED BY <1>1, PoolStart, BufferStart, BufferStep, SyncIs, PTL
           DEF MemorySpec
=============================================================================
