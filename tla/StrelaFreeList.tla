-------------------------- MODULE StrelaFreeList --------------------------
(***************************************************************************)
(* The free list that suballocates the tensor memory of a device: the      *)
(* Free_List of lib/allocators.c.  Its nodes and its allocation headers    *)
(* live inside the memory it manages, next to what the user of a buffer    *)
(* writes.  Addresses and sizes are in units of the size of a pointer, in  *)
(* which every node, header and alignment is a whole number.               *)
(*                                                                         *)
(* list is the chain of free nodes from head on, as a sequence; header is  *)
(* the set of Free_List_Allocation_Headers of the allocations not freed    *)
(* yet, each with the pointer that was returned.                           *)
(***************************************************************************)
EXTENDS Integers, FiniteSets, Sequences

CONSTANTS
  NodeSize,     \* sizeof (Free_List_Node)
  HeaderSize,   \* sizeof (Free_List_Allocation_Header)
  MaxAlign,     \* sizeof (max_align_t)
  SizeT,        \* a size_t is less than this
  Memories,     \* memories given to free_list_init: [data, size]
  Requests      \* arguments of free_list_alloc: [size, alignment]

ASSUME FreeListAssumption ==
  /\ NodeSize \in Nat /\ HeaderSize \in Nat /\ MaxAlign \in Nat /\ SizeT \in Nat
  /\ 0 < NodeSize /\ NodeSize <= HeaderSize /\ 0 < MaxAlign
  /\ \A m \in Memories :
       /\ m.data \in Nat /\ m.size \in Nat
       /\ m.size >= MaxAlign + NodeSize
  /\ \A r \in Requests :
       /\ r.size \in Nat /\ r.alignment \in Nat /\ 0 < r.alignment
       /\ r.size < SizeT
       \* is_power_of_two, for both
       /\ r.alignment % MaxAlign = 0 \/ MaxAlign % r.alignment = 0

\* No sum but that of AllocSize wraps around: neither the address after the
\* arena nor the space a request needs with its header.
ASSUME FreeListFits ==
  /\ \A m \in Memories : m.data + m.size < SizeT
  /\ \A r \in Requests :
       \A a \in {r.alignment, MaxAlign} :
         ((((r.size + a - 1) \div a) * a) % SizeT) + NodeSize + HeaderSize + 2 * a < SizeT

VARIABLES
  fl_data, fl_size,   \* the arena
  policy,             \* Placement_Policy
  used,
  list,               \* free nodes: [at, block_size]
  header              \* live allocations: [ptr, orig_size, block_size, padding]

flVars == <<fl_data, fl_size, policy, used, list, header>>

Node(at, size) == [at |-> at, block_size |-> size]

\* free_list_node_remove and free_list_node_insert: the list l without its i-th
\* node, and with the node n as its i-th.
NodeRemoved(l, i) == [k \in 1 .. Len(l) - 1 |-> IF k < i THEN l[k] ELSE l[k + 1]]
NodeInserted(l, i, n) ==
  [k \in 1 .. Len(l) + 1 |-> IF k < i THEN l[k] ELSE IF k = i THEN n ELSE l[k - 1]]

\* Mutant: rounds down.
AlignForwardDown(p, a) == (p \div a) * a

\* align_forward_uintptr, align_forward_size
AlignForward(p, a) == ((p + a - 1) \div a) * a

\* free_list_init and free_list_free_all
FreeListInit ==
  /\ \E m \in Memories :
       LET start == AlignForward(m.data, MaxAlign)
       IN fl_data = start /\ fl_size = m.size - (start - m.data)
  /\ policy \in {"Find_First", "Find_Best"}
  /\ used = 0
  /\ list = <<Node(fl_data, fl_size)>>
  /\ header = {}

\* calc_padding_with_header: the next aligned address that leaves room for a
\* header before it.
CalcPaddingWithHeader(p, a) ==
  LET padding == AlignForward(p, a) - p
      needed_space == HeaderSize - padding
  IN IF padding < HeaderSize
     THEN padding + AlignForward(needed_space, a)
     ELSE padding

RequiredSpace(i, size, a) == size + CalcPaddingWithHeader(list[i].at, a)

\* The nodes an allocation fits in.
Candidates(size, a) ==
  {i \in DOMAIN list : list[i].block_size >= RequiredSpace(i, size, a)}

Slack(i, size, a) == list[i].block_size - RequiredSpace(i, size, a)

\* free_list_find_first and free_list_find_best
IsFound(i, size, a) ==
  /\ i \in Candidates(size, a)
  /\ \A k \in Candidates(size, a) :
       \/ policy = "Find_First" /\ i <= k
       \/ /\ policy = "Find_Best"
          /\ \/ Slack(i, size, a) < Slack(k, size, a)
             \/ Slack(i, size, a) = Slack(k, size, a) /\ i <= k

\* Is what an allocation leaves of a block worth a node of its own?
IsSplit(remaining) == remaining >= NodeSize + NodeSize

\* The alignment and the size free_list_alloc goes by.  Rounding a size near the
\* largest one wraps around.
AllocAlignment(r) == IF r.alignment < MaxAlign THEN MaxAlign ELSE r.alignment

RoundedSize(r) ==
  AlignForward(IF r.size < NodeSize THEN NodeSize ELSE r.size, AllocAlignment(r))

AllocSize(r) == RoundedSize(r) % SizeT

Fits(r) == Candidates(AllocSize(r), AllocAlignment(r)) # {}

\* free_list_alloc.  A request that fits nowhere changes nothing.
Alloc(r) ==
  LET alignment == AllocAlignment(r)
      size == AllocSize(r)
  IN \E i \in DOMAIN list :
       /\ IsFound(i, size, alignment)
       /\ LET node == list[i]
              padding == CalcPaddingWithHeader(node.at, alignment)
              required == size + padding
              remaining == node.block_size - required
              split == IsSplit(remaining)
              block == IF split THEN required ELSE node.block_size
          IN /\ list' = IF split
                        THEN [list EXCEPT ![i] = Node(node.at + required, remaining)]
                        ELSE NodeRemoved(list, i)
             /\ header' = header \cup
                  {[ptr |-> node.at + padding, orig_size |-> r.size,
                    block_size |-> block, padding |-> padding - HeaderSize]}
             /\ used' = used + block
       /\ UNCHANGED <<fl_data, fl_size, policy>>

\* Mutant: a freed block is not joined with the one before it.
CoalesceNext(l, i) ==
  IF i < Len(l) /\ l[i].at + l[i].block_size = l[i + 1].at
  THEN NodeRemoved([l EXCEPT ![i].block_size = @ + l[i + 1].block_size], i + 1)
  ELSE l

\* The list l with the k-th node joined with the next one, if that is where it
\* ends.
Joined(l, k) ==
  IF k \in 1 .. Len(l) - 1 /\ l[k].at + l[k].block_size = l[k + 1].at
  THEN NodeRemoved([l EXCEPT ![k] = Node(@.at, @.block_size + l[k + 1].block_size)], k + 1)
  ELSE l

\* free_list_coalescence of the i-th node: with the next one, then with the
\* previous one.
Coalescence(l, i) == Joined(Joined(l, i), i - 1)

\* Mutant: the block is taken to start at its header.
BlockStartAtHeader(h) == h.ptr - HeaderSize

\* Where the block of an allocation starts, from its header.
BlockStart(h) == h.ptr - HeaderSize - h.padding

\* free_list_free: the block goes before the first node behind it.
Free(h) ==
  LET node == Node(BlockStart(h), h.block_size)
  IN \E place \in 1 .. Len(list) + 1 :
       /\ \A i \in 1 .. place - 1 : list[i].at <= node.at
       /\ place <= Len(list) => node.at < list[place].at
       /\ used' = used - h.block_size
       /\ list' = Coalescence(NodeInserted(list, place, node), place)
       /\ header' = header \ {h}
       /\ UNCHANGED <<fl_data, fl_size, policy>>

\* free_list_free_all, in strela_buffer_free_all and strela_dev_init: the
\* allocations are forgotten.
FreeAll ==
  /\ used' = 0
  /\ list' = <<Node(fl_data, fl_size)>>
  /\ header' = {}
  /\ UNCHANGED <<fl_data, fl_size, policy>>

FreeListNext ==
  \/ \E r \in Requests : Alloc(r)
  \/ \E h \in header : Free(h)
  \/ FreeAll

FreeListSpec == FreeListInit /\ [][FreeListNext]_flVars

-----------------------------------------------------------------------------
(* Properties. *)

Extent(at, size) == at .. at + size - 1
Arena == Extent(fl_data, fl_size)
NodeBlock(i) == Extent(list[i].at, list[i].block_size)
LiveBlock(h) == Extent(BlockStart(h), h.block_size)
LiveWords(headers) == UNION {LiveBlock(h) : h \in headers}

\* No memory is lost or given out twice, whatever the order of the calls: the
\* blocks of the free nodes and of the live allocations tile the arena, and
\* used counts the live ones (free_list_alloc, free_list_free).
ArenaIsTiled ==
  /\ Arena = UNION ({NodeBlock(i) : i \in DOMAIN list}
                    \cup {LiveBlock(h) : h \in header})
  /\ \A i, k \in DOMAIN list : i # k => NodeBlock(i) \cap NodeBlock(k) = {}
  /\ \A h, g \in header : h # g => LiveBlock(h) \cap LiveBlock(g) = {}
  /\ \A i \in DOMAIN list, h \in header : NodeBlock(i) \cap LiveBlock(h) = {}
  /\ used = Cardinality(LiveWords(header))

\* The torture test's last assertions, in every state: free neighbours have been
\* joined and the nodes are in the order of their addresses, so that a free
\* list of which everything was freed is one node as large as the arena.
FreeBlocksAreJoined ==
  /\ \A i \in 1 .. Len(list) - 1 :
       list[i].at + list[i].block_size < list[i + 1].at
  /\ header = {} => used = 0 /\ list = <<Node(fl_data, fl_size)>>

\* "the user needs to be carefull to not overwite neightbours data because it
\* could corrupt the allocator metadata" (strela.h): a user who stays inside the
\* size they asked for cannot.  What was asked for, the headers and the nodes
\* are apart from each other, each inside its block, and pointers are aligned.
MetadataIsSafe ==
  /\ \A i \in DOMAIN list : list[i].block_size >= NodeSize
  /\ \A h \in header :
       /\ h.padding >= 0
       /\ h.ptr + h.orig_size <= BlockStart(h) + h.block_size
       /\ h.ptr % MaxAlign = 0
       /\ \E r \in Requests : r.size = h.orig_size /\ h.ptr % r.alignment = 0
=============================================================================
