------------------------ MODULE StrelaFreeListProofs ------------------------
(***************************************************************************)
(* The steps of the free list of the library, for arenas and requests of   *)
(* any size: the blocks of its nodes and of its headers tile the arena     *)
(* (FreeListInv), and what follows from that.                              *)
(*                                                                         *)
(* What the free list does to its nodes is shown first of blocks in order, *)
(* given as two functions from places to addresses, where it is arithmetic *)
(* alone, and then carried over to sequences of nodes.                     *)
(*                                                                         *)
(* StrelaLibraryProofs has the theorems.                                   *)
(***************************************************************************)
EXTENDS StrelaFreeList, TLAPS

-----------------------------------------------------------------------------
(* Blocks in order: n of them, the i-th from A[i] to E[i]. *)

\* Their addresses are numbers.
Ints(n, A, E) == \A i \in 1 .. n : A[i] \in Int /\ E[i] \in Int

\* They are in the order of their addresses; only those in T may touch the next.
Gaps(n, A, E, T) ==
  \A i, k \in 1 .. n :
    i < k => E[i] < A[k] \/ (E[i] = A[k] /\ k = i + 1 /\ i \in T)

\* Each has room for a node and is inside the arena.
Fine(n, A, E) ==
  \A i \in 1 .. n :
    A[i] + NodeSize <= E[i] /\ fl_data <= A[i] /\ E[i] <= fl_data + fl_size

\* One of them has the word x; none has a word between two addresses.
In(n, A, E, x) == \E i \in 1 .. n : A[i] <= x /\ x < E[i]
Apart(n, A, E, from, to) == \A i \in 1 .. n : E[i] <= from \/ to <= A[i]

\* The k-th block and the next become one.
Joins(n, A, E, k, B, F) ==
  /\ E[k] = A[k + 1]
  /\ \A i \in 1 .. n - 1 : (i <= k => B[i] = A[i]) /\ (i > k => B[i] = A[i + 1])
  /\ \A i \in 1 .. n - 1 : (i < k => F[i] = E[i]) /\ (i >= k => F[i] = E[i + 1])

\* The block from a to e becomes the k-th; the k-th goes.
Inserts(n, A, E, k, a, e, B, F) ==
  \A i \in 1 .. n + 1 :
    /\ i < k => B[i] = A[i] /\ F[i] = E[i]
    /\ i = k => B[i] = a /\ F[i] = e
    /\ i > k => B[i] = A[i - 1] /\ F[i] = E[i - 1]
Removes(n, A, E, k, B, F) ==
  \A i \in 1 .. n - 1 :
    /\ i < k => B[i] = A[i] /\ F[i] = E[i]
    /\ i >= k => B[i] = A[i + 1] /\ F[i] = E[i + 1]

\* The k-th block starts at c.
Shrinks(n, A, E, k, c, B, F) ==
  \A i \in 1 .. n :
    /\ F[i] = E[i]
    /\ i # k => B[i] = A[i]
    /\ i = k => B[i] = c

\* Joining the k-th block with the next keeps the order, and the k-th no longer
\* touches the next.
LEMMA JoinOrder ==
  ASSUME NEW n \in Nat, NEW k \in 1 .. n - 1, NEW A, NEW E, Ints(n, A, E), NEW B, NEW F,
         Joins(n, A, E, k, B, F), NEW T, \A i \in T : i \in Int /\ i <= k, Gaps(n, A, E, T)
  PROVE  Ints(n - 1, B, F) /\ Gaps(n - 1, B, F, T \ {k})
<1>1. Ints(n - 1, B, F)
  BY DEF Ints, Joins
<1>2. Gaps(n - 1, B, F, T \ {k})
  BY DEF Gaps, Joins
<1> QED BY <1>1, <1>2, Zenon

\* Joining keeps the words, and what the blocks are apart from.
LEMMA JoinWords ==
  ASSUME NEW n \in Nat, NEW k \in 1 .. n - 1, NEW A, NEW E, Ints(n, A, E), NEW B, NEW F,
         Joins(n, A, E, k, B, F), Fine(n, A, E),
         NodeSize \in Nat, fl_data \in Int, fl_size \in Int
  PROVE  /\ Fine(n - 1, B, F)
         /\ \A x \in Int : In(n - 1, B, F, x) <=> In(n, A, E, x)
         /\ \A from, to \in Int :
              from < to /\ Apart(n, A, E, from, to) => Apart(n - 1, B, F, from, to)
<1>1. Fine(n - 1, B, F)
  BY DEF Fine, Joins, Ints
<1>2. ASSUME NEW x \in Int PROVE In(n - 1, B, F, x) => In(n, A, E, x)
  BY DEF Fine, Joins, In, Ints
<1>3. ASSUME NEW x \in Int, NEW i \in 1 .. n, A[i] <= x, x < E[i] PROVE In(n - 1, B, F, x)
  <2>1. CASE i < k
    BY <1>3, <2>1 DEF Joins, In
  <2>2. CASE i > k + 1
    <3>1. i - 1 \in 1 .. n - 1 /\ B[i - 1] = A[i] /\ F[i - 1] = E[i]
      BY <2>2 DEF Joins
    <3> QED BY <1>3, <3>1, Zenon DEF In
  <2>3. CASE i \in {k, k + 1}
    BY <1>3, <2>3 DEF Joins, In, Fine, Ints
  <2> QED BY <2>1, <2>2, <2>3
<1>4. ASSUME NEW from \in Int, NEW to \in Int, from < to, Apart(n, A, E, from, to)
      PROVE  Apart(n - 1, B, F, from, to)
  BY <1>4 DEF Apart, Joins, Ints
<1>5. \A x \in Int : In(n, A, E, x) => In(n - 1, B, F, x)
  BY <1>3, Zenon DEF In
<1> QED BY <1>1, <1>2, <1>4, <1>5, Zenon

\* A block put at its place in the order may touch its two neighbours only.
LEMMA InsertOrder ==
  ASSUME NEW n \in Nat, NEW k \in 1 .. n + 1, NEW A, NEW E, Ints(n, A, E), NEW B, NEW F,
         NEW a \in Int, NEW e \in Int, Inserts(n, A, E, k, a, e, B, F),
         NodeSize \in Nat \ {0}, fl_data \in Int, fl_size \in Int,
         Gaps(n, A, E, {}), Fine(n, A, E), Apart(n, A, E, a, e), a < e,
         \A i \in 1 .. k - 1 : A[i] <= a,
         k <= n => a < A[k]
  PROVE  Ints(n + 1, B, F) /\ Gaps(n + 1, B, F, {k - 1, k})
<1>1. Ints(n + 1, B, F)
  BY DEF Ints, Inserts
<1>2. \A i \in 1 .. n : (i < k => E[i] <= a) /\ (i >= k => e <= A[i])
  <2>1. ASSUME NEW i \in 1 .. n, i < k PROVE E[i] <= a
    BY <2>1 DEF Apart, Ints, Fine
  <2>2. ASSUME NEW i \in 1 .. n, i >= k PROVE e <= A[i]
    BY <2>2 DEF Apart, Ints, Fine, Gaps
  <2> QED BY <2>1, <2>2, Zenon
<1>3. \A i \in 1 .. n : (i < k - 1 => E[i] < a) /\ (i > k => e < A[i])
  BY <1>2 DEF Gaps, Fine, Ints
<1>4. ASSUME NEW i \in 1 .. n + 1, NEW m \in 1 .. n + 1, i < m
      PROVE  F[i] < B[m] \/ (F[i] = B[m] /\ m = i + 1 /\ i \in {k - 1, k})
  <2>1. CASE i # k /\ m # k
    <3>1. PICK i0 \in 1 .. n : F[i] = E[i0] /\ (i < k => i0 = i) /\ (i > k => i0 = i - 1)
      BY <2>1 DEF Inserts
    <3>2. PICK m0 \in 1 .. n : B[m] = A[m0] /\ (m < k => m0 = m) /\ (m > k => m0 = m - 1)
      BY <2>1 DEF Inserts
    <3>3. i0 < m0
      BY <2>1, <1>4, <3>1, <3>2
    <3> QED BY <3>1, <3>2, <3>3, Zenon DEF Gaps
  <2>2. CASE i = k
    <3>1. m - 1 \in 1 .. n /\ F[i] = e /\ B[m] = A[m - 1]
      BY <2>2, <1>4 DEF Inserts
    <3> QED BY <2>2, <1>4, <3>1, <1>2, <1>3 DEF Ints
  <2>3. CASE m = k
    <3>1. i \in 1 .. n /\ F[i] = E[i] /\ B[m] = a
      BY <2>3, <1>4 DEF Inserts
    <3> QED BY <2>3, <1>4, <3>1, <1>2, <1>3 DEF Ints
  <2> QED BY <2>1, <2>2, <2>3, Zenon
<1>5. Gaps(n + 1, B, F, {k - 1, k})
  BY <1>4, Zenon DEF Gaps
<1> QED BY <1>1, <1>5, Zenon

\* A block put in adds its own words and no others.
LEMMA InsertWords ==
  ASSUME NEW n \in Nat, NEW k \in 1 .. n + 1, NEW A, NEW E, Ints(n, A, E), NEW B, NEW F,
         NEW a \in Int, NEW e \in Int, Inserts(n, A, E, k, a, e, B, F),
         NodeSize \in Nat \ {0}, fl_data \in Int, fl_size \in Int,
         Fine(n, A, E), a + NodeSize <= e, fl_data <= a, e <= fl_data + fl_size
  PROVE  /\ Fine(n + 1, B, F)
         /\ \A x \in Int : In(n + 1, B, F, x) <=> In(n, A, E, x) \/ (a <= x /\ x < e)
         /\ \A from, to \in Int :
              (e <= from \/ to <= a) /\ Apart(n, A, E, from, to) =>
                Apart(n + 1, B, F, from, to)
<1>1. Fine(n + 1, B, F)
  BY DEF Fine, Inserts, Ints
<1>2. ASSUME NEW x \in Int PROVE In(n + 1, B, F, x) => In(n, A, E, x) \/ (a <= x /\ x < e)
  BY DEF Inserts, In
<1>3. ASSUME NEW x \in Int, NEW i \in 1 .. n, A[i] <= x, x < E[i] PROVE In(n + 1, B, F, x)
  <2>1. CASE i < k
    BY <1>3, <2>1 DEF Inserts, In
  <2>2. CASE i >= k
    <3>1. i + 1 \in 1 .. n + 1 /\ B[i + 1] = A[i] /\ F[i + 1] = E[i]
      BY <2>2 DEF Inserts
    <3> QED BY <1>3, <3>1, Zenon DEF In
  <2> QED BY <2>1, <2>2
<1>4. ASSUME NEW x \in Int, a <= x, x < e PROVE In(n + 1, B, F, x)
  BY <1>4, Zenon DEF Inserts, In
<1>5. ASSUME NEW from \in Int, NEW to \in Int, e <= from \/ to <= a, Apart(n, A, E, from, to)
      PROVE  Apart(n + 1, B, F, from, to)
  BY <1>5 DEF Apart, Inserts
<1>6. \A x \in Int : In(n, A, E, x) => In(n + 1, B, F, x)
  BY <1>3, Zenon DEF In
<1> QED BY <1>1, <1>2, <1>4, <1>5, <1>6, Zenon

\* Removing a block takes its words out and keeps the order.
LEMMA RemoveWords ==
  ASSUME NEW n \in Nat, NEW k \in 1 .. n, NEW A, NEW E, Ints(n, A, E), NEW B, NEW F,
         Removes(n, A, E, k, B, F), Gaps(n, A, E, {}), Fine(n, A, E),
         NodeSize \in Nat, fl_data \in Int, fl_size \in Int
  PROVE  /\ Gaps(n - 1, B, F, {}) /\ Fine(n - 1, B, F)
         /\ \A x \in Int : In(n, A, E, x) => In(n - 1, B, F, x) \/ (A[k] <= x /\ x < E[k])
         /\ \A f, t \in Int :
              Apart(n, A, E, f, t) => Apart(n - 1, B, F, f, t) /\ (t <= A[k] \/ E[k] <= f)
         /\ Apart(n - 1, B, F, A[k], E[k])
<1>1. Gaps(n - 1, B, F, {}) /\ Fine(n - 1, B, F)
  BY DEF Removes, Gaps, Fine
<1>2. ASSUME NEW x \in Int, NEW i \in 1 .. n, A[i] <= x, x < E[i], i # k
      PROVE  In(n - 1, B, F, x)
  <2>1. CASE i < k
    BY <1>2, <2>1 DEF Removes, In
  <2>2. CASE i > k
    <3>1. i - 1 \in 1 .. n - 1 /\ B[i - 1] = A[i] /\ F[i - 1] = E[i]
      BY <2>2 DEF Removes
    <3> QED BY <1>2, <3>1, Zenon DEF In
  <2> QED BY <1>2, <2>1, <2>2
<1>3. \A x \in Int : In(n, A, E, x) => In(n - 1, B, F, x) \/ (A[k] <= x /\ x < E[k])
  BY <1>2, Zenon DEF In
<1>4. \A f, t \in Int :
        Apart(n, A, E, f, t) => Apart(n - 1, B, F, f, t) /\ (t <= A[k] \/ E[k] <= f)
  BY DEF Apart, Removes
<1>5. Apart(n - 1, B, F, A[k], E[k])
  BY DEF Apart, Removes, Gaps, Ints
<1> QED BY <1>1, <1>3, <1>4, <1>5, Zenon

\* Taking the first part of a block takes those words out and keeps the order.
LEMMA ShrinkWords ==
  ASSUME NEW n \in Nat, NEW k \in 1 .. n, NEW A, NEW E, Ints(n, A, E), NEW B, NEW F,
         NEW c \in Int, A[k] <= c, c + NodeSize <= E[k],
         Shrinks(n, A, E, k, c, B, F), Gaps(n, A, E, {}), Fine(n, A, E),
         NodeSize \in Nat, fl_data \in Int, fl_size \in Int
  PROVE  /\ Gaps(n, B, F, {}) /\ Fine(n, B, F)
         /\ \A x \in Int : In(n, A, E, x) => In(n, B, F, x) \/ (A[k] <= x /\ x < c)
         /\ \A f, t \in Int :
              Apart(n, A, E, f, t) => Apart(n, B, F, f, t) /\ (t <= A[k] \/ c <= f)
         /\ Apart(n, B, F, A[k], c)
<1>1. Gaps(n, B, F, {})
  BY DEF Shrinks, Gaps, Ints
<1>2. Fine(n, B, F)
  BY DEF Shrinks, Fine, Ints
<1>3. \A x \in Int : In(n, A, E, x) => In(n, B, F, x) \/ (A[k] <= x /\ x < c)
  BY DEF Shrinks, In, Ints
<1>4. \A f, t \in Int :
        Apart(n, A, E, f, t) => Apart(n, B, F, f, t) /\ (t <= A[k] \/ c <= f)
  BY DEF Shrinks, Apart, Ints
<1>5. Apart(n, B, F, A[k], c)
  BY DEF Apart, Shrinks, Gaps, Ints, Fine
<1> QED BY <1>1, <1>2, <1>3, <1>4, <1>5, Zenon

-----------------------------------------------------------------------------
(* The lists of the model. *)

\* Free_List_Node, and where the block of one ends.
Nodes == [at : Nat, block_size : Nat]
NodeEnd(n) == n.at + n.block_size

\* The addresses where the blocks of a list start and end.
At(l) == [i \in 1 .. Len(l) |-> l[i].at]
End(l) == [i \in 1 .. Len(l) |-> NodeEnd(l[i])]

\* A list of nodes in order, of which only those in T may touch the next.
Ordered(l, T) ==
  /\ l \in Seq(Nodes)
  /\ Gaps(Len(l), At(l), End(l), T) /\ Fine(Len(l), At(l), End(l))
\* A free block has the word x; none has a word between two addresses.
HasWord(l, x) == In(Len(l), At(l), End(l), x)
AwayFrom(l, from, to) == Apart(Len(l), At(l), End(l), from, to)

\* m has the words of l, and is apart from what l is apart from.
SameWords(l, m) ==
  /\ \A x \in Int : HasWord(m, x) <=> HasWord(l, x)
  /\ \A from, to \in Int : from < to /\ AwayFrom(l, from, to) => AwayFrom(m, from, to)

\* The addresses of a list of nodes are numbers.
LEMMA ListNumbers ==
  ASSUME NEW l \in Seq(Nodes)
  PROVE  /\ Len(l) \in Nat
         /\ Ints(Len(l), At(l), End(l))
         /\ \A i \in 1 .. Len(l) :
              /\ l[i] \in Nodes /\ l[i].at \in Nat /\ l[i].block_size \in Nat
              /\ At(l)[i] = l[i].at /\ End(l)[i] = l[i].at + l[i].block_size
<1>1. \A i \in 1 .. Len(l) : l[i] \in Nodes
  OBVIOUS
<1>2. \A i \in 1 .. Len(l) : At(l)[i] = l[i].at /\ End(l)[i] = l[i].at + l[i].block_size
  BY Zenon DEF At, End, NodeEnd
<1>3. \A i \in 1 .. Len(l) : l[i].at \in Nat /\ l[i].block_size \in Nat
  BY <1>1, Zenon DEF Nodes
<1>4. Ints(Len(l), At(l), End(l))
  BY <1>2, <1>3 DEF Ints
<1> QED BY <1>1, <1>2, <1>3, <1>4

\* So are those of a new node.
LEMMA NodeNumbers ==
  ASSUME NEW at \in Nat, NEW size \in Nat
  PROVE  /\ Node(at, size) \in Nodes
         /\ Node(at, size).at = at /\ NodeEnd(Node(at, size)) = at + size
BY Zenon DEF Node, Nodes, NodeEnd

\* free_list_node_remove: what each place of the list has afterwards.
LEMMA RemovedList ==
  ASSUME NEW l \in Seq(Nodes), NEW k \in 1 .. Len(l)
  PROVE  /\ NodeRemoved(l, k) \in Seq(Nodes) /\ Len(NodeRemoved(l, k)) = Len(l) - 1
         /\ \A i \in 1 .. Len(l) - 1 :
              /\ i < k => NodeRemoved(l, k)[i] = l[i]
              /\ i >= k => NodeRemoved(l, k)[i] = l[i + 1]
<1>1. Len(l) - 1 \in Nat /\ \A i \in 1 .. Len(l) : l[i] \in Nodes
  OBVIOUS
<1>2. NodeRemoved(l, k) \in [1 .. Len(l) - 1 -> Nodes]
  BY <1>1 DEF NodeRemoved
<1> QED BY <1>1, <1>2 DEF NodeRemoved

\* m is l with the node n put in at the place k.
IsInserted(m, l, k, n) ==
  /\ m \in Seq(Nodes) /\ Len(m) = Len(l) + 1
  /\ \A i \in 1 .. Len(l) + 1 :
       /\ i < k => m[i] = l[i]
       /\ i = k => m[i] = n
       /\ i > k => m[i] = l[i - 1]

\* free_list_node_insert: what each place of the list has afterwards.
LEMMA InsertedList ==
  ASSUME NEW l \in Seq(Nodes), NEW k \in 1 .. Len(l) + 1, NEW n \in Nodes
  PROVE  IsInserted(NodeInserted(l, k, n), l, k, n)
<1>1. Len(l) + 1 \in Nat /\ \A i \in 1 .. Len(l) : l[i] \in Nodes
  OBVIOUS
<1>2. NodeInserted(l, k, n) \in [1 .. Len(l) + 1 -> Nodes]
  BY <1>1 DEF NodeInserted
<1> QED BY <1>1, <1>2 DEF NodeInserted, IsInserted

\* What Joined does when it joins.
LEMMA JoinedList ==
  ASSUME NEW l \in Seq(Nodes), NEW k \in 1 .. Len(l) - 1, End(l)[k] = At(l)[k + 1]
  PROVE  LET m == Joined(l, k)
         IN /\ m \in Seq(Nodes) /\ Len(m) = Len(l) - 1
            /\ Joins(Len(l), At(l), End(l), k, At(m), End(m))
<1> DEFINE node == Node(l[k].at, l[k].block_size + l[k + 1].block_size)
           longer == [l EXCEPT ![k] = node]
           m == Joined(l, k)
<1>1. k \in 1 .. Len(l) /\ k + 1 \in 1 .. Len(l)
  BY ListNumbers
<1>2. node \in Nodes /\ node.at = l[k].at /\ NodeEnd(node) = End(l)[k + 1]
  <2>1. /\ l[k].at \in Nat /\ l[k].block_size \in Nat /\ l[k + 1].block_size \in Nat
        /\ l[k].at + l[k].block_size = l[k + 1].at
        /\ End(l)[k + 1] = l[k + 1].at + l[k + 1].block_size
    BY <1>1, ListNumbers, Zenon
  <2>2. l[k].block_size + l[k + 1].block_size \in Nat
    <3>1. \A p, q \in Nat : p + q \in Nat
      OBVIOUS
    <3> QED BY <2>1, <3>1, Zenon
  <2>3. /\ node \in Nodes /\ node.at = l[k].at
        /\ NodeEnd(node) = l[k].at + (l[k].block_size + l[k + 1].block_size)
    BY <2>1, <2>2, NodeNumbers, Zenon
  <2> HIDE DEF node
  <2> QED BY <2>1, <2>3
<1> HIDE DEF node
<1>3. longer \in Seq(Nodes) /\ Len(longer) = Len(l)
  BY <1>1, <1>2
<1>4. \A i \in 1 .. Len(l) : (i # k => longer[i] = l[i]) /\ (i = k => longer[i] = node)
  BY <1>1, <1>2
<1>5. m = NodeRemoved(longer, k + 1)
  <2>1. l[k].at + l[k].block_size = l[k + 1].at
    BY <1>1, ListNumbers, Zenon
  <2> QED BY <2>1, Zenon DEF Joined, node
<1> HIDE DEF longer, m
<1>6. /\ m \in Seq(Nodes) /\ Len(m) = Len(l) - 1
      /\ \A i \in 1 .. Len(l) - 1 :
           /\ i < k + 1 => m[i] = longer[i]
           /\ i >= k + 1 => m[i] = longer[i + 1]
  <2>1. k + 1 \in 1 .. Len(longer)
    BY <1>1, <1>3, Zenon
  <2> QED BY <1>3, <1>5, <2>1, RemovedList, Zenon
<1>7. ASSUME NEW i \in 1 .. Len(l) - 1
      PROVE  /\ i < k => m[i] = l[i]
             /\ i = k => m[i] = node
             /\ i > k => m[i] = l[i + 1]
  <2>1. i \in 1 .. Len(l) /\ i + 1 \in 1 .. Len(l)
    OBVIOUS
  <2>2. CASE i < k + 1
    <3>1. m[i] = longer[i]
      BY <2>2, <1>6, Zenon
    <3> QED BY <2>1, <2>2, <3>1, <1>4
  <2>3. CASE i >= k + 1
    <3>1. m[i] = longer[i + 1]
      BY <2>3, <1>6, Zenon
    <3>2. longer[i + 1] = l[i + 1]
      BY <2>1, <2>3, <1>4
    <3> QED BY <2>3, <3>1, <3>2
  <2> QED BY <2>2, <2>3
<1>8. ASSUME NEW i \in 1 .. Len(l) - 1
      PROVE  /\ i <= k => At(m)[i] = At(l)[i]
             /\ i > k => At(m)[i] = At(l)[i + 1]
             /\ i < k => End(m)[i] = End(l)[i]
             /\ i >= k => End(m)[i] = End(l)[i + 1]
  <2>1. At(m)[i] = m[i].at /\ End(m)[i] = NodeEnd(m[i])
    BY <1>6, Zenon DEF At, End
  <2>2. /\ i \in 1 .. Len(l) /\ i + 1 \in 1 .. Len(l)
        /\ At(l)[i] = l[i].at /\ End(l)[i] = NodeEnd(l[i])
        /\ At(l)[i + 1] = l[i + 1].at /\ End(l)[i + 1] = NodeEnd(l[i + 1])
    BY ListNumbers DEF At, End
  <2> QED BY <1>2, <1>7, <2>1, <2>2, ListNumbers
<1> QED BY <1>6, <1>8, Zenon DEF Joins, m

\* Half of free_list_coalescence, whether or not it joins: order and words stay.
LEMMA JoinedKeeps ==
  ASSUME NEW l, NEW k \in Int, NEW T, \A i \in T : i \in Int /\ i <= k, Ordered(l, T),
         NodeSize \in Nat, fl_data \in Int, fl_size \in Int
  PROVE  Ordered(Joined(l, k), T \ {k}) /\ SameWords(l, Joined(l, k))
<1>0. l \in Seq(Nodes) /\ Len(l) \in Nat /\ Ints(Len(l), At(l), End(l))
  BY ListNumbers, Zenon DEF Ordered
<1>1. CASE k \in 1 .. Len(l) - 1 /\ End(l)[k] = At(l)[k + 1]
  <2>1. /\ Joined(l, k) \in Seq(Nodes) /\ Len(Joined(l, k)) = Len(l) - 1
        /\ Joins(Len(l), At(l), End(l), k, At(Joined(l, k)), End(Joined(l, k)))
    BY <1>0, <1>1, JoinedList, Zenon
  <2>2. Gaps(Len(l) - 1, At(Joined(l, k)), End(Joined(l, k)), T \ {k})
    BY <1>0, <1>1, <2>1, JoinOrder, Zenon DEF Ordered
  <2>3. /\ Fine(Len(l) - 1, At(Joined(l, k)), End(Joined(l, k)))
        /\ \A x \in Int : In(Len(l) - 1, At(Joined(l, k)), End(Joined(l, k)), x)
                            <=> In(Len(l), At(l), End(l), x)
        /\ \A from, to \in Int :
              from < to /\ Apart(Len(l), At(l), End(l), from, to) =>
                Apart(Len(l) - 1, At(Joined(l, k)), End(Joined(l, k)), from, to)
    BY <1>0, <1>1, <2>1, JoinWords, Zenon DEF Ordered
  <2> QED BY <2>1, <2>2, <2>3, Zenon DEF Ordered, SameWords, HasWord, AwayFrom
<1>2. CASE ~ (k \in 1 .. Len(l) - 1 /\ End(l)[k] = At(l)[k + 1])
  <2>1. Joined(l, k) = l
    <3>1. CASE k \in 1 .. Len(l) - 1
      <4>1. k \in 1 .. Len(l) /\ k + 1 \in 1 .. Len(l)
        BY <1>0, <3>1
      <4>2. l[k].at + l[k].block_size # l[k + 1].at
        BY <1>0, <1>2, <3>1, <4>1, ListNumbers, Zenon
      <4> QED BY <4>2, Zenon DEF Joined
    <3>2. CASE k \notin 1 .. Len(l) - 1
      BY <3>2, Zenon DEF Joined
    <3> QED BY <3>1, <3>2, Zenon
  <2>2. Gaps(Len(l), At(l), End(l), T \ {k})
    BY <1>0, <1>2 DEF Ordered, Gaps
  <2> QED BY <2>1, <2>2, Zenon DEF Ordered, SameWords
<1> QED BY <1>1, <1>2, Zenon

\* free_list_free up to its call of free_list_coalescence.
LEMMA InsertedKeeps ==
  ASSUME NEW l, NEW k \in 1 .. Len(l) + 1, NEW at \in Nat, NEW size \in Nat,
         NodeSize \in Nat \ {0}, fl_data \in Int, fl_size \in Int,
         Ordered(l, {}), AwayFrom(l, at, at + size),
         size >= NodeSize, fl_data <= at, at + size <= fl_data + fl_size,
         \A i \in 1 .. k - 1 : l[i].at <= at,
         k <= Len(l) => at < l[k].at
  PROVE  LET m == NodeInserted(l, k, Node(at, size))
         IN /\ Ordered(m, {k - 1, k})
            /\ \A x \in Int : HasWord(m, x) <=> HasWord(l, x) \/ (at <= x /\ x < at + size)
            /\ \A from, to \in Int :
                 (at + size <= from \/ to <= at) /\ AwayFrom(l, from, to) =>
                   AwayFrom(m, from, to)
<1> DEFINE node == Node(at, size)
           m == NodeInserted(l, k, node)
<1>0. l \in Seq(Nodes) /\ Len(l) \in Nat /\ Ints(Len(l), At(l), End(l))
  BY ListNumbers, Zenon DEF Ordered
<1>1. node \in Nodes /\ node.at = at /\ NodeEnd(node) = at + size
  BY NodeNumbers, Zenon
<1> HIDE DEF node
<1>2. /\ m \in Seq(Nodes) /\ Len(m) = Len(l) + 1
      /\ \A i \in 1 .. Len(l) + 1 :
           /\ i < k => m[i] = l[i]
           /\ i = k => m[i] = node
           /\ i > k => m[i] = l[i - 1]
  <2>1. IsInserted(m, l, k, node)
    BY <1>0, <1>1, InsertedList, Zenon
  <2> QED BY <2>1, Zenon DEF IsInserted
<1> HIDE DEF m
<1>3. Inserts(Len(l), At(l), End(l), k, at, at + size, At(m), End(m))
  <2>1. SUFFICES ASSUME NEW i \in 1 .. Len(l) + 1
                 PROVE  /\ i < k => At(m)[i] = At(l)[i] /\ End(m)[i] = End(l)[i]
                        /\ i = k => At(m)[i] = at /\ End(m)[i] = at + size
                        /\ i > k => At(m)[i] = At(l)[i - 1] /\ End(m)[i] = End(l)[i - 1]
    BY Zenon DEF Inserts
  <2>2. At(m)[i] = m[i].at /\ End(m)[i] = NodeEnd(m[i])
    BY <1>2, Zenon DEF At, End
  <2>3. CASE i < k
    <3>1. i \in 1 .. Len(l)
      BY <1>0, <2>3
    <3>2. m[i] = l[i]
      BY <1>2, <2>3, Zenon
    <3> QED BY <2>2, <2>3, <3>1, <3>2 DEF At, End
  <2>4. CASE i = k
    BY <1>1, <1>2, <2>2, <2>4
  <2>5. CASE i > k
    <3>1. i - 1 \in 1 .. Len(l)
      BY <1>0, <2>5
    <3>2. m[i] = l[i - 1]
      BY <1>2, <2>5, Zenon
    <3> QED BY <2>2, <2>5, <3>1, <3>2 DEF At, End
  <2> QED BY <2>3, <2>4, <2>5, Zenon
<1>4. (\A i \in 1 .. k - 1 : At(l)[i] <= at) /\ (k <= Len(l) => at < At(l)[k])
  BY <1>0 DEF At
<1>5. Gaps(Len(l) + 1, At(m), End(m), {k - 1, k})
  BY <1>0, <1>3, <1>4, InsertOrder DEF Ordered, AwayFrom
<1>6. /\ Fine(Len(l) + 1, At(m), End(m))
      /\ \A x \in Int : In(Len(l) + 1, At(m), End(m), x)
                          <=> In(Len(l), At(l), End(l), x) \/ (at <= x /\ x < at + size)
      /\ \A from, to \in Int :
           (at + size <= from \/ to <= at) /\ Apart(Len(l), At(l), End(l), from, to) =>
             Apart(Len(l) + 1, At(m), End(m), from, to)
  BY <1>0, <1>3, InsertWords DEF Ordered
<1>7. /\ Ordered(m, {k - 1, k})
      /\ \A x \in Int : HasWord(m, x) <=> HasWord(l, x) \/ (at <= x /\ x < at + size)
      /\ \A from, to \in Int :
           (at + size <= from \/ to <= at) /\ AwayFrom(l, from, to) => AwayFrom(m, from, to)
  BY <1>2, <1>5, <1>6, Zenon DEF Ordered, HasWord, AwayFrom
<1> QED BY <1>7, Zenon DEF m, node

\* free_list_free: inserted and joined on both sides.
LEMMA FreedKeeps ==
  ASSUME NEW l, NEW k \in 1 .. Len(l) + 1, NEW at \in Nat, NEW size \in Nat,
         NodeSize \in Nat \ {0}, fl_data \in Int, fl_size \in Int,
         Ordered(l, {}), AwayFrom(l, at, at + size),
         size >= NodeSize, fl_data <= at, at + size <= fl_data + fl_size,
         \A i \in 1 .. k - 1 : l[i].at <= at,
         k <= Len(l) => at < l[k].at
  PROVE  LET m == Coalescence(NodeInserted(l, k, Node(at, size)), k)
         IN /\ Ordered(m, {})
            /\ \A x \in Int : HasWord(m, x) <=> HasWord(l, x) \/ (at <= x /\ x < at + size)
            /\ \A from, to \in Int :
                 from < to /\ (at + size <= from \/ to <= at) /\ AwayFrom(l, from, to) =>
                   AwayFrom(m, from, to)
<1> DEFINE m == NodeInserted(l, k, Node(at, size))
           m1 == Joined(m, k)
           m2 == Joined(m1, k - 1)
<1>1. /\ Ordered(m, {k - 1, k})
      /\ \A x \in Int : HasWord(m, x) <=> HasWord(l, x) \/ (at <= x /\ x < at + size)
      /\ \A from, to \in Int :
           (at + size <= from \/ to <= at) /\ AwayFrom(l, from, to) => AwayFrom(m, from, to)
  BY InsertedKeeps, Zenon
<1> HIDE DEF m
<1>2. k \in Int /\ k - 1 \in Int /\ NodeSize \in Nat
  OBVIOUS
<1>3. \A i \in {k - 1, k} : i \in Int /\ i <= k
  BY <1>2
<1>4. Ordered(m1, {k - 1, k} \ {k}) /\ SameWords(m, m1)
  BY <1>1, <1>2, <1>3, JoinedKeeps, Zenon
<1> HIDE DEF m1
<1>5. {k - 1, k} \ {k} = {k - 1}
  BY <1>2
<1>6. \A i \in {k - 1} : i \in Int /\ i <= k - 1
  BY <1>2
<1>7. Ordered(m2, {k - 1} \ {k - 1}) /\ SameWords(m1, m2)
  BY <1>2, <1>4, <1>5, <1>6, JoinedKeeps, Zenon
<1> HIDE DEF m2
<1>8. {k - 1} \ {k - 1} = {}
  BY Zenon
<1>9. m2 = Coalescence(m, k)
  BY Zenon DEF m2, m1, Coalescence
<1>10. /\ Ordered(m2, {})
       /\ \A x \in Int : HasWord(m2, x) <=> HasWord(l, x) \/ (at <= x /\ x < at + size)
       /\ \A from, to \in Int :
            from < to /\ (at + size <= from \/ to <= at) /\ AwayFrom(l, from, to) =>
              AwayFrom(m2, from, to)
  BY <1>1, <1>4, <1>7, <1>8, Zenon DEF SameWords
<1> QED BY <1>9, <1>10, Zenon DEF m

\* m is l without the words between two addresses.
Takes(l, m, from, to) ==
  /\ Ordered(m, {}) /\ AwayFrom(m, from, to)
  /\ \A x \in Int : HasWord(l, x) => HasWord(m, x) \/ (from <= x /\ x < to)
  /\ \A f, t \in Int : AwayFrom(l, f, t) => AwayFrom(m, f, t) /\ (t <= from \/ to <= f)

\* free_list_alloc of a whole block.
LEMMA RemovedTakes ==
  ASSUME NEW l, NEW k \in 1 .. Len(l), Ordered(l, {}),
         NodeSize \in Nat, fl_data \in Int, fl_size \in Int
  PROVE  Takes(l, NodeRemoved(l, k), l[k].at, l[k].at + l[k].block_size)
<1> DEFINE m == NodeRemoved(l, k)
<1>0. /\ l \in Seq(Nodes) /\ Len(l) \in Nat /\ Ints(Len(l), At(l), End(l))
      /\ At(l)[k] = l[k].at /\ End(l)[k] = l[k].at + l[k].block_size
  BY ListNumbers, Zenon DEF Ordered
<1>1. /\ m \in Seq(Nodes) /\ Len(m) = Len(l) - 1
      /\ \A i \in 1 .. Len(l) - 1 :
           (i < k => m[i] = l[i]) /\ (i >= k => m[i] = l[i + 1])
  BY <1>0, RemovedList, Zenon
<1> HIDE DEF m
<1>2. Removes(Len(l), At(l), End(l), k, At(m), End(m))
  <2>1. SUFFICES ASSUME NEW i \in 1 .. Len(l) - 1
                 PROVE  /\ i < k => At(m)[i] = At(l)[i] /\ End(m)[i] = End(l)[i]
                        /\ i >= k => At(m)[i] = At(l)[i + 1] /\ End(m)[i] = End(l)[i + 1]
    BY Zenon DEF Removes
  <2>2. At(m)[i] = m[i].at /\ End(m)[i] = NodeEnd(m[i])
    BY <1>1, Zenon DEF At, End
  <2>3. CASE i < k
    <3>1. i \in 1 .. Len(l)
      BY <1>0, <2>3
    <3>2. m[i] = l[i]
      BY <1>1, <2>3, Zenon
    <3> QED BY <2>2, <2>3, <3>1, <3>2 DEF At, End
  <2>4. CASE i >= k
    <3>1. i + 1 \in 1 .. Len(l)
      BY <1>0, <2>4
    <3>2. m[i] = l[i + 1]
      BY <1>1, <2>4, Zenon
    <3> QED BY <2>2, <2>4, <3>1, <3>2 DEF At, End
  <2> QED BY <1>0, <2>3, <2>4, Zenon
<1>3. /\ Gaps(Len(l) - 1, At(m), End(m), {}) /\ Fine(Len(l) - 1, At(m), End(m))
      /\ \A x \in Int : In(Len(l), At(l), End(l), x) =>
            In(Len(l) - 1, At(m), End(m), x) \/ (At(l)[k] <= x /\ x < End(l)[k])
      /\ \A f, t \in Int : Apart(Len(l), At(l), End(l), f, t) =>
            Apart(Len(l) - 1, At(m), End(m), f, t) /\ (t <= At(l)[k] \/ End(l)[k] <= f)
      /\ Apart(Len(l) - 1, At(m), End(m), At(l)[k], End(l)[k])
  BY <1>0, <1>2, RemoveWords, Zenon DEF Ordered
<1>4. Takes(l, m, At(l)[k], End(l)[k])
  BY <1>1, <1>3, Zenon DEF Takes, Ordered, HasWord, AwayFrom
<1> QED BY <1>0, <1>4, Zenon DEF m

\* free_list_alloc of the first part of a block.
LEMMA ShrunkTakes ==
  ASSUME NEW l, NEW k \in 1 .. Len(l), Ordered(l, {}), NEW c \in Nat, NEW size \in Nat,
         l[k].at <= c, c + size = l[k].at + l[k].block_size, size >= NodeSize,
         NodeSize \in Nat, fl_data \in Int, fl_size \in Int
  PROVE  Takes(l, [l EXCEPT ![k] = Node(c, size)], l[k].at, c)
<1> DEFINE node == Node(c, size)
           m == [l EXCEPT ![k] = node]
<1>0. /\ l \in Seq(Nodes) /\ Len(l) \in Nat /\ Ints(Len(l), At(l), End(l))
      /\ At(l)[k] = l[k].at /\ End(l)[k] = l[k].at + l[k].block_size
  BY ListNumbers, Zenon DEF Ordered
<1>1. node \in Nodes /\ node.at = c /\ NodeEnd(node) = c + size
  BY NodeNumbers, Zenon
<1> HIDE DEF node
<1>2. m \in Seq(Nodes) /\ Len(m) = Len(l)
  BY <1>0, <1>1
<1>3. \A i \in 1 .. Len(l) : (i # k => m[i] = l[i]) /\ (i = k => m[i] = node)
  BY <1>0
<1> HIDE DEF m
<1>4. Shrinks(Len(l), At(l), End(l), k, c, At(m), End(m))
  <2>1. SUFFICES ASSUME NEW i \in 1 .. Len(l)
                 PROVE  /\ End(m)[i] = End(l)[i]
                        /\ i # k => At(m)[i] = At(l)[i]
                        /\ i = k => At(m)[i] = c
    BY Zenon DEF Shrinks
  <2>2. /\ At(m)[i] = m[i].at /\ End(m)[i] = NodeEnd(m[i])
        /\ At(l)[i] = l[i].at /\ End(l)[i] = NodeEnd(l[i])
    BY <1>2, Zenon DEF At, End
  <2>3. CASE i = k
    BY <1>0, <1>1, <1>3, <2>2, <2>3, Zenon
  <2>4. CASE i # k
    BY <1>3, <2>2, <2>4, Zenon
  <2> QED BY <2>3, <2>4, Zenon
<1>5. At(l)[k] <= c /\ c + NodeSize <= End(l)[k] /\ c \in Int
  BY <1>0
<1>6. /\ Gaps(Len(l), At(m), End(m), {}) /\ Fine(Len(l), At(m), End(m))
      /\ \A x \in Int : In(Len(l), At(l), End(l), x) =>
            In(Len(l), At(m), End(m), x) \/ (At(l)[k] <= x /\ x < c)
      /\ \A f, t \in Int : Apart(Len(l), At(l), End(l), f, t) =>
            Apart(Len(l), At(m), End(m), f, t) /\ (t <= At(l)[k] \/ c <= f)
      /\ Apart(Len(l), At(m), End(m), At(l)[k], c)
  BY <1>0, <1>4, <1>5, ShrinkWords, Zenon DEF Ordered
<1>7. Takes(l, m, At(l)[k], c)
  BY <1>2, <1>6, Zenon DEF Takes, Ordered, HasWord, AwayFrom
<1> QED BY <1>0, <1>7, Zenon DEF m, node

-----------------------------------------------------------------------------
(* Alignments. *)

\* Multiples of a, and their sums.
LEMMA Multiples ==
  ASSUME NEW p \in Int, NEW q \in Int, NEW a \in Nat \ {0}
  PROVE  /\ (p * a) % a = 0
         /\ p * a + q * a = (p + q) * a
OBVIOUS

\* What the quotient and the remainder are.
LEMMA Quotient ==
  ASSUME NEW p \in Int, NEW a \in Nat \ {0}
  PROVE  /\ p \div a \in Int /\ (p \div a) * a <= p /\ p < (p \div a) * a + a
         /\ p % a = 0 => p = (p \div a) * a
         /\ p % a \in Nat /\ p % a < a
OBVIOUS

\* A multiple of a multiple of a is one of a.
LEMMA MultipleOfMultiple ==
  ASSUME NEW p \in Int, NEW q \in Nat \ {0}, NEW a \in Nat \ {0}, q % a = 0, p % q = 0
  PROVE  p % a = 0
<1>1. PICK u \in Int : q = u * a
  BY Quotient
<1>2. PICK v \in Int : p = v * q
  <2>1. p \div q \in Int /\ p = (p \div q) * q
    BY Quotient, Zenon
  <2> QED BY <2>1, Zenon
<1>3. p = (v * u) * a
  BY <1>1, <1>2
<1> QED BY <1>3, Multiples

\* align_forward_uintptr: the next multiple.
LEMMA AlignForwardIs ==
  ASSUME NEW p \in Int, NEW a \in Nat \ {0}
  PROVE  /\ AlignForward(p, a) \in Int
         /\ p <= AlignForward(p, a) /\ AlignForward(p, a) < p + a
         /\ \E q \in Int : AlignForward(p, a) = q * a
<1>1. p + a - 1 \in Int
  OBVIOUS
<1> DEFINE q == (p + a - 1) \div a
<1>2. q \in Int /\ q * a <= p + a - 1 /\ p + a - 1 < q * a + a
  BY <1>1, Quotient, Zenon
<1>3. AlignForward(p, a) = q * a
  BY Zenon DEF AlignForward
<1> HIDE DEF q
<1>4. q * a \in Int
  BY <1>2
<1>5. p <= q * a /\ q * a < p + a
  BY <1>2, <1>4
<1> QED BY <1>2, <1>3, <1>4, <1>5, Zenon

\* calc_padding_with_header: there is room for a header before an aligned address.
LEMMA PaddingIs ==
  ASSUME NEW p \in Nat, NEW a \in Nat \ {0}, HeaderSize \in Nat
  PROVE  /\ CalcPaddingWithHeader(p, a) \in Nat
         /\ CalcPaddingWithHeader(p, a) >= HeaderSize
         /\ (p + CalcPaddingWithHeader(p, a)) % a = 0
<1> DEFINE padding == AlignForward(p, a) - p
           needed == HeaderSize - padding
<1>0. p \in Int
  OBVIOUS
<1>1. PICK q \in Int : AlignForward(p, a) = q * a
  BY <1>0, AlignForwardIs, Zenon
<1>2. AlignForward(p, a) \in Int /\ p <= AlignForward(p, a)
  BY AlignForwardIs
<1>3. CASE padding < HeaderSize
  <2>1. needed \in Int
    BY <1>2
  <2>2. PICK u \in Int : AlignForward(needed, a) = u * a
    BY <2>1, AlignForwardIs, Zenon
  <2>3. AlignForward(needed, a) \in Int /\ needed <= AlignForward(needed, a)
    BY <2>1, AlignForwardIs, Zenon
  <2>4. CalcPaddingWithHeader(p, a) = padding + AlignForward(needed, a)
    BY <1>3, Zenon DEF CalcPaddingWithHeader
  <2>5. p + CalcPaddingWithHeader(p, a) = (q + u) * a
    BY <1>1, <1>2, <2>2, <2>3, <2>4, Multiples
  <2>6. (p + CalcPaddingWithHeader(p, a)) % a = 0
    BY <2>5, Multiples
  <2> QED BY <1>2, <1>3, <2>3, <2>4, <2>6
<1>4. CASE ~ (padding < HeaderSize)
  <2>1. CalcPaddingWithHeader(p, a) = padding
    BY <1>4, Zenon DEF CalcPaddingWithHeader
  <2>2. p + padding = q * a
    BY <1>1, <1>2
  <2> QED BY <1>2, <1>4, <2>1, <2>2, Multiples
<1> QED BY <1>3, <1>4, Zenon

\* The size and the alignment free_list_alloc goes by.
LEMMA RequestIs ==
  ASSUME NEW r \in Requests
  PROVE  /\ AllocAlignment(r) \in Nat \ {0} /\ AllocSize(r) \in Nat
         /\ AllocAlignment(r) % MaxAlign = 0 /\ AllocAlignment(r) % r.alignment = 0
<1>1. /\ MaxAlign \in Nat \ {0} /\ NodeSize \in Nat /\ SizeT \in Nat
      /\ r.size \in Nat /\ r.size < SizeT /\ r.alignment \in Nat \ {0}
      /\ r.alignment % MaxAlign = 0 \/ MaxAlign % r.alignment = 0
  BY FreeListAssumption
<1>2. AllocAlignment(r) \in Nat \ {0}
  BY <1>1, Zenon DEF AllocAlignment
<1>3. AllocSize(r) \in Nat
  <2> DEFINE size == IF r.size < NodeSize THEN NodeSize ELSE r.size
  <2>1. size \in Int
    BY <1>1
  <2>2. SizeT \in Nat \ {0}
    BY <1>1
  <2>3. AlignForward(size, AllocAlignment(r)) \in Int
    BY <1>2, <2>1, AlignForwardIs, Zenon
  <2> QED BY <2>2, <2>3, Quotient, Zenon DEF AllocSize, RoundedSize
<1>4. AllocAlignment(r) % MaxAlign = 0 /\ AllocAlignment(r) % r.alignment = 0
  BY <1>1 DEF AllocAlignment
<1> QED BY <1>2, <1>3, <1>4, Zenon

-----------------------------------------------------------------------------
(* The inductive invariant: the blocks of a list l and of the headers H tile  *)
(* the arena.                                                                 *)

\* Where the block of a live allocation ends.
BlockEnd(h) == BlockStart(h) + h.block_size

\* Such a block is inside the arena and apart from the nodes of l.
IsBlock(h, l) ==
  /\ h.block_size \in Nat /\ h.block_size >= HeaderSize
  /\ BlockStart(h) \in Nat /\ fl_data <= BlockStart(h)
  /\ BlockEnd(h) <= fl_data + fl_size
  /\ AwayFrom(l, BlockStart(h), BlockEnd(h))

\* Every word of the arena is in one of the blocks, which are apart.
Tiled(l, H) ==
  /\ Ordered(l, {})
  /\ \A h \in H : IsBlock(h, l)
  /\ \A h, g \in H : h # g => BlockEnd(g) <= BlockStart(h) \/ BlockEnd(h) <= BlockStart(g)
  /\ \A x \in Int :
       fl_data <= x /\ x < fl_data + fl_size =>
         HasWord(l, x) \/ \E h \in H : BlockStart(h) <= x /\ x < BlockEnd(h)

\* The arena has room for a node.
ArenaInv == fl_data \in Nat /\ fl_size \in Nat /\ fl_size >= NodeSize

\* And used counts the words of the live blocks.
FreeListInv ==
  ArenaInv /\ Tiled(list, header) /\ used = Cardinality(LiveWords(header))

\* The sizes of a node and of a header.
LEMMA Sizes ==
  /\ NodeSize \in Nat \ {0} /\ NodeSize \in Nat /\ HeaderSize \in Nat \ {0}
  /\ HeaderSize \in Nat /\ NodeSize <= HeaderSize
BY FreeListAssumption

\* free_list_free_all
LEMMA WholeIsTiled ==
  ASSUME ArenaInv
  PROVE  Tiled(<<Node(fl_data, fl_size)>>, {})
<1> DEFINE node == Node(fl_data, fl_size)
           l == <<node>>
<1>1. node \in Nodes /\ node.at = fl_data /\ NodeEnd(node) = fl_data + fl_size
  BY NodeNumbers, Zenon DEF ArenaInv
<1> HIDE DEF node
<1>2. l \in Seq(Nodes) /\ Len(l) = 1 /\ l[1] = node
  BY <1>1
<1> HIDE DEF l
<1>3. 1 .. 1 = {1}
  OBVIOUS
<1>4. At(l)[1] = fl_data /\ End(l)[1] = fl_data + fl_size
  BY <1>1, <1>2 DEF At, End
<1>5. Gaps(1, At(l), End(l), {})
  BY DEF Gaps
<1>6. Fine(1, At(l), End(l))
  BY <1>3, <1>4, Sizes DEF Fine, ArenaInv
<1>7. \A x \in Int : fl_data <= x /\ x < fl_data + fl_size => In(1, At(l), End(l), x)
  BY <1>3, <1>4, Zenon DEF In
<1>8. Tiled(l, {})
  BY <1>2, <1>5, <1>6, <1>7, Zenon DEF Tiled, Ordered, HasWord
<1> QED BY <1>8, Zenon DEF l, node

\* free_list_alloc: the words between two addresses of the list become a block.
LEMMA TakesIsTiled ==
  ASSUME ArenaInv, NEW l, NEW m, NEW H, Tiled(l, H), NEW g,
         Takes(l, m, BlockStart(g), BlockEnd(g)),
         g.block_size \in Nat, g.block_size >= HeaderSize, BlockStart(g) \in Nat,
         fl_data <= BlockStart(g), BlockEnd(g) <= fl_data + fl_size
  PROVE  /\ Tiled(m, H \cup {g})
         /\ \A h \in H : BlockEnd(g) <= BlockStart(h) \/ BlockEnd(h) <= BlockStart(g)
<1>1. Ordered(m, {}) /\ IsBlock(g, m)
  BY Zenon DEF Takes, IsBlock
<1>2. ASSUME NEW h \in H
      PROVE  /\ IsBlock(h, m)
             /\ BlockEnd(g) <= BlockStart(h) \/ BlockEnd(h) <= BlockStart(g)
  <2>1. IsBlock(h, l)
    BY Zenon DEF Tiled
  <2>2. BlockStart(h) \in Int /\ BlockEnd(h) \in Int
    BY <2>1 DEF IsBlock, BlockEnd
  <2> QED BY <2>1, <2>2, Zenon DEF Takes, IsBlock
<1>3. ASSUME NEW x \in Int, fl_data <= x, x < fl_data + fl_size
      PROVE  HasWord(m, x) \/ \E h \in H \cup {g} : BlockStart(h) <= x /\ x < BlockEnd(h)
  BY <1>3, Zenon DEF Tiled, Takes
<1>4. ASSUME NEW h \in H \cup {g}, NEW k \in H \cup {g}, h # k
      PROVE  BlockEnd(k) <= BlockStart(h) \/ BlockEnd(h) <= BlockStart(k)
  BY <1>2, <1>4, Zenon DEF Tiled
<1> QED BY <1>1, <1>2, <1>3, <1>4, Zenon DEF Tiled

\* free_list_free: a block becomes words of the list.
LEMMA FreedIsTiled ==
  ASSUME ArenaInv, NEW l, NEW m, NEW H, Tiled(l, H), NEW g \in H, Ordered(m, {}),
         \A x \in Int :
           HasWord(m, x) <=> HasWord(l, x) \/ (BlockStart(g) <= x /\ x < BlockEnd(g)),
         \A f, t \in Int :
           f < t /\ (BlockEnd(g) <= f \/ t <= BlockStart(g)) /\ AwayFrom(l, f, t) =>
             AwayFrom(m, f, t)
  PROVE  Tiled(m, H \ {g})
<1>1. ASSUME NEW h \in H \ {g} PROVE IsBlock(h, m)
  <2>1. IsBlock(h, l) /\ (BlockEnd(g) <= BlockStart(h) \/ BlockEnd(h) <= BlockStart(g))
    BY Zenon DEF Tiled
  <2>2. BlockStart(h) \in Int /\ BlockEnd(h) \in Int /\ BlockStart(h) < BlockEnd(h)
    BY <2>1, Sizes DEF IsBlock, BlockEnd
  <2> QED BY <2>1, <2>2, Zenon DEF IsBlock
<1>2. ASSUME NEW x \in Int, fl_data <= x, x < fl_data + fl_size
      PROVE  HasWord(m, x) \/ \E h \in H \ {g} : BlockStart(h) <= x /\ x < BlockEnd(h)
  BY <1>2, Zenon DEF Tiled
<1> QED BY <1>1, <1>2, Zenon DEF Tiled

\* free_list_alloc: what it does, for the node it found.
LEMMA AllocStep ==
  ASSUME NEW r \in Requests, Alloc(r), ArenaInv, Tiled(list, header)
  PROVE  \E g :
           /\ g.block_size \in Nat /\ g.block_size >= HeaderSize /\ BlockStart(g) \in Nat
           /\ fl_data <= BlockStart(g) /\ BlockEnd(g) <= fl_data + fl_size
           /\ Takes(list, list', BlockStart(g), BlockEnd(g))
           /\ header' = header \cup {g} /\ used' = used + g.block_size
           /\ g.orig_size = r.size /\ g.padding \in Nat
           /\ g.ptr \in Nat /\ g.ptr % AllocAlignment(r) = 0
           /\ g.ptr + AllocSize(r) <= BlockEnd(g)
<1> DEFINE a == AllocAlignment(r)
           size == AllocSize(r)
<1>1. a \in Nat \ {0} /\ size \in Nat
  BY RequestIs, Zenon
<1>2. PICK i \in DOMAIN list :
        LET node == list[i]
            padding == CalcPaddingWithHeader(node.at, a)
            required == size + padding
            remaining == node.block_size - required
            split == IsSplit(remaining)
            block == IF split THEN required ELSE node.block_size
        IN /\ node.block_size >= required
           /\ list' = IF split
                      THEN [list EXCEPT ![i] = Node(node.at + required, remaining)]
                      ELSE NodeRemoved(list, i)
           /\ header' = header \cup
                {[ptr |-> node.at + padding, orig_size |-> r.size,
                  block_size |-> block, padding |-> padding - HeaderSize]}
           /\ used' = used + block
  BY Zenon DEF Alloc, IsFound, Candidates, RequiredSpace
<1> DEFINE at == list[i].at
           padding == CalcPaddingWithHeader(at, a)
           required == size + padding
           remaining == list[i].block_size - required
           split == IsSplit(remaining)
           block == IF split THEN required ELSE list[i].block_size
           g == [ptr |-> at + padding, orig_size |-> r.size,
                 block_size |-> block, padding |-> padding - HeaderSize]
<1>3. list \in Seq(Nodes) /\ Len(list) \in Nat /\ i \in 1 .. Len(list)
  BY DEF Tiled, Ordered
<1>4. /\ at \in Nat /\ list[i].block_size \in Nat
      /\ At(list)[i] = at /\ End(list)[i] = at + list[i].block_size
  BY <1>3, ListNumbers, Zenon
<1>5. padding \in Nat /\ padding >= HeaderSize /\ (at + padding) % a = 0
  BY <1>1, <1>4, PaddingIs, Sizes, Zenon
<1>6. /\ list[i].block_size >= required
      /\ list' = IF split THEN [list EXCEPT ![i] = Node(at + required, remaining)]
                          ELSE NodeRemoved(list, i)
      /\ header' = header \cup {g}
      /\ used' = used + block
  BY <1>2, Zenon
<1>7. fl_data <= at /\ at + list[i].block_size <= fl_data + fl_size
  BY <1>3, <1>4, Zenon DEF Tiled, Ordered, Fine
<1> HIDE DEF a, size, at, padding
<1>8. /\ required \in Nat /\ remaining \in Nat /\ block \in Nat
      /\ required <= block /\ block <= list[i].block_size /\ HeaderSize <= required
      /\ split => remaining >= NodeSize
  BY <1>1, <1>4, <1>5, <1>6, Sizes DEF IsSplit
<1>9. Takes(list, list', at, at + block)
  <2>1. CASE split
    <3>0. fl_data \in Int /\ fl_size \in Int
      BY DEF ArenaInv
    <3>1. /\ at + required \in Nat /\ at <= at + required
          /\ (at + required) + remaining = at + list[i].block_size
      BY <1>4, <1>8
    <3>2. list' = [list EXCEPT ![i] = Node(at + required, remaining)] /\ block = required
      BY <1>6, <2>1, Zenon
    <3> HIDE DEF required, remaining, block, split
    <3>3. Takes(list, [list EXCEPT ![i] = Node(at + required, remaining)], at, at + required)
      BY <1>3, <1>8, <2>1, <3>1, <3>0, Sizes, ShrunkTakes, Zenon DEF at, Tiled
    <3> QED BY <3>2, <3>3, Zenon
  <2>2. CASE ~ split
    <3>1. list' = NodeRemoved(list, i) /\ block = list[i].block_size
      BY <1>6, <2>2, Zenon
    <3> HIDE DEF block, split
    <3>2. Takes(list, NodeRemoved(list, i), at, at + list[i].block_size)
      BY <1>3, Sizes, RemovedTakes DEF at, Tiled, ArenaInv
    <3> QED BY <3>1, <3>2, Zenon
  <2> QED BY <2>1, <2>2, Zenon
<1> HIDE DEF required, remaining, block, split
<1>10. /\ g.block_size = block /\ g.orig_size = r.size
       /\ g.ptr = at + padding /\ g.padding = padding - HeaderSize
  BY Zenon
<1>11. header' = header \cup {g} /\ used' = used + g.block_size
  BY <1>6, <1>10, Zenon
<1> HIDE DEF g
<1>12. BlockStart(g) = at /\ BlockEnd(g) = at + block
  BY <1>4, <1>5, <1>8, <1>10, Sizes DEF BlockStart, BlockEnd
<1>13. /\ g.block_size \in Nat /\ g.block_size >= HeaderSize /\ BlockStart(g) \in Nat
       /\ fl_data <= BlockStart(g) /\ BlockEnd(g) <= fl_data + fl_size
       /\ Takes(list, list', BlockStart(g), BlockEnd(g))
  BY <1>4, <1>7, <1>8, <1>9, <1>10, <1>12, Sizes DEF ArenaInv
<1>14. /\ g.padding \in Nat /\ g.ptr \in Nat /\ g.ptr % a = 0
       /\ g.ptr + size <= BlockEnd(g)
  BY <1>1, <1>4, <1>5, <1>8, <1>10, <1>12, Sizes DEF required
<1> QED BY <1>10, <1>11, <1>13, <1>14, Zenon DEF a, size

\* free_list_free: the block of a header goes back to the list.
LEMMA FreeStep ==
  ASSUME NEW h \in header, Free(h), ArenaInv, Tiled(list, header)
  PROVE  /\ Tiled(list', header \ {h})
         /\ header' = header \ {h} /\ used' = used - h.block_size
<1>1. PICK place \in 1 .. Len(list) + 1 :
        /\ \A i \in 1 .. place - 1 : list[i].at <= BlockStart(h)
        /\ place <= Len(list) => BlockStart(h) < list[place].at
        /\ list' = Coalescence(NodeInserted(list, place, Node(BlockStart(h), h.block_size)),
                               place)
        /\ header' = header \ {h} /\ used' = used - h.block_size
  BY Zenon DEF Free, Node
<1>2. IsBlock(h, list) /\ Ordered(list, {})
  BY Zenon DEF Tiled
<1>3. /\ h.block_size >= NodeSize /\ fl_data \in Int /\ fl_size \in Int
      /\ BlockStart(h) \in Nat /\ h.block_size \in Nat /\ fl_data <= BlockStart(h)
  BY <1>2, Sizes DEF IsBlock, ArenaInv
<1>4. /\ AwayFrom(list, BlockStart(h), BlockStart(h) + h.block_size)
      /\ BlockStart(h) + h.block_size <= fl_data + fl_size
  BY <1>2, Zenon DEF IsBlock, BlockEnd
<1>5. /\ Ordered(list', {})
      /\ \A x \in Int : HasWord(list', x) <=>
           HasWord(list, x) \/ (BlockStart(h) <= x /\ x < BlockStart(h) + h.block_size)
      /\ \A f, t \in Int :
           f < t /\ (BlockStart(h) + h.block_size <= f \/ t <= BlockStart(h))
                 /\ AwayFrom(list, f, t) => AwayFrom(list', f, t)
  BY <1>1, <1>2, <1>3, <1>4, Sizes, FreedKeeps, Zenon
<1>6. Tiled(list', header \ {h})
  BY <1>5, FreedIsTiled, Zenon DEF BlockEnd
<1> QED BY <1>1, <1>6, Zenon

-----------------------------------------------------------------------------
(* What the invariant says of the free list. *)

\* The words of a live block.
LEMMA LiveBlockWords ==
  ASSUME NEW h, h.block_size \in Nat, BlockStart(h) \in Nat
  PROVE  \A x : x \in LiveBlock(h) <=> x \in Int /\ BlockStart(h) <= x /\ x < BlockEnd(h)
BY DEF LiveBlock, Extent, BlockEnd

\* The invariant implies ArenaIsTiled.
LEMMA TiledIs == FreeListInv => ArenaIsTiled
<1> SUFFICES ASSUME FreeListInv PROVE ArenaIsTiled
  BY Zenon
<1>0. ArenaInv /\ Tiled(list, header) /\ used = Cardinality(LiveWords(header))
  BY Zenon DEF FreeListInv
<1>1. /\ list \in Seq(Nodes) /\ DOMAIN list = 1 .. Len(list) /\ Len(list) \in Nat
      /\ Gaps(Len(list), At(list), End(list), {}) /\ Fine(Len(list), At(list), End(list))
  BY <1>0 DEF Tiled, Ordered
<1>2. ASSUME NEW i \in DOMAIN list
      PROVE  /\ At(list)[i] \in Int /\ End(list)[i] \in Int
             /\ \A x : x \in NodeBlock(i) <=>
                  x \in Int /\ At(list)[i] <= x /\ x < End(list)[i]
  <2>1. /\ list[i].at \in Nat /\ list[i].block_size \in Nat
        /\ At(list)[i] = list[i].at /\ End(list)[i] = list[i].at + list[i].block_size
    BY <1>1, ListNumbers, Zenon
  <2> QED BY <2>1 DEF NodeBlock, Extent
<1>3. ASSUME NEW h \in header
      PROVE  /\ BlockStart(h) \in Int /\ BlockEnd(h) \in Int
             /\ fl_data <= BlockStart(h) /\ BlockEnd(h) <= fl_data + fl_size
             /\ AwayFrom(list, BlockStart(h), BlockEnd(h))
             /\ \A x : x \in LiveBlock(h) <=>
                  x \in Int /\ BlockStart(h) <= x /\ x < BlockEnd(h)
  <2>1. IsBlock(h, list)
    BY <1>0, Zenon DEF Tiled
  <2>2. BlockStart(h) \in Int /\ BlockEnd(h) \in Int
    BY <2>1 DEF IsBlock, BlockEnd
  <2> QED BY <2>1, <2>2, LiveBlockWords, Zenon DEF IsBlock
<1>4. \A x : x \in Arena <=> x \in Int /\ fl_data <= x /\ x < fl_data + fl_size
  BY <1>0 DEF Arena, Extent, ArenaInv
<1>5. Arena = UNION ({NodeBlock(i) : i \in DOMAIN list} \cup {LiveBlock(h) : h \in header})
  <2>1. ASSUME NEW x \in Arena
        PROVE  (\E i \in DOMAIN list : x \in NodeBlock(i)) \/ \E h \in header : x \in LiveBlock(h)
    <3>1. HasWord(list, x) \/ \E h \in header : BlockStart(h) <= x /\ x < BlockEnd(h)
      BY <1>0, <1>4, Zenon DEF Tiled
    <3> QED BY <1>1, <1>2, <1>3, <1>4, <3>1, Zenon DEF HasWord, In
  <2>2. ASSUME NEW i \in DOMAIN list, NEW x \in NodeBlock(i) PROVE x \in Arena
    BY <1>0, <1>1, <1>2, <1>4 DEF Fine, ArenaInv
  <2>3. ASSUME NEW h \in header, NEW x \in LiveBlock(h) PROVE x \in Arena
    BY <1>0, <1>3, <1>4 DEF ArenaInv
  <2> QED BY <2>1, <2>2, <2>3, Zenon
<1>6. ASSUME NEW i \in DOMAIN list, NEW k \in DOMAIN list, i # k
      PROVE  NodeBlock(i) \cap NodeBlock(k) = {}
  BY <1>1, <1>2, <1>6 DEF Gaps
<1>7. ASSUME NEW h \in header, NEW g \in header, h # g
      PROVE  LiveBlock(h) \cap LiveBlock(g) = {}
  <2>1. BlockEnd(g) <= BlockStart(h) \/ BlockEnd(h) <= BlockStart(g)
    BY <1>0, <1>7, Zenon DEF Tiled
  <2> QED BY <1>3, <2>1
<1>8. ASSUME NEW i \in DOMAIN list, NEW h \in header
      PROVE  NodeBlock(i) \cap LiveBlock(h) = {}
  <2>1. End(list)[i] <= BlockStart(h) \/ BlockEnd(h) <= At(list)[i]
    BY <1>1, <1>3, Zenon DEF AwayFrom, Apart
  <2> QED BY <1>2, <1>3, <2>1
<1> QED BY <1>0, <1>5, <1>6, <1>7, <1>8, Zenon DEF ArenaIsTiled

\* It implies FreeBlocksAreJoined: with no live block, the words of the whole
\* arena are those of nodes that do not touch, so that there is one.
LEMMA JoinedIs == ASSUME Cardinality({}) = 0 PROVE FreeListInv => FreeBlocksAreJoined
<1> SUFFICES ASSUME FreeListInv PROVE FreeBlocksAreJoined
  BY Zenon
<1>0. ArenaInv /\ Tiled(list, header) /\ used = Cardinality(LiveWords(header))
  BY Zenon DEF FreeListInv
<1> DEFINE n == Len(list)
           A == At(list)
           E == End(list)
<1>1. /\ list \in Seq(Nodes) /\ n \in Nat /\ Gaps(n, A, E, {}) /\ Fine(n, A, E)
  BY <1>0 DEF Tiled, Ordered
<1>2. /\ Ints(n, A, E)
      /\ \A i \in 1 .. n : A[i] = list[i].at /\ E[i] = list[i].at + list[i].block_size
  BY <1>1, ListNumbers, Zenon
<1> HIDE DEF n, A, E
<1>3. \A i \in 1 .. n - 1 : list[i].at + list[i].block_size < list[i + 1].at
  <2>1. ASSUME NEW i \in 1 .. n - 1
        PROVE  i \in 1 .. n /\ i + 1 \in 1 .. n /\ E[i] < A[i + 1]
    BY <1>1 DEF Gaps
  <2> QED BY <1>2, <2>1, Zenon
<1>4. ASSUME header = {} PROVE used = 0 /\ list = <<Node(fl_data, fl_size)>>
  <2>1. used = 0
    <3>1. LiveWords({}) = {}
      BY Zenon DEF LiveWords
    <3> QED BY <1>0, <1>4, <3>1, Zenon
  <2>2. \A x \in Int : fl_data <= x /\ x < fl_data + fl_size => In(n, A, E, x)
    BY <1>0, <1>4, Zenon DEF Tiled, HasWord, n, A, E
  <2>3. /\ fl_data \in Int /\ fl_size \in Int /\ fl_data < fl_data + fl_size
        /\ NodeSize \in Nat \ {0}
    BY <1>0, Sizes DEF ArenaInv
  <2>4. PICK i \in 1 .. n : A[i] = fl_data /\ fl_data < E[i]
    <3>1. In(n, A, E, fl_data)
      BY <2>2, <2>3
    <3> QED BY <1>1, <1>2, <2>3, <3>1 DEF In, Fine, Ints
  <2>5. E[i] = fl_data + fl_size
    <3>0. E[i] \in Int /\ E[i] <= fl_data + fl_size
      BY <1>1, <1>2, Zenon DEF Fine, Ints
    <3>1. SUFFICES ASSUME E[i] < fl_data + fl_size PROVE FALSE
      BY <2>3, <3>0
    <3>2. PICK k \in 1 .. n : A[k] <= E[i] /\ E[i] < E[k]
      BY <1>2, <2>2, <2>3, <2>4, <3>1 DEF In, Ints
    <3> QED BY <1>1, <1>2, <2>4, <3>2 DEF Gaps, Fine, Ints
  <2>6. ASSUME NEW k \in 1 .. n PROVE k = i
    <3>1. /\ A[k] \in Int /\ E[k] \in Int /\ A[k] + NodeSize <= E[k]
          /\ fl_data <= A[k] /\ E[k] <= fl_data + fl_size
      BY <1>1, <1>2, Zenon DEF Fine, Ints
    <3>2. (i < k => E[i] < A[k]) /\ (k < i => E[k] < A[i])
      BY <1>1, Zenon DEF Gaps
    <3> QED BY <2>3, <2>4, <2>5, <3>1, <3>2
  <2>7. n = 1 /\ i = 1
    BY <1>1, <2>6
  <2>8. list[1] = Node(fl_data, fl_size)
    <3>1. /\ list[1] \in Nodes /\ list[1].at = fl_data
          /\ list[1].at + list[1].block_size = fl_data + fl_size
      BY <1>1, <1>2, <2>4, <2>5, <2>7, ListNumbers, Zenon DEF n
    <3> QED BY <2>3, <3>1 DEF Nodes, Node
  <2>9. list = <<list[1]>>
    BY <1>1, <2>7 DEF n
  <2> QED BY <2>1, <2>8, <2>9, Zenon
<1> QED BY <1>3, <1>4, Zenon DEF FreeBlocksAreJoined, n

\* No size a request is rounded to wraps around.
SizesFit == \A r \in Requests : RoundedSize(r) < SizeT

\* A size that does not wrap around is rounded up.
LEMMA SizeFits ==
  ASSUME SizesFit, NEW r \in Requests
  PROVE  r.size <= AllocSize(r) /\ AllocSize(r) \in Nat
<1> DEFINE size == IF r.size < NodeSize THEN NodeSize ELSE r.size
<1>1. r.size \in Nat /\ NodeSize \in Nat /\ SizeT \in Nat /\ r.size < SizeT
  BY FreeListAssumption, Zenon
<1>2. size \in Int /\ r.size <= size
  BY <1>1
<1>3. AllocAlignment(r) \in Nat \ {0} /\ AllocSize(r) \in Nat
  BY RequestIs, Zenon
<1>4. RoundedSize(r) \in Int /\ size <= RoundedSize(r)
  BY <1>2, <1>3, AlignForwardIs, Zenon DEF RoundedSize
<1> HIDE DEF size
<1>5. RoundedSize(r) < SizeT
  BY Zenon DEF SizesFit
<1>6. RoundedSize(r) % SizeT = RoundedSize(r)
  BY <1>1, <1>2, <1>4, <1>5
<1> QED BY <1>1, <1>2, <1>3, <1>4, <1>6 DEF AllocSize

\* What an allocation keeps until it is freed.
HeaderIsSafe(h) ==
  /\ h.padding \in Nat /\ h.ptr \in Nat
  /\ h.ptr + h.orig_size <= BlockEnd(h)
  /\ h.ptr % MaxAlign = 0
  /\ \E r \in Requests : r.size = h.orig_size /\ h.ptr % r.alignment = 0

HeadersAreSafe == \A h \in header : HeaderIsSafe(h)

\* free_list_alloc: the words asked for are between the header and the end of the
\* block.
LEMMA AllocSafe ==
  ASSUME SizesFit, NEW r \in Requests, Alloc(r), ArenaInv, Tiled(list, header)
  PROVE  \E g :
           /\ header' = header \cup {g} /\ HeaderIsSafe(g)
           /\ g.orig_size = r.size /\ g.ptr % r.alignment = 0
           /\ g.ptr + g.orig_size <= fl_data + fl_size /\ fl_data + HeaderSize <= g.ptr
<1>1. PICK g :
        /\ g.block_size \in Nat /\ BlockStart(g) \in Nat
        /\ fl_data <= BlockStart(g) /\ BlockEnd(g) <= fl_data + fl_size
        /\ header' = header \cup {g}
        /\ g.orig_size = r.size /\ g.padding \in Nat
        /\ g.ptr \in Nat /\ g.ptr % AllocAlignment(r) = 0
        /\ g.ptr + AllocSize(r) <= BlockEnd(g)
  BY AllocStep, Zenon
<1>2. /\ r.size \in Nat /\ g.ptr \in Int /\ MaxAlign \in Nat \ {0}
      /\ r.alignment \in Nat \ {0}
  BY <1>1, FreeListAssumption
<1>3. r.size <= AllocSize(r) /\ AllocSize(r) \in Nat
  BY SizeFits, Zenon
<1>4. g.ptr + g.orig_size <= BlockEnd(g) /\ BlockEnd(g) \in Nat
  BY <1>1, <1>2, <1>3 DEF BlockEnd
<1>5. /\ AllocAlignment(r) \in Nat \ {0}
      /\ AllocAlignment(r) % MaxAlign = 0 /\ AllocAlignment(r) % r.alignment = 0
  BY RequestIs, Zenon
<1>6. g.ptr % MaxAlign = 0 /\ g.ptr % r.alignment = 0
  BY <1>1, <1>2, <1>5, MultipleOfMultiple, Zenon
<1>7. HeaderIsSafe(g)
  BY <1>1, <1>4, <1>6, Zenon DEF HeaderIsSafe
<1>8. g.ptr + g.orig_size <= fl_data + fl_size
  BY <1>1, <1>2, <1>4 DEF ArenaInv
<1>9. fl_data + HeaderSize <= g.ptr
  BY <1>1, Sizes DEF BlockStart, ArenaInv
<1> QED BY <1>1, <1>6, <1>7, <1>8, <1>9, Zenon

\* No call moves or changes a header before it is freed.
LEMMA HeadersStep ==
  ASSUME SizesFit
  PROVE  FreeListInv /\ HeadersAreSafe /\ [FreeListNext]_flVars => HeadersAreSafe'
<1> SUFFICES ASSUME FreeListInv, HeadersAreSafe, [FreeListNext]_flVars PROVE HeadersAreSafe'
  BY Zenon
<1>1. ArenaInv /\ Tiled(list, header)
  BY Zenon DEF FreeListInv
<1>2. SUFFICES \A h \in header' : HeaderIsSafe(h)
  BY Zenon DEF HeadersAreSafe, HeaderIsSafe
<1>3. CASE header' \subseteq header
  BY <1>3, Zenon DEF HeadersAreSafe
<1>4. ASSUME NEW r \in Requests, Alloc(r) PROVE \A h \in header' : HeaderIsSafe(h)
  BY <1>1, <1>4, AllocSafe, Zenon DEF HeadersAreSafe
<1>5. ASSUME NEW h \in header, Free(h) PROVE header' \subseteq header
  BY <1>5, Zenon DEF Free
<1>6. CASE FreeAll
  BY <1>6, Zenon DEF FreeAll
<1>7. CASE UNCHANGED flVars
  BY <1>3, <1>7, Zenon DEF flVars
<1> QED BY <1>3, <1>4, <1>5, <1>6, <1>7, Zenon DEF FreeListNext

\* The invariants imply MetadataIsSafe.
LEMMA SafeIs == FreeListInv /\ HeadersAreSafe => MetadataIsSafe
<1> SUFFICES ASSUME FreeListInv, HeadersAreSafe PROVE MetadataIsSafe
  BY Zenon
<1>1. /\ list \in Seq(Nodes) /\ DOMAIN list = 1 .. Len(list)
      /\ Fine(Len(list), At(list), End(list))
  BY DEF FreeListInv, Tiled, Ordered
<1>2. ASSUME NEW i \in DOMAIN list PROVE list[i].block_size >= NodeSize
  <2>1. /\ list[i].at \in Nat /\ list[i].block_size \in Nat
        /\ At(list)[i] = list[i].at /\ End(list)[i] = list[i].at + list[i].block_size
    BY <1>1, ListNumbers, Zenon
  <2>2. At(list)[i] + NodeSize <= End(list)[i]
    BY <1>1, Zenon DEF Fine
  <2> QED BY <2>1, <2>2, Sizes
<1>3. ASSUME NEW h \in header
      PROVE  /\ h.padding >= 0
             /\ h.ptr + h.orig_size <= BlockStart(h) + h.block_size
             /\ h.ptr % MaxAlign = 0
             /\ \E r \in Requests : r.size = h.orig_size /\ h.ptr % r.alignment = 0
  <2>1. HeaderIsSafe(h)
    BY Zenon DEF HeadersAreSafe
  <2>2. h.padding >= 0
    BY <2>1 DEF HeaderIsSafe
  <2> QED BY <2>1, <2>2, Zenon DEF HeaderIsSafe, BlockEnd
<1> QED BY <1>2, <1>3, Zenon DEF MetadataIsSafe
=============================================================================
