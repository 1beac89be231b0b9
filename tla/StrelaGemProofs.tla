--------------------------- MODULE StrelaGemProofs ---------------------------
(***************************************************************************)
(* That the references of StrelaGem are counted right, for any number of   *)
(* files, objects, jobs and bindings: an object somebody points at is      *)
(* whole, one that nobody points at is gone, and a range that was checked  *)
(* stays inside its object until it is synced.                             *)
(*                                                                         *)
(* The count of an object is the number of its holders, provided that a    *)
(* holder is never added twice nor dropped when it is not there.  That     *)
(* follows from what each ioctl is doing: an ioctl holds exactly the       *)
(* object it works on, nobody else knows a new object before it has a      *)
(* handle, and a job gets its bindings in order.                           *)
(***************************************************************************)
EXTENDS StrelaGem, TLAPS

Ioctls ==
  [op : {"none"}]
    \cup [op : {"new"}, obj : Objects, pc : {"handle", "offset"}]
    \cup [op : {"sync"}, obj : Objects, pc : {"check"}]
    \cup [op : {"sync"}, obj : Objects, pc : {"dma"}, offset : Nat, length : Nat]
    \cup [op : {"submit"}, job : Jobs]

JobStates ==
  [st : {"none"}] \cup [st : {"new", "queued", "started", "put"}, file : Files]

\* The variables of StrelaGem have the values their types allow.
GemTypeOK ==
  /\ res \in [Objects -> SUBSET Resources]
  /\ size \in [Objects -> Nat]
  /\ count \in [Objects -> Nat]
  /\ DOMAIN holders = Objects
  /\ ioctl \in [Files -> Ioctls]
  /\ job \in [Jobs -> JobStates]

\* The counts are exact, and an object lives as long as it has a holder.
CountIsExact ==
  \A o \in Objects :
    /\ IsFiniteSet(holders[o])
    /\ count[o] = Cardinality(holders[o])
    /\ res[o] = IF holders[o] = {} THEN {} ELSE Resources

\* An ioctl holds the object it works on, and nobody else has a new one.
IoctlHolds ==
  /\ \A f \in Files, o \in Objects :
       InIoctl(f) \in holders[o] <=>
         ioctl[f].op \in {"new", "sync"} /\ ioctl[f].obj = o
  /\ \A f \in Files :
       ioctl[f].op = "new" /\ ioctl[f].pc = "handle" =>
         holders[ioctl[f].obj] = {InIoctl(f)}

\* A job gets its bindings in order, and has none before it is allocated.
BindingsInOrder ==
  \A j \in Jobs :
    /\ job[j].st = "none" => Resolved(j) = {}
    /\ job[j].st = "new" => \E k \in 0 .. NumBindings : Resolved(j) = 1 .. k

GemInv ==
  GemTypeOK /\ CountIsExact /\ IoctlHolds /\ BindingsInOrder /\ SyncInBounds

\* What the steps need of the sizes of finite sets.
SetsAreCounted ==
  /\ IsFiniteSet({}) /\ Cardinality({}) = 0
  /\ \A x : IsFiniteSet({x}) /\ Cardinality({x}) = 1
  /\ \A n \in Nat : Cardinality(1 .. n) = n
  /\ \A S, x :
       IsFiniteSet(S) =>
         /\ Cardinality(S) \in Nat
         /\ Cardinality(S) = 0 => S = {}
         /\ IsFiniteSet(S \cup {x}) /\ IsFiniteSet(S \ {x})
         /\ x \notin S => Cardinality(S \cup {x}) = Cardinality(S) + 1
         /\ x \in S => Cardinality(S \ {x}) = Cardinality(S) - 1

-----------------------------------------------------------------------------
(* What a reference taken or dropped does. *)

\* Holders of different kinds are different, and so are those of different
\* files, jobs and bindings.
LEMMA HoldersDiffer ==
  /\ \A f, g : InIoctl(f) = InIoctl(g) => f = g
  /\ \A f, g : Handle(f) # InIoctl(g) /\ Mapping(f) # InIoctl(g)
  /\ \A g : Dmabuf # InIoctl(g)
  /\ \A j, i, g : Binding(j, i) # InIoctl(g)
  /\ \A j, i, f : Binding(j, i) # Handle(f) /\ Binding(j, i) # Mapping(f)
  /\ \A j, i : Binding(j, i) # Dmabuf
  /\ \A j, i, k, l : Binding(j, i) = Binding(k, l) => j = k /\ i = l
BY Zenon DEF InIoctl, Handle, Mapping, Dmabuf, Binding

\* Those who hold an object outside of ioctls and jobs.
Outer(h) == (\A f : h # InIoctl(f)) /\ (\A j, i : h # Binding(j, i))

\* Handles, mappings and dma-bufs are such holders.
LEMMA OuterHolders ==
  (\A f : Outer(Handle(f)) /\ Outer(Mapping(f))) /\ Outer(Dmabuf)
BY HoldersDiffer, Zenon DEF Outer

\* A new reference is counted.
LEMMA GetCounts ==
  ASSUME SetsAreCounted, GemTypeOK, CountIsExact, NEW o \in Objects, NEW h,
         h \notin holders[o], holders[o] # {}, Get(o, h)
  PROVE  /\ CountIsExact'
         /\ res' = res /\ size' = size
         /\ count' \in [Objects -> Nat]
         /\ DOMAIN holders' = Objects
         /\ holders'[o] = holders[o] \cup {h}
         /\ \A x \in Objects \ {o} : holders'[x] = holders[x]
<1>1. /\ res' = res /\ size' = size
      /\ DOMAIN holders' = Objects
      /\ holders'[o] = holders[o] \cup {h}
      /\ \A x \in Objects \ {o} : holders'[x] = holders[x]
  BY Zenon DEF Get, GemTypeOK
<1>2. /\ count' \in [Objects -> Nat]
      /\ count'[o] = count[o] + 1
      /\ \A x \in Objects \ {o} : count'[x] = count[x]
  BY DEF Get, GemTypeOK
<1>3. /\ IsFiniteSet(holders[o] \cup {h})
      /\ Cardinality(holders[o] \cup {h}) = Cardinality(holders[o]) + 1
  BY Zenon DEF CountIsExact, SetsAreCounted
<1>4. CountIsExact'
  <2>1. \A x \in Objects \ {o} :
          /\ IsFiniteSet(holders'[x])
          /\ count'[x] = Cardinality(holders'[x])
          /\ res'[x] = IF holders'[x] = {} THEN {} ELSE Resources
    BY <1>1, <1>2, Zenon DEF CountIsExact
  <2>2. IsFiniteSet(holders'[o]) /\ count'[o] = Cardinality(holders'[o])
    BY <1>1, <1>2, <1>3, Zenon DEF CountIsExact
  <2>3. res'[o] = Resources /\ holders'[o] # {}
    BY <1>1, Zenon DEF CountIsExact
  <2>4. QED BY <2>1, <2>2, <2>3, Zenon DEF CountIsExact
<1>5. QED BY <1>1, <1>2, <1>4, Zenon

\* A reference that is dropped is counted, the last one frees the object, and
\* only then its size is gone.
LEMMA PutCounts ==
  ASSUME SetsAreCounted, GemTypeOK, CountIsExact, NEW o \in Objects, NEW h,
         h \in holders[o], Put(o, h)
  PROVE  /\ CountIsExact'
         /\ res' \in [Objects -> SUBSET Resources]
         /\ size' \in [Objects -> Nat]
         /\ count' \in [Objects -> Nat]
         /\ DOMAIN holders' = Objects
         /\ holders'[o] = holders[o] \ {h}
         /\ \A x \in Objects \ {o} : holders'[x] = holders[x]
         /\ \A x \in Objects : holders'[x] # {} => size'[x] = size[x]
<1>1. /\ DOMAIN holders' = Objects
      /\ holders'[o] = holders[o] \ {h}
      /\ \A x \in Objects \ {o} : holders'[x] = holders[x]
  BY Zenon DEF Put, GemTypeOK
<1>2. /\ IsFiniteSet(holders[o] \ {h})
      /\ Cardinality(holders[o] \ {h}) = count[o] - 1
      /\ Cardinality(holders[o] \ {h}) \in Nat
  <2>1. IsFiniteSet(holders[o]) /\ Cardinality(holders[o]) = count[o]
    BY Zenon DEF CountIsExact
  <2>2. IsFiniteSet(holders[o] \ {h})
    BY <2>1, Zenon DEF SetsAreCounted
  <2>3. Cardinality(holders[o] \ {h}) = Cardinality(holders[o]) - 1
    BY <2>1, Zenon DEF SetsAreCounted
  <2>4. Cardinality(holders[o] \ {h}) \in Nat
    BY <2>2, Zenon DEF SetsAreCounted
  <2> QED BY <2>1, <2>2, <2>3, <2>4, Zenon
<1>3. count[o] \in Nat /\ (count[o] = 1 <=> holders[o] \ {h} = {})
  <2>1. Cardinality(holders[o] \ {h}) = 0 <=> holders[o] \ {h} = {}
    BY <1>2, Zenon DEF SetsAreCounted
  <2>2. QED BY <1>2, <2>1 DEF GemTypeOK
<1>4. /\ count' \in [Objects -> Nat]
      /\ count'[o] = count[o] - 1
      /\ \A x \in Objects \ {o} : count'[x] = count[x]
  BY <1>2, <1>3, Zenon DEF Put, GemTypeOK
<1>5. /\ res' \in [Objects -> SUBSET Resources]
      /\ res'[o] = IF count[o] = 1 THEN {} ELSE res[o]
      /\ \A x \in Objects \ {o} : res'[x] = res[x]
  BY Zenon DEF Put, GemTypeOK
<1>6. /\ size' \in [Objects -> Nat]
      /\ \A x \in Objects : x # o \/ count[o] # 1 => size'[x] = size[x]
  BY Zenon DEF Put, GemTypeOK
<1>7. CountIsExact'
  <2>1. \A x \in Objects \ {o} :
          /\ IsFiniteSet(holders'[x])
          /\ count'[x] = Cardinality(holders'[x])
          /\ res'[x] = IF holders'[x] = {} THEN {} ELSE Resources
    <3> SUFFICES ASSUME NEW x \in Objects \ {o}
                 PROVE  /\ IsFiniteSet(holders'[x])
                        /\ count'[x] = Cardinality(holders'[x])
                        /\ res'[x] = IF holders'[x] = {} THEN {} ELSE Resources
      BY Zenon
    <3>1. /\ holders'[x] = holders[x] /\ count'[x] = count[x]
          /\ res'[x] = res[x] /\ x \in Objects
      BY <1>1, <1>4, <1>5, Zenon
    <3> QED BY <3>1 DEF CountIsExact
  <2>2. IsFiniteSet(holders'[o]) /\ count'[o] = Cardinality(holders'[o])
    BY <1>1, <1>2, <1>4, Zenon
  <2>3. holders[o] # {} /\ res[o] = Resources
    BY Zenon DEF CountIsExact
  <2>4. res'[o] = IF holders'[o] = {} THEN {} ELSE Resources
    BY <1>1, <1>3, <1>5, <2>3, Zenon
  <2>5. QED BY <2>1, <2>2, <2>4, Zenon DEF CountIsExact
<1>8. \A x \in Objects : holders'[x] # {} => size'[x] = size[x]
  BY <1>1, <1>3, <1>6, Zenon
<1>9. QED BY <1>1, <1>4, <1>5, <1>6, <1>7, <1>8, Zenon

\* Bindings are what Resolved looks at.
LEMMA ResolvedFrame ==
  ASSUME NEW j,
         \A i, o : o \in Objects =>
           (Binding(j, i) \in holders'[o] <=> Binding(j, i) \in holders[o])
  PROVE  Resolved(j)' = Resolved(j)
BY Zenon DEF Resolved, Bound

-----------------------------------------------------------------------------
(* Steps of one kind preserve the invariant. *)

\* Steps that touch no reference, and no ioctl that holds one.
LEMMA ControlFrame ==
  ASSUME GemInv, UNCHANGED <<res, size, count, holders>>,
         ioctl' \in [Files -> Ioctls], job' \in [Jobs -> JobStates],
         \A f \in Files :
           \/ ioctl'[f] = ioctl[f]
           \/ ioctl[f].op \notin {"new", "sync"} /\ ioctl'[f].op \notin {"new", "sync"},
         \A j \in Jobs :
           /\ job'[j].st = "none" => Resolved(j) = {}
           /\ job'[j].st = "new" => \E k \in 0 .. NumBindings : Resolved(j) = 1 .. k
  PROVE  GemInv'
<1>1. GemTypeOK'
  BY Zenon DEF GemInv, GemTypeOK
<1>2. CountIsExact'
  BY Zenon DEF GemInv, CountIsExact
<1>3. IoctlHolds'
  <2>1. ASSUME NEW f \in Files, NEW o \in Objects
        PROVE  InIoctl(f) \in holders[o] <=>
                 ioctl'[f].op \in {"new", "sync"} /\ ioctl'[f].obj = o
    BY DEF GemInv, IoctlHolds
  <2>2. ASSUME NEW f \in Files, ioctl'[f].op = "new", ioctl'[f].pc = "handle"
        PROVE  holders[ioctl'[f].obj] = {InIoctl(f)}
    <3>1. ioctl'[f] = ioctl[f]
      BY <2>2, Zenon
    <3>2. QED BY <3>1, <2>2 DEF GemInv, IoctlHolds
  <2>3. QED BY <2>1, <2>2, Zenon DEF IoctlHolds
<1>4. \A j : Resolved(j)' = Resolved(j)
  BY Zenon DEF Resolved, Bound
<1>5. BindingsInOrder'
  BY <1>4, Zenon DEF BindingsInOrder
<1>6. SyncInBounds'
  BY Zenon DEF GemInv, SyncInBounds
<1>7. QED BY <1>1, <1>2, <1>3, <1>5, <1>6, Zenon DEF GemInv

\* A holder other than an ioctl is added to an object that has one.
LEMMA OuterGet ==
  ASSUME SetsAreCounted, GemInv, NEW o \in Objects, NEW h, h \notin holders[o], Get(o, h),
         NEW g \in holders[o],
         \A f : g # InIoctl(f) /\ h # InIoctl(f),
         BindingsInOrder' \/ \A j, i : h # Binding(j, i),
         UNCHANGED <<ioctl, job>>
  PROVE  GemInv'
<1>1. /\ CountIsExact'
      /\ res' = res /\ size' = size
      /\ count' \in [Objects -> Nat]
      /\ DOMAIN holders' = Objects
      /\ holders'[o] = holders[o] \cup {h}
      /\ \A x \in Objects \ {o} : holders'[x] = holders[x]
  BY GetCounts, Zenon DEF GemInv
<1>2. GemTypeOK'
  BY <1>1, Zenon DEF GemInv, GemTypeOK
<1>3. \A f : \A x \in Objects : InIoctl(f) \in holders'[x] <=> InIoctl(f) \in holders[x]
  BY <1>1
<1>4. \A f \in Files :
        ioctl[f].op = "new" /\ ioctl[f].pc = "handle" => ioctl[f].obj \in Objects \ {o}
  BY DEF GemInv, IoctlHolds, GemTypeOK, Ioctls
<1>5. IoctlHolds'
  BY <1>1, <1>3, <1>4 DEF GemInv, IoctlHolds
<1>6. (\A j, i : h # Binding(j, i)) => \A j : Resolved(j)' = Resolved(j)
  BY <1>1, ResolvedFrame
<1>7. BindingsInOrder'
  BY <1>6, Zenon DEF GemInv, BindingsInOrder
<1>8. SyncInBounds'
  BY <1>1, Zenon DEF GemInv, SyncInBounds
<1>9. QED BY <1>1, <1>2, <1>5, <1>7, <1>8, Zenon DEF GemInv

\* Neither of an ioctl nor of a job.
LEMMA OuterGetOuter ==
  ASSUME SetsAreCounted, GemInv, NEW o \in Objects, NEW h, NEW g, Outer(h), Outer(g),
         g \in holders[o] /\ h \notin holders[o] /\ Get(o, h) /\ UNCHANGED <<ioctl, job>>
  PROVE  GemInv'
BY OuterGet, Zenon DEF Outer

\* A holder other than an ioctl is given up.
LEMMA OuterPut ==
  ASSUME SetsAreCounted, GemInv, NEW o \in Objects, NEW h \in holders[o], Put(o, h),
         \A f : h # InIoctl(f),
         BindingsInOrder' \/ \A j, i : h # Binding(j, i),
         UNCHANGED <<ioctl, job>>
  PROVE  GemInv'
<1>1. /\ CountIsExact'
      /\ res' \in [Objects -> SUBSET Resources]
      /\ size' \in [Objects -> Nat]
      /\ count' \in [Objects -> Nat]
      /\ DOMAIN holders' = Objects
      /\ holders'[o] = holders[o] \ {h}
      /\ \A x \in Objects \ {o} : holders'[x] = holders[x]
      /\ \A x \in Objects : holders'[x] # {} => size'[x] = size[x]
  BY PutCounts, Zenon DEF GemInv
<1>2. GemTypeOK'
  BY <1>1, Zenon DEF GemInv, GemTypeOK
<1>3. \A f : \A x \in Objects : InIoctl(f) \in holders'[x] <=> InIoctl(f) \in holders[x]
  BY <1>1, Zenon
<1>4. \A f \in Files :
        ioctl[f].op = "new" /\ ioctl[f].pc = "handle" => ioctl[f].obj \in Objects \ {o}
  BY DEF GemInv, IoctlHolds, GemTypeOK, Ioctls
<1>5. IoctlHolds'
  BY <1>1, <1>3, <1>4 DEF GemInv, IoctlHolds
<1>6. (\A j, i : h # Binding(j, i)) => \A j : Resolved(j)' = Resolved(j)
  BY <1>1, ResolvedFrame
<1>7. BindingsInOrder'
  BY <1>6, Zenon DEF GemInv, BindingsInOrder
<1>8. \A f \in Files :
        ioctl[f].op = "sync" => ioctl[f].obj \in Objects
                                /\ size'[ioctl[f].obj] = size[ioctl[f].obj]
  <2>1. \A f \in Files : ioctl[f].op = "sync" => ioctl[f].obj \in Objects
    BY Zenon DEF GemInv, GemTypeOK, Ioctls
  <2>2. QED BY <2>1, <1>1, <1>3 DEF GemInv, IoctlHolds
<1>9. SyncInBounds'
  BY <1>8, Zenon DEF GemInv, SyncInBounds
<1>10. QED BY <1>1, <1>2, <1>5, <1>7, <1>9, Zenon DEF GemInv

\* An ioctl ends and gives up the object it worked on.
LEMMA IoctlPut ==
  ASSUME SetsAreCounted, GemInv, NEW f \in Files, ioctl[f].op \in {"new", "sync"},
         ioctl' = [ioctl EXCEPT ![f] = NoIoctl],
         Put(ioctl[f].obj, InIoctl(f)), job' = job
  PROVE  GemInv'
<1> DEFINE o == ioctl[f].obj
<1>0. o \in Objects /\ InIoctl(f) \in holders[o]
  BY DEF GemInv, GemTypeOK, Ioctls, IoctlHolds
<1>1. /\ CountIsExact'
      /\ res' \in [Objects -> SUBSET Resources]
      /\ size' \in [Objects -> Nat]
      /\ count' \in [Objects -> Nat]
      /\ DOMAIN holders' = Objects
      /\ holders'[o] = holders[o] \ {InIoctl(f)}
      /\ \A x \in Objects \ {o} : holders'[x] = holders[x]
      /\ \A x \in Objects : holders'[x] # {} => size'[x] = size[x]
  BY <1>0, PutCounts, Zenon DEF GemInv
<1>2. /\ ioctl' \in [Files -> Ioctls] /\ ioctl'[f].op = "none"
      /\ \A g \in Files \ {f} : ioctl'[g] = ioctl[g]
  BY Zenon DEF GemInv, GemTypeOK, Ioctls, NoIoctl
<1>3. GemTypeOK'
  BY <1>1, <1>2, Zenon DEF GemInv, GemTypeOK
<1>4. \A g \in Files : \A x \in Objects :
        InIoctl(g) \in holders'[x] <=> InIoctl(g) \in holders[x] /\ g # f
  <2>1. \A x \in Objects : InIoctl(f) \in holders[x] <=> x = o
    BY Zenon DEF GemInv, IoctlHolds
  <2>2. QED BY <1>1, <2>1, HoldersDiffer
<1>5. \A g \in Files \ {f} :
        ioctl[g].op = "new" /\ ioctl[g].pc = "handle" => ioctl[g].obj \in Objects \ {o}
  <2>1. \A g \in Files \ {f} : holders[o] # {InIoctl(g)}
    BY <1>0, HoldersDiffer
  <2>2. QED BY <2>1 DEF GemInv, IoctlHolds, GemTypeOK, Ioctls
<1>6. IoctlHolds'
  <2>1. \A g \in Files, x \in Objects :
          InIoctl(g) \in holders'[x] <=>
            ioctl'[g].op \in {"new", "sync"} /\ ioctl'[g].obj = x
    BY <1>2, <1>4 DEF GemInv, IoctlHolds
  <2>2. ASSUME NEW g \in Files, ioctl'[g].op = "new", ioctl'[g].pc = "handle"
        PROVE  holders'[ioctl'[g].obj] = {InIoctl(g)}
    <3>1. ioctl'[g] = ioctl[g] /\ ioctl[g].obj \in Objects \ {o}
      BY <1>2, <1>5, <2>2, Zenon
    <3>2. holders[ioctl[g].obj] = {InIoctl(g)}
      BY <2>2, <3>1 DEF GemInv, IoctlHolds
    <3>3. QED BY <1>1, <3>1, <3>2, Zenon
  <2>3. QED BY <2>1, <2>2, Zenon DEF IoctlHolds
<1>7. \A j : Resolved(j)' = Resolved(j)
  BY <1>0, <1>1, ResolvedFrame, HoldersDiffer
<1>8. BindingsInOrder'
  BY <1>7, Zenon DEF GemInv, BindingsInOrder
<1>9. \A g \in Files \ {f} :
        ioctl[g].op = "sync" => ioctl[g].obj \in Objects
                                /\ size'[ioctl[g].obj] = size[ioctl[g].obj]
  <2>1. \A g \in Files : ioctl[g].op = "sync" => ioctl[g].obj \in Objects
    BY Zenon DEF GemInv, GemTypeOK, Ioctls
  <2>2. QED BY <2>1, <1>1, <1>4 DEF GemInv, IoctlHolds
<1>10. SyncInBounds'
  BY <1>2, <1>9, Zenon DEF GemInv, SyncInBounds
<1>11. QED BY <1>1, <1>3, <1>6, <1>8, <1>10, Zenon DEF GemInv

-----------------------------------------------------------------------------
(* The actions that are of no such kind. *)

\* A file that is in no ioctl holds nothing through one.
LEMMA IdleHoldsNothing ==
  ASSUME GemInv, NEW f \in Files, Ready(f)
  PROVE  ioctl[f].op = "none" /\ \A o \in Objects : InIoctl(f) \notin holders[o]
<1>1. ioctl[f].op = "none"
  BY DEF Ready, NoIoctl
<1>2. QED BY <1>1, Zenon DEF GemInv, IoctlHolds

\* Rounding to pages, truncated to u64 and to size_t, gives a size.
LEMMA ObjSizeIsNat ==
  ASSUME NEW s \in Sizes
  PROVE  ObjSize(s) \in Nat
<1> DEFINE x == ((s + PageSize - 1) \div PageSize) * PageSize
<1>1. s \in Nat /\ PageSize \in Nat \ {0} /\ U64Numbers \in Nat \ {0} /\ SizeT \in Nat \ {0}
  BY GemAssumption
<1>2. (s + PageSize - 1) \div PageSize \in Nat
  BY <1>1
<1>3. x \in Nat
  BY <1>1, <1>2
<1> HIDE DEF x
<1>4. x % U64Numbers \in Nat
  BY <1>1, <1>3
<1>5. (x % U64Numbers) % SizeT \in Nat
  BY <1>1, <1>4
<1>6. QED BY <1>5, Zenon DEF ObjSize, x

\* Each error path of strela_gem_create releases what it had acquired.
LEMMA GemNewFailsStep ==
  ASSUME GemInv, NEW f \in Files, NEW o \in Objects, GemNewFails(f, o)
  PROVE  GemInv'
<1>1. PICK step \in {"kzalloc", "init", "offset", "dma", "mapping"} :
        res' = [res EXCEPT ![o] = Acquired(step) \ ReleasedOnError(step)]
  BY Zenon DEF GemNewFails
<1>2. Acquired(step) \ ReleasedOnError(step) = {}
  BY Zenon DEF Acquired, ReleasedOnError
<1>3. res' = res
  BY <1>1, <1>2, Zenon DEF GemNewFails, GemInv, GemTypeOK
<1>4. \A j \in Jobs : job[j].st = "none" => Resolved(j) = {}
  BY Zenon DEF GemInv, BindingsInOrder
<1>5. \A j \in Jobs : job[j].st = "new" => \E k \in 0 .. NumBindings : Resolved(j) = 1 .. k
  BY Zenon DEF GemInv, BindingsInOrder
<1>6. ioctl \in [Files -> Ioctls] /\ job \in [Jobs -> JobStates]
  BY Zenon DEF GemInv, GemTypeOK
<1>7. UNCHANGED <<res, size, count, holders, ioctl, job>>
  BY <1>3, Zenon DEF GemNewFails
<1>8. QED BY ONLY GemInv, <1>4, <1>5, <1>6, <1>7, ControlFrame, Zenon

\* The object had no holder, since it was not alive.
LEMMA GemNewStep ==
  ASSUME SetsAreCounted, GemInv, NEW f \in Files, NEW o \in Objects, GemNew(f, o)
  PROVE  GemInv'
<1>1. holders[o] = {}
  BY Zenon DEF GemNew, GemInv, CountIsExact, Resources
<1>2. /\ res' = [res EXCEPT ![o] = Resources]
      /\ count' = [count EXCEPT ![o] = 1]
      /\ holders' = [holders EXCEPT ![o] = {InIoctl(f)}]
      /\ ioctl' = [ioctl EXCEPT ![f] = [op |-> "new", obj |-> o, pc |-> "handle"]]
      /\ job' = job
  BY Zenon DEF GemNew
<1>3. size' \in [Objects -> Nat] /\ \A x \in Objects \ {o} : size'[x] = size[x]
  <2>1. PICK s \in Sizes : size' = [size EXCEPT ![o] = ObjSize(s)]
    BY Zenon DEF GemNew
  <2>2. QED BY <2>1, ObjSizeIsNat, Zenon DEF GemInv, GemTypeOK
<1>4. /\ DOMAIN holders' = Objects
      /\ holders'[o] = {InIoctl(f)}
      /\ \A x \in Objects \ {o} : holders'[x] = holders[x]
  BY <1>2, Zenon DEF GemInv, GemTypeOK
<1>5. /\ ioctl' \in [Files -> Ioctls]
      /\ ioctl'[f] = [op |-> "new", obj |-> o, pc |-> "handle"]
      /\ \A g \in Files \ {f} : ioctl'[g] = ioctl[g]
  BY <1>2, Zenon DEF GemInv, GemTypeOK, Ioctls
<1>6. GemTypeOK'
  BY <1>2, <1>3, <1>4, <1>5, Zenon DEF GemInv, GemTypeOK
<1>7. CountIsExact'
  <2>1. IsFiniteSet({InIoctl(f)}) /\ Cardinality({InIoctl(f)}) = 1
    BY Zenon DEF SetsAreCounted
  <2>2. count'[o] = 1 /\ res'[o] = Resources
    BY <1>2, Zenon DEF GemInv, GemTypeOK
  <2>3. \A x \in Objects \ {o} : count'[x] = count[x] /\ res'[x] = res[x]
    BY <1>2, Zenon DEF GemInv, GemTypeOK
  <2>4. QED BY <2>1, <2>2, <2>3, <1>4, Zenon DEF GemInv, CountIsExact
<1>8. \A x \in Objects : InIoctl(f) \notin holders[x]
  BY IdleHoldsNothing, Zenon DEF GemNew
<1>9. \A g \in Files \ {f}, x \in Objects :
        InIoctl(g) \in holders'[x] <=> InIoctl(g) \in holders[x]
  BY <1>1, <1>4, HoldersDiffer
<1>10. \A g \in Files :
         ioctl[g].op = "new" /\ ioctl[g].pc = "handle" => ioctl[g].obj \in Objects \ {o}
  BY <1>1 DEF GemInv, IoctlHolds, GemTypeOK, Ioctls
<1>11. IoctlHolds'
  <2>1. \A g \in Files \ {f}, x \in Objects :
          InIoctl(g) \in holders'[x] <=>
            ioctl'[g].op \in {"new", "sync"} /\ ioctl'[g].obj = x
    BY <1>5, <1>9 DEF GemInv, IoctlHolds
  <2>2. \A x \in Objects :
          InIoctl(f) \in holders'[x] <=>
            ioctl'[f].op \in {"new", "sync"} /\ ioctl'[f].obj = x
    BY <1>4, <1>5, <1>8
  <2>3. \A g \in Files \ {f} :
          ioctl'[g].op = "new" /\ ioctl'[g].pc = "handle" =>
            holders'[ioctl'[g].obj] = {InIoctl(g)}
    BY <1>4, <1>5, <1>10 DEF GemInv, IoctlHolds
  <2>4. holders'[ioctl'[f].obj] = {InIoctl(f)}
    BY <1>4, <1>5
  <2>5. QED BY <2>1, <2>2, <2>3, <2>4, Zenon DEF IoctlHolds
<1>12. ASSUME NEW j PROVE Resolved(j)' = Resolved(j)
  <2>1. \A n, x : x \in Objects =>
          (Binding(j, n) \in holders'[x] <=> Binding(j, n) \in holders[x])
    BY <1>1, <1>4, HoldersDiffer
  <2>2. QED BY <2>1, ResolvedFrame, Zenon
<1>13. BindingsInOrder'
  BY <1>2, <1>12, Zenon DEF GemInv, BindingsInOrder
<1>14. \A g \in Files :
         ioctl[g].op = "sync" => ioctl[g].obj \in Objects \ {o}
  BY <1>1, Zenon DEF GemInv, IoctlHolds, GemTypeOK, Ioctls
<1>15. SyncInBounds'
  <2>1. ASSUME NEW g \in Files, ioctl'[g].op = "sync"
        PROVE  /\ ioctl'[g] = ioctl[g]
               /\ size'[ioctl[g].obj] = size[ioctl[g].obj]
    BY <2>1, <1>3, <1>5, <1>14
  <2>2. QED BY <2>1 DEF GemInv, SyncInBounds
<1>16. QED BY <1>6, <1>7, <1>11, <1>13, <1>15, Zenon DEF GemInv

\* An ioctl takes a reference to the object it works on, or makes its handle.
LEMMA IoctlGet ==
  ASSUME SetsAreCounted, GemInv, NEW f \in Files, NEW o \in Objects, NEW h, NEW r \in Ioctls,
         h \notin holders[o], holders[o] # {}, Get(o, h),
         ioctl' = [ioctl EXCEPT ![f] = r], job' = job,
         r.op \in {"new", "sync"}, r.obj = o, r.pc \notin {"handle", "dma"},
         h = InIoctl(f) \/ InIoctl(f) \in holders[o],
         \A x \in Objects \ {o} : InIoctl(f) \notin holders[x],
         \A g \in Files \ {f} : h # InIoctl(g) /\ holders[o] # {InIoctl(g)},
         \A j, i : h # Binding(j, i)
  PROVE  GemInv'
<1>1. /\ CountIsExact'
      /\ res' = res /\ size' = size
      /\ count' \in [Objects -> Nat]
      /\ DOMAIN holders' = Objects
      /\ holders'[o] = holders[o] \cup {h}
      /\ \A x \in Objects \ {o} : holders'[x] = holders[x]
  BY GetCounts, Zenon DEF GemInv
<1>2. /\ ioctl' \in [Files -> Ioctls] /\ ioctl'[f] = r
      /\ \A g \in Files \ {f} : ioctl'[g] = ioctl[g]
  BY Zenon DEF GemInv, GemTypeOK
<1>3. GemTypeOK'
  BY <1>1, <1>2, Zenon DEF GemInv, GemTypeOK
<1>4. IoctlHolds'
  <2>1. \A g \in Files \ {f}, x \in Objects :
          InIoctl(g) \in holders'[x] <=> InIoctl(g) \in holders[x]
    BY <1>1
  <2>2. \A g \in Files \ {f}, x \in Objects :
          InIoctl(g) \in holders'[x] <=>
            ioctl'[g].op \in {"new", "sync"} /\ ioctl'[g].obj = x
    BY <1>2, <2>1 DEF GemInv, IoctlHolds
  <2>3. \A x \in Objects :
          InIoctl(f) \in holders'[x] <=>
            ioctl'[f].op \in {"new", "sync"} /\ ioctl'[f].obj = x
    BY <1>1, <1>2
  <2>4. \A g \in Files \ {f} :
          ioctl[g].op = "new" /\ ioctl[g].pc = "handle" => ioctl[g].obj \in Objects \ {o}
    BY DEF GemInv, IoctlHolds, GemTypeOK, Ioctls
  <2>5. ASSUME NEW g \in Files \ {f}, ioctl'[g].op = "new", ioctl'[g].pc = "handle"
        PROVE  holders'[ioctl'[g].obj] = {InIoctl(g)}
    <3>1. ioctl'[g] = ioctl[g] /\ ioctl[g].obj \in Objects \ {o}
      BY <1>2, <2>4, <2>5, Zenon
    <3>2. holders[ioctl[g].obj] = {InIoctl(g)}
      BY <2>5, <3>1 DEF GemInv, IoctlHolds
    <3>3. QED BY <1>1, <3>1, <3>2, Zenon
  <2>6. QED BY <1>2, <2>2, <2>3, <2>5 DEF IoctlHolds
<1>5. \A j : Resolved(j)' = Resolved(j)
  BY <1>1, ResolvedFrame
<1>6. BindingsInOrder'
  BY <1>5, Zenon DEF GemInv, BindingsInOrder
<1>7. SyncInBounds'
  BY <1>1, <1>2, Zenon DEF GemInv, SyncInBounds
<1>8. QED BY <1>1, <1>3, <1>4, <1>6, <1>7, Zenon DEF GemInv

\* Nobody but the ioctl knows the object, so its handle is a new one.
LEMMA GemNewHandleStep ==
  ASSUME SetsAreCounted, GemInv, NEW f \in Files, GemNewHandle(f)
  PROVE  GemInv'
<1> DEFINE offsetOf(o) == [op |-> "new", obj |-> o, pc |-> "offset"]
<1>1. PICK o \in Objects : ioctl[f] = [op |-> "new", obj |-> o, pc |-> "handle"]
  BY Zenon DEF GemNewHandle, GemInv, GemTypeOK, Ioctls
<1>2. offsetOf(o) \in Ioctls
  BY Zenon DEF Ioctls
<1>3. ioctl[f].obj = o /\ [ioctl[f] EXCEPT !.pc = "offset"] = offsetOf(o)
  BY <1>1
<1>4. PICK r \in Ioctls : r = offsetOf(o)
  BY <1>2, Zenon
<1>5. ioctl' = [ioctl EXCEPT ![f] = r] /\ job' = job /\ Get(o, Handle(f))
  BY <1>3, <1>4, Zenon DEF GemNewHandle
<1>6. holders[o] = {InIoctl(f)}
  BY <1>3, Zenon DEF GemNewHandle, GemInv, IoctlHolds
<1>7. \A x \in Objects \ {o} : InIoctl(f) \notin holders[x]
  BY <1>3, Zenon DEF GemNewHandle, GemInv, IoctlHolds
<1>8. /\ Handle(f) \notin holders[o] /\ holders[o] # {} /\ InIoctl(f) \in holders[o]
      /\ \A g \in Files \ {f} : Handle(f) # InIoctl(g) /\ holders[o] # {InIoctl(g)}
  BY <1>6, HoldersDiffer, Zenon
<1>9. \A j, i : Handle(f) # Binding(j, i)
  BY HoldersDiffer, Zenon
<1>10. r.op \in {"new", "sync"} /\ r.obj = o /\ r.pc \notin {"handle", "dma"}
  BY <1>4, Zenon
<1>11. QED BY <1>5, <1>7, <1>8, <1>9, <1>10, IoctlGet, Zenon

\* drm_gem_object_lookup of GEM_SYNC.
LEMMA SyncLookupStep ==
  ASSUME SetsAreCounted, GemInv, NEW f \in Files, NEW o \in Objects, SyncLookup(f, o)
  PROVE  GemInv'
<1> DEFINE r == [op |-> "sync", obj |-> o, pc |-> "check"]
<1>1. r \in Ioctls /\ ioctl' = [ioctl EXCEPT ![f] = r]
  BY Zenon DEF SyncLookup, Ioctls
<1>2. \A x \in Objects : InIoctl(f) \notin holders[x]
  BY IdleHoldsNothing, Zenon DEF SyncLookup
<1>3. Get(o, InIoctl(f)) /\ job' = job /\ Handle(f) \in holders[o]
  BY Zenon DEF SyncLookup, Holds
<1>4. /\ \A g \in Files \ {f} : InIoctl(f) # InIoctl(g) /\ holders[o] # {InIoctl(g)}
      /\ \A j, i : InIoctl(f) # Binding(j, i)
  BY <1>3, HoldersDiffer
<1>5. r.op \in {"new", "sync"} /\ r.obj = o /\ r.pc \notin {"handle", "dma"}
  BY Zenon
<1> HIDE DEF r
<1>6. QED BY <1>1, <1>2, <1>3, <1>4, <1>5, IoctlGet, Zenon

\* The range is inside the object when it is checked.
LEMMA SyncStep ==
  ASSUME GemInv, NEW f \in Files, Sync(f)
  PROVE  GemInv'
<1> DEFINE o == ioctl[f].obj
<1>1. o \in Objects
  BY Zenon DEF Sync, GemInv, GemTypeOK, Ioctls
<1>2. PICK offset \in SyncOffsets, length \in SyncLengths :
        /\ SyncInObject(o, offset, length)
        /\ offset % CacheAlign = 0 /\ length % CacheAlign = 0
        /\ ioctl' = [ioctl EXCEPT ![f] = [op |-> "sync", obj |-> o,
                       pc |-> "dma", offset |-> offset, length |-> length]]
  BY Zenon DEF Sync
<1>3. UNCHANGED <<res, size, count, holders, job>>
  BY Zenon DEF Sync
<1>4. offset \in Nat /\ length \in Nat
  BY GemAssumption
<1>5. /\ ioctl' \in [Files -> Ioctls]
      /\ ioctl'[f] = [op |-> "sync", obj |-> o,
                      pc |-> "dma", offset |-> offset, length |-> length]
      /\ \A g \in Files \ {f} : ioctl'[g] = ioctl[g]
  <2>1. [op |-> "sync", obj |-> o, pc |-> "dma", offset |-> offset,
         length |-> length] \in Ioctls
    BY <1>1, <1>4, Zenon DEF Ioctls
  <2>2. ioctl \in [Files -> Ioctls]
    BY Zenon DEF GemInv, GemTypeOK
  <2> QED BY <1>2, <2>1, <2>2, Zenon
<1>6. GemTypeOK' /\ CountIsExact'
  BY <1>3, <1>5, Zenon DEF GemInv, GemTypeOK, CountIsExact
<1>7. \A g \in Files :
        /\ ioctl'[g].op = ioctl[g].op
        /\ ioctl[g].op \in {"new", "sync"} => ioctl'[g].obj = ioctl[g].obj
        /\ ioctl[g].op = "new" => ioctl'[g].pc = ioctl[g].pc
  BY <1>5 DEF Sync
<1>8. IoctlHolds'
  BY <1>3, <1>7 DEF GemInv, IoctlHolds
<1>9. \A j : Resolved(j)' = Resolved(j)
  BY <1>3, Zenon DEF Resolved, Bound
<1>10. BindingsInOrder'
  BY <1>3, <1>9, Zenon DEF GemInv, BindingsInOrder
<1>11. offset + length <= size[o]
  BY <1>1, <1>2, <1>4 DEF SyncInObject, GemInv, GemTypeOK
<1>12. SyncInBounds'
  BY <1>2, <1>3, <1>5, <1>11, Zenon DEF GemInv, SyncInBounds
<1>13. QED BY <1>6, <1>8, <1>10, <1>12, Zenon DEF GemInv


\* The binding that is looked up next has no object yet.
LEMMA BindingGetStep ==
  ASSUME SetsAreCounted, GemInv, NEW f \in Files, NEW o \in Objects, BindingGet(f, o)
  PROVE  GemInv'
<1>1. PICK j \in Jobs : j = ioctl[f].job
  BY Zenon DEF BindingGet, GemInv, GemTypeOK, Ioctls
<1>2. /\ job[j].st = "new" /\ Cardinality(Resolved(j)) + 1 <= NumBindings
      /\ Get(o, Binding(j, Cardinality(Resolved(j)) + 1))
      /\ UNCHANGED <<ioctl, job>> /\ Handle(f) \in holders[o]
  BY <1>1, Zenon DEF BindingGet, Holds
<1>3. PICK k \in 0 .. NumBindings : Resolved(j) = 1 .. k
  BY <1>2, Zenon DEF GemInv, BindingsInOrder
<1>4. k \in Nat /\ NumBindings \in Nat
  BY GemAssumption
<1>5. Cardinality(Resolved(j)) = k
  BY <1>3, <1>4, Zenon DEF SetsAreCounted
<1>6. PICK i \in 1 .. NumBindings : i = k + 1 /\ Get(o, Binding(j, i))
  BY <1>2, <1>4, <1>5
<1>7. i \notin Resolved(j)
  BY <1>3, <1>4, <1>6
<1>8. \A x \in Objects : Binding(j, i) \notin holders[x]
  BY <1>7, Zenon DEF Resolved, Bound
<1>9. /\ holders'[o] = holders[o] \cup {Binding(j, i)}
      /\ \A x \in Objects \ {o} : holders'[x] = holders[x]
  BY <1>6, Zenon DEF Get, GemInv, GemTypeOK
<1>10. ASSUME NEW l, l # j PROVE Resolved(l)' = Resolved(l)
  <2>1. \A n : Binding(l, n) # Binding(j, i)
    BY <1>10, HoldersDiffer, Zenon
  <2>2. \A n, x : x \in Objects =>
          (Binding(l, n) \in holders'[x] <=> Binding(l, n) \in holders[x])
    BY <1>9, <2>1
  <2>3. QED BY <2>2, ResolvedFrame, Zenon
<1>11. Resolved(j)' = 1 .. i
  <2>1. \A n : Binding(j, n) = Binding(j, i) <=> n = i
    BY HoldersDiffer, Zenon
  <2>2. ASSUME NEW n \in 1 .. NumBindings, n # i
        PROVE  Bound(j, n)' = Bound(j, n)
    BY <1>9, <2>1, <2>2, Zenon DEF Bound
  <2>3. o \in Bound(j, i)'
    BY <1>9, Zenon DEF Bound
  <2>4. \A n \in 1 .. NumBindings : Bound(j, n)' # {} <=> Bound(j, n) # {} \/ n = i
    BY <2>2, <2>3, Zenon
  <2>5. Resolved(j)' = Resolved(j) \cup {i}
    BY <2>4, Zenon DEF Resolved
  <2>6. QED BY <2>5, <1>3, <1>4, <1>6
<1>12. i \in 0 .. NumBindings
  BY <1>4
<1>13. BindingsInOrder'
  <2>1. ASSUME NEW l \in Jobs
        PROVE  /\ job[l].st = "none" => Resolved(l)' = {}
               /\ job[l].st = "new" => \E n \in 0 .. NumBindings : Resolved(l)' = 1 .. n
    <3>1. CASE l = j
      BY <3>1, <1>2, <1>11, <1>12, Zenon
    <3>2. CASE l # j
      BY <3>2, <1>10, Zenon DEF GemInv, BindingsInOrder
    <3>3. QED BY <3>1, <3>2, Zenon
  <2>2. job' = job
    BY <1>2, Zenon
  <2>3. QED BY <2>1, <2>2, Zenon DEF BindingsInOrder
<1>14. \A g : Handle(f) # InIoctl(g) /\ Binding(j, i) # InIoctl(g)
  BY HoldersDiffer, Zenon
<1>15. QED BY <1>2, <1>6, <1>8, <1>13, <1>14, OuterGet, Zenon

\* strela_job_put_bindings gives back what the lookups took.
LEMMA PutBindingStep ==
  ASSUME SetsAreCounted, GemInv, NEW j \in Jobs, PutBinding(j)
  PROVE  GemInv'
<1>1. CASE Resolved(j) # {}
  <2>1. PICK i \in Resolved(j) :
          /\ \E o \in Bound(j, i) : Put(o, Binding(j, i))
          /\ UNCHANGED <<ioctl, job>>
    BY <1>1, Zenon DEF PutBinding
  <2>2. PICK o \in Objects : Binding(j, i) \in holders[o] /\ Put(o, Binding(j, i))
    BY <2>1, Zenon DEF Bound
  <2>3. \A g : Binding(j, i) # InIoctl(g)
    BY HoldersDiffer, Zenon
  <2>4. /\ holders'[o] = holders[o] \ {Binding(j, i)}
        /\ \A x \in Objects \ {o} : holders'[x] = holders[x]
    BY <2>2, Zenon DEF Put, GemInv, GemTypeOK
  <2>5. \A l : l # j => Resolved(l)' = Resolved(l)
    BY <2>4, ResolvedFrame, HoldersDiffer, Zenon
  <2>6. job[j].st = "put" /\ job' = job
    BY <2>1, Zenon DEF PutBinding
  <2>7. BindingsInOrder'
    BY <2>5, <2>6, Zenon DEF GemInv, BindingsInOrder
  <2>8. QED BY <2>1, <2>2, <2>3, <2>7, OuterPut, Zenon
<1>2. CASE Resolved(j) = {}
  <2>1. /\ job' = [job EXCEPT ![j] = NoJob]
        /\ ioctl' = [f \in Files |->
                       IF ioctl[f] = [op |-> "submit", job |-> j]
                       THEN NoIoctl ELSE ioctl[f]]
        /\ UNCHANGED <<res, size, count, holders>>
    BY <1>2, Zenon DEF PutBinding
  <2>2. /\ job' \in [Jobs -> JobStates]
        /\ \A l \in Jobs \ {j} : job'[l] = job[l]
        /\ job'[j].st = "none"
    BY <2>1, Zenon DEF NoJob, JobStates, GemInv, GemTypeOK
  <2>3. NoIoctl \in Ioctls /\ NoIoctl.op = "none"
    BY Zenon DEF NoIoctl, Ioctls
  <2>4. ioctl' \in [Files -> Ioctls]
    BY <2>1, <2>3, Zenon DEF GemInv, GemTypeOK
  <2>5. \A f \in Files :
          \/ ioctl'[f] = ioctl[f]
          \/ ioctl[f].op \notin {"new", "sync"} /\ ioctl'[f].op \notin {"new", "sync"}
    BY <2>1, <2>3
  <2>6. \A l \in Jobs :
          /\ job'[l].st = "none" => Resolved(l) = {}
          /\ job'[l].st = "new" => \E k \in 0 .. NumBindings : Resolved(l) = 1 .. k
    BY <1>2, <2>2, Zenon DEF GemInv, BindingsInOrder
  <2>7. QED BY <2>1, <2>2, <2>4, <2>5, <2>6, ControlFrame, Zenon
<1>3. QED BY <1>1, <1>2, Zenon

\* The other steps of a submission and of its job.
LEMMA SubmitBeginStep ==
  ASSUME GemInv, NEW f \in Files, NEW j \in Jobs, SubmitBegin(f, j)
  PROVE  GemInv'
<1>1. /\ job' = [job EXCEPT ![j] = [st |-> "new", file |-> f]]
      /\ ioctl' = [ioctl EXCEPT ![f] = [op |-> "submit", job |-> j]]
      /\ UNCHANGED <<res, size, count, holders>>
      /\ job[j] = NoJob
  BY Zenon DEF SubmitBegin
<1>2. /\ job' \in [Jobs -> JobStates]
      /\ job'[j].st = "new"
      /\ \A l \in Jobs \ {j} : job'[l] = job[l]
  BY <1>1, Zenon DEF JobStates, GemInv, GemTypeOK
<1>3. /\ ioctl' \in [Files -> Ioctls]
      /\ ioctl'[f].op = "submit"
      /\ \A g \in Files \ {f} : ioctl'[g] = ioctl[g]
  BY <1>1, Zenon DEF Ioctls, GemInv, GemTypeOK
<1>4. ioctl[f].op = "none"
  BY IdleHoldsNothing, Zenon DEF SubmitBegin
<1>5. \A g \in Files :
        \/ ioctl'[g] = ioctl[g]
        \/ ioctl[g].op \notin {"new", "sync"} /\ ioctl'[g].op \notin {"new", "sync"}
  BY <1>3, <1>4, Zenon
<1>6. Resolved(j) = {}
  BY <1>1 DEF NoJob, GemInv, BindingsInOrder
<1>7. 0 \in 0 .. NumBindings /\ Resolved(j) = 1 .. 0
  BY <1>6, GemAssumption
<1>8. \A l \in Jobs :
        /\ job'[l].st = "none" => Resolved(l) = {}
        /\ job'[l].st = "new" => \E k \in 0 .. NumBindings : Resolved(l) = 1 .. k
  BY <1>2, <1>7, Zenon DEF GemInv, BindingsInOrder
<1>9. QED BY <1>1, <1>2, <1>3, <1>5, <1>8, ControlFrame, Zenon

\* A job moves on, and the ioctl that made it may end.
LEMMA JobMoves ==
  ASSUME GemInv, NEW j \in Jobs, NEW st \in {"queued", "started", "put"},
         job[j].st # "none", job' = [job EXCEPT ![j].st = st],
         UNCHANGED <<res, size, count, holders>>,
         \/ ioctl' = ioctl
         \/ \E f \in Files : /\ ioctl[f].op = "submit"
                             /\ ioctl' = [ioctl EXCEPT ![f] = NoIoctl]
  PROVE  GemInv'
<1>1. job[j] \in [st : {"new", "queued", "started", "put"}, file : Files]
  BY Zenon DEF JobStates, GemInv, GemTypeOK
<1>2. [job[j] EXCEPT !.st = st] \in JobStates /\ [job[j] EXCEPT !.st = st].st = st
  BY <1>1, Zenon DEF JobStates
<1>3. /\ job' \in [Jobs -> JobStates]
      /\ job'[j].st = st
      /\ \A l \in Jobs \ {j} : job'[l] = job[l]
  BY <1>2, Zenon DEF GemInv, GemTypeOK
<1>4. NoIoctl \in Ioctls /\ NoIoctl.op = "none"
  BY Zenon DEF NoIoctl, Ioctls
<1>5. ioctl' \in [Files -> Ioctls]
  BY <1>4, Zenon DEF GemInv, GemTypeOK
<1>6. \A g \in Files :
        \/ ioctl'[g] = ioctl[g]
        \/ ioctl[g].op \notin {"new", "sync"} /\ ioctl'[g].op \notin {"new", "sync"}
  BY <1>4, Zenon DEF GemInv, GemTypeOK
<1>7. \A l \in Jobs :
        /\ job'[l].st = "none" => Resolved(l) = {}
        /\ job'[l].st = "new" => \E k \in 0 .. NumBindings : Resolved(l) = 1 .. k
  BY <1>3, Zenon DEF GemInv, BindingsInOrder
<1>8. QED BY <1>3, <1>5, <1>6, <1>7, ControlFrame, Zenon

\* Steps of the module and of its devices leave the objects alone.
LEMMA Stutter ==
  ASSUME GemInv, UNCHANGED gemVars
  PROVE  GemInv'
<1>1. UNCHANGED <<res, size, count, holders, ioctl, job>>
  BY Zenon DEF gemVars
<1>2. ioctl \in [Files -> Ioctls] /\ job \in [Jobs -> JobStates]
  BY Zenon DEF GemInv, GemTypeOK
<1>3. \A l \in Jobs :
        /\ job[l].st = "none" => Resolved(l) = {}
        /\ job[l].st = "new" => \E k \in 0 .. NumBindings : Resolved(l) = 1 .. k
  BY Zenon DEF GemInv, BindingsInOrder
<1>4. QED BY <1>1, <1>2, <1>3, ControlFrame, Zenon

\* There are no objects, ioctls and jobs before the module is loaded.
LEMMA GemInitHolds ==
  ASSUME SetsAreCounted, GemInit
  PROVE  GemInv
<1>1. GemTypeOK
  BY Zenon DEF GemInit, GemTypeOK, NoIoctl, NoJob, Ioctls, JobStates
<1>2. /\ \A o \in Objects : holders[o] = {} /\ count[o] = 0 /\ res[o] = {}
      /\ \A f \in Files : ioctl[f].op = "none"
  BY Zenon DEF GemInit, NoIoctl
<1>3. CountIsExact
  BY <1>2, Zenon DEF CountIsExact, SetsAreCounted
<1>4. IoctlHolds /\ SyncInBounds
  BY <1>2, Zenon DEF IoctlHolds, SyncInBounds
<1>5. \A j : Resolved(j) = {}
  BY <1>2, Zenon DEF Resolved, Bound
<1>6. BindingsInOrder
  <2>1. \A j \in Jobs : job[j].st = "none"
    BY Zenon DEF GemInit, NoJob
  <2>2. QED BY <1>5, <2>1, Zenon DEF BindingsInOrder
<1>7. QED BY <1>1, <1>3, <1>4, <1>6, Zenon DEF GemInv

\* Every step preserves the invariant, whatever another file is in the middle of.
LEMMA GemStep ==
  ASSUME SetsAreCounted, GemInv, GemNext
  PROVE  GemInv'
<1>1. CASE DeviceStep /\ UNCHANGED gemVars
  BY <1>1, Stutter, Zenon
<1>2. CASE GemExitBegin
  BY <1>2, Stutter, Zenon DEF GemExitBegin
<1>3. ASSUME NEW d \in Devices, GemJobFini(d) PROVE GemInv'
  BY <1>3, Stutter, Zenon DEF GemJobFini
<1>4. ASSUME NEW f \in Files, OpenFile(f) \/ CloseFile(f) \/ Postclose(f) PROVE GemInv'
  <2>1. UNCHANGED gemVars
    BY <1>4, Zenon DEF OpenFile, CloseFile, Postclose
  <2>2. QED BY <2>1, Stutter, Zenon
<1>5. ASSUME NEW f \in Files, GemNewHandle(f) PROVE GemInv'
  BY <1>5, GemNewHandleStep, Zenon
<1>6. ASSUME NEW f \in Files, GemNewPut(f) \/ SyncPut(f) PROVE GemInv'
  BY <1>6, IoctlPut, Zenon DEF GemNewPut, SyncPut
<1>7. ASSUME NEW f \in Files, Sync(f) PROVE GemInv'
  BY <1>7, SyncStep, Zenon
<1>8. ASSUME NEW f \in Files, SubmitFails(f) \/ SubmitPush(f) PROVE GemInv'
  <2>1. PICK j \in Jobs : ioctl[f].op = "submit" /\ ioctl[f].job = j
    BY <1>8, Zenon DEF SubmitFails, SubmitPush, GemInv, GemTypeOK, Ioctls
  <2>2. job[j].st # "none" /\ UNCHANGED <<res, size, count, holders>>
    BY <1>8, <2>1, Zenon DEF SubmitFails, SubmitPush
  <2>3. CASE SubmitFails(f)
    BY <2>1, <2>2, <2>3, JobMoves, Zenon DEF SubmitFails
  <2>4. CASE SubmitPush(f)
    BY <2>1, <2>2, <2>4, JobMoves, Zenon DEF SubmitPush
  <2>5. QED BY <1>8, <2>3, <2>4, Zenon
<1>9. ASSUME NEW f \in Files, NEW j \in Jobs, SubmitBegin(f, j) PROVE GemInv'
  BY <1>9, SubmitBeginStep, Zenon
<1>10. ASSUME NEW f \in Files, NEW o \in Objects,
              GemNewFails(f, o) \/ GemNew(f, o) \/ SyncLookup(f, o) \/ BindingGet(f, o)
       PROVE GemInv'
  BY <1>10, GemNewFailsStep, GemNewStep, SyncLookupStep, BindingGetStep, Zenon
<1>11. ASSUME NEW f \in Files, NEW o \in Objects,
              Mmap(f, o) \/ Export(f, o) \/ Import(f, o)
       PROVE GemInv'
  <2>1. CASE Mmap(f, o)
    <3>1. /\ Handle(f) \in holders[o] /\ Mapping(f) \notin holders[o]
          /\ Get(o, Mapping(f)) /\ UNCHANGED <<ioctl, job>>
      BY <2>1, Zenon DEF Mmap, Holds
    <3>2. QED BY <3>1, OuterGetOuter, OuterHolders, Zenon
  <2>2. CASE Export(f, o)
    <3>1. /\ Handle(f) \in holders[o] /\ Dmabuf \notin holders[o]
          /\ Get(o, Dmabuf) /\ UNCHANGED <<ioctl, job>>
      BY <2>2, Zenon DEF Export, Holds
    <3>2. QED BY <3>1, OuterGetOuter, OuterHolders, Zenon
  <2>3. CASE Import(f, o)
    <3>1. /\ Dmabuf \in holders[o] /\ Handle(f) \notin holders[o]
          /\ Get(o, Handle(f)) /\ UNCHANGED <<ioctl, job>>
      BY <2>3, Zenon DEF Import, Holds
    <3>2. QED BY <3>1, OuterGetOuter, OuterHolders, Zenon
  <2>4. QED BY <1>11, <2>1, <2>2, <2>3, Zenon
<1>12. ASSUME NEW f \in Files, NEW o \in Objects, GemClose(f, o) \/ Munmap(f, o)
       PROVE GemInv'
  <2>1. CASE GemClose(f, o)
    BY <2>1, OuterPut, HoldersDiffer, Zenon DEF GemClose, Holds
  <2>2. CASE Munmap(f, o)
    BY <2>2, OuterPut, HoldersDiffer, Zenon DEF Munmap
  <2>3. QED BY <1>12, <2>1, <2>2, Zenon
<1>13. ASSUME NEW j \in Jobs, RunJob(j) \/ FreeJob(j) PROVE GemInv'
  <2>1. CASE RunJob(j)
    BY <2>1, JobMoves, Zenon DEF RunJob
  <2>2. CASE FreeJob(j)
    BY <2>2, JobMoves, Zenon DEF FreeJob
  <2>3. QED BY <1>13, <2>1, <2>2, Zenon
<1>14. ASSUME NEW j \in Jobs, PutBinding(j) PROVE GemInv'
  BY <1>14, PutBindingStep, Zenon
<1>15. ASSUME NEW o \in Objects, DmabufRelease(o) PROVE GemInv'
  BY <1>15, OuterPut, HoldersDiffer, Zenon DEF DmabufRelease
<1>16. QED
  BY <1>1, <1>2, <1>3, <1>4, <1>5, <1>6, <1>7, <1>8, <1>9, <1>10, <1>11, <1>12,
     <1>13, <1>14, <1>15, Zenon DEF GemNext

INSTANCE FiniteSetTheorems

\* The sizes of finite sets.
LEMMA CountedSets == SetsAreCounted
<1>1. IsFiniteSet({}) /\ Cardinality({}) = 0
  BY FS_EmptySet, Zenon
<1>2. \A x : IsFiniteSet({x}) /\ Cardinality({x}) = 1
  BY FS_Singleton, Zenon
<1>3. \A n \in Nat : Cardinality(1 .. n) = n
  BY FS_Interval
<1>4. ASSUME NEW S, NEW x, IsFiniteSet(S)
      PROVE  /\ Cardinality(S) \in Nat
             /\ Cardinality(S) = 0 => S = {}
             /\ IsFiniteSet(S \cup {x}) /\ IsFiniteSet(S \ {x})
             /\ x \notin S => Cardinality(S \cup {x}) = Cardinality(S) + 1
             /\ x \in S => Cardinality(S \ {x}) = Cardinality(S) - 1
  BY <1>4, FS_EmptySet, FS_AddElement, FS_RemoveElement, FS_CardinalityType,
     Zenon
<1> QED BY <1>1, <1>2, <1>3, <1>4, Zenon DEF SetsAreCounted

\* The counts of drm_gem_object_get and drm_gem_object_put are the numbers of
\* holders, in every reachable state.
THEOREM GemInvHolds == GemSpec => []GemInv
<1>1. GemInv /\ UNCHANGED gemDeviceVars => GemInv'
  BY Stutter, Zenon DEF gemDeviceVars
<1>2. GemInv /\ [GemNext]_gemDeviceVars => GemInv'
  BY <1>1, GemStep, CountedSets, Zenon
<1>3. GemInit => GemInv
  BY GemInitHolds, CountedSets, Zenon
<1>4. QED BY <1>2, <1>3, PTL DEF GemSpec

\* No buffer goes away under a job, a mapping or an ioctl that still points at
\* it (strela_strided_binding_get, strela_gem_free).
THEOREM UsedStaysAlive == GemSpec => []UsedIsAlive
<1>1. GemInv => UsedIsAlive
  BY Zenon DEF GemInv, CountIsExact, UsedIsAlive
<1>2. QED BY GemInvHolds, <1>1, PTL

\* No buffer stays behind, neither after its last reference nor after a creation
\* that failed (strela_gem_free, err_release in strela_gem_create).
THEOREM NothingLeaks == GemSpec => []NothingIsLeaked
<1>1. GemInv => NothingIsLeaked
  BY Zenon DEF GemInv, CountIsExact, NothingIsLeaked
<1>2. QED BY GemInvHolds, <1>1, PTL

\* The range of strela_gem_sync_ioctl is still inside its object when it reaches
\* the DMA API, for every width of the integers.
THEOREM SyncStaysInBounds == GemSpec => []SyncInBounds
<1>1. GemInv => SyncInBounds
  BY Zenon DEF GemInv
<1>2. QED BY GemInvHolds, <1>1, PTL

\* Clients, buffers and jobs only restrict when a device is removed, so that all
\* that holds of the devices whatever their clients do holds here
\* (strela_drv.c).
THEOREM DeviceRefinement == GemSpec => DeviceSpec
<1>1. GemInit => DeviceInit
  BY Zenon DEF GemInit
<1>2. GemNext => DeviceNext
  <2>1. CASE DeviceStep \/ GemExitBegin \/ \E d \in Devices : GemJobFini(d)
    BY <2>1, Zenon DEF DeviceNext, GemExitBegin, GemJobFini
  <2>2. CASE \E f \in Files : OpenFile(f) \/ CloseFile(f) \/ Postclose(f)
    BY <2>2, Zenon DEF DeviceNext, OpenFile, CloseFile, Postclose
  <2>3. CASE UNCHANGED deviceVars
    BY <2>3, Zenon DEF DeviceNext, deviceVars
  <2>4. ASSUME NEW f \in Files,
               \/ GemNewHandle(f) \/ GemNewPut(f) \/ Sync(f) \/ SyncPut(f)
               \/ SubmitFails(f) \/ SubmitPush(f)
               \/ \E j \in Jobs : SubmitBegin(f, j)
        PROVE  UNCHANGED deviceVars
    BY <2>4, Zenon
    DEF GemNewHandle, GemNewPut, Sync, SyncPut, SubmitFails, SubmitPush,
    SubmitBegin
  <2>5. ASSUME NEW f \in Files, NEW o \in Objects,
               \/ GemNewFails(f, o) \/ GemNew(f, o) \/ GemClose(f, o)
               \/ SyncLookup(f, o) \/ BindingGet(f, o)
               \/ Mmap(f, o) \/ Munmap(f, o) \/ Export(f, o) \/ Import(f, o)
        PROVE  UNCHANGED deviceVars
    BY <2>5, Zenon
    DEF GemNewFails, GemNew, GemClose, SyncLookup, BindingGet, Mmap, Munmap,
        Export, Import
  <2>6. ASSUME NEW j \in Jobs, RunJob(j) \/ FreeJob(j) \/ PutBinding(j)
        PROVE  UNCHANGED deviceVars
    BY <2>6, Zenon DEF RunJob, FreeJob, PutBinding
  <2>7. ASSUME NEW o \in Objects, DmabufRelease(o)
        PROVE  UNCHANGED deviceVars
    BY <2>7, Zenon DEF DmabufRelease
  <2>8. QED
    BY <2>1, <2>2, <2>3, <2>4, <2>5, <2>6, <2>7, Zenon DEF GemNext
<1>3. UNCHANGED gemDeviceVars => UNCHANGED deviceVars
  BY Zenon DEF gemDeviceVars
<1>4. QED BY <1>1, <1>2, <1>3, PTL DEF GemSpec, DeviceSpec
=============================================================================
