----------------------------- MODULE HeapProofs -----------------------------
(***************************************************************************)
(* The frame allocator accounts for every frame and implements the owner    *)
(* table; the kernel heap over it tiles its arenas and implements the table *)
(* of disjoint ranges: on every memory map, for every size of pages and     *)
(* headers.                                                                *)
(***************************************************************************)
EXTENDS Heap, NumberLemmas

Region == [type : STRING, base : Nat, length : Nat]

(* A region that can hold memory ends at or below the last frame.           *)
LEMMA RegionEnd ==
    ASSUME NEW m \in Seq(Region)
    PROVE  /\ FrameCount(m) \in Nat
           /\ \A r \in Regions(m) : 
                r.type = "usable" => (r.base + r.length) \div PAGE_SIZE <= FrameCount(m)
<1> DEFINE E == {q.base + q.length : q \in {x \in Regions(m) : x.type \in {"usable", "reclaimable", "kernel"}}}
<1>1. E \subseteq Nat
  <2> SUFFICES ASSUME NEW q \in Regions(m) PROVE q.base + q.length \in Nat
    OBVIOUS
  <2>1. q \in Region
    BY DEF Regions
  <2> QED BY <2>1 DEF Region
<1>2. IsFiniteSet(E)
  <2> DEFINE I == 1 .. Len(m)
             f == [i \in I |-> m[i].base + m[i].length]
             T == {f[i] : i \in I}
  <2>1. IsFiniteSet(I)
    BY FS_Interval
  <2>2. IsFiniteSet(T)
    <3>1. f \in Surjection(I, T)
      BY DEF Surjection
    <3> HIDE DEF f, I, T
    <3> QED BY <2>1, <3>1, FS_Surjection
  <2>3. E \subseteq T
    BY DEF Regions
  <2> HIDE DEF E, T
  <2> QED BY <2>2, <2>3, FS_Subset
<1>3. IsFiniteSet({0} \cup E)
  <2> HIDE DEF E
  <2>1. IsFiniteSet(E \cup {0})
    BY <1>2, FS_AddElement
  <2> QED BY <2>1
<1>4. MaxPhysAddr(m) \in Nat /\ \A e \in {0} \cup E : e <= MaxPhysAddr(m)
  <2>1. MaxPhysAddr(m) = Max({0} \cup E)
    BY DEF MaxPhysAddr
  <2> HIDE DEF E
  <2>2. {0} \cup E \in SUBSET Nat /\ {0} \cup E # {}
    BY <1>1
  <2>3. Max({0} \cup E) \in {0} \cup E /\ \A e \in {0} \cup E : e <= Max({0} \cup E)
    BY <1>3, <2>2, MaxIsGreatest, Zenon
  <2> QED BY <2>1, <2>2, <2>3, Zenon
<1>5. FrameCount(m) \in Nat
  <2> HIDE DEF E
  <2> QED BY <1>4, PageAssumption DEF FrameCount
<1>6. ASSUME NEW r \in Regions(m), r.type = "usable"
      PROVE  (r.base + r.length) \div PAGE_SIZE <= FrameCount(m)
  <2>1. r.base + r.length \in E
    BY <1>6
  <2> HIDE DEF E
  <2>2. r.base + r.length \in Nat /\ r.base + r.length <= MaxPhysAddr(m)
    BY <1>1, <1>4, <2>1
  <2> QED BY <1>4, <2>2, QuotientMonotone, PageAssumption DEF FrameCount
<1> QED BY <1>5, <1>6

(* The frames of usable memory are frames the bitmap has a bit for.         *)
LEMMA UsableFrames ==
    ASSUME NEW m \in Seq(Region)
    PROVE  Usable(m) \subseteq 0 .. FrameCount(m) - 1
<1> SUFFICES ASSUME NEW r \in Regions(m), r.type = "usable", NEW f \in FramesOf(r)
             PROVE  f \in 0 .. FrameCount(m) - 1
  BY DEF Usable
<1>1. r.base \in Nat /\ r.length \in Nat
  <2>1. r \in Region
    BY DEF Regions
  <2> QED BY <2>1 DEF Region
<1>2. FrameCount(m) \in Nat /\ (r.base + r.length) \div PAGE_SIZE <= FrameCount(m)
  BY RegionEnd
<1>3. r.base \div PAGE_SIZE \in Nat /\ (r.base + r.length) \div PAGE_SIZE \in Nat
  <2>1. r.base + r.length \in Nat
    BY <1>1
  <2> QED BY <1>1, <2>1, QuotientNat, PageAssumption
<1> QED BY <1>2, <1>3 DEF FramesOf

(* What the clients may be given: usable memory without the bitmap and the  *)
(* kernel.                                                                  *)
Granted(b) == Usable(b.map) \ (BitmapFrames(b.map) \cup KernelFrames(b.map, b.kernel))

(* The clear bits of the first bitmap are those frames, and pmm_init has    *)
(* counted them: disjoint regions count no frame twice.                     *)
LEMMA InitiallyFree ==
    ASSUME NEW b \in MemoryMaps
    PROVE  /\ FrameCount(b.map) \in Nat
           /\ Free(InitialBitmap(b.map, b.kernel), FrameCount(b.map)) = Granted(b)
           /\ InitialCount(b.map, b.kernel) = Cardinality(Granted(b))
<1> DEFINE m == b.map
           I == {i \in DOMAIN m : m[i].type = "usable"}
<1>1. m \in Seq(Region)
  BY MapAssumption DEF Region
<1>2. Usable(m) \subseteq 0 .. FrameCount(m) - 1
  BY <1>1, UsableFrames
<1>3. FrameCount(m) \in Nat
  BY <1>1, RegionEnd
<1>4. Free(InitialBitmap(m, b.kernel), FrameCount(m)) = Granted(b)
  <2> DEFINE all == 0 .. FrameCount(m) - 1
             B == BitmapFrames(m)
             K == KernelFrames(m, b.kernel)
  <2>1. Free(InitialBitmap(m, b.kernel), FrameCount(m)) = all \ ((all \ Usable(m)) \cup B \cup (K \cap all))
    BY DEF Free, InitialBitmap
  <2>2. Granted(b) = Usable(m) \ (B \cup K)
    BY DEF Granted
  <2> HIDE DEF all, B, K
  <2>3. Usable(m) \subseteq all
    BY <1>2 DEF all
  <2> QED BY <2>1, <2>2, <2>3
<1>5. IsFiniteSet(Usable(m))
  <2>1. IsFiniteSet(0 .. FrameCount(m) - 1)
    BY <1>3, FS_Interval
  <2> QED BY <1>2, <2>1, FS_Subset
<1>6. Cardinality(Freed(m)) = Cardinality(Usable(m))
  <2> DEFINE f == [p \in Freed(m) |-> p[2]]
  <2>1. f \in Bijection(Freed(m), Usable(m))
    <3>1. \A p \in Freed(m) : p = <<p[1], p[2]>> /\ p[1] \in I /\ p[2] \in FramesOf(m[p[1]])
      BY DEF Freed
    <3>2. \A i \in I : m[i] \in Regions(m) /\ m[i].type = "usable"
      BY DEF Regions
    <3>3. \A x \in Usable(m) : \E i \in I : <<i, x>> \in Freed(m)
      BY DEF Usable, Regions, Freed
    <3>4. f \in [Freed(m) -> Usable(m)]
      BY <3>1, <3>2 DEF Usable
    <3>5. ASSUME NEW p \in Freed(m), NEW q \in Freed(m), f[p] = f[q] PROVE p = q
      <4>1. p[2] = q[2]
        BY <3>5
      <4>2. p[1] \in DOMAIN m /\ q[1] \in DOMAIN m
        BY <3>1
      <4>3. p[1] = q[1]
        BY <3>1, <4>1, <4>2, MapAssumption
      <4> QED BY <3>1, <4>1, <4>3
    <3>6. \A x \in Usable(m) : \E p \in Freed(m) : f[p] = x
      BY <3>3
    <3> HIDE DEF f
    <3> QED BY <3>4, <3>5, <3>6 DEF Bijection, Injection, Surjection, IsInjective
  <2>2. IsFiniteSet(Freed(m))
    BY <1>5, <2>1, FS_Injection DEF Bijection
  <2> QED BY <2>1, <2>2, FS_Bijection DEF ExistsBijection
<1> QED
  <2> DEFINE R == BitmapFrames(m) \cup KernelFrames(m, b.kernel)
  <2>1. Cardinality(Usable(m) \ R) = Cardinality(Usable(m)) - Cardinality(Usable(m) \cap R)
    BY <1>5, FS_Difference
  <2> QED BY <1>3, <1>4, <1>6, <2>1 DEF Granted, InitialCount
-----------------------------------------------------------------------------
(* The property, with the facts that make it inductive: the count and the   *)
(* clear bits are about the frames that may be granted, and halting is the  *)
(* last step.                                                               *)
IInv ==
    /\ boot \in MemoryMaps
    /\ held \subseteq Granted(boot)
    /\ NothingLost
    /\ FreeCountExact

(* The clear bits are what may be granted and is not held.                  *)
LEMMA FreeBits ==
    ASSUME boot \in MemoryMaps, NothingLost
    PROVE  /\ pmm_frame_count \in Nat
           /\ Free(used, pmm_frame_count) = Granted(boot) \ held
           /\ Granted(boot) \cap InitialBitmap(boot.map, boot.kernel) = {}
           /\ Granted(boot) \subseteq 0 .. pmm_frame_count - 1
           /\ IsFiniteSet(Granted(boot))
<1> DEFINE B == InitialBitmap(boot.map, boot.kernel)
           all == 0 .. pmm_frame_count - 1
<1>1. pmm_frame_count \in Nat /\ all \ B = Granted(boot)
  BY InitiallyFree DEF Free, pmm_frame_count
<1>2. used = held \cup B
  BY DEF NothingLost
<1>3. IsFiniteSet(all)
  BY <1>1, FS_Interval
<1>4. Granted(boot) \subseteq all
  BY <1>1
<1>5. IsFiniteSet(Granted(boot))
  BY <1>3, <1>4, FS_Subset
<1> HIDE DEF all, B
<1>6. all \ used = Granted(boot) \ held /\ Granted(boot) \cap B = {}
  BY <1>1, <1>2
<1> QED BY <1>1, <1>4, <1>5, <1>6 DEF Free, all, B

LEMMA InitInv == Init => IInv
BY InitiallyFree DEF Init, IInv, NothingLost, FreeCountExact, pmm_frame_count

(* Taking a set of free frames, and giving one back that is held, keep the  *)
(* invariant.                                                               *)
LEMMA TakeInv ==
    ASSUME IInv, NEW S, S \subseteq Free(used, pmm_frame_count), Take(S)
    PROVE  IInv'
<1> DEFINE G == Granted(boot)
<1>1. boot' = boot /\ used' = used \cup S /\ held' = held \cup S /\ pmm_free_frames' = pmm_free_frames - Cardinality(S)
  BY DEF Take
<1>2. NothingLost' /\ boot' \in MemoryMaps
  BY <1>1 DEF IInv, NothingLost
<1>3. Free(used, pmm_frame_count) = G \ held /\ IsFiniteSet(G)
  BY FreeBits DEF IInv
<1>4. Granted(boot') = G
  BY <1>1
<1>5. Free(used, pmm_frame_count)' = G \ held'
  <2>1. Free(used', FrameCount(boot'.map)) = G \ (held \cup S)
    BY <1>1, <1>3 DEF Free, pmm_frame_count
  <2> QED BY <1>1, <2>1 DEF pmm_frame_count, Free
<1>6. FreeCountExact'
  <2>1. IsFiniteSet(G \ held)
    BY <1>3, FS_Difference
  <2>2. Cardinality((G \ held) \ S) = Cardinality(G \ held) - Cardinality((G \ held) \cap S)
    BY <2>1, FS_Difference
  <2>3. (G \ held) \ S = G \ held' /\ (G \ held) \cap S = S
    BY <1>1, <1>3
  <2> QED BY <1>1, <1>3, <1>5, <2>2, <2>3 DEF FreeCountExact, IInv
<1> QED BY <1>1, <1>2, <1>3, <1>4, <1>6 DEF IInv

(* The first clear bit, and the first run of clear bits, are clear.         *)
LEMMA FirstIsFree ==
    ASSUME IInv
    PROVE  /\ LET F == Free(used, pmm_frame_count) IN F # {} => Min(F) \in F
           /\ \A n \in Nat \ {0} : Runs(used, pmm_frame_count, n) # {} =>
                LET f == Min(Runs(used, pmm_frame_count, n)) 
                IN  /\ f \in Granted(boot)
                    /\ FirstRun(used, pmm_frame_count, n) = f .. f + n - 1
                    /\ f .. f + n - 1 \subseteq Free(used, pmm_frame_count)
<1>1. pmm_frame_count \in Nat /\ Free(used, pmm_frame_count) \subseteq Granted(boot)
  BY FreeBits DEF IInv
<1>2. Free(used, pmm_frame_count) \in SUBSET Nat
  BY <1>1 DEF Free
<1>3. ASSUME NEW n \in Nat \ {0}, Runs(used, pmm_frame_count, n) # {},
             NEW f, f = Min(Runs(used, pmm_frame_count, n))
      PROVE  /\ f \in Granted(boot)
             /\ FirstRun(used, pmm_frame_count, n) = f .. f + n - 1
             /\ f .. f + n - 1 \subseteq Free(used, pmm_frame_count)
  <2>1. f \in Runs(used, pmm_frame_count, n)
    <3>1. Runs(used, pmm_frame_count, n) \in SUBSET Nat
      BY <1>1 DEF Runs
    <3> QED BY <1>3, <3>1, MinIsLeast
  <2>2. f \in Nat /\ f + n <= pmm_frame_count /\ Run(f, n) \cap used = {}
    BY <1>1, <2>1 DEF Runs
  <2>3. Run(f, n) \subseteq Free(used, pmm_frame_count)
    BY <1>1, <2>2 DEF Free, Run
  <2>4. f \in Run(f, n)
    BY <2>2 DEF Run
  <2> QED BY <1>1, <1>3, <2>3, <2>4 DEF FirstRun, Run
<1> QED BY <1>2, <1>3, MinIsLeast

LEMMA AllocFrameInv == IInv /\ AllocFrame => IInv'
<1> SUFFICES ASSUME IInv, AllocFrame PROVE IInv'
  OBVIOUS
<1> DEFINE F == Free(used, pmm_frame_count)
<1>1. CASE F # {}
  <2>1. Take({Min(F)}) /\ {Min(F)} \subseteq F
    BY <1>1, FirstIsFree DEF AllocFrame
  <2> QED BY <2>1, TakeInv
<1>2. CASE F = {}
  BY <1>2 DEF AllocFrame, IInv, NothingLost, FreeCountExact, pmm_frame_count
<1> QED BY <1>1, <1>2

LEMMA AllocInv == ASSUME NEW n \in Nat, IInv, AllocContiguous(n) PROVE IInv'
<1> DEFINE R == Runs(used, pmm_frame_count, n)
           quiet == UNCHANGED <<boot, used, pmm_free_frames, held>>
<1>1. CASE n = 1
  BY <1>1, AllocFrameInv DEF AllocContiguous
<1>2. CASE n > 1 /\ R # {}
  <2>1. Take(FirstRun(used, pmm_frame_count, n))
    BY <1>2 DEF AllocContiguous
  <2>2. FirstRun(used, pmm_frame_count, n) \subseteq Free(used, pmm_frame_count)
    <3>1. n \in Nat \ {0}
      BY <1>2
    <3> QED BY <1>2, <3>1, FirstIsFree
  <2> QED BY <2>1, <2>2, TakeInv
<1>3. CASE n = 0 \/ (n > 1 /\ R = {})
  <2>1. quiet
    BY <1>3 DEF AllocContiguous
  <2> QED BY <2>1 DEF IInv, NothingLost, FreeCountExact, pmm_frame_count
<1> QED BY <1>1, <1>2, <1>3

(* A frame that is held has its bit set and lies below the count, so that   *)
(* the ASSERTs of pmm_free_frame never stop the machine.                    *)
LEMMA FreeInv ==
    ASSUME IInv, NEW f \in held, FreeFrame(f)
    PROVE  IInv' /\ UNCHANGED halted
<1> DEFINE G == Granted(boot)
           B == InitialBitmap(boot.map, boot.kernel)
<1>1. /\ pmm_frame_count \in Nat /\ IsFiniteSet(G) /\ G \cap B = {}
      /\ Free(used, pmm_frame_count) = G \ held
      /\ G \subseteq 0 .. pmm_frame_count - 1
  BY FreeBits DEF IInv
<1>2. f \in used /\ f < pmm_frame_count /\ f \in G
  BY <1>1 DEF IInv, NothingLost
<1>3. /\ boot' = boot /\ held' = held \ {f} /\ used' = used \ {f}
      /\ pmm_free_frames' = pmm_free_frames + 1 /\ halted' = halted
  BY <1>2 DEF FreeFrame
<1>4. NothingLost' /\ boot' \in MemoryMaps /\ held' \subseteq Granted(boot')
  BY <1>1, <1>2, <1>3 DEF IInv, NothingLost
<1>5. FreeCountExact'
  <2>1. Free(used, pmm_frame_count)' = (G \ held) \cup {f}
    <3>1. Free(used', FrameCount(boot'.map)) = (G \ held) \cup {f}
      BY <1>1, <1>2, <1>3 DEF Free, pmm_frame_count
    <3> QED BY <3>1 DEF pmm_frame_count, Free
  <2>2. IsFiniteSet(G \ held) /\ f \notin G \ held
    BY <1>1, FS_Difference
  <2>3. Cardinality((G \ held) \cup {f}) = Cardinality(G \ held) + 1
    BY <2>2, FS_AddElement
  <2> QED BY <1>1, <1>3, <2>1, <2>3 DEF FreeCountExact, IInv
<1> QED BY <1>3, <1>4, <1>5 DEF IInv

LEMMA NextInv == IInv /\ [Next]_vars => IInv'
<1> SUFFICES ASSUME IInv, [Next]_vars PROVE IInv'
  OBVIOUS
<1>1. ASSUME NEW n \in Counts, AllocContiguous(n) PROVE IInv'
  BY <1>1, AllocInv, CountAssumption
<1>2. ASSUME NEW f \in held, FreeFrame(f) PROVE IInv'
  BY <1>2, FreeInv
<1>3. CASE UNCHANGED vars
  BY <1>3 DEF vars, IInv, NothingLost, FreeCountExact, pmm_frame_count
<1> QED BY <1>1, <1>2, <1>3 DEF Next

LEMMA InvAccounts == IInv => FramesAccounted
BY MapAssumption DEF IInv, FramesAccounted, ReservedStays, Granted

(* On every machine the boot loader may describe, and after any sequence of *)
(* grants and returns, the bitmap is what the clients hold and what         *)
(* pmm_init reserved, the count is exact, and nobody holds a reserved frame.*)
THEOREM EveryFrameAccounted == Spec => []FramesAccounted
<1>1. Spec => []IInv
  BY InitInv, NextInv, PTL DEF Spec
<1> QED BY <1>1, InvAccounts, PTL
-----------------------------------------------------------------------------
(* The steps of the allocator are steps of the owner table.                 *)
LEMMA ManagedIsGranted == boot \in MemoryMaps => Managed = Granted(boot)
BY InitiallyFree DEF Managed, Free, pmm_frame_count

LEMMA InitOwners == Init => Owners!Init
BY DEF Init, Owners!Init

(* A refusal answers nothing when no run of free frames is that long.       *)
LEMMA RefuseOwners ==
    ASSUME IInv, IInv', NEW n \in Counts \cup {1}, reply' = {}, UNCHANGED <<boot, held>>,
           n = 0 \/ Runs(used, pmm_frame_count, n) = {}
    PROVE  Owners!Next
<1>1. Managed = Granted(boot) /\ Managed' = Managed
  BY ManagedIsGranted DEF IInv, Managed, pmm_frame_count
<1>2. n \in Nat
  BY CountAssumption
<1>3. n # 0 => Owners!Available(n) = {}
  <2> SUFFICES ASSUME n # 0, NEW f \in Managed, f .. f + n - 1 \subseteq Managed \ held 
               PROVE  FALSE
    BY DEF Owners!Available
  <2>1. Managed \ held = Free(used, pmm_frame_count) /\ pmm_frame_count \in Nat
    BY <1>1, FreeBits DEF IInv
  <2>2. f \in Nat /\ f + n - 1 \in f .. f + n - 1
    BY <1>2 DEF Managed
  <2>3. f + n - 1 <= pmm_frame_count - 1
    BY <2>1, <2>2 DEF Free
  <2>4. f \in Runs(used, pmm_frame_count, n)
    <3>1. Run(f, n) \cap used = {}
      BY <2>1 DEF Run, Free
    <3> QED BY <1>2, <2>1, <2>2, <2>3, <3>1 DEF Runs
  <2> QED BY <2>4
<1>4. Owners!Refuse(n)
  BY <1>1, <1>3 DEF Owners!Refuse
<1> QED BY <1>4 DEF Owners!Next

LEMMA GrantOwners ==
    ASSUME IInv, NEW n \in Counts \cup {1}, n # 0, NEW f \in Granted(boot),
           f .. f + n - 1 \subseteq Free(used, pmm_frame_count), Take(f .. f + n - 1)
    PROVE  Owners!Next
<1>1. Managed = Granted(boot) /\ Managed' = Managed
  BY ManagedIsGranted DEF IInv, Managed, pmm_frame_count, Take
<1>2. Managed \ held = Free(used, pmm_frame_count)
  BY <1>1, FreeBits DEF IInv
<1>3. Owners!Grant(n, f .. f + n - 1)
  <2>1. f .. f + n - 1 \subseteq Managed \ held
    BY <1>2
  <2>2. Owners!Consecutive(f .. f + n - 1, n)
    <3>1. n \in Nat \ {0} /\ f \in Nat
      BY <1>1, CountAssumption DEF Managed
    <3>2. f \in f .. f + n - 1
      BY <3>1
    <3> QED BY <3>2 DEF Owners!Consecutive
  <2> QED BY <1>1, <2>1, <2>2 DEF Owners!Grant, Take
<1> QED BY <1>1, <1>3 DEF Owners!Next

LEMMA AllocFrameOwners == IInv /\ IInv' /\ AllocFrame => Owners!Next
<1> SUFFICES ASSUME IInv, IInv', AllocFrame PROVE Owners!Next
  OBVIOUS
<1> DEFINE F == Free(used, pmm_frame_count)
<1>1. pmm_frame_count \in Nat /\ F = Granted(boot) \ held
  BY FreeBits DEF IInv
<1>2. CASE F # {}
  <2> DEFINE f == Min(F)
  <2>1. f \in F /\ f \in Granted(boot) /\ f \in Nat
    BY <1>1, <1>2, FirstIsFree DEF Free
  <2>2. Take({f})
    BY <1>2 DEF AllocFrame
  <2>3. {f} = f .. f + 1 - 1
    BY <2>1
  <2> HIDE DEF f, F
  <2>4. f .. f + 1 - 1 \subseteq F /\ Take(f .. f + 1 - 1)
    BY <2>1, <2>2, <2>3
  <2> USE DEF F
  <2>5. 1 # 0
    OBVIOUS
  <2> QED BY <2>1, <2>4, <2>5, GrantOwners
<1>3. CASE F = {}
  <2>1. Runs(used, pmm_frame_count, 1) = {}
    BY <1>1, <1>3 DEF Runs, Run, Free
  <2>2. reply' = {} /\ UNCHANGED <<boot, held>>
    BY <1>3 DEF AllocFrame
  <2> QED BY <2>1, <2>2, RefuseOwners
<1> QED BY <1>2, <1>3

LEMMA AllocOwners == ASSUME NEW n \in Counts, IInv, IInv', AllocContiguous(n) PROVE Owners!Next
<1> DEFINE R == Runs(used, pmm_frame_count, n)
<1> n \in Nat
  BY CountAssumption
<1>1. CASE n = 1
  BY <1>1, AllocFrameOwners DEF AllocContiguous
<1>2. CASE n > 1 /\ R # {}
  <2>1. PICK f \in Granted(boot) : /\ FirstRun(used, pmm_frame_count, n) = f .. f + n - 1
                                   /\ f .. f + n - 1 \subseteq Free(used, pmm_frame_count)
    BY <1>2, FirstIsFree
  <2>2. Take(f .. f + n - 1)
    BY <1>2, <2>1 DEF AllocContiguous
  <2>3. n # 0
    BY <1>2
  <2> QED BY <2>1, <2>2, <2>3, GrantOwners
<1>3. CASE n = 0 \/ (n > 1 /\ R = {})
  <2>1. reply' = {} /\ UNCHANGED <<boot, held>>
    BY <1>3 DEF AllocContiguous
  <2> QED BY <1>3, <2>1, RefuseOwners
<1> QED BY <1>1, <1>2, <1>3

LEMMA FreeOwners == ASSUME IInv, NEW f \in held, FreeFrame(f) PROVE Owners!Next
BY DEF Owners!Next, Owners!Return, FreeFrame, Managed, pmm_frame_count

LEMMA NextOwners == IInv /\ IInv' /\ [Next]_vars => [Owners!Next]_(Owners!vars)
<1> SUFFICES ASSUME IInv, IInv', [Next]_vars PROVE [Owners!Next]_(Owners!vars)
  OBVIOUS
<1>1. ASSUME NEW n \in Counts, AllocContiguous(n) PROVE Owners!Next
  BY <1>1, AllocOwners
<1>2. ASSUME NEW f \in held, FreeFrame(f) PROVE Owners!Next
  BY <1>2, FreeOwners
<1>3. CASE UNCHANGED vars
  BY <1>3 DEF vars, Owners!vars, Managed, pmm_frame_count
<1> QED BY <1>1, <1>2, <1>3 DEF Next

(* pmm.c keeps the promise of its clients: every grant is a run of frames   *)
(* nobody owns, and a request is refused only when there is no such run.    *)
THEOREM FramesHaveOwners == Spec => ImplementsFrameOwners
<1>1. Spec => []IInv
  BY InitInv, NextInv, PTL DEF Spec
<1> QED BY <1>1, InitOwners, NextOwners, PTL DEF Spec, ImplementsFrameOwners, Owners!Spec
-----------------------------------------------------------------------------

BlockRecord == [free : BOOLEAN, size : Nat, next : Nat, prev : Nat]
EndOf(bs, b) == b + BLOCK + bs[b].size

(* The list of blocks as local facts: links forward and back mirror each    *)
(* other and follow the addresses, and no two blocks overlap.               *)
Typed(bs) == DOMAIN bs \subseteq Nat \ {0} /\ \A b \in DOMAIN bs : bs[b] \in BlockRecord
Forward(bs) == \A b \in DOMAIN bs : bs[b].next # 0 =>
    bs[b].next \in DOMAIN bs /\ bs[b].next = EndOf(bs, b) /\ bs[bs[b].next].prev = b
Back(bs) == \A b \in DOMAIN bs : bs[b].prev # 0 => bs[b].prev \in DOMAIN bs /\ bs[bs[b].prev].next = b
Apart(bs) == \A b, c \in DOMAIN bs : b # c => EndOf(bs, b) <= c \/ EndOf(bs, c) <= b
Linked(bs) == Typed(bs) /\ Forward(bs) /\ Back(bs) /\ Apart(bs)

(* A block lies in an arena, starts it when nothing is before it, and ends  *)
(* it when nothing follows.                                                 *)
Top(a) == a.base + a.size
Placed(bs, a, b) ==
    /\ a.first <= b /\ EndOf(bs, b) <= Top(a)
    /\ bs[b].next = 0 <=> EndOf(bs, b) = Top(a)
    /\ bs[b].prev = 0 <=> b = a.first
Inside(list, bs) ==
    /\ \A b \in DOMAIN bs : \E i \in DOMAIN list : Placed(bs, list[i], b)
    /\ \A i \in DOMAIN list : list[i].first \in DOMAIN bs

OnUnit(x) == x % HEAP_ALIGN = 0
Aligned(bs) == \A b \in DOMAIN bs : OnUnit(b) /\ OnUnit(bs[b].size)
Separate(bs) == \A b \in DOMAIN bs : bs[b].free /\ bs[b].next # 0 => ~bs[bs[b].next].free
Taken(bs) == {b \in DOMAIN bs : ~bs[b].free}

(* The inductive invariant: what the allocator of frames keeps; arenas made  *)
(* of whole frames, held and disjoint; and the blocks that fill them, of    *)
(* which the clients hold the used ones.                                    *)
ArenaRecord == [base : Nat, size : Nat, first : Nat]
Paged(a) ==
    /\ a.first = a.base + Header /\ a.first < Top(a)
    /\ \E f \in Nat, n \in Nat \ {0} : a.base = f * PAGE_SIZE /\ a.size = n * PAGE_SIZE
Disjoint(list) == \A i, j \in DOMAIN list : i # j => Top(list[i]) <= list[j].base \/ Top(list[j]) <= list[i].base
Founded(list, frames) ==
    /\ list \in Seq(ArenaRecord)
    /\ \A i \in DOMAIN list : Paged(list[i]) /\ ArenaFrames(list[i]) \subseteq frames
    /\ Disjoint(list)
Laid(list, bs) == Linked(bs) /\ Inside(list, bs) /\ Aligned(bs) /\ Separate(bs)

HeapInv == IInv /\ Founded(arenas, held) /\ Laid(arenas, blocks) /\ BlocksAccounted

(* Whether a block is free does not matter to the layout.                   *)
SameLayout(bs, cs) ==
    /\ DOMAIN cs = DOMAIN bs
    /\ \A b \in DOMAIN bs : /\ cs[b] \in BlockRecord 
                            /\ cs[b].size = bs[b].size /\ cs[b].next = bs[b].next /\ cs[b].prev = bs[b].prev

LEMMA LayoutKept ==
    ASSUME NEW list, NEW bs, NEW cs, SameLayout(bs, cs), Linked(bs), Inside(list, bs), Aligned(bs)
    PROVE  Linked(cs) /\ Inside(list, cs) /\ Aligned(cs)
<1> USE DEF SameLayout
<1>1. \A b \in DOMAIN bs : EndOf(cs, b) = EndOf(bs, b)
  BY DEF EndOf
<1>2. Typed(cs) /\ Forward(cs) /\ Back(cs)
  BY <1>1 DEF Linked, Typed, Forward, Back
<1>3. Apart(cs)
  BY <1>1 DEF Linked, Apart
<1>4. Inside(list, cs)
  <2>1. ASSUME NEW b \in DOMAIN bs PROVE \E i \in DOMAIN list : Placed(cs, list[i], b)
    <3>1. PICK i \in DOMAIN list : Placed(bs, list[i], b)
      BY DEF Inside
    <3>2. Placed(cs, list[i], b)
      BY <1>1, <3>1 DEF Placed
    <3> QED BY <3>2
  <2> QED BY <2>1 DEF Inside
<1>5. Aligned(cs)
  BY DEF Aligned
<1> QED BY <1>2, <1>3, <1>4, <1>5 DEF Linked

(* Sums of multiples are multiples.                                         *)
LEMMA Multiples ==
    ASSUME NEW n \in Nat \ {0}, NEW a \in Nat, NEW b \in Nat, a % n = 0, b % n = 0
    PROVE  (a + b) % n = 0 /\ (a >= b => (a - b) % n = 0) /\ \A k \in Nat : (k * a) % n = 0
<1> DEFINE p == a \div n
           q == b \div n
<1>1. a = n * p /\ b = n * q /\ p \in Nat /\ q \in Nat
  BY Digit
<1> HIDE DEF p, q
<1>2. ASSUME NEW k \in Nat PROVE (n * k) % n = 0
  <2>1. n * k \in Nat /\ n * k = n * k + 0 /\ 0 \in 0 .. n - 1
    OBVIOUS
  <2> QED BY <2>1, QuotientUnique
<1>3. (a + b) % n = 0
  <2>1. a + b = n * (p + q) /\ p + q \in Nat
    BY <1>1
  <2> QED BY <1>2, <2>1
<1>4. a >= b => (a - b) % n = 0
  <2> SUFFICES ASSUME a >= b PROVE (a - b) % n = 0
    OBVIOUS
  <2>1. a - b = n * (p - q)
    BY <1>1
  <2>2. p - q \in Nat
    BY <1>1, ProductGrows
  <2> QED BY <1>2, <2>1, <2>2
<1>5. ASSUME NEW k \in Nat PROVE (k * a) % n = 0
  <2>1. k * a = n * (k * p) /\ k * p \in Nat
    BY <1>1
  <2> QED BY <1>2, <2>1
<1> QED BY <1>3, <1>4, <1>5

LEMMA AlignUp ==
    ASSUME NEW x \in Nat
    PROVE  ALIGN_UP(x) \in Nat /\ ALIGN_UP(x) >= x /\ OnUnit(ALIGN_UP(x))
<1> DEFINE n == HEAP_ALIGN
           y == x + n - 1
           q == y \div n
<1>1. n \in Nat \ {0} /\ y \in Nat
  BY HeapAssumption
<1>2. y = n * q + (y % n) /\ y % n \in 0 .. n - 1 /\ q \in Nat
  BY <1>1, Digit
<1>3. ALIGN_UP(x) = q * n
  BY DEF ALIGN_UP
<1> HIDE DEF n, q
<1>4. q * n = n * q /\ n * q \in Nat /\ n * q >= x
  BY <1>1, <1>2
<1>5. (n * q) % n = 0
  <2>1. n % n = 0
    BY <1>1
  <2>2. n * q = q * n
    BY <1>1, <1>2
  <2>3. \A k \in Nat : (k * n) % n = 0
    BY <1>1, <2>1, Multiples
  <2> QED BY <1>1, <1>2, <2>2, <2>3
<1> QED BY <1>3, <1>4, <1>5 DEF n, OnUnit

LEMMA UnitSums ==
    /\ BLOCK \in Nat \ {0} /\ HEAP_ALIGN \in Nat \ {0} /\ PAGE_SIZE \in Nat \ {0} /\ Header \in Nat \ {0}
    /\ OnUnit(BLOCK) /\ OnUnit(PAGE_SIZE) /\ OnUnit(Header)
    /\ \A u, v \in Nat : OnUnit(u) /\ OnUnit(v) => OnUnit(u + v) /\ (u >= v => OnUnit(u - v)) /\ OnUnit(v * u)
<1>1. BLOCK \in Nat \ {0} /\ HEAP_ALIGN \in Nat \ {0} /\ PAGE_SIZE \in Nat \ {0} /\ ARENA \in Nat \ {0}
  BY HeapAssumption, PageAssumption
<1>2. OnUnit(BLOCK) /\ OnUnit(PAGE_SIZE)
  BY HeapAssumption DEF OnUnit
<1>3. Header \in Nat \ {0} /\ OnUnit(Header)
  <2>1. ALIGN_UP(ARENA) \in Nat /\ ALIGN_UP(ARENA) >= ARENA /\ OnUnit(ALIGN_UP(ARENA))
    BY <1>1, AlignUp
  <2> QED BY <1>1, <2>1 DEF Header
<1>4. ASSUME NEW u \in Nat, NEW v \in Nat, OnUnit(u), OnUnit(v)
      PROVE  OnUnit(u + v) /\ (u >= v => OnUnit(u - v)) /\ OnUnit(v * u)
  BY <1>1, <1>4, Multiples DEF OnUnit
<1> QED BY <1>1, <1>2, <1>3, <1>4

LEMMA ArenasTyped ==
    ASSUME NEW list \in Seq(ArenaRecord)
    PROVE  \A i \in DOMAIN list : list[i].base \in Nat /\ list[i].size \in Nat /\ list[i].first \in Nat /\ Top(list[i]) \in Nat
<1> SUFFICES ASSUME NEW i \in DOMAIN list 
             PROVE  list[i].base \in Nat /\ list[i].size \in Nat /\ list[i].first \in Nat /\ Top(list[i]) \in Nat
  OBVIOUS
<1>1. list[i] \in ArenaRecord
  OBVIOUS
<1> QED BY <1>1 DEF ArenaRecord, Top
-----------------------------------------------------------------------------
LEMMA Widths == /\ BLOCK \in Nat \ {0} /\ HEAP_ALIGN \in Nat \ {0} 
                /\ PAGE_SIZE \in Nat \ {0} /\ Header \in Nat \ {0}
BY UnitSums

LEMMA ArenasPaged ==
    ASSUME NEW list \in Seq(ArenaRecord), \A i \in DOMAIN list : Paged(list[i])
    PROVE  \A i \in DOMAIN list : list[i].base < list[i].first /\ list[i].first < Top(list[i])
<1> SUFFICES ASSUME NEW i \in DOMAIN list 
             PROVE  list[i].base < list[i].first /\ list[i].first < Top(list[i])
  OBVIOUS
<1>1. list[i].base \in Nat /\ list[i].first = list[i].base + Header /\ list[i].first < Top(list[i])
  BY ArenasTyped DEF Paged
<1> QED BY <1>1, Widths

(* A split leaves the list as it was, with one block more.                  *)
IsSplit(bs, cs, b, new, size) ==
    /\ b \in DOMAIN bs /\ new \notin DOMAIN bs /\ new \in Nat \ {0} /\ DOMAIN cs = DOMAIN bs \cup {new}
    /\ cs[new].free /\ cs[new].size = bs[b].size - size - BLOCK /\ cs[new].next = bs[b].next /\ cs[new].prev = b
    /\ cs[b].free = bs[b].free /\ cs[b].size = size /\ cs[b].next = new /\ cs[b].prev = bs[b].prev
    /\ \A x \in DOMAIN bs \ {b} : 
        /\ cs[x].free = bs[x].free /\ cs[x].size = bs[x].size /\ cs[x].next = bs[x].next
        /\ cs[x].prev = IF x = bs[b].next THEN new ELSE bs[x].prev

LEMMA SplitLinked ==
    ASSUME NEW bs, NEW b \in DOMAIN bs, NEW size \in Nat, Linked(bs), bs[b].size - size >= BLOCK + HEAP_ALIGN
    PROVE  IsSplit(bs, Split(bs, b, size), b, b + BLOCK + size, size) /\ Linked(Split(bs, b, size))
<1> DEFINE new == b + BLOCK + size
           cs == Split(bs, b, size)
<1>1. BLOCK \in Nat \ {0} /\ HEAP_ALIGN \in Nat \ {0} /\ b \in Nat \ {0} /\ bs[b] \in BlockRecord
  BY HeapAssumption DEF Linked, Typed
<1>2. new \in Nat \ {0} /\ b < new /\ new + BLOCK < EndOf(bs, b)
  BY <1>1 DEF EndOf, BlockRecord
<1>3. new \notin DOMAIN bs
  <2> SUFFICES ASSUME new \in DOMAIN bs PROVE FALSE
    OBVIOUS
  <2>1. EndOf(bs, b) <= new \/ EndOf(bs, new) <= b
    BY <1>1, <1>2 DEF Linked, Apart
  <2>2. EndOf(bs, new) >= new /\ EndOf(bs, new) \in Nat /\ EndOf(bs, b) \in Nat
    BY <1>1, <1>2 DEF Linked, Typed, BlockRecord, EndOf
  <2> QED BY <1>1, <1>2, <2>1, <2>2
<1>4. cs = [x \in DOMAIN bs \cup {new} |->
              CASE x = new -> [free |-> TRUE, size |-> bs[b].size - size - BLOCK, next |-> bs[b].next, prev |-> b]
                [] x = b -> [bs[b] EXCEPT !.next = new, !.size = size]
                [] x = bs[b].next -> [bs[x] EXCEPT !.prev = new]
                [] OTHER -> bs[x]]
  BY <1>1 DEF Split, BlockRecord
<1>5. bs[b].next # b /\ bs[b].prev # b /\ new # b /\ new # bs[b].next
  <2>1. bs[b].next # 0 => bs[b].next = EndOf(bs, b)
    BY DEF Linked, Forward
  <2>2. bs[b].prev # b
    BY <1>1, <1>2, <2>1 DEF Linked, Back
  <2> QED BY <1>1, <1>2, <2>1, <2>2
<1> HIDE DEF cs
<1>6. /\ DOMAIN cs = DOMAIN bs \cup {new}
      /\ cs[new] = [free |-> TRUE, size |-> bs[b].size - size - BLOCK, next |-> bs[b].next, prev |-> b]
      /\ cs[b] = [bs[b] EXCEPT !.next = new, !.size = size]
      /\ \A x \in DOMAIN bs \ {b} : cs[x] = IF x = bs[b].next THEN [bs[x] EXCEPT !.prev = new] ELSE bs[x]
  <2> HIDE DEF new
  <2>1. DOMAIN cs = DOMAIN bs \cup {new} /\ new \notin DOMAIN bs
    BY <1>3, <1>4
  <2>2. cs[new] = [free |-> TRUE, size |-> bs[b].size - size - BLOCK, next |-> bs[b].next, prev |-> b]
    BY <1>4, <1>5
  <2>3. cs[b] = [bs[b] EXCEPT !.next = new, !.size = size]
    BY <1>4, <1>5
  <2>4. \A x \in DOMAIN bs \ {b} : cs[x] = IF x = bs[b].next THEN [bs[x] EXCEPT !.prev = new] ELSE bs[x]
    BY <1>4, <2>1
  <2> QED BY <2>1, <2>2, <2>3, <2>4
<1>7. /\ cs[new].free /\ cs[new].size = bs[b].size - size - BLOCK
      /\ cs[new].next = bs[b].next /\ cs[new].prev = b
      /\ cs[b].free = bs[b].free /\ cs[b].size = size /\ cs[b].next = new /\ cs[b].prev = bs[b].prev
  BY <1>1, <1>6 DEF BlockRecord
<1>8. \A x \in DOMAIN bs \ {b} : 
        /\ cs[x] \in BlockRecord /\ cs[x].free = bs[x].free /\ cs[x].size = bs[x].size /\ cs[x].next = bs[x].next
        /\ cs[x].prev = IF x = bs[b].next THEN new ELSE bs[x].prev
  <2> SUFFICES ASSUME NEW x \in DOMAIN bs \ {b}
               PROVE  /\ cs[x] \in BlockRecord /\ cs[x].free = bs[x].free /\ cs[x].size = bs[x].size 
                      /\ cs[x].next = bs[x].next /\ cs[x].prev = IF x = bs[b].next THEN new ELSE bs[x].prev
    OBVIOUS
  <2>1. bs[x] \in BlockRecord
    BY DEF Linked, Typed
  <2> QED BY <1>2, <1>6, <2>1 DEF BlockRecord
<1>9. Typed(cs)
  <2>1. bs[b].size - size - BLOCK \in Nat /\ bs[b].next \in Nat /\ new \in Nat
    BY <1>1, <1>2 DEF BlockRecord
  <2> HIDE DEF new
  <2>2. cs[new] \in BlockRecord
    BY <1>1, <1>6, <2>1 DEF BlockRecord
  <2>3. cs[b] \in BlockRecord
    BY <1>1, <1>6, <2>1 DEF BlockRecord
  <2> QED BY <1>2, <1>6, <1>8, <2>2, <2>3 DEF Linked, Typed
<1>10. /\ EndOf(cs, new) = EndOf(bs, b) /\ EndOf(cs, b) = new
       /\ \A x \in DOMAIN bs \ {b} : EndOf(cs, x) = EndOf(bs, x)
  BY <1>1, <1>7, <1>8 DEF EndOf, BlockRecord
<1> HIDE DEF new
<1>11. Forward(cs)
  <2> SUFFICES ASSUME NEW x \in DOMAIN cs, cs[x].next # 0
               PROVE  cs[x].next \in DOMAIN cs /\ cs[x].next = EndOf(cs, x) /\ cs[cs[x].next].prev = x
    BY DEF Forward
  <2>1. CASE x = new
    BY <1>3, <1>5, <1>6, <1>7, <1>8, <1>10, <2>1 DEF Linked, Forward
  <2>2. CASE x = b
    BY <1>6, <1>7, <1>10, <2>2
  <2>3. CASE x \in DOMAIN bs \ {b}
    <3>1. cs[x].next = bs[x].next /\ bs[x].next \in DOMAIN bs /\ bs[x].next = EndOf(cs, x) /\ bs[bs[x].next].prev = x
      BY <1>8, <1>10, <2>3 DEF Linked, Forward
    <3>2. bs[b].next # 0 => bs[bs[b].next].prev = b
      BY DEF Linked, Forward
    <3>3. bs[x].next # bs[b].next
      BY <2>3, <3>1, <3>2, <1>8
    <3>4. cs[bs[x].next].prev = x
      BY <1>7, <1>8, <3>1, <3>3
    <3> QED BY <1>6, <3>1, <3>4
  <2> QED BY <1>6, <2>1, <2>2, <2>3
<1>12. Back(cs)
  <2> SUFFICES ASSUME NEW x \in DOMAIN cs, cs[x].prev # 0
               PROVE  cs[x].prev \in DOMAIN cs /\ cs[cs[x].prev].next = x
    BY DEF Back
  <2>1. CASE x = new
    BY <1>6, <1>7, <2>1
  <2>2. CASE x = b
    <3>1. cs[b].prev = bs[b].prev /\ bs[b].prev \in DOMAIN bs \ {b} /\ bs[bs[b].prev].next = b
      BY <1>5, <1>7, <2>2 DEF Linked, Back
    <3> QED BY <1>6, <1>8, <2>2, <3>1
  <2>3. CASE x \in DOMAIN bs \ {b} /\ x = bs[b].next
    BY <1>6, <1>7, <1>8, <2>3
  <2>4. CASE x \in DOMAIN bs \ {b} /\ x # bs[b].next
    <3>1. cs[x].prev = bs[x].prev /\ bs[x].prev \in DOMAIN bs /\ bs[bs[x].prev].next = x
      BY <1>8, <2>4 DEF Linked, Back
    <3>2. bs[x].prev # b
      BY <2>4, <3>1
    <3> QED BY <1>6, <1>8, <3>1, <3>2
  <2> QED BY <1>6, <2>1, <2>2, <2>3, <2>4
<1>13. Apart(cs)
  <2> SUFFICES ASSUME NEW x \in DOMAIN cs, NEW y \in DOMAIN cs, x # y
               PROVE  EndOf(cs, x) <= y \/ EndOf(cs, y) <= x
    BY DEF Apart
  <2>1. \A z \in DOMAIN bs : z \in Nat /\ EndOf(bs, z) \in Nat
    BY <1>1 DEF Linked, Typed, BlockRecord, EndOf
  <2>2. \A z \in DOMAIN bs \ {b} : EndOf(bs, b) <= z \/ EndOf(bs, z) <= b
    BY DEF Linked, Apart
  <2>3. CASE x \in DOMAIN bs \ {b} /\ y \in DOMAIN bs \ {b}
    BY <1>10, <2>3 DEF Linked, Apart
  <2>4. CASE x \in {b, new} /\ y \in {b, new}
    BY <1>2, <1>10, <2>1, <2>4
  <2>5. CASE x \in {b, new} /\ y \in DOMAIN bs \ {b}
    BY <1>1, <1>2, <1>10, <2>1, <2>2, <2>5
  <2>6. CASE y \in {b, new} /\ x \in DOMAIN bs \ {b}
    BY <1>1, <1>2, <1>10, <2>1, <2>2, <2>6
  <2> QED BY <1>6, <2>3, <2>4, <2>5, <2>6
<1> QED BY <1>2, <1>3, <1>6, <1>7, <1>8, <1>9, <1>11, <1>12, <1>13 DEF Linked, new, cs, IsSplit

(* A split keeps every block in its arena, aligned, ...                     *)
LEMMA SplitLaid ==
    ASSUME NEW list, NEW bs, NEW b \in DOMAIN bs, NEW size \in Nat, Linked(bs), Inside(list, bs), Aligned(bs),
           list \in Seq(ArenaRecord), bs[b].size - size >= BLOCK + HEAP_ALIGN, OnUnit(size)
    PROVE  Inside(list, Split(bs, b, size)) /\ Aligned(Split(bs, b, size))
<1> DEFINE cs == Split(bs, b, size)
           new == b + BLOCK + size
<1>1. IsSplit(bs, cs, b, new, size)
  BY SplitLinked
<1> USE DEF IsSplit
<1>2. /\ BLOCK \in Nat \ {0} /\ HEAP_ALIGN \in Nat \ {0}
      /\ b \in Nat \ {0} /\ bs[b].size \in Nat
  BY HeapAssumption DEF Linked, Typed, BlockRecord
<1> DEFINE E(x) == EndOf(bs, x)
<1>3. /\ EndOf(cs, new) = E(b) /\ EndOf(cs, b) = new /\ new < E(b) /\ E(b) \in Nat
      /\ \A x \in DOMAIN bs \ {b} : EndOf(cs, x) = E(x)
  BY <1>1, <1>2 DEF EndOf
<1>4. \A i \in DOMAIN list : list[i].base \in Nat /\ list[i].size \in Nat /\ list[i].first \in Nat /\ Top(list[i]) \in Nat
  BY ArenasTyped
<1>5. PICK i \in DOMAIN list : Placed(bs, list[i], b)
  BY DEF Inside
<1> HIDE DEF cs, new
<1>6. Placed(cs, list[i], b)
  BY <1>1, <1>2, <1>3, <1>4, <1>5 DEF Placed
<1>7. Placed(cs, list[i], new)
  <2>1. list[i].first <= b /\ b < new
    BY <1>2, <1>5 DEF Placed, new
  <2> QED BY <1>1, <1>2, <1>3, <1>4, <1>5, <2>1 DEF Placed
<1>8. ASSUME NEW x \in DOMAIN bs \ {b} PROVE \E k \in DOMAIN list : Placed(cs, list[k], x)
  <2>1. PICK k \in DOMAIN list : Placed(bs, list[k], x)
    BY DEF Inside
  <2>2. x = bs[b].next => bs[x].prev = b
    BY DEF Linked, Forward
  <2>3. cs[x].prev = 0 <=> bs[x].prev = 0
    BY <1>1, <1>2, <2>2
  <2>4. Placed(cs, list[k], x)
    BY <1>1, <1>3, <2>1, <2>3 DEF Placed
  <2> QED BY <2>4
<1>9. Inside(list, cs)
  BY <1>1, <1>6, <1>7, <1>8 DEF Inside
<1>10. Aligned(cs)
  <2>1. OnUnit(b) /\ OnUnit(bs[b].size)
    BY DEF Aligned
  <2>2. /\ OnUnit(BLOCK)
        /\ \A u, v \in Nat : OnUnit(u) /\ OnUnit(v) => OnUnit(u + v) /\ (u >= v => OnUnit(u - v))
    BY UnitSums
  <2>3. OnUnit(BLOCK + size) /\ BLOCK + size \in Nat
    BY <1>2, <2>2
  <2>4. OnUnit(new)
    <3>1. new = b + (BLOCK + size)
      BY <1>2 DEF new
    <3> QED BY <1>2, <2>1, <2>2, <2>3, <3>1
  <2>5. OnUnit(bs[b].size - (BLOCK + size))
    <3>1. bs[b].size >= BLOCK + size
      BY <1>2
    <3> QED BY <1>2, <2>1, <2>2, <2>3, <3>1
  <2>6. OnUnit(cs[new].size)
    <3>1. cs[new].size = bs[b].size - (BLOCK + size)
      BY <1>1, <1>2
    <3> QED BY <2>5, <3>1
  <2> QED BY <1>1, <2>1, <2>4, <2>6 DEF Aligned
<1> QED BY <1>9, <1>10 DEF cs

(* ... and, once the block is in use, no two free ones side by side: what   *)
(* kmalloc does to the block it has found.                                  *)
LEMMA GiveLaid ==
    ASSUME NEW list \in Seq(ArenaRecord), NEW bs, NEW size \in Nat, NEW b \in Fitting(bs, size), 
           Laid(list, bs), OnUnit(size)
    PROVE  LET cs == [Split(bs, b, size) EXCEPT ![b].free = FALSE]
           IN  /\ Laid(list, cs)
               /\ Taken(cs) = Taken(bs) \cup {b} /\ b \notin Taken(bs) /\ b \in DOMAIN cs
               /\ \A x \in Taken(bs) : cs[x].size = bs[x].size
               /\ cs[b].size >= size
<1> DEFINE ds == Split(bs, b, size)
           cs == [ds EXCEPT ![b].free = FALSE]
           new == b + BLOCK + size
<1>0. b \in DOMAIN bs /\ bs[b].free /\ bs[b].size >= size /\ b \notin Taken(bs) /\ bs[b].size \in Nat
  BY DEF Fitting, Taken, Laid, Linked, Typed, BlockRecord
<1>1. BLOCK \in Nat \ {0} /\ HEAP_ALIGN \in Nat \ {0}
  BY HeapAssumption
<1>2. ASSUME NEW es, Linked(es), b \in DOMAIN es PROVE SameLayout(es, [es EXCEPT ![b].free = FALSE])
  BY <1>2 DEF SameLayout, Linked, Typed, BlockRecord
<1>3. CASE bs[b].size - size < BLOCK + HEAP_ALIGN
  <2>1. cs = [bs EXCEPT ![b].free = FALSE]
    BY <1>3 DEF Split
  <2> HIDE DEF cs
  <2>2. SameLayout(bs, cs)
    BY <1>0, <1>2, <2>1 DEF Laid
  <2>3. Linked(cs) /\ Inside(list, cs) /\ Aligned(cs)
    BY <2>2, LayoutKept DEF Laid
  <2>4. cs[b].free = FALSE /\ (\A x \in DOMAIN bs \ {b} : cs[x].free = bs[x].free) /\ DOMAIN cs = DOMAIN bs
    BY <1>0, <2>1 DEF Laid, Linked, Typed, BlockRecord
  <2>5. Separate(cs)
    <3>1. \A x \in DOMAIN bs : bs[x].next # 0 => bs[x].next \in DOMAIN bs
      BY DEF Laid, Linked, Forward
    <3>2. \A x \in DOMAIN bs : cs[x].next = bs[x].next
      BY <2>2 DEF SameLayout
    <3> QED BY <2>4, <3>1, <3>2 DEF Laid, Separate
  <2>6. Taken(cs) = Taken(bs) \cup {b}
    BY <1>0, <2>4 DEF Taken
  <2>7. \A x \in DOMAIN bs : cs[x].size = bs[x].size
    BY <2>2 DEF SameLayout
  <2> QED BY <1>0, <2>3, <2>4, <2>5, <2>6, <2>7 DEF Laid, Taken, cs
<1>4. CASE ~(bs[b].size - size < BLOCK + HEAP_ALIGN)
  <2>0. bs[b].size - size >= BLOCK + HEAP_ALIGN
    BY <1>0, <1>1, <1>4
  <2>1. IsSplit(bs, ds, b, new, size) /\ Linked(ds)
    BY <1>0, <2>0, SplitLinked DEF Laid
  <2>2. Inside(list, ds) /\ Aligned(ds)
    BY <1>0, <2>0, SplitLaid DEF Laid
  <2> HIDE DEF ds, new
  <2> USE DEF IsSplit
  <2>3. SameLayout(ds, cs)
    BY <1>0, <1>2, <2>1
  <2>4. Linked(cs) /\ Inside(list, cs) /\ Aligned(cs)
    BY <2>1, <2>2, <2>3, LayoutKept
  <2>5. /\ DOMAIN cs = DOMAIN bs \cup {new} /\ cs[b].free = FALSE /\ cs[new].free
        /\ \A x \in DOMAIN bs \ {b} : cs[x].free = bs[x].free
    <3>1. ds[b] \in BlockRecord /\ b # new
      BY <1>0, <2>1 DEF Linked, Typed
    <3> QED BY <1>0, <2>1, <3>1 DEF BlockRecord
  <2>6. \A x \in DOMAIN ds : cs[x].next = ds[x].next /\ cs[x].size = ds[x].size
    BY <2>3 DEF SameLayout
  <2> HIDE DEF cs
  <2>7. Separate(cs)
    <3>1. \A x \in DOMAIN bs : bs[x].next # 0 => bs[x].next \in DOMAIN bs
      BY DEF Laid, Linked, Forward
    <3>2. \A x \in DOMAIN bs : bs[x].free /\ bs[x].next # 0 => ~bs[bs[x].next].free
      BY DEF Laid, Separate
    <3>3. bs[b].next # b
      <4>1. b \in Nat
        BY <1>0 DEF Laid, Linked, Typed
      <4> QED BY <1>0, <1>1, <4>1 DEF Laid, Linked, Forward, EndOf
    <3>4. ASSUME NEW x \in DOMAIN cs, cs[x].free, cs[x].next # 0 PROVE ~cs[cs[x].next].free
      <4>1. CASE x = new
        BY <1>0, <2>1, <2>5, <2>6, <3>1, <3>2, <3>3, <3>4, <4>1
      <4>2. CASE x \in DOMAIN bs \ {b}
        BY <2>1, <2>5, <2>6, <3>1, <3>2, <3>4, <4>2
      <4> QED BY <2>5, <3>4, <4>1, <4>2
    <3> QED BY <3>4 DEF Separate
  <2>8. Taken(cs) = Taken(bs) \cup {b}
    BY <1>0, <2>1, <2>5 DEF Taken
  <2>9. (\A x \in Taken(bs) : cs[x].size = bs[x].size) /\ cs[b].size = size
    BY <1>0, <2>1, <2>6 DEF Taken
  <2>10. Laid(list, cs) /\ b \in DOMAIN cs /\ cs[b].size >= size
    BY <1>0, <2>4, <2>5, <2>7, <2>9 DEF Laid
  <2> QED BY <1>0, <2>8, <2>9, <2>10 DEF cs, ds
<1> QED BY <1>3, <1>4
-----------------------------------------------------------------------------
(* A merge takes the header of the next block out of the list.              *)
IsMerge(bs, cs, b, n) ==
    /\ b \in DOMAIN bs /\ n \in DOMAIN bs \ {b} /\ DOMAIN cs = DOMAIN bs \ {n}
    /\ n = EndOf(bs, b) /\ bs[n].next \notin {b, n} /\ bs[b].next = n /\ bs[n].prev = b
    /\ cs[b].free = bs[b].free /\ cs[b].size = bs[b].size + BLOCK + bs[n].size
    /\ cs[b].next = bs[n].next /\ cs[b].prev = bs[b].prev
    /\ \A x \in DOMAIN cs \ {b} : 
        /\ cs[x].free = bs[x].free /\ cs[x].size = bs[x].size /\ cs[x].next = bs[x].next
        /\ cs[x].prev = IF x = bs[n].next THEN b ELSE bs[x].prev

LEMMA MergeLinked ==
    ASSUME NEW bs, NEW b \in DOMAIN bs, Linked(bs), bs[b].next # 0
    PROVE  IsMerge(bs, Merge(bs, b), b, bs[b].next) /\ Linked(Merge(bs, b))
<1> DEFINE n == bs[b].next
           cs == Merge(bs, b)
<1>1. BLOCK \in Nat \ {0} /\ \A x \in DOMAIN bs : x \in Nat \ {0} /\ bs[x] \in BlockRecord
  BY HeapAssumption DEF Linked, Typed
<1>2. n \in DOMAIN bs /\ n = EndOf(bs, b) /\ bs[n].prev = b
  BY DEF Linked, Forward
<1>3. \A x \in DOMAIN bs : x < EndOf(bs, x) /\ EndOf(bs, x) \in Nat
  BY <1>1 DEF BlockRecord, EndOf
<1>4. n # b /\ b < n /\ bs[n].next # b /\ bs[n].next # n
  <2>1. bs[n].next # 0 => bs[n].next = EndOf(bs, n)
    BY <1>2 DEF Linked, Forward
  <2> QED BY <1>1, <1>2, <1>3, <2>1
<1>5. cs = [x \in DOMAIN bs \ {n} |->
              CASE x = b -> [bs[b] EXCEPT !.size = @ + BLOCK + bs[n].size, !.next = bs[n].next]
                [] x = bs[n].next -> [bs[x] EXCEPT !.prev = b]
                [] OTHER -> bs[x]]
  BY DEF Merge
<1> HIDE DEF cs, n
<1>6. /\ DOMAIN cs = DOMAIN bs \ {n}
      /\ cs[b] = [bs[b] EXCEPT !.size = @ + BLOCK + bs[n].size, !.next = bs[n].next]
      /\ \A x \in DOMAIN cs \ {b} : cs[x] = IF x = bs[n].next THEN [bs[x] EXCEPT !.prev = b] ELSE bs[x]
  BY <1>4, <1>5
<1>7. /\ cs[b].free = bs[b].free /\ cs[b].size = bs[b].size + BLOCK + bs[n].size
      /\ cs[b].next = bs[n].next /\ cs[b].prev = bs[b].prev /\ cs[b] \in BlockRecord
  <2>1. bs[b] \in BlockRecord /\ bs[n] \in BlockRecord
    BY <1>1, <1>2
  <2>2. bs[b].size + BLOCK + bs[n].size \in Nat /\ bs[n].next \in Nat
    BY <1>1, <2>1 DEF BlockRecord
  <2> QED BY <1>6, <2>1, <2>2 DEF BlockRecord
<1>8. \A x \in DOMAIN cs \ {b} :
        /\ cs[x] \in BlockRecord /\ cs[x].free = bs[x].free /\ cs[x].size = bs[x].size /\ cs[x].next = bs[x].next
        /\ cs[x].prev = IF x = bs[n].next THEN b ELSE bs[x].prev
  <2> SUFFICES ASSUME NEW x \in DOMAIN cs \ {b}
               PROVE  /\ cs[x] \in BlockRecord /\ cs[x].free = bs[x].free /\ cs[x].size = bs[x].size 
                      /\ cs[x].next = bs[x].next /\ cs[x].prev = IF x = bs[n].next THEN b ELSE bs[x].prev
    OBVIOUS
  <2>1. bs[x] \in BlockRecord /\ b \in Nat
    BY <1>1, <1>6
  <2> QED BY <1>6, <2>1 DEF BlockRecord
<1>9. IsMerge(bs, cs, b, n)
  BY <1>2, <1>4, <1>6, <1>7, <1>8 DEF IsMerge, n
<1>10. Typed(cs)
  BY <1>1, <1>6, <1>7, <1>8 DEF Typed
<1>11. EndOf(cs, b) = EndOf(bs, n) /\ \A x \in DOMAIN cs \ {b} : EndOf(cs, x) = EndOf(bs, x)
  <2>1. bs[b].size \in Nat /\ bs[n].size \in Nat /\ b \in Nat
    BY <1>1, <1>2 DEF BlockRecord
  <2> QED BY <1>1, <1>2, <1>7, <1>8, <2>1 DEF EndOf
<1>12. Forward(cs)
  <2> SUFFICES ASSUME NEW x \in DOMAIN cs, cs[x].next # 0
               PROVE  cs[x].next \in DOMAIN cs /\ cs[x].next = EndOf(cs, x) /\ cs[cs[x].next].prev = x
    BY DEF Forward
  <2>1. CASE x = b
    <3>1. bs[n].next \in DOMAIN bs /\ bs[n].next = EndOf(bs, n) /\ bs[n].next \in DOMAIN cs \ {b}
      BY <1>2, <1>4, <1>6, <1>7, <2>1 DEF Linked, Forward
    <3> QED BY <1>7, <1>8, <1>11, <2>1, <3>1
  <2>2. CASE x # b
    <3>1. /\ cs[x].next = bs[x].next /\ bs[x].next \in DOMAIN bs /\ bs[x].next = EndOf(cs, x)
          /\ bs[bs[x].next].prev = x
      BY <1>6, <1>8, <1>11, <2>2 DEF Linked, Forward
    <3>2. bs[x].next # n /\ bs[x].next # bs[n].next
      <4>1. bs[n].next # 0 => bs[bs[n].next].prev = n
        BY <1>2 DEF Linked, Forward
      <4> QED BY <1>2, <1>6, <1>8, <2>2, <3>1, <4>1
    <3>3. cs[bs[x].next].prev = x
      BY <1>6, <1>7, <1>8, <3>1, <3>2
    <3> QED BY <1>6, <3>1, <3>2, <3>3
  <2> QED BY <2>1, <2>2
<1>13. Back(cs)
  <2> SUFFICES ASSUME NEW x \in DOMAIN cs, cs[x].prev # 0
               PROVE  cs[x].prev \in DOMAIN cs /\ cs[cs[x].prev].next = x
    BY DEF Back
  <2>1. CASE x # b /\ x = bs[n].next
    BY <1>4, <1>6, <1>7, <1>8, <2>1
  <2>2. CASE x = b \/ x # bs[n].next
    <3>1. cs[x].prev = bs[x].prev /\ bs[x].prev \in DOMAIN bs /\ bs[bs[x].prev].next = x
      <4>1. x \in DOMAIN bs /\ cs[x].prev = bs[x].prev
        BY <1>6, <1>7, <1>8, <2>2
      <4>2. \A y \in DOMAIN bs : bs[y].prev # 0 => bs[y].prev \in DOMAIN bs /\ bs[bs[y].prev].next = y
        BY DEF Linked, Back
      <4> QED BY <4>1, <4>2
    <3>2. bs[x].prev # n
      BY <1>4, <2>2, <3>1
    <3>3. bs[x].prev # b
      BY <1>2, <1>6, <3>1 DEF n
    <3> QED BY <1>6, <1>8, <3>1, <3>2, <3>3
  <2> QED BY <2>1, <2>2
<1>14. Apart(cs)
  <2> SUFFICES ASSUME NEW x \in DOMAIN cs, NEW y \in DOMAIN cs, x # y
               PROVE  EndOf(cs, x) <= y \/ EndOf(cs, y) <= x
    BY DEF Apart
  <2>1. \A u, v \in DOMAIN bs : u # v => EndOf(bs, u) <= v \/ EndOf(bs, v) <= u
    BY DEF Linked, Apart
  <2>2. CASE x # b /\ y # b
    BY <1>6, <1>11, <2>1, <2>2
  <2>3. ASSUME NEW z \in DOMAIN cs \ {b} PROVE EndOf(cs, b) <= z \/ EndOf(cs, z) <= b
    <3>1. z \in DOMAIN bs /\ z # n /\ z # b /\ EndOf(cs, z) = EndOf(bs, z)
      BY <1>6, <1>11
    <3>2. EndOf(bs, b) <= z \/ EndOf(bs, z) <= b
      BY <2>1, <3>1
    <3>3. EndOf(bs, n) <= z \/ EndOf(bs, z) <= n
      BY <1>2, <2>1, <3>1
    <3>4. z \in Nat /\ n \in Nat /\ b \in Nat /\ EndOf(bs, z) \in Nat /\ z < EndOf(bs, z) /\ EndOf(bs, n) \in Nat
      BY <1>1, <1>2, <1>3, <3>1
    <3> QED BY <1>2, <1>11, <3>1, <3>2, <3>3, <3>4
  <2> QED BY <2>2, <2>3
<1> QED BY <1>9, <1>10, <1>12, <1>13, <1>14 DEF Linked, n, cs

(* The merged block stays in the arena of both, because arenas are disjoint.*)
LEMMA MergeLaid ==
    ASSUME NEW list \in Seq(ArenaRecord), Disjoint(list), NEW bs, NEW b \in DOMAIN bs, 
           Linked(bs), Inside(list, bs), Aligned(bs), bs[b].next # 0, \A i \in DOMAIN list : Paged(list[i])
    PROVE  Inside(list, Merge(bs, b)) /\ Aligned(Merge(bs, b))
<1> DEFINE n == bs[b].next
           cs == Merge(bs, b)
<1>1. IsMerge(bs, cs, b, n)
  BY MergeLinked
<1>2. n \in DOMAIN bs /\ n = EndOf(bs, b) /\ bs[n].prev = b
  BY DEF Linked, Forward
<1>3. \A x \in DOMAIN bs : x \in Nat \ {0} /\ bs[x].size \in Nat /\ EndOf(bs, x) \in Nat /\ x < EndOf(bs, x)
  BY Widths DEF Linked, Typed, BlockRecord, EndOf
<1> HIDE DEF cs, n
<1> USE DEF IsMerge
<1>4. EndOf(cs, b) = EndOf(bs, n) /\ \A x \in DOMAIN cs \ {b} : EndOf(cs, x) = EndOf(bs, x)
  <2>1. BLOCK \in Nat
    BY Widths
  <2> QED BY <1>1, <1>2, <1>3, <2>1 DEF EndOf
<1>5. \A i \in DOMAIN list : /\ list[i].base \in Nat /\ list[i].size \in Nat /\ list[i].first \in Nat 
                             /\ Top(list[i]) \in Nat
  BY ArenasTyped
<1>6. \A i \in DOMAIN list : list[i].base < list[i].first /\ list[i].first < Top(list[i])
  BY ArenasPaged
<1>7. PICK i \in DOMAIN list : Placed(bs, list[i], b)
  BY DEF Inside
<1>8. PICK j \in DOMAIN list : Placed(bs, list[j], n)
  BY <1>2 DEF Inside
<1>9. i = j
  <2>1. list[i].first <= b /\ n < Top(list[i])
    BY <1>1, <1>2, <1>3, <1>5, <1>7 DEF Placed
  <2>2. list[j].first <= n /\ EndOf(bs, n) <= Top(list[j])
    BY <1>8 DEF Placed
  <2> QED BY <1>2, <1>3, <1>5, <1>6, <2>1, <2>2 DEF Disjoint
<1>10. Placed(cs, list[i], b)
  BY <1>1, <1>4, <1>7, <1>8, <1>9 DEF Placed
<1>11. ASSUME NEW x \in DOMAIN cs \ {b} PROVE \E k \in DOMAIN list : Placed(cs, list[k], x)
  <2>1. PICK k \in DOMAIN list : Placed(bs, list[k], x)
    BY <1>1 DEF Inside
  <2>2. x = bs[n].next => bs[x].prev = n
    BY <1>1, <1>2, <1>3 DEF Linked, Forward
  <2>3. cs[x].prev = 0 <=> bs[x].prev = 0
    BY <1>1, <1>3, <2>2
  <2>4. Placed(cs, list[k], x)
    BY <1>1, <1>4, <2>1, <2>3 DEF Placed
  <2> QED BY <2>4
<1>12. Inside(list, cs)
  <2>1. ASSUME NEW k \in DOMAIN list PROVE list[k].first \in DOMAIN cs
    <3>1. list[k].first \in DOMAIN bs
      BY DEF Inside
    <3>2. ASSUME list[k].first = n PROVE FALSE
      <4>1. list[j].first <= n /\ EndOf(bs, n) <= Top(list[j])
        BY <1>8 DEF Placed
      <4>2. k = j
        <5>1. list[k].base < n /\ n < Top(list[k])
          BY <1>6, <3>2
        <5>2. list[j].base < n /\ n < Top(list[j])
          BY <1>2, <1>3, <1>5, <1>6, <4>1
        <5>3. k # j => Top(list[k]) <= list[j].base \/ Top(list[j]) <= list[k].base
          BY DEF Disjoint
        <5> QED BY <1>2, <1>3, <1>5, <5>1, <5>2, <5>3
      <4> QED BY <1>2, <1>3, <1>8, <3>2, <4>2 DEF Placed
    <3> QED BY <1>1, <3>1, <3>2
  <2> QED BY <1>1, <1>10, <1>11, <2>1 DEF Inside
<1>13. Aligned(cs)
  <2>1. OnUnit(bs[b].size) /\ OnUnit(bs[n].size)
    BY <1>2 DEF Aligned
  <2>2. /\ OnUnit(BLOCK) /\ BLOCK \in Nat
        /\ \A u, v \in Nat : OnUnit(u) /\ OnUnit(v) => OnUnit(u + v)
    BY UnitSums
  <2>3. bs[b].size \in Nat /\ bs[n].size \in Nat
    BY <1>2, <1>3
  <2> HIDE DEF n
  <2>4. OnUnit(bs[b].size + BLOCK) /\ bs[b].size + BLOCK \in Nat
    <3>1. bs[b].size + BLOCK \in Nat
      BY <2>3, Widths
    <3>2. OnUnit(bs[b].size + BLOCK)
      BY <2>1, <2>2, <2>3, Zenon
    <3> QED BY <3>1, <3>2
  <2>5. OnUnit(cs[b].size)
    <3>1. cs[b].size = bs[b].size + BLOCK + bs[n].size
      BY <1>1
    <3>2. OnUnit((bs[b].size + BLOCK) + bs[n].size)
      BY <2>1, <2>2, <2>3, <2>4, Zenon
    <3> QED BY <3>1, <3>2
  <2> QED BY <1>1, <2>5 DEF Aligned
<1> QED BY <1>12, <1>13 DEF cs

(* Free blocks with a free one behind them.                                 *)
Clash(bs) == {x \in DOMAIN bs : bs[x].free /\ bs[x].next # 0 /\ bs[bs[x].next].free}

(* The merge of two free blocks removes their clash and makes no other, and *)
(* takes nothing from anyone.                                               *)
LEMMA MergeSettles ==
    ASSUME NEW bs, NEW b \in DOMAIN bs, Linked(bs), bs[b].next # 0, bs[b].free, bs[bs[b].next].free,
           bs[b].next \notin Clash(bs)
    PROVE  /\ Clash(Merge(bs, b)) \subseteq Clash(bs) \ {b}
           /\ Taken(Merge(bs, b)) = Taken(bs)
           /\ \A x \in Taken(bs) : Merge(bs, b)[x].size = bs[x].size
<1> DEFINE n == bs[b].next
           cs == Merge(bs, b)
<1>1. IsMerge(bs, cs, b, n)
  BY MergeLinked
<1>2. \A x \in DOMAIN bs : bs[x].next # 0 => bs[x].next \in DOMAIN bs /\ bs[bs[x].next].prev = x
  BY DEF Linked, Forward
<1>3. bs[b].free /\ bs[n].free /\ ~(bs[n].next # 0 /\ bs[bs[n].next].free)
  BY <1>2 DEF Clash
<1> HIDE DEF cs, n
<1> USE DEF IsMerge
<1>4. ASSUME NEW x \in Clash(cs) PROVE x \in Clash(bs) \ {b}
  <2>1. x \in DOMAIN cs /\ cs[x].free /\ cs[x].next # 0 /\ cs[cs[x].next].free
    BY DEF Clash
  <2>2. x # b
    <3> SUFFICES ASSUME x = b PROVE FALSE
      OBVIOUS
    <3>1. bs[n].next # 0 /\ bs[n].next \in DOMAIN cs \ {b}
      BY <1>1, <1>2, <2>1
    <3> QED BY <1>1, <1>3, <2>1, <3>1
  <2>3. bs[x].free /\ bs[x].next # 0 /\ bs[x].next \in DOMAIN bs
    BY <1>1, <1>2, <2>1, <2>2
  <2>4. bs[x].next # n
    <3>1. bs[n].prev = b /\ x \in DOMAIN bs
      BY <1>1, <2>1
    <3>2. bs[bs[x].next].prev = x
      BY <1>2, <2>3, <3>1
    <3> QED BY <2>2, <3>1, <3>2
  <2>5. bs[bs[x].next].free
    BY <1>1, <1>3, <2>1, <2>2, <2>3, <2>4
  <2> QED BY <1>1, <2>1, <2>2, <2>3, <2>5 DEF Clash
<1>5. Taken(cs) = Taken(bs)
  BY <1>1, <1>3 DEF Taken
<1>6. \A x \in Taken(bs) : cs[x].size = bs[x].size
  BY <1>1, <1>3 DEF Taken
<1> QED BY <1>4, <1>5, <1>6 DEF cs

(* What kfree does to a block in use: the list stays a list without two     *)
(* free neighbours, and of the blocks in use exactly this one is not there. *)
LEMMA ReleasedLaid ==
    ASSUME NEW list \in Seq(ArenaRecord), Disjoint(list), \A i \in DOMAIN list : Paged(list[i]),
           NEW bs, Laid(list, bs), NEW b \in Taken(bs)
    PROVE  /\ Laid(list, Released(bs, b))
           /\ Taken(Released(bs, b)) = Taken(bs) \ {b}
           /\ \A x \in Taken(bs) \ {b} : Released(bs, b)[x].size = bs[x].size
<1> DEFINE f == [bs EXCEPT ![b].free = TRUE]
           g == IF f[b].next # 0 /\ (f[b].next # 0 => f[f[b].next].free) THEN Merge(f, b) ELSE f
           h == IF g[b].prev # 0 /\ (g[b].prev # 0 => g[g[b].prev].free) THEN Merge(g, g[b].prev) ELSE g
           Good(cs) == Linked(cs) /\ Inside(list, cs) /\ Aligned(cs)
<1>1. b \in DOMAIN bs /\ ~bs[b].free /\ \A x \in DOMAIN bs : bs[x] \in BlockRecord
  BY DEF Taken, Laid, Linked, Typed
<1>2. SameLayout(bs, f) /\ f[b].free /\ \A x \in DOMAIN bs \ {b} : f[x].free = bs[x].free
  BY <1>1 DEF SameLayout, BlockRecord
<1> HIDE DEF f
<1>3. Good(f)
  BY <1>2, LayoutKept DEF Laid
<1>4. /\ DOMAIN f = DOMAIN bs
      /\ \A x \in DOMAIN bs : f[x].size = bs[x].size /\ f[x].next = bs[x].next /\ f[x].prev = bs[x].prev
  BY <1>2 DEF SameLayout
<1>5. Taken(f) = Taken(bs) \ {b}
  BY <1>1, <1>2, <1>4 DEF Taken
<1>6. \A x \in DOMAIN f : f[x].next # 0 => f[x].next \in DOMAIN f /\ f[f[x].next].prev = x /\ f[x].next # x
  BY <1>3, Widths DEF Linked, Typed, BlockRecord, Forward, EndOf
<1>7. \A x \in Clash(f) : x = b \/ (f[x].next = b /\ x = f[b].prev)
  <2> SUFFICES ASSUME NEW x \in Clash(f), x # b PROVE f[x].next = b /\ x = f[b].prev
    OBVIOUS
  <2>1. x \in DOMAIN bs /\ bs[x].free /\ bs[x].next # 0 /\ f[f[x].next].free
    BY <1>2, <1>4 DEF Clash
  <2>2. ~bs[bs[x].next].free
    BY <2>1 DEF Laid, Separate
  <2> QED BY <1>2, <1>4, <1>6, <2>1, <2>2
<1>8. /\ Good(g) /\ Taken(g) = Taken(f) /\ (\A x \in Taken(f) : g[x].size = f[x].size)
      /\ b \in DOMAIN g /\ g[b].free /\ g[b].prev = f[b].prev
      /\ \A x \in Clash(g) : x # b /\ x = f[b].prev
  <2>1. CASE f[b].next # 0 /\ f[f[b].next].free
    <3>1. g = Merge(f, b)
      BY <2>1
    <3> HIDE DEF g
    <3>2. b \in DOMAIN f /\ f[b].next # b /\ f[b].next # f[b].prev
      <4>1. f[b].prev # 0 => f[f[b].prev].next = b
        BY <1>1, <1>3, <1>4 DEF Linked, Back
      <4>2. b \in Nat /\ b < EndOf(f, b) /\ f[b].next = EndOf(f, b) /\ f[b].next \in DOMAIN f
        BY <1>1, <1>3, <1>4, <2>1, Widths DEF Linked, Typed, BlockRecord, Forward, EndOf
      <4>3. f[b].next < EndOf(f, f[b].next) /\ f[b].next \in Nat /\ EndOf(f, f[b].next) \in Nat
        BY <1>3, <4>2, Widths DEF Linked, Typed, BlockRecord, EndOf
      <4>4. f[f[b].next].next # 0 => f[f[b].next].next = EndOf(f, f[b].next)
        BY <1>3, <4>2 DEF Linked, Forward
      <4>5. b # 0
        BY <1>1, <1>3, <1>4 DEF Linked, Typed
      <4> QED BY <1>1, <1>4, <2>1, <4>1, <4>2, <4>3, <4>4, <4>5
    <3>3. f[b].next \notin Clash(f)
      BY <1>7, <3>2
    <3>4. Good(g)
      BY <1>3, <2>1, <3>1, <3>2, MergeLinked, MergeLaid
    <3>5. Clash(g) \subseteq Clash(f) \ {b} /\ Taken(g) = Taken(f) /\ \A x \in Taken(f) : g[x].size = f[x].size
      BY <1>2, <1>3, <2>1, <3>1, <3>2, <3>3, MergeSettles
    <3>6. IsMerge(f, g, b, f[b].next)
      BY <1>3, <2>1, <3>1, <3>2, MergeLinked
    <3>7. b \in DOMAIN g /\ g[b].free /\ g[b].prev = f[b].prev
      BY <1>2, <3>6 DEF IsMerge
    <3> HIDE DEF Good
    <3> QED BY <1>7, <3>4, <3>5, <3>7
  <2>2. CASE ~(f[b].next # 0 /\ f[f[b].next].free)
    <3>1. g = f /\ b \notin Clash(f)
      BY <2>2 DEF Clash
    <3> HIDE DEF g, Good
    <3> QED BY <1>1, <1>2, <1>3, <1>4, <1>7, <3>1
  <2> QED BY <2>1, <2>2
<1>9. Released(bs, b) = h
  BY DEF Released, f
<1> HIDE DEF g, Good
<1>10. Good(h) /\ Taken(h) = Taken(g) /\ (\A x \in Taken(g) : h[x].size = g[x].size) /\ Clash(h) = {}
  <2> DEFINE q == g[b].prev
  <2>1. CASE q # 0 /\ g[q].free
    <3>1. h = Merge(g, q)
      BY <2>1
    <3> HIDE DEF h
    <3>2. Linked(g) /\ Inside(list, g) /\ Aligned(g)
      BY <1>8 DEF Good
    <3>3. q \in DOMAIN g /\ g[q].next = b /\ b # 0
      BY <1>8, <2>1, <3>2 DEF Linked, Back, Typed
    <3>4. g[q].next # 0 /\ g[g[q].next].free /\ g[q].next \notin Clash(g) /\ g[q].free
      BY <1>8, <2>1, <3>3
    <3>5. Clash(h) \subseteq Clash(g) \ {q} /\ Taken(h) = Taken(g) /\ \A x \in Taken(g) : h[x].size = g[x].size
      BY <3>1, <3>2, <3>3, <3>4, MergeSettles
    <3>6. Linked(h)
      BY <3>1, <3>2, <3>3, <3>4, MergeLinked
    <3>7. Inside(list, h) /\ Aligned(h)
      BY <3>1, <3>2, <3>3, <3>4, MergeLaid
    <3> QED BY <1>8, <3>5, <3>6, <3>7 DEF Good
  <2>2. CASE ~(q # 0 /\ g[q].free)
    <3>1. h = g
      BY <2>2
    <3>2. Clash(g) = {}
      <4> SUFFICES ASSUME NEW x \in Clash(g) PROVE FALSE
        OBVIOUS
      <4>1. x = q /\ x \in DOMAIN g /\ g[x].free
        BY <1>8 DEF Clash
      <4>2. x # 0
        BY <1>8, <4>1 DEF Good, Linked, Typed
      <4> QED BY <2>2, <4>1, <4>2
    <3> QED BY <1>8, <3>1, <3>2
  <2> QED BY <2>1, <2>2
<1> HIDE DEF h
<1>11. Separate(h)
  BY <1>10 DEF Clash, Separate
<1>12. Laid(list, h)
  BY <1>10, <1>11 DEF Laid, Good
<1>13. Taken(h) = Taken(bs) \ {b} /\ \A x \in Taken(bs) \ {b} : h[x].size = bs[x].size
  <2>1. \A x \in Taken(bs) \ {b} : x \in DOMAIN bs
    BY DEF Taken
  <2> QED BY <1>4, <1>5, <1>8, <1>10, <2>1
<1> QED BY <1>9, <1>12, <1>13
-----------------------------------------------------------------------------
(* What a call of the frame allocator brings: nothing, or a run of frames   *)
(* that nobody held.                                                        *)
LEMMA AllocBrings ==
    ASSUME NEW n \in Nat, IInv, AllocContiguous(n)
    PROVE  \/ reply' = {} /\ held' = held
           \/ n # 0 /\ \E f \in Nat : reply' = f .. f + n - 1 /\ held' = held \cup reply' /\ reply' \cap held = {}
<1>1. pmm_frame_count \in Nat /\ Free(used, pmm_frame_count) = Granted(boot) \ held
  BY FreeBits DEF IInv
<1>2. Free(used, pmm_frame_count) \subseteq Nat
  BY <1>1 DEF Free
<1>3. CASE n = 0
  BY <1>3 DEF AllocContiguous
<1>4. CASE n = 1 /\ Free(used, pmm_frame_count) = {}
  BY <1>4 DEF AllocContiguous, AllocFrame
<1>5. CASE n = 1 /\ Free(used, pmm_frame_count) # {}
  <2> DEFINE f == Min(Free(used, pmm_frame_count))
  <2>1. f \in Free(used, pmm_frame_count) /\ f \in Nat /\ f \notin held
    BY <1>1, <1>2, <1>5, FirstIsFree
  <2>2. reply' = {f} /\ held' = held \cup {f}
    BY <1>5 DEF AllocContiguous, AllocFrame, Take
  <2> HIDE DEF f
  <2>3. {f} = f .. f + n - 1
    BY <1>5, <2>1
  <2> QED BY <1>5, <2>1, <2>2, <2>3
<1>6. CASE n > 1 /\ Runs(used, pmm_frame_count, n) = {}
  BY <1>6 DEF AllocContiguous
<1>7. CASE n > 1 /\ Runs(used, pmm_frame_count, n) # {}
  <2> DEFINE f == Min(Runs(used, pmm_frame_count, n))
  <2>0. n \in Nat \ {0}
    BY <1>7
  <2>1. /\ FirstRun(used, pmm_frame_count, n) = f .. f + n - 1
        /\ f .. f + n - 1 \subseteq Free(used, pmm_frame_count) /\ f \in Granted(boot)
    BY <1>7, <2>0, FirstIsFree
  <2>2. Take(f .. f + n - 1)
    BY <1>7, <2>1 DEF AllocContiguous
  <2> HIDE DEF f
  <2>3. f \in Nat
    BY FreeBits, <2>1 DEF IInv
  <2>4. reply' = f .. f + n - 1 /\ held' = held \cup reply'
    BY <2>2 DEF Take
  <2> QED BY <1>1, <1>7, <2>1, <2>3, <2>4
<1> QED BY <1>3, <1>4, <1>5, <1>6, <1>7

LEMMA PagesEnough ==
    ASSUME NEW size \in Nat
    PROVE  PagesNeeded(size) \in Nat \ {0} /\ PagesNeeded(size) * PAGE_SIZE >= Header + BLOCK + size
<1> DEFINE y == Header + BLOCK + size
           n == PagesNeeded(size)
<1>1. y \in Nat \ {0} /\ PAGE_SIZE \in Nat \ {0} /\ y + PAGE_SIZE - 1 \in Nat
  BY Widths
<1>2. n = (y + PAGE_SIZE - 1) \div PAGE_SIZE
  BY DEF PagesNeeded
<1> HIDE DEF y, n
<1>3. /\ y + PAGE_SIZE - 1 = PAGE_SIZE * n + ((y + PAGE_SIZE - 1) % PAGE_SIZE)
      /\ (y + PAGE_SIZE - 1) % PAGE_SIZE \in 0 .. PAGE_SIZE - 1 /\ n \in Nat
  BY <1>1, <1>2, Digit
<1>4. PAGE_SIZE * n \in Nat /\ PAGE_SIZE * n >= y /\ PAGE_SIZE * n = n * PAGE_SIZE
  BY <1>1, <1>3
<1>5. n # 0
  BY <1>1, <1>4
<1> QED BY <1>3, <1>4, <1>5 DEF y, n

(* The frames of a paged arena are its pages.                               *)
LEMMA PagesOf ==
    ASSUME NEW a \in ArenaRecord, NEW f \in Nat, NEW n \in Nat \ {0}, a.base = f * PAGE_SIZE, a.size = n * PAGE_SIZE
    PROVE  ArenaFrames(a) = f .. f + n - 1 /\ Top(a) = (f + n) * PAGE_SIZE
<1>1. PAGE_SIZE \in Nat \ {0}
  BY Widths
<1>2. a.base = PAGE_SIZE * f + 0 /\ a.base + a.size = PAGE_SIZE * (f + n) + 0 /\ f + n \in Nat /\ a.base + a.size \in Nat
      /\ a.base \in Nat
  BY <1>1 DEF ArenaRecord
<1>3. 0 \in 0 .. PAGE_SIZE - 1
  BY <1>1
<1>4. \A q \in Nat, r \in 0 .. PAGE_SIZE - 1, x \in Nat : x = PAGE_SIZE * q + r => x \div PAGE_SIZE = q
  BY <1>1, QuotientUnique
<1>5. a.base \div PAGE_SIZE = f
  BY <1>2, <1>3, <1>4
<1>6. (a.base + a.size) \div PAGE_SIZE = f + n
  BY <1>2, <1>3, <1>4
<1> QED BY <1>1, <1>2, <1>5, <1>6 DEF ArenaFrames, Top

(* An arena of the frames a request brought has room for what it asked.     *)
LEMMA NewArenaIs ==
    ASSUME NEW size \in Nat, NEW f \in Nat
    PROVE  LET n == PagesNeeded(size)
               a == NewArena(f .. f + n - 1)
               w == WholeBlock(a)
           IN  /\ a \in ArenaRecord /\ Paged(a) /\ a.base = f * PAGE_SIZE /\ a.size = n * PAGE_SIZE
               /\ w \in BlockRecord /\ w.free /\ w.next = 0 /\ w.prev = 0 /\ w.size >= size
               /\ a.first \in Nat \ {0} /\ a.first + BLOCK + w.size = Top(a)
               /\ OnUnit(a.first) /\ OnUnit(w.size)
<1> DEFINE n == PagesNeeded(size)
           S == f .. f + n - 1
           a == NewArena(S)
           w == WholeBlock(a)
<1>1. n \in Nat \ {0} /\ n * PAGE_SIZE >= Header + BLOCK + size
  BY PagesEnough
<1> HIDE DEF n
<1>2. Cardinality(S) = n
  BY <1>1, FS_Interval
<1>3. Min(S) = f
  <2>1. S \in SUBSET Nat /\ f \in S /\ \A x \in S : x >= f
    BY <1>1
  <2>2. Min(S) \in S /\ \A y \in S : Min(S) <= y
    BY <2>1, MinIsLeast, Zenon
  <2> QED BY <2>1, <2>2
<1>4. a = [base |-> f * PAGE_SIZE, size |-> n * PAGE_SIZE, first |-> f * PAGE_SIZE + Header]
  BY <1>2, <1>3 DEF NewArena
<1> HIDE DEF a, S
<1>5. f * PAGE_SIZE \in Nat /\ n * PAGE_SIZE \in Nat /\ OnUnit(f * PAGE_SIZE) /\ OnUnit(n * PAGE_SIZE)
  <2>1. PAGE_SIZE \in Nat \ {0} /\ OnUnit(PAGE_SIZE)
    BY UnitSums
  <2>2. HEAP_ALIGN \in Nat \ {0} /\ PAGE_SIZE \in Nat /\ PAGE_SIZE % HEAP_ALIGN = 0
    BY <2>1, Widths DEF OnUnit
  <2>3. \A k \in Nat : (k * PAGE_SIZE) % HEAP_ALIGN = 0
    BY <2>2, Multiples
  <2>4. f * PAGE_SIZE \in Nat /\ n * PAGE_SIZE \in Nat
    BY <1>1, <2>1
  <2> QED BY <1>1, <2>3, <2>4 DEF OnUnit
<1> DEFINE B == f * PAGE_SIZE
           Z == n * PAGE_SIZE
<1>6. a = [base |-> B, size |-> Z, first |-> B + Header]
  BY <1>4
<1>7. B \in Nat /\ Z \in Nat /\ OnUnit(B) /\ OnUnit(Z) /\ Z >= Header + BLOCK + size
  BY <1>1, <1>5
<1>8. Paged(a)
  <2>1. a.first = a.base + Header /\ a.base = f * PAGE_SIZE /\ a.size = n * PAGE_SIZE
    BY <1>4
  <2>2. a.first < Top(a)
    <3> HIDE DEF B, Z
    <3> QED BY <1>6, <1>7, Widths DEF Top
  <2> QED BY <1>1, <2>1, <2>2 DEF Paged
<1>9. w = [free |-> TRUE, size |-> a.size - Header - BLOCK, next |-> 0, prev |-> 0]
  BY DEF WholeBlock
<1> HIDE DEF B, Z, w
<1>10. /\ a \in ArenaRecord /\ a.first \in Nat \ {0}
       /\ w \in BlockRecord /\ w.free /\ w.next = 0 /\ w.prev = 0 /\ w.size >= size
       /\ a.first + BLOCK + w.size = Top(a) /\ w.size = Z - (Header + BLOCK) /\ a.first = B + Header
  BY <1>6, <1>7, <1>9, Widths DEF ArenaRecord, BlockRecord, Top
<1>11. OnUnit(a.first) /\ OnUnit(w.size)
  <2>1. OnUnit(BLOCK) /\ OnUnit(Header) /\ \A u, v \in Nat : OnUnit(u) /\ OnUnit(v) => OnUnit(u + v) /\ (u >= v => OnUnit(u - v))
    BY UnitSums
  <2>2. Header \in Nat /\ BLOCK \in Nat /\ Header + BLOCK \in Nat /\ Z >= Header + BLOCK
    BY <1>7, Widths
  <2>3. OnUnit(B + Header) /\ OnUnit(Header + BLOCK)
    BY <1>7, <2>1, <2>2, Zenon
  <2>4. OnUnit(Z - (Header + BLOCK))
    BY <1>7, <2>1, <2>2, <2>3, Zenon
  <2> QED BY <1>10, <2>3, <2>4
<1>12. a.base = f * PAGE_SIZE /\ a.size = n * PAGE_SIZE
  BY <1>4
<1> QED BY <1>8, <1>10, <1>11, <1>12 DEF a, w, S, n

(* An arena more, with its one free block, leaves everything as it was.     *)
Added(bs, a) == [x \in DOMAIN bs \cup {a.first} |-> IF x = a.first THEN WholeBlock(a) ELSE bs[x]]

LEMMA ArenaFounded ==
    ASSUME NEW list, NEW frames, Founded(list, frames), NEW size \in Nat, NEW f \in Nat,
           (f .. f + PagesNeeded(size) - 1) \cap frames = {}
    PROVE  LET S == f .. f + PagesNeeded(size) - 1
           IN  Founded(Append(list, NewArena(S)), frames \cup S)
<1> DEFINE n == PagesNeeded(size)
           S == f .. f + n - 1
           a == NewArena(S)
           more == Append(list, a)
<1>1. n \in Nat \ {0}
  BY PagesEnough
<1>2. a \in ArenaRecord /\ Paged(a) /\ a.base = f * PAGE_SIZE /\ a.size = n * PAGE_SIZE
  BY NewArenaIs
<1> HIDE DEF a, n
<1>3. ArenaFrames(a) = S /\ Top(a) = (f + n) * PAGE_SIZE
  BY <1>1, <1>2, PagesOf
<1>4. list \in Seq(ArenaRecord)
  BY DEF Founded
<1>5. /\ more \in Seq(ArenaRecord) /\ DOMAIN more = DOMAIN list \cup {Len(list) + 1} /\ Len(list) + 1 \notin DOMAIN list
      /\ more[Len(list) + 1] = a /\ \A i \in DOMAIN list : more[i] = list[i]
  BY <1>2, <1>4
<1>6. ASSUME NEW i \in DOMAIN list PROVE Top(list[i]) <= a.base \/ Top(a) <= list[i].base
  <2>1. list[i] \in ArenaRecord
    BY <1>4
  <2>2. PICK g \in Nat, m \in Nat \ {0} : list[i].base = g * PAGE_SIZE /\ list[i].size = m * PAGE_SIZE
    BY DEF Founded, Paged
  <2>3. ArenaFrames(list[i]) = g .. g + m - 1 /\ Top(list[i]) = (g + m) * PAGE_SIZE
    BY <2>1, <2>2, PagesOf
  <2>4. (g .. g + m - 1) \cap (f .. f + n - 1) = {}
    BY <2>3 DEF Founded, n
  <2>5. g + m <= f \/ f + n <= g
    <3> SUFFICES ASSUME f < g + m, g < f + n PROVE FALSE
      BY <1>1, <2>2
    <3>1. g \in g .. g + m - 1 /\ f \in f .. f + n - 1 /\ g \in Nat /\ f \in Nat /\ m \in Nat /\ n \in Nat
      BY <1>1, <2>2
    <3>2. CASE f <= g
      BY <2>4, <3>1, <3>2
    <3>3. CASE g < f
      BY <2>4, <3>1, <3>3
    <3> QED BY <3>1, <3>2, <3>3
  <2>6. \A x, y \in Nat : x <= y => x * PAGE_SIZE <= y * PAGE_SIZE
    BY Widths
  <2>7. g + m \in Nat /\ f + n \in Nat
    BY <1>1, <2>2
  <2> QED BY <1>2, <1>3, <2>2, <2>3, <2>5, <2>6, <2>7
<1>7. Disjoint(more)
  <2> SUFFICES ASSUME NEW i \in DOMAIN more, NEW j \in DOMAIN more, i # j
               PROVE  Top(more[i]) <= more[j].base \/ Top(more[j]) <= more[i].base
    BY DEF Disjoint
  <2>1. CASE i \in DOMAIN list /\ j \in DOMAIN list
    BY <1>5, <2>1 DEF Founded, Disjoint
  <2>2. CASE i \in DOMAIN list /\ j = Len(list) + 1
    BY <1>5, <1>6, <2>2
  <2>3. CASE j \in DOMAIN list /\ i = Len(list) + 1
    BY <1>5, <1>6, <2>3
  <2> QED BY <1>5, <2>1, <2>2, <2>3
<1>8. \A i \in DOMAIN more : Paged(more[i]) /\ ArenaFrames(more[i]) \subseteq frames \cup S
  BY <1>2, <1>3, <1>5 DEF Founded
<1> QED BY <1>5, <1>7, <1>8 DEF Founded, a, n

LEMMA ArenaLaid ==
    ASSUME NEW list, NEW a, NEW frames, Founded(Append(list, a), frames), list \in Seq(ArenaRecord), a \in ArenaRecord,
           NEW bs, Laid(list, bs), 
           WholeBlock(a) \in BlockRecord, OnUnit(a.first), OnUnit(WholeBlock(a).size),
           a.first \in Nat \ {0}, a.first + BLOCK + WholeBlock(a).size = Top(a)
    PROVE  /\ Laid(Append(list, a), Added(bs, a))
           /\ Taken(Added(bs, a)) = Taken(bs)
           /\ \A x \in Taken(bs) : Added(bs, a)[x].size = bs[x].size
<1> DEFINE more == Append(list, a)
           w == WholeBlock(a)
           cs == Added(bs, a)
           k == Len(list) + 1
<1>1. /\ DOMAIN more = DOMAIN list \cup {k} /\ k \notin DOMAIN list /\ more \in Seq(ArenaRecord)
      /\ more[k] = a /\ \A i \in DOMAIN list : more[i] = list[i]
  BY DEF Founded
<1>2. \A i \in DOMAIN list : /\ list[i].base \in Nat /\ list[i].size \in Nat /\ list[i].first \in Nat 
                             /\ Top(list[i]) \in Nat
  BY ArenasTyped
<1>3. \A i \in DOMAIN more : more[i].base < more[i].first /\ more[i].first < Top(more[i])
  BY <1>1, ArenasPaged DEF Founded
<1>4. \A i \in DOMAIN list : Top(list[i]) <= a.base \/ Top(a) <= list[i].base
  BY <1>1 DEF Founded, Disjoint
<1>5. a.base \in Nat /\ Top(a) \in Nat /\ a.first \in Nat /\ a.base < a.first /\ a.first < Top(a)
  BY <1>1, <1>3, ArenasTyped
<1>6. w.free /\ w.next = 0 /\ w.prev = 0 /\ w.size \in Nat
  BY DEF WholeBlock, BlockRecord
<1>7. ASSUME NEW x \in DOMAIN bs
      PROVE  x \in Nat \ {0} /\ bs[x] \in BlockRecord /\ EndOf(bs, x) \in Nat /\ x < EndOf(bs, x)
  <2>1. x \in Nat \ {0} /\ bs[x] \in BlockRecord
    BY DEF Laid, Linked, Typed
  <2>2. bs[x].size \in Nat /\ BLOCK \in Nat \ {0}
    BY <2>1, Widths DEF BlockRecord
  <2> QED BY <2>1, <2>2 DEF EndOf
<1>8. ASSUME NEW x \in DOMAIN bs PROVE EndOf(bs, x) <= a.first \/ Top(a) <= x
  <2>1. PICK i \in DOMAIN list : Placed(bs, list[i], x)
    BY DEF Laid, Inside
  <2>2. list[i].first <= x /\ EndOf(bs, x) <= Top(list[i]) /\ list[i].base < list[i].first
    BY <1>1, <1>3, <2>1 DEF Placed
  <2>3. /\ list[i].base \in Nat /\ list[i].first \in Nat /\ Top(list[i]) \in Nat
        /\ (Top(list[i]) <= a.base \/ Top(a) <= list[i].base)
    BY <1>2, <1>4
  <2> QED BY <1>5, <1>7, <2>2, <2>3
<1>9. a.first \notin DOMAIN bs
  BY <1>5, <1>7, <1>8
<1>10. DOMAIN cs = DOMAIN bs \cup {a.first} /\ cs[a.first] = w /\ \A x \in DOMAIN bs : cs[x] = bs[x]
  BY <1>9 DEF Added
<1> HIDE DEF cs, w
<1>11. EndOf(cs, a.first) = Top(a) /\ \A x \in DOMAIN bs : EndOf(cs, x) = EndOf(bs, x)
  BY <1>10 DEF EndOf, w
<1>12. Typed(cs) /\ Forward(cs) /\ Back(cs)
  BY <1>6, <1>7, <1>9, <1>10, <1>11 DEF Laid, Linked, Typed, Forward, Back, w
<1>13. Apart(cs)
  BY <1>5, <1>7, <1>8, <1>9, <1>10, <1>11 DEF Laid, Linked, Apart
<1>14. Inside(more, cs)
  <2>1. Placed(cs, more[k], a.first)
    BY <1>1, <1>5, <1>6, <1>10, <1>11 DEF Placed
  <2>2. ASSUME NEW x \in DOMAIN bs PROVE \E i \in DOMAIN more : Placed(cs, more[i], x)
    <3>1. PICK i \in DOMAIN list : Placed(bs, list[i], x)
      BY DEF Laid, Inside
    <3>2. Placed(cs, more[i], x)
      BY <1>1, <1>10, <1>11, <3>1 DEF Placed
    <3> QED BY <1>1, <3>2
  <2>3. \A i \in DOMAIN more : more[i].first \in DOMAIN cs
    BY <1>1, <1>10 DEF Laid, Inside
  <2> QED BY <1>1, <1>10, <2>1, <2>2, <2>3 DEF Inside
<1>15. Aligned(cs)
  BY <1>10 DEF Laid, Aligned, w
<1>16. Separate(cs)
  BY <1>6, <1>10 DEF Laid, Linked, Forward, Separate
<1>17. Taken(cs) = Taken(bs) /\ \A x \in Taken(bs) : cs[x].size = bs[x].size
  BY <1>6, <1>9, <1>10 DEF Taken
<1> QED BY <1>12, <1>13, <1>14, <1>15, <1>16, <1>17 DEF Laid, Linked, cs
-----------------------------------------------------------------------------
(* The invariant, kept by every action.                                     *)
LEMMA InitHeap == HeapInit => HeapInv
<1> SUFFICES ASSUME HeapInit PROVE HeapInv
  OBVIOUS
<1>1. arenas = <<>> /\ DOMAIN blocks = {} /\ live = {} /\ IInv
  BY InitInv DEF HeapInit
<1>2. Founded(arenas, held)
  BY <1>1 DEF Founded, Disjoint
<1>3. Laid(arenas, blocks)
  BY <1>1 DEF Laid, Linked, Typed, Forward, Back, Apart, Inside, Aligned, Separate
<1>4. BlocksAccounted
  BY <1>1 DEF BlocksAccounted
<1> QED BY <1>1, <1>2, <1>3, <1>4 DEF HeapInv

(* The frames of the arenas may be joined by others, not leave.             *)
LEMMA FoundedOn ==
    ASSUME NEW list, NEW frames, NEW more, Founded(list, frames), 
           \A i \in DOMAIN list : ArenaFrames(list[i]) \cap frames \subseteq more
    PROVE  Founded(list, more)
BY DEF Founded

(* The first fit fits.                                                      *)
LEMMA FirstFitFits ==
    ASSUME NEW list \in Seq(ArenaRecord), NEW bs, NEW size, Hits(list, bs, size) # {}
    PROVE  FirstFit(list, bs, size) \in Fitting(bs, size)
<1> DEFINE i == Min(Hits(list, bs, size))
<1>1. i \in DOMAIN list /\ Hit(bs, list[i], size) # 0
  <2>1. Hits(list, bs, size) \in SUBSET Nat
    BY DEF Hits
  <2>2. i \in Hits(list, bs, size)
    BY <2>1, MinIsLeast
  <2> QED BY <2>2 DEF Hits
<1> DEFINE found == Walk(bs, list[i].first, DOMAIN bs \ Fitting(bs, size)) \cap Fitting(bs, size)
<1>2. Hit(bs, list[i], size) = IF found = {} THEN 0 ELSE CHOOSE b \in found : TRUE
  BY DEF Hit
<1>3. FirstFit(list, bs, size) = Hit(bs, list[i], size)
  BY DEF FirstFit
<1>4. found \subseteq Fitting(bs, size)
  OBVIOUS
<1> HIDE DEF found, i
<1> QED BY <1>1, <1>2, <1>3, <1>4

(* A whole arena that fits is a hit.                                        *)
LEMMA ArenaHits ==
    ASSUME NEW list \in Seq(ArenaRecord), NEW a \in ArenaRecord, NEW bs, NEW size, 0 \notin DOMAIN bs,
           a.first \in Fitting(bs, size)
    PROVE  Hits(Append(list, a), bs, size) # {}
<1> DEFINE k == Len(list) + 1
           more == Append(list, a)
           found == Walk(bs, a.first, DOMAIN bs \ Fitting(bs, size)) \cap Fitting(bs, size)
<1>1. k \in DOMAIN more /\ more[k] = a
  OBVIOUS
<1>2. a.first \in found
  BY DEF Walk, Fitting
<1>3. Hit(bs, a, size) = IF found = {} THEN 0 ELSE CHOOSE b \in found : TRUE
  BY DEF Hit
<1>4. found \subseteq DOMAIN bs
  BY DEF Fitting
<1> HIDE DEF found, more, k
<1>5. Hit(bs, a, size) # 0
  BY <1>2, <1>3, <1>4
<1> QED BY <1>1, <1>5 DEF Hits, more

(* What a client is given: the pointer behind the header of a block nobody  *)
(* used.                                                                    *)
Given(bs, size, b) ==
    /\ b \in DOMAIN blocks' \ Taken(bs) /\ Taken(blocks') = Taken(bs) \cup {b}
    /\ pointer' = b + BLOCK /\ live' = live \cup {b + BLOCK}
    /\ blocks'[b].size >= size /\ \A x \in Taken(bs) : blocks'[x].size = bs[x].size

LEMMA GiveGives ==
    ASSUME NEW list \in Seq(ArenaRecord), NEW bs, Laid(list, bs), NEW size \in Nat, OnUnit(size), 
           Hits(list, bs, size) # {}, Give(list, bs, size)
    PROVE  arenas' = list /\ Laid(list, blocks') /\ \E b : Given(bs, size, b)
<1> DEFINE b == FirstFit(list, bs, size)
           cs == [Split(bs, b, size) EXCEPT ![b].free = FALSE]
<1>1. b \in Fitting(bs, size)
  BY FirstFitFits
<1>2. blocks' = cs /\ live' = live \cup {b + BLOCK} /\ pointer' = b + BLOCK /\ arenas' = list
  BY DEF Give
<1> HIDE DEF b
<1>3. /\ Laid(list, cs)
      /\ Taken(cs) = Taken(bs) \cup {b} /\ b \notin Taken(bs) /\ b \in DOMAIN cs
      /\ \A x \in Taken(bs) : cs[x].size = bs[x].size
      /\ cs[b].size >= size
  BY <1>1, GiveLaid
<1> HIDE DEF cs
<1>4. Given(bs, size, b)
  BY <1>2, <1>3 DEF Given
<1> QED BY <1>2, <1>3, <1>4

(* kmalloc of something: nothing changes for the clients, or one more of    *)
(* them holds a block.                                                      *)
LEMMA Allocates ==
    ASSUME HeapInv, NEW ask \in Nat \ {0}, kmalloc(ask)
    PROVE  /\ IInv' /\ Founded(arenas', held') /\ Laid(arenas', blocks')
           /\ \/ pointer' = 0 /\ UNCHANGED <<blocks, live>>
              \/ \E b, bs : /\ Given(bs, ask, b) /\ Taken(bs) = Taken(blocks)
                            /\ \A x \in Taken(bs) : bs[x].size = blocks[x].size
<1> DEFINE size == ALIGN_UP(ask)
<1>1. size \in Nat /\ size >= ask /\ OnUnit(size)
  BY AlignUp
<1>2. IInv /\ Founded(arenas, held) /\ Laid(arenas, blocks) /\ arenas \in Seq(ArenaRecord)
  BY DEF HeapInv, Founded
<1>3. \/ Hits(arenas, blocks, size) # {} /\ Give(arenas, blocks, size) /\ UNCHANGED vars
      \/ Expand(size)
  BY DEF kmalloc
<1> HIDE DEF size
<1>4. ASSUME NEW bs, NEW b, Given(bs, size, b), blocks'[b].size \in Nat PROVE Given(bs, ask, b)
  BY <1>1, <1>4 DEF Given
<1>5. CASE Hits(arenas, blocks, size) # {} /\ Give(arenas, blocks, size) /\ UNCHANGED vars
  <2>1. arenas' = arenas /\ Laid(arenas, blocks') /\ \E b : Given(blocks, size, b)
    BY <1>1, <1>2, <1>5, GiveGives
  <2>2. IInv' /\ held' = held
    BY <1>2, <1>5 DEF vars, IInv, NothingLost, FreeCountExact, pmm_frame_count
  <2>3. PICK b : Given(blocks, size, b)
    BY <2>1
  <2>4. blocks'[b].size \in Nat
    BY <2>1, <2>3 DEF Given, Laid, Linked, Typed, BlockRecord
  <2>5. Given(blocks, ask, b)
    BY <1>4, <2>3, <2>4
  <2> QED BY <1>2, <2>1, <2>2, <2>5
<1>6. CASE Expand(size)
  <2> DEFINE n == PagesNeeded(size)
  <2>1. n \in Nat \ {0} /\ AllocContiguous(n)
    BY <1>1, <1>6, PagesEnough DEF Expand
  <2>2. IInv'
    BY <1>2, <2>1, AllocInv
  <2>3. CASE reply' = {}
    <3>1. held' = held
      BY <1>2, <2>1, <2>3, AllocBrings
    <3>2. pointer' = 0 /\ UNCHANGED <<arenas, blocks, live>>
      BY <1>6, <2>3 DEF Expand
    <3> QED BY <1>2, <2>2, <3>1, <3>2
  <2>4. CASE reply' # {}
    <3>1. PICK f \in Nat : reply' = f .. f + n - 1 /\ held' = held \cup reply' /\ reply' \cap held = {}
      BY <1>2, <2>1, <2>4, AllocBrings
    <3> DEFINE a == NewArena(f .. f + n - 1)
               w == WholeBlock(a)
               more == Append(arenas, a)
               bs == Added(blocks, a)
    <3>2. Give(more, bs, size)
      BY <1>6, <2>4, <3>1 DEF Expand, Added
    <3>3. /\ a \in ArenaRecord /\ w \in BlockRecord /\ w.free /\ w.size >= size
          /\ a.first \in Nat \ {0} /\ a.first + BLOCK + w.size = Top(a)
          /\ OnUnit(a.first) /\ OnUnit(w.size)
      BY <1>1, NewArenaIs
    <3>4. Founded(more, held')
      BY <1>1, <1>2, <3>1, ArenaFounded
    <3> HIDE DEF a, n
    <3>5. Laid(more, bs) /\ Taken(bs) = Taken(blocks) /\ \A x \in Taken(blocks) : bs[x].size = blocks[x].size
      BY <1>2, <3>3, <3>4, ArenaLaid
    <3>6. a.first \in Fitting(bs, size) /\ 0 \notin DOMAIN bs
      <4>1. a.first \in DOMAIN bs /\ bs[a.first] = w
        BY DEF Added
      <4>2. 0 \notin DOMAIN bs
        BY <3>5 DEF Laid, Linked, Typed
      <4> QED BY <3>3, <4>1, <4>2 DEF Fitting
    <3> HIDE DEF bs
    <3>7. Hits(more, bs, size) # {}
      BY <1>2, <3>3, <3>6, ArenaHits
    <3>8. more \in Seq(ArenaRecord)
      BY <3>4 DEF Founded
    <3> HIDE DEF more
    <3>9. arenas' = more /\ Laid(more, blocks') /\ \E b : Given(bs, size, b)
      BY <1>1, <3>2, <3>5, <3>7, <3>8, GiveGives
    <3>10. PICK b : Given(bs, size, b)
      BY <3>9
    <3>11. blocks'[b].size \in Nat
      BY <3>9, <3>10 DEF Given, Laid, Linked, Typed, BlockRecord
    <3>12. Given(bs, ask, b)
      BY <1>4, <3>10, <3>11
    <3> QED BY <2>2, <3>4, <3>5, <3>9, <3>12
  <2> QED BY <2>3, <2>4
<1> QED BY <1>3, <1>5, <1>6

LEMMA AllocatesInv == ASSUME HeapInv, NEW ask \in Nat, kmalloc(ask) PROVE HeapInv'
<1>1. CASE ask = 0
  BY <1>1 DEF kmalloc, HeapInv, IInv, NothingLost, FreeCountExact, pmm_frame_count, BlocksAccounted, vars
<1>2. CASE ask # 0
  <2>1. /\ IInv' /\ Founded(arenas', held') /\ Laid(arenas', blocks')
        /\ \/ pointer' = 0 /\ UNCHANGED <<blocks, live>>
           \/ \E b, bs : /\ Given(bs, ask, b) /\ Taken(bs) = Taken(blocks)
                         /\ \A x \in Taken(bs) : bs[x].size = blocks[x].size
    <3>1. ask \in Nat \ {0}
      BY <1>2
    <3> QED BY <3>1, Allocates
  <2>2. {b + BLOCK : b \in Taken(blocks)} = live
    BY DEF HeapInv, BlocksAccounted, Taken
  <2>3. {b + BLOCK : b \in Taken(blocks')} = live'
    <3>1. CASE UNCHANGED <<blocks, live>>
      BY <2>2, <3>1
    <3>2. ASSUME NEW b, NEW bs, Given(bs, ask, b), Taken(bs) = Taken(blocks) 
          PROVE  {x + BLOCK : x \in Taken(blocks')} = live'
      BY <2>2, <3>2 DEF Given
    <3> QED BY <2>1, <3>1, <3>2
  <2>4. BlocksAccounted'
    BY <2>3 DEF BlocksAccounted, Taken
  <2> QED BY <2>1, <2>4 DEF HeapInv
<1> QED BY <1>1, <1>2

(* heap_init meets no block and no client.                                  *)
LEMMA NoArenas == HeapInv /\ arenas = <<>> => DOMAIN blocks = {} /\ live = {}
<1> SUFFICES ASSUME HeapInv, arenas = <<>> PROVE DOMAIN blocks = {} /\ live = {}
  OBVIOUS
<1>0. DOMAIN arenas = {}
  OBVIOUS
<1>1. DOMAIN blocks = {}
  BY <1>0 DEF HeapInv, Laid, Inside
<1> QED BY <1>1 DEF HeapInv, BlocksAccounted

LEMMA StartInv == ASSUME HeapInv, heap_init PROVE HeapInv'
<1> DEFINE n == PagesNeeded(PAGE_SIZE)
<1>1. IInv /\ Founded(arenas, held) /\ Laid(arenas, blocks) /\ arenas \in Seq(ArenaRecord)
  BY DEF HeapInv, Founded
<1>2. arenas = <<>> /\ DOMAIN blocks = {} /\ live = {} /\ UNCHANGED <<live, pointer>>
  BY NoArenas DEF heap_init
<1>3. PAGE_SIZE \in Nat /\ n \in Nat \ {0} /\ AllocContiguous(n)
  BY Widths, PagesEnough DEF heap_init
<1>4. IInv'
  BY <1>1, <1>3, AllocInv
<1>5. CASE reply' = {}
  <2>1. held' = held
    BY <1>1, <1>3, <1>5, AllocBrings
  <2>2. UNCHANGED <<arenas, blocks>>
    BY <1>5 DEF heap_init
  <2> QED BY <1>1, <1>2, <1>4, <2>1, <2>2 DEF HeapInv, BlocksAccounted
<1>6. CASE reply' # {}
  <2>1. PICK f \in Nat : reply' = f .. f + n - 1 /\ held' = held \cup reply' /\ reply' \cap held = {}
    BY <1>1, <1>3, <1>6, AllocBrings
  <2> DEFINE a == NewArena(f .. f + n - 1)
             w == WholeBlock(a)
             more == Append(arenas, a)
             bs == Added(blocks, a)
  <2>2. arenas' = <<a>> /\ blocks' = [b \in {a.first} |-> w]
    BY <1>6, <2>1 DEF heap_init
  <2>3. /\ a \in ArenaRecord /\ w \in BlockRecord /\ w.free
        /\ a.first \in Nat \ {0} /\ a.first + BLOCK + w.size = Top(a)
        /\ OnUnit(a.first) /\ OnUnit(w.size)
    BY <1>3, NewArenaIs
  <2>4. Founded(more, held')
    BY <1>1, <1>3, <2>1, ArenaFounded
  <2> HIDE DEF a, n, w
  <2>5. arenas' = more
    BY <1>2, <2>2
  <2>6. blocks' = bs
    BY <1>2, <2>2 DEF Added, w
  <2>7. Laid(more, bs) /\ Taken(bs) = Taken(blocks)
    BY <1>1, <2>3, <2>4, ArenaLaid DEF w
  <2> HIDE DEF more, bs
  <2>8. Taken(blocks') = {}
    BY <1>2, <2>6, <2>7 DEF Taken
  <2>9. BlocksAccounted'
    BY <1>2, <2>8 DEF BlocksAccounted, Taken
  <2> QED BY <1>4, <2>4, <2>5, <2>6, <2>7, <2>9 DEF HeapInv
<1> QED BY <1>5, <1>6

(* The ASSERTs of kfree never stop the machine.                             *)
LEMMA Releases ==
    ASSUME HeapInv, NEW p \in live, kfree(p)
    PROVE  /\ p - BLOCK \in Taken(blocks) /\ (p - BLOCK) + BLOCK = p
           /\ live' = live \ {p} /\ blocks' = Released(blocks, p - BLOCK)
           /\ UNCHANGED <<vars, arenas, pointer>>
<1>1. PICK b \in Taken(blocks) : p = b + BLOCK
  BY DEF HeapInv, BlocksAccounted, Taken
<1>2. b \in Nat /\ BLOCK \in Nat /\ b \in DOMAIN blocks /\ ~blocks[b].free
  BY Widths DEF HeapInv, Laid, Linked, Typed, Taken
<1>3. p - BLOCK = b
  BY <1>1, <1>2
<1> QED BY <1>1, <1>2, <1>3 DEF kfree, vars

LEMMA ReleasesInv == ASSUME HeapInv, NEW p \in live, kfree(p) PROVE HeapInv'
<1> DEFINE b == p - BLOCK
<1>1. /\ b \in Taken(blocks) /\ b + BLOCK = p
      /\ live' = live \ {p} /\ blocks' = Released(blocks, b) /\ UNCHANGED <<vars, arenas, pointer>>
  BY Releases
<1> HIDE DEF b
<1>2. IInv' /\ Founded(arenas', held') /\ arenas \in Seq(ArenaRecord)
  BY <1>1 DEF HeapInv, vars, IInv, NothingLost, FreeCountExact, pmm_frame_count, Founded
<1>3. Laid(arenas, blocks') /\ Taken(blocks') = Taken(blocks) \ {b}
  BY <1>1, <1>2, ReleasedLaid DEF HeapInv, Founded
<1>4. {x + BLOCK : x \in Taken(blocks)} = live
  BY DEF HeapInv, BlocksAccounted, Taken
<1>5. \A x \in Taken(blocks) : x \in Nat
  BY DEF HeapInv, Laid, Linked, Typed, Taken
<1>6. {x + BLOCK : x \in Taken(blocks')} = live'
  BY <1>1, <1>3, <1>4, <1>5, Widths
<1>7. BlocksAccounted'
  BY <1>6 DEF BlocksAccounted, Taken
<1> QED BY <1>1, <1>2, <1>3, <1>7 DEF HeapInv

(* The others return no frame of an arena.                                  *)
LEMMA OthersInv == ASSUME HeapInv, OtherCall PROVE HeapInv'
<1>1. IInv /\ Founded(arenas, held) /\ UNCHANGED <<arenas, blocks, live, pointer>>
  BY DEF HeapInv, OtherCall
<1>2. IInv' /\ Arenas \cap held \subseteq held'
  <2>1. ASSUME NEW n \in Counts, AllocContiguous(n) PROVE IInv' /\ held \subseteq held'
    <3>1. n \in Nat
      BY CountAssumption
    <3> QED BY <1>1, <2>1, <3>1, AllocInv, AllocBrings
  <2>2. ASSUME NEW f \in held \ Arenas, FreeFrame(f) PROVE IInv' /\ Arenas \cap held \subseteq held'
    BY <1>1, <2>2, FreeInv DEF FreeFrame
  <2> QED BY <2>1, <2>2 DEF OtherCall
<1>3. \A i \in DOMAIN arenas : ArenaFrames(arenas[i]) \cap held \subseteq held'
  BY <1>2 DEF Arenas
<1>4. Founded(arenas, held')
  BY <1>1, <1>3, FoundedOn
<1> QED BY <1>1, <1>2, <1>4 DEF HeapInv, BlocksAccounted

LEMMA HeapNextInv == HeapInv /\ [HeapNext]_heapVars => HeapInv'
<1> SUFFICES ASSUME HeapInv, [HeapNext]_heapVars PROVE HeapInv'
  OBVIOUS
<1>1. CASE UNCHANGED heapVars
  BY <1>1 DEF heapVars, vars, HeapInv, IInv, NothingLost, FreeCountExact, pmm_frame_count, BlocksAccounted
<1>2. ASSUME NEW n \in Asks, kmalloc(n) PROVE HeapInv'
  BY <1>2, AllocatesInv, HeapAssumption
<1> QED BY <1>1, <1>2, StartInv, ReleasesInv, OthersInv DEF HeapNext
-----------------------------------------------------------------------------
(* The chain of an arena is the blocks placed in it.                        *)
LEMMA PlacedOnce ==
    ASSUME NEW list \in Seq(ArenaRecord), Disjoint(list), \A i \in DOMAIN list : Paged(list[i]),
           NEW x \in Nat, NEW i \in DOMAIN list, NEW j \in DOMAIN list, 
           list[i].first <= x, x < Top(list[i]), list[j].first <= x, x < Top(list[j])
    PROVE  i = j
<1>1. list[i].base < list[i].first /\ list[j].base < list[j].first
  BY ArenasPaged
<1>2. /\ list[i].base \in Nat /\ list[i].first \in Nat /\ Top(list[i]) \in Nat
      /\ list[j].base \in Nat /\ list[j].first \in Nat /\ Top(list[j]) \in Nat
  BY ArenasTyped
<1>3. i # j => Top(list[i]) <= list[j].base \/ Top(list[j]) <= list[i].base
  BY DEF Disjoint
<1> QED BY <1>1, <1>2, <1>3

LEMMA NextPlaced ==
    ASSUME NEW list, NEW frames, Founded(list, frames), NEW bs, Linked(bs), Inside(list, bs),
           NEW i \in DOMAIN list, NEW b \in DOMAIN bs, bs[b].next # 0
    PROVE  Placed(bs, list[i], b) <=> Placed(bs, list[i], bs[b].next)
<1> DEFINE n == bs[b].next
<1>1. n \in DOMAIN bs /\ n = EndOf(bs, b) /\ bs[n].prev = b
  BY DEF Linked, Forward
<1>2. \A x \in DOMAIN bs : x \in Nat \ {0} /\ EndOf(bs, x) \in Nat /\ x < EndOf(bs, x)
  BY Widths DEF Linked, Typed, BlockRecord, EndOf
<1> HIDE DEF n
<1>3. list \in Seq(ArenaRecord) /\ Disjoint(list) /\ \A k \in DOMAIN list : Paged(list[k])
  BY DEF Founded
<1>4. \A k \in DOMAIN list : list[k].first \in Nat /\ Top(list[k]) \in Nat
  BY <1>3, ArenasTyped
<1>5. ASSUME NEW j \in DOMAIN list, NEW k \in DOMAIN list, Placed(bs, list[j], b), Placed(bs, list[k], n) PROVE j = k
  <2>1. list[j].first <= b /\ EndOf(bs, b) <= Top(list[j]) /\ EndOf(bs, b) # Top(list[j])
    BY <1>5 DEF Placed
  <2>2. list[k].first <= n /\ EndOf(bs, n) <= Top(list[k])
    BY <1>5 DEF Placed
  <2>3. n \in Nat /\ list[j].first <= n /\ n < Top(list[j]) /\ n < Top(list[k])
    BY <1>1, <1>2, <1>4, <2>1, <2>2
  <2> QED BY <1>3, <2>2, <2>3, PlacedOnce
<1>6. (\E j \in DOMAIN list : Placed(bs, list[j], b)) /\ \E k \in DOMAIN list : Placed(bs, list[k], n)
  BY <1>1 DEF Inside
<1> QED BY <1>5, <1>6 DEF n

LEMMA FirstPlaced ==
    ASSUME NEW list, NEW frames, Founded(list, frames), NEW bs, Linked(bs), Inside(list, bs), NEW i \in DOMAIN list
    PROVE  list[i].first \in DOMAIN bs /\ Placed(bs, list[i], list[i].first)
<1> DEFINE x == list[i].first
<1>1. x \in DOMAIN bs
  BY DEF Inside
<1>2. PICK k \in DOMAIN list : Placed(bs, list[k], x)
  BY <1>1 DEF Inside
<1>3. list \in Seq(ArenaRecord) /\ Disjoint(list) /\ \A j \in DOMAIN list : Paged(list[j])
  BY DEF Founded
<1>4. x \in Nat /\ x < EndOf(bs, x) /\ EndOf(bs, x) \in Nat
  BY <1>1, Widths DEF Linked, Typed, BlockRecord, EndOf
<1>5. x <= list[i].first /\ x < Top(list[i])
  BY <1>3, <1>4, ArenasPaged
<1>6. list[k].first <= x /\ x < Top(list[k])
  <2>1. list[k].first <= x /\ EndOf(bs, x) <= Top(list[k])
    BY <1>2 DEF Placed
  <2>2. Top(list[k]) \in Nat /\ list[k].first \in Nat
    BY <1>3, ArenasTyped
  <2> QED BY <1>4, <2>1, <2>2
<1> HIDE DEF x
<1>7. list[i].first = x
  BY DEF x
<1>8. i = k
  BY <1>3, <1>4, <1>5, <1>6, <1>7, PlacedOnce
<1> QED BY <1>1, <1>2, <1>7, <1>8

LEMMA ChainIsPlaced ==
    ASSUME HeapInv, NEW i \in DOMAIN arenas
    PROVE  Chain(arenas[i]) = {b \in DOMAIN blocks : Placed(blocks, arenas[i], b)}
<1> DEFINE a == arenas[i]
           P == {b \in DOMAIN blocks : Placed(blocks, a, b)}
           Closed(S) == a.first \in S /\ \A u \in S \cap DOMAIN blocks : blocks[u].next \in S \cup {0}
<1>1. Founded(arenas, held) /\ Linked(blocks) /\ Inside(arenas, blocks)
  BY DEF HeapInv, Laid
<1>2. Chain(a) = {b \in DOMAIN blocks : \A S \in SUBSET DOMAIN blocks : Closed(S) => b \in S}
  BY DEF Chain, Walk
<1>3. \A b \in DOMAIN blocks : blocks[b].next # 0 => (b \in P <=> blocks[b].next \in P) /\ blocks[b].next \in DOMAIN blocks
  <2>1. \A b \in DOMAIN blocks : blocks[b].next # 0 => blocks[b].next \in DOMAIN blocks
    BY <1>1 DEF Linked, Forward
  <2>2. \A b \in DOMAIN blocks : blocks[b].next # 0 => (Placed(blocks, a, b) <=> Placed(blocks, a, blocks[b].next))
    BY <1>1, NextPlaced
  <2> QED BY <2>1, <2>2
<1>4. a.first \in P
  BY <1>1, FirstPlaced
<1>5. Chain(a) \subseteq P
  <2>1. P \in SUBSET DOMAIN blocks /\ Closed(P)
    <3> HIDE DEF a
    <3>1. \A u \in P : u \in DOMAIN blocks
      OBVIOUS
    <3> HIDE DEF P
    <3> QED BY <1>3, <1>4, <3>1
  <2> HIDE DEF Closed, P
  <2> QED BY <1>2, <2>1
<1>6. P \subseteq Chain(a)
  <2> DEFINE B == P \ Chain(a)
  <2> SUFFICES ASSUME B # {} PROVE FALSE
    OBVIOUS
  <2>1. B \in SUBSET Nat
    BY <1>1 DEF Linked, Typed
  <2>2. PICK b \in B : \A y \in B : b <= y
    <3> HIDE DEF B
    <3> QED BY <2>1, LeastExists
  <2>3. PICK S \in SUBSET DOMAIN blocks : Closed(S) /\ b \notin S
    <3> HIDE DEF Closed
    <3> QED BY <1>2
  <2>4. b # a.first /\ b \in DOMAIN blocks /\ Placed(blocks, a, b)
    BY <2>3
  <2>5. blocks[b].prev # 0
    BY <2>4 DEF Placed
  <2> DEFINE u == blocks[b].prev
  <2>6. u \in DOMAIN blocks /\ blocks[u].next = b
    BY <1>1, <2>4, <2>5 DEF Linked, Back
  <2>7. b # 0 /\ u < b /\ u \in Nat /\ b \in Nat
    <3>1. u \in Nat /\ u < EndOf(blocks, u) /\ b # 0 /\ b \in Nat
      BY <1>1, <2>4, <2>6, Widths DEF Linked, Typed, BlockRecord, EndOf
    <3>2. b = EndOf(blocks, u)
      BY <1>1, <2>6, <3>1 DEF Linked, Forward
    <3> QED BY <3>1, <3>2
  <2> HIDE DEF u
  <2>8. u \in P
    <3> HIDE DEF P
    <3> QED BY <1>3, <2>2, <2>6, <2>7
  <2>9. u \in Chain(a)
    BY <2>2, <2>7, <2>8
  <2>10. u \in S
    <3> HIDE DEF Closed
    <3> QED BY <1>2, <2>3, <2>9
  <2> QED BY <2>3, <2>6, <2>7, <2>10
<1> QED BY <1>5, <1>6

LEMMA InvIntact == HeapInv => HeapIntact
<1> SUFFICES ASSUME HeapInv PROVE HeapIntact
  OBVIOUS
<1>1. Founded(arenas, held) /\ Linked(blocks) /\ Inside(arenas, blocks) /\ Separate(blocks)
  BY DEF HeapInv, Laid
<1>2. ASSUME NEW i \in DOMAIN arenas
      PROVE  /\ arenas[i].first \in DOMAIN blocks /\ blocks[arenas[i].first].prev = 0
             /\ ArenaFrames(arenas[i]) \subseteq held
  BY <1>1, FirstPlaced DEF Founded, Placed
<1>3. ASSUME NEW i \in DOMAIN arenas, NEW b \in Chain(arenas[i])
      PROVE  IF blocks[b].next = 0 THEN End(b) = arenas[i].base + arenas[i].size
             ELSE blocks[b].next = End(b) /\ blocks[End(b)].prev = b
  <2>1. b \in DOMAIN blocks /\ Placed(blocks, arenas[i], b)
    BY ChainIsPlaced
  <2>2. End(b) = EndOf(blocks, b)
    BY DEF End, EndOf
  <2> QED BY <1>1, <2>1, <2>2 DEF Placed, Top, Linked, Forward
<1>4. DOMAIN blocks = UNION {Chain(arenas[i]) : i \in DOMAIN arenas}
  BY <1>1, ChainIsPlaced DEF Inside
<1>5. Tiled
  BY <1>2, <1>3, <1>4 DEF Tiled
<1> QED BY <1>1, <1>5 DEF HeapIntact, Separate, Coalesced, HeapInv

(* Whatever order the blocks are taken and released in, and whatever frames *)
(* others take and return between the calls, the arenas are tiled by their  *)
(* lists, no two free blocks lie side by side, and exactly the clients'     *)
(* blocks are in use.                                                       *)
THEOREM HeapStaysIntact == HeapSpec => []HeapIntact
<1>1. HeapSpec => []HeapInv
  BY InitHeap, HeapNextInv, PTL DEF HeapSpec
<1> QED BY <1>1, InvIntact, PTL

(* The heap does not upset the account of the frames under it.              *)
THEOREM HeapKeepsFrames == HeapSpec => []FramesAccounted
<1>1. HeapSpec => []HeapInv
  BY InitHeap, HeapNextInv, PTL DEF HeapSpec
<1>2. HeapInv => FramesAccounted
  BY InvAccounts DEF HeapInv
<1> QED BY <1>1, <1>2, PTL
-----------------------------------------------------------------------------
(* The refinement: what the clients hold is a table of disjoint ranges.     *)
Sizes(l, bs) == [p \in l |-> bs[p - BLOCK].size]

LEMMA InitRanges == HeapInit => Ranges!Init
BY DEF HeapInit, Ranges!Init

(* The pointers held are those of the used blocks.                          *)
LEMMA HeldPointers ==
    ASSUME HeapInv
    PROVE  /\ \A b \in Taken(blocks) : b \in Nat \ {0} /\ b + BLOCK \in live /\ (b + BLOCK) - BLOCK = b
           /\ \A p \in live : p - BLOCK \in Taken(blocks) /\ (p - BLOCK) + BLOCK = p
<1>1. {b + BLOCK : b \in Taken(blocks)} = live
  BY DEF HeapInv, BlocksAccounted, Taken
<1>2. \A b \in Taken(blocks) : b \in Nat \ {0}
  BY DEF HeapInv, Laid, Linked, Typed, Taken
<1> QED BY <1>1, <1>2, Widths

LEMMA GrantRanges ==
    ASSUME HeapInv, HeapInv', NEW ask \in Asks, NEW b, NEW bs, Given(bs, ask, b), Taken(bs) = Taken(blocks),
           \A x \in Taken(bs) : bs[x].size = blocks[x].size
    PROVE  Ranges!Grant(ask)
<1> DEFINE old == Sizes(live, blocks)
           new == Sizes(live', blocks')
           q == b + BLOCK
<1>1. /\ b \in DOMAIN blocks' /\ b \notin Taken(blocks) /\ Taken(blocks') = Taken(blocks) \cup {b}
      /\ pointer' = q /\ live' = live \cup {q} /\ blocks'[b].size >= ask
      /\ \A x \in Taken(blocks) : blocks'[x].size = blocks[x].size
  BY DEF Given
<1>2. BLOCK \in Nat \ {0} /\ b \in Nat \ {0} /\ q - BLOCK = b
  BY <1>1, Widths DEF HeapInv, Laid, Linked, Typed
<1>3. /\ \A x \in Taken(blocks) : x \in Nat \ {0} /\ x + BLOCK \in live /\ (x + BLOCK) - BLOCK = x
      /\ \A p \in live : p - BLOCK \in Taken(blocks) /\ (p - BLOCK) + BLOCK = p
  BY HeldPointers
<1>4. q \notin live /\ q # 0
  BY <1>1, <1>2, <1>3
<1>5. q % HEAP_ALIGN = 0
  <2>1. OnUnit(b)
    BY <1>1 DEF HeapInv, Laid, Aligned
  <2>2. OnUnit(BLOCK) /\ \A u, v \in Nat : OnUnit(u) /\ OnUnit(v) => OnUnit(u + v)
    BY UnitSums
  <2>3. b \in Nat /\ BLOCK \in Nat
    BY <1>2
  <2>4. OnUnit(b + BLOCK)
    BY <2>1, <2>2, <2>3, Zenon
  <2> QED BY <2>4 DEF OnUnit
<1>6. DOMAIN old = live /\ DOMAIN new = DOMAIN old \cup {q} /\ new[q] = blocks'[b].size
  BY <1>1, <1>2 DEF Sizes
<1>7. \A p \in live : new[p] = old[p]
  BY <1>1, <1>3 DEF Sizes
<1>8. ASSUME NEW p \in live PROVE (p .. p + old[p] - 1) \cap (q .. q + new[q] - 1) = {}
  <2> DEFINE c == p - BLOCK
  <2>1. c \in Taken(blocks) /\ c + BLOCK = p /\ c \in DOMAIN blocks' /\ b # c /\ old[p] = blocks'[c].size
    <3>1. c \in Taken(blocks') 
      BY <1>1, <1>3
    <3>2. old[p] = blocks[c].size
      BY DEF Sizes
    <3> QED BY <1>1, <1>3, <3>1, <3>2 DEF Taken
  <2>2. EndOf(blocks', b) <= c \/ EndOf(blocks', c) <= b
    BY <1>1, <2>1 DEF HeapInv, Laid, Linked, Apart
  <2>3. c \in Nat /\ blocks'[c].size \in Nat /\ blocks'[b].size \in Nat
    BY <1>1, <2>1 DEF HeapInv, Laid, Linked, Typed, BlockRecord
  <2> HIDE DEF c, new, old
  <2>4. b + BLOCK + blocks'[b].size <= c \/ c + BLOCK + blocks'[c].size <= b
    BY <2>2 DEF EndOf
  <2> QED BY <1>2, <1>6, <2>1, <2>3, <2>4
<1> HIDE DEF old, new
<1>9. Ranges!Grant(ask) <=> 
        /\ pointer' \notin DOMAIN old \cup {0} /\ pointer' % HEAP_ALIGN = 0 /\ DOMAIN new = DOMAIN old \cup {pointer'}
        /\ \A p \in DOMAIN old : 
             /\ new[p] = old[p] 
             /\ (p .. p + old[p] - 1) \cap (pointer' .. pointer' + new[pointer'] - 1) = {}
        /\ new[pointer'] >= ask
  BY DEF Ranges!Grant, Ranges!Span, old, new, Sizes
<1> QED BY <1>1, <1>4, <1>5, <1>6, <1>7, <1>8, <1>9

LEMMA AllocatesRanges ==
    ASSUME HeapInv, HeapInv', NEW ask \in Asks, kmalloc(ask)
    PROVE  Ranges!Next
<1>1. CASE ask = 0
  BY <1>1 DEF kmalloc, Ranges!Next, Ranges!Refuse
<1>2. CASE ask # 0
  <2>1. ask \in Nat \ {0}
    BY <1>2, HeapAssumption
  <2>2. \/ pointer' = 0 /\ UNCHANGED <<blocks, live>>
        \/ \E b, bs : /\ Given(bs, ask, b) /\ Taken(bs) = Taken(blocks)
                      /\ \A x \in Taken(bs) : bs[x].size = blocks[x].size
    BY <2>1, Allocates
  <2>3. CASE pointer' = 0 /\ UNCHANGED <<blocks, live>>
    BY <2>3 DEF Ranges!Next, Ranges!Refuse
  <2>4. ASSUME NEW b, NEW bs, Given(bs, ask, b), Taken(bs) = Taken(blocks),
               \A x \in Taken(bs) : bs[x].size = blocks[x].size
        PROVE  Ranges!Next
    BY <2>4, GrantRanges DEF Ranges!Next
  <2> QED BY <2>2, <2>3, <2>4
<1> QED BY <1>1, <1>2

LEMMA ReleasesRanges == ASSUME HeapInv, NEW p \in live, kfree(p) PROVE Ranges!Next
<1> DEFINE b == p - BLOCK
           cs == Released(blocks, b)
<1>1. /\ b \in Taken(blocks) /\ b + BLOCK = p
      /\ live' = live \ {p} /\ blocks' = cs /\ UNCHANGED <<vars, arenas, pointer>>
  BY Releases
<1>2. arenas \in Seq(ArenaRecord) /\ Disjoint(arenas) /\ Laid(arenas, blocks) /\ \A i \in DOMAIN arenas : Paged(arenas[i])
  BY DEF HeapInv, Founded
<1>3. \A x \in Taken(blocks) \ {b} : cs[x].size = blocks[x].size
  BY <1>1, <1>2, ReleasedLaid
<1>4. \A q \in live : q - BLOCK \in Taken(blocks) /\ (q - BLOCK) + BLOCK = q
  BY HeldPointers
<1> HIDE DEF b, cs
<1>5. \A q \in live \ {p} : blocks'[q - BLOCK].size = blocks[q - BLOCK].size
  BY <1>1, <1>3, <1>4
<1>6. Ranges!Release(p)
  BY <1>1, <1>5 DEF Ranges!Release
<1> QED BY <1>6 DEF Ranges!Next

LEMMA HeapNextRanges == HeapInv /\ HeapInv' /\ [HeapNext]_heapVars => [Ranges!Next]_(Ranges!vars)
<1> SUFFICES ASSUME HeapInv, HeapInv', [HeapNext]_heapVars PROVE [Ranges!Next]_(Ranges!vars)
  OBVIOUS
<1>1. CASE heap_init
  <2>1. live = {} /\ live' = live /\ pointer' = pointer
    BY <1>1, NoArenas DEF heap_init
  <2> QED BY <2>1 DEF Ranges!vars
<1>2. CASE OtherCall
  BY <1>2 DEF OtherCall, Ranges!vars
<1>3. CASE UNCHANGED heapVars
  BY <1>3 DEF heapVars, Ranges!vars
<1> QED BY <1>1, <1>2, <1>3, AllocatesRanges, ReleasesRanges DEF HeapNext

(* Seen by its clients, heap.c is the table of ranges: what a caller is     *)
(* given is aligned, long enough and apart from all that others hold, and   *)
(* stays so, whatever is split and merged around it.                        *)
THEOREM HeapHasOwners == HeapSpec => ImplementsHeapOwners
<1>1. HeapSpec => []HeapInv
  BY InitHeap, HeapNextInv, PTL DEF HeapSpec
<1> QED BY <1>1, InitRanges, HeapNextRanges, PTL DEF HeapSpec, ImplementsHeapOwners, Ranges!Spec

(* The heap is one client more of the frame allocator.                      *)
LEMMA HeapNextFrames == HeapInv /\ HeapInv' /\ [HeapNext]_heapVars => [Owners!Next]_(Owners!vars)
<1> SUFFICES ASSUME HeapInv, HeapInv', [HeapNext]_heapVars PROVE [Owners!Next]_(Owners!vars)
  OBVIOUS
<1>1. IInv /\ IInv'
  BY DEF HeapInv
<1>2. UNCHANGED vars => [Owners!Next]_(Owners!vars)
  BY <1>1, NextOwners
<1>3. ASSUME NEW n \in Counts, AllocContiguous(n) PROVE Owners!Next
  BY <1>1, <1>3, AllocOwners
<1>4. CASE heap_init
  <2>1. PagesNeeded(PAGE_SIZE) \in Counts /\ AllocContiguous(PagesNeeded(PAGE_SIZE))
    BY <1>4, HeapIsClient DEF heap_init
  <2> QED BY <1>3, <2>1
<1>5. ASSUME NEW ask \in Asks, kmalloc(ask) PROVE [Owners!Next]_(Owners!vars)
  <2>1. CASE UNCHANGED vars
    BY <1>2, <2>1
  <2>2. CASE Expand(ALIGN_UP(ask))
    <3>1. PagesNeeded(ALIGN_UP(ask)) \in Counts /\ AllocContiguous(PagesNeeded(ALIGN_UP(ask)))
      BY <2>2, HeapIsClient DEF Expand
    <3> QED BY <1>3, <3>1
  <2> QED BY <1>5, <2>1, <2>2 DEF kmalloc
<1>6. ASSUME NEW p \in live, kfree(p) PROVE UNCHANGED vars
  BY <1>6, Releases
<1>7. CASE OtherCall
  <2>1. ASSUME NEW f \in held, FreeFrame(f) PROVE Owners!Next
    BY <1>1, <2>1, FreeOwners
  <2> QED BY <1>3, <1>7, <2>1 DEF OtherCall
<1>8. CASE UNCHANGED heapVars
  BY <1>2, <1>8 DEF heapVars
<1> QED BY <1>2, <1>4, <1>5, <1>6, <1>7, <1>8 DEF HeapNext

(* With the heap among its clients too, pmm.c grants only frames nobody     *)
(* owns, and refuses only when there is no such run.                        *)
THEOREM HeapFramesHaveOwners == HeapSpec => ImplementsFrameOwners
<1>1. HeapSpec => []HeapInv
  BY InitHeap, HeapNextInv, PTL DEF HeapSpec
<1>2. HeapInit => Owners!Init
  BY InitOwners DEF HeapInit
<1> QED BY <1>1, <1>2, HeapNextFrames, PTL DEF HeapSpec, ImplementsFrameOwners, Owners!Spec
=============================================================================
