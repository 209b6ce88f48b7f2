----------------------------- MODULE SpawnProofs -----------------------------
(***************************************************************************)
(* Every frame has one owner and every task its image, through creation,    *)
(* loading, refusal, death and reaping, for any machine and any programs.   *)
(* Then the algorithms between a line of input and a program: malloc, the   *)
(* shell's parser, the loader on one address space, and printf.             *)
(***************************************************************************)
EXTENDS Spawn, Algorithms, NumberLemmas, SequenceTheorems

(* The indices of a page are digits: they tell pages apart.                 *)
LEMMA PathIs ==
    ASSUME NEW page \in UserPages
    PROVE  /\ Path(page) \in Seq(Nat) /\ Len(Path(page)) = 4 
           /\ Path(page)[1] = Shift(Shift(Shift(page))) /\ Path(page)[1] \in UserHalf
<1> DEFINE top == Shift(Shift(Shift(page)))
<1>1. page \in Nat /\ top \in UserHalf
  BY DEF UserPages
<1>2. \A x \in Nat : Shift(x) \in Nat /\ Index(x) \in Nat
  BY Digit, EntriesAssumption DEF Shift, Index
<1>3. Index(top) = top
  <2>1. \A a \in Nat : a < ENTRIES => a % ENTRIES = a
    BY EntriesAssumption
  <2>2. top \in Nat /\ top < ENTRIES
    BY <1>1, EntriesAssumption DEF UserHalf
  <2> QED BY <2>1, <2>2 DEF Index
<1> HIDE DEF top
<1>4. Path(page) = <<Index(top), Index(Shift(Shift(page))), Index(Shift(page)), Index(page)>>
  BY DEF Path, top
<1>5. Index(top) \in Nat /\ Index(Shift(Shift(page))) \in Nat /\ Index(Shift(page)) \in Nat /\ Index(page) \in Nat
  BY <1>1, <1>2 DEF top
<1> QED BY <1>1, <1>3, <1>4, <1>5 DEF top

LEMMA PathInjective ==
    ASSUME NEW p \in UserPages, NEW q \in UserPages, Path(p) = Path(q)
    PROVE  p = q
<1>1. p \in Nat /\ q \in Nat
  BY DEF UserPages
<1>2. \A x \in Nat : x = ENTRIES * Shift(x) + Index(x) /\ Shift(x) \in Nat
  BY Digit, EntriesAssumption DEF Shift, Index
<1>3. \A x, y \in Nat : Shift(x) = Shift(y) /\ Index(x) = Index(y) => x = y
  BY <1>2
<1>4. /\ Index(Shift(Shift(p))) = Index(Shift(Shift(q)))
      /\ Index(Shift(p)) = Index(Shift(q)) /\ Index(p) = Index(q)
  BY DEF Path
<1>5. Shift(Shift(Shift(p))) = Shift(Shift(Shift(q)))
  BY PathIs
<1>6. Shift(Shift(p)) = Shift(Shift(q))
  BY <1>1, <1>2, <1>3, <1>4, <1>5
<1>7. Shift(p) = Shift(q)
  BY <1>1, <1>2, <1>3, <1>4, <1>6
<1> QED BY <1>1, <1>3, <1>4, <1>7

(* The path of a table above another, and of the tables on the way.         *)
Prefix(p, n) == SubSeq(p, 1, n)

LEMMA PathPrefixes ==
    ASSUME NEW p \in Seq(Nat), Len(p) = 4
    PROVE  /\ Prefix(p, 4) = p
           /\ \A n \in 1 .. 4 : /\ Prefix(p, n) \in Seq(Nat) /\ Len(Prefix(p, n)) = n 
                                /\ Prefix(p, n)[1] = p[1] /\ Prefix(p, n) # <<>>
                                /\ n > 1 => Prefix(Prefix(p, n), n - 1) = Prefix(p, n - 1)
<1>1. Prefix(p, 4) = p
  BY DEF Prefix
<1>2. ASSUME NEW n \in 1 .. 4 
      PROVE  /\ Prefix(p, n) \in Seq(Nat) /\ Len(Prefix(p, n)) = n 
             /\ Prefix(p, n)[1] = p[1] /\ Prefix(p, n) # <<>>
  <2>1. Prefix(p, n) \in Seq(Nat) /\ Len(Prefix(p, n)) = n
    BY DEF Prefix
  <2>2. Prefix(p, n)[1] = p[1]
    BY DEF Prefix
  <2> QED BY <2>1, <2>2
<1>3. ASSUME NEW n \in 2 .. 4
      PROVE  Prefix(Prefix(p, n), n - 1) = Prefix(p, n - 1)
  BY <1>2 DEF Prefix
<1>4. ASSUME NEW n \in 1 .. 4 PROVE n > 1 => Prefix(Prefix(p, n), n - 1) = Prefix(p, n - 1)
  <2>1. n > 1 => n \in 2 .. 4
    OBVIOUS
  <2> QED BY <1>3, <2>1
<1> QED BY <1>1, <1>2, <1>4, Zenon
-----------------------------------------------------------------------------
(* An address space: the kernel's half as the kernel has it, and below it a *)
(* tree of tables, finite and without a gap.                                *)
Space(sp) ==
    /\ DOMAIN sp = {<<>>} \cup DOMAIN KernelHalf \cup UserNodes(sp)
    /\ \A n \in DOMAIN KernelHalf : sp[n] = KernelHalf[n]
    /\ IsFiniteSet(UserNodes(sp))
    /\ \A n \in UserNodes(sp) : /\ n \in Seq(Nat) /\ Len(n) \in 1 .. 4
                                /\ Len(n) > 1 => Prefix(n, Len(n) - 1) \in UserNodes(sp)

LEMMA NewSpaceIs ==
    ASSUME NEW pml4
    PROVE  Space(NewSpace(pml4, KernelHalf)) /\ UserNodes(NewSpace(pml4, KernelHalf)) = {} 
           /\ NewSpace(pml4, KernelHalf)[<<>>] = pml4
<1> DEFINE sp == NewSpace(pml4, KernelHalf)
<1>1. /\ DOMAIN sp = {<<>>} \cup DOMAIN KernelHalf /\ sp[<<>>] = pml4
      /\ \A n \in DOMAIN KernelHalf : n # <<>> => sp[n] = KernelHalf[n]
  BY DEF NewSpace
<1>2. \A n \in DOMAIN KernelHalf : n # <<>> /\ n[1] \notin UserHalf
  BY MachineAssumption
<1> HIDE DEF sp
<1>3. UserNodes(sp) = {}
  BY <1>1, <1>2 DEF UserNodes
<1>4. IsFiniteSet(UserNodes(sp))
  BY <1>3, FS_EmptySet
<1> QED BY <1>1, <1>2, <1>3, <1>4 DEF Space, sp

(* The tables a new page misses: a run of its prefixes, none of them there. *)
LEMMA Missing ==
    ASSUME NEW sp, Space(sp), NEW page \in UserPages
    PROVE  LET new == MissingTables(sp, page)
           IN  \E first \in 1 .. 4 :
                 /\ new = [i \in 1 .. 4 - first |-> Prefix(Path(page), first + i - 1)]
                 /\ \A n \in 1 .. 3 : Prefix(Path(page), n) \in DOMAIN sp <=> n < first
<1> DEFINE p == Path(page)
           absent == {n \in 1 .. 4 : n = 4 \/ Prefix(p, n) \notin DOMAIN sp}
           first == Min(absent)
<1>1. p \in Seq(Nat) /\ Len(p) = 4 /\ p[1] \in UserHalf
  BY PathIs
<1> HIDE DEF p
<1>2. \A n \in 1 .. 4 : /\ Len(Prefix(p, n)) = n /\ Prefix(p, n)[1] = p[1] /\ Prefix(p, n) # <<>>
                        /\ n > 1 => Prefix(Prefix(p, n), n - 1) = Prefix(p, n - 1)
  BY <1>1, PathPrefixes
<1>3. first \in absent /\ \A n \in absent : first <= n
  <2>1. absent \in SUBSET Nat /\ 4 \in absent
    OBVIOUS
  <2> HIDE DEF absent
  <2> QED BY <2>1, MinIsLeast
<1>4. MissingTables(sp, page) = [i \in 1 .. 4 - first |-> Prefix(p, first + i - 1)]
  BY DEF MissingTables, p, Prefix
<1> HIDE DEF first
<1>5. first \in 1 .. 4 /\ \A n \in 1 .. 3 : n < first => Prefix(p, n) \in DOMAIN sp
  BY <1>3
<1>6. \A n \in 1 .. 4 : Prefix(p, n) \in DOMAIN sp <=> Prefix(p, n) \in UserNodes(sp)
  BY <1>1, <1>2 DEF UserNodes
<1>7. \A n \in 2 .. 4 : Prefix(p, n) \in DOMAIN sp => Prefix(p, n - 1) \in DOMAIN sp
  <2> SUFFICES ASSUME NEW n \in 2 .. 4, Prefix(p, n) \in DOMAIN sp PROVE Prefix(p, n - 1) \in DOMAIN sp
    OBVIOUS
  <2>0. n \in 1 .. 4 /\ n - 1 \in 1 .. 4 /\ n > 1
    OBVIOUS
  <2>1. Prefix(p, n) \in UserNodes(sp) /\ Len(Prefix(p, n)) = n
    BY <1>2, <1>6, <2>0, Zenon
  <2>2. Prefix(Prefix(p, n), n - 1) \in UserNodes(sp)
    BY <2>0, <2>1 DEF Space
  <2>3. Prefix(Prefix(p, n), n - 1) = Prefix(p, n - 1) /\ n - 1 \in 1 .. 4
    BY <1>2, <2>0, Zenon
  <2> QED BY <1>6, <2>2, <2>3
<1>8. first # 4 => Prefix(p, first) \notin DOMAIN sp
  BY <1>3
<1>9. \A n \in 1 .. 3 : n >= first => Prefix(p, n) \notin DOMAIN sp
  <2>1. Prefix(p, 2) \in DOMAIN sp => Prefix(p, 1) \in DOMAIN sp
    <3>1. 2 \in 2 .. 4 /\ 2 - 1 = 1
      OBVIOUS
    <3> QED BY <1>7, <3>1
  <2>2. Prefix(p, 3) \in DOMAIN sp => Prefix(p, 2) \in DOMAIN sp
    <3>1. 3 \in 2 .. 4 /\ 3 - 1 = 2
      OBVIOUS
    <3> QED BY <1>7, <3>1
  <2>3. first \in {1, 2, 3, 4}
    BY <1>5
  <2> QED BY <1>8, <2>1, <2>2, <2>3
<1>10. \A n \in 1 .. 3 : Prefix(p, n) \in DOMAIN sp <=> n < first
  BY <1>5, <1>9
<1> QED BY <1>4, <1>5, <1>10 DEF p

LEMMA MissingCount ==
    ASSUME NEW sp, Space(sp), NEW page \in UserPages
    PROVE  /\ Len(MissingTables(sp, page)) \in Nat
           /\ DOMAIN MissingTables(sp, page) = 1 .. Len(MissingTables(sp, page))
<1> DEFINE new == MissingTables(sp, page)
<1>1. PICK first \in 1 .. 4 : new = [i \in 1 .. 4 - first |-> Prefix(Path(page), first + i - 1)]
  BY Missing
<1> HIDE DEF new
<1>2. Len(new) \in Nat /\ DOMAIN new = 1 .. Len(new)
  BY <1>1
<1> QED BY <1>2 DEF new

(* The mapping of a new page: its leaf and its missing tables come on new   *)
(* frames, the rest stays.                                                  *)
Grown(sp, cs, page, leaf, new, frames) ==
    /\ new \in Seq(Seq(Nat)) /\ Len(new) \in 0 .. 3 /\ IsInjective(new)
    /\ \A i \in DOMAIN new : new[i] # Path(page) /\ new[i] \notin DOMAIN sp /\ Len(new[i]) \in 1 .. 3
    /\ UserNodes(cs) = UserNodes(sp) \cup {Path(page)} \cup {new[i] : i \in DOMAIN new}
    /\ cs[Path(page)] = leaf /\ \A i \in DOMAIN new : cs[new[i]] = frames[i]
    /\ \A n \in DOMAIN sp : cs[n] = sp[n]

LEMMA Mapping ==
    ASSUME NEW sp, Space(sp), NEW page \in UserPages, Path(page) \notin DOMAIN sp, NEW leaf, NEW frames
    PROVE  /\ Space(MapPage(sp, page, leaf, frames))
           /\ Grown(sp, MapPage(sp, page, leaf, frames), page, leaf, MissingTables(sp, page), frames)
<1> DEFINE p == Path(page)
           new == MissingTables(sp, page)
           cs == MapPage(sp, page, leaf, frames)
<1>1. p \in Seq(Nat) /\ Len(p) = 4 /\ p[1] \in UserHalf
  BY PathIs
<1>2. PICK first \in 1 .. 4 :
        /\ new = [i \in 1 .. 4 - first |-> Prefix(p, first + i - 1)]
        /\ \A n \in 1 .. 3 : Prefix(p, n) \in DOMAIN sp <=> n < first
  BY Missing
<1>3. cs = [n \in DOMAIN sp \cup {p} \cup {new[i] : i \in DOMAIN new} |->
            IF n = p THEN leaf
            ELSE IF n \in DOMAIN sp THEN sp[n]
            ELSE frames[CHOOSE i \in DOMAIN new : new[i] = n]]
  BY DEF MapPage
<1> HIDE DEF p, new, cs
<1>4. /\ Prefix(p, 4) = p
      /\ \A n \in 1 .. 4 : /\ Prefix(p, n) \in Seq(Nat) /\ Len(Prefix(p, n)) = n 
                           /\ Prefix(p, n)[1] = p[1] /\ Prefix(p, n) # <<>>
                           /\ n > 1 => Prefix(Prefix(p, n), n - 1) = Prefix(p, n - 1)
  BY <1>1, PathPrefixes
<1>5. /\ new \in Seq(Seq(Nat)) /\ DOMAIN new = 1 .. 4 - first /\ Len(new) = 4 - first
      /\ \A i \in DOMAIN new : first + i - 1 \in 1 .. 3 /\ new[i] = Prefix(p, first + i - 1)
  <2>1. DOMAIN new = 1 .. 4 - first /\ 4 - first \in Nat
    BY <1>2
  <2>2. \A i \in DOMAIN new : first + i - 1 \in 1 .. 3 /\ first + i - 1 \in 1 .. 4 /\ new[i] = Prefix(p, first + i - 1)
    BY <1>2, <2>1
  <2>3. \A i \in DOMAIN new : new[i] \in Seq(Nat)
    BY <1>4, <2>2
  <2>4. new \in [1 .. 4 - first -> Seq(Nat)]
    BY <1>2, <2>1, <2>3
  <2>5. new \in Seq(Seq(Nat)) /\ Len(new) = 4 - first
    BY <2>1, <2>4
  <2> QED BY <2>1, <2>2, <2>5
<1>6. \A i \in DOMAIN new : Len(new[i]) = first + i - 1 /\ new[i] \notin DOMAIN sp /\ new[i] # p
                            /\ new[i] # <<>> /\ new[i][1] \in UserHalf /\ new[i] \in Seq(Nat)
  <2> SUFFICES ASSUME NEW i \in DOMAIN new
               PROVE  /\ Len(new[i]) = first + i - 1 /\ new[i] \notin DOMAIN sp /\ new[i] # p
                      /\ new[i] # <<>> /\ new[i][1] \in UserHalf /\ new[i] \in Seq(Nat)
    OBVIOUS
  <2> DEFINE n == first + i - 1
  <2>1. n \in 1 .. 3 /\ n >= first /\ new[i] = Prefix(p, n)
    BY <1>5
  <2> HIDE DEF n
  <2>2. n \in 1 .. 4 /\ n # 4
    BY <2>1
  <2>3. Len(new[i]) = n /\ new[i][1] = p[1] /\ new[i] # <<>> /\ new[i] \in Seq(Nat)
    BY <1>4, <2>1, <2>2
  <2>4. new[i] \notin DOMAIN sp
    BY <1>2, <2>1
  <2> QED BY <1>1, <2>2, <2>3, <2>4 DEF n
<1>7. IsInjective(new)
  <2> SUFFICES ASSUME NEW a \in DOMAIN new, NEW b \in DOMAIN new, new[a] = new[b] PROVE a = b
    BY DEF IsInjective
  <2>1. Len(new[a]) = first + a - 1 /\ Len(new[b]) = first + b - 1
    BY <1>6
  <2>2. first + a - 1 = first + b - 1 /\ a \in 1 .. 4 - first /\ b \in 1 .. 4 - first /\ first \in Int
    BY <1>2, <1>5, <2>1
  <2> QED BY <2>2
<1>8. /\ DOMAIN cs = DOMAIN sp \cup {p} \cup {new[i] : i \in DOMAIN new}
      /\ cs[p] = leaf /\ \A n \in DOMAIN sp : cs[n] = sp[n]
  BY <1>3 DEF p
<1>9. \A i \in DOMAIN new : cs[new[i]] = frames[i]
  <2> SUFFICES ASSUME NEW i \in DOMAIN new PROVE cs[new[i]] = frames[i]
    OBVIOUS
  <2>1. cs[new[i]] = frames[CHOOSE j \in DOMAIN new : new[j] = new[i]]
    BY <1>3, <1>6
  <2>2. \A j \in DOMAIN new : new[j] = new[i] => j = i
    BY <1>7 DEF IsInjective
  <2>3. (CHOOSE j \in DOMAIN new : new[j] = new[i]) = i
    BY <2>2
  <2> QED BY <2>1, <2>3
<1>10. UserNodes(cs) = UserNodes(sp) \cup {p} \cup {new[i] : i \in DOMAIN new}
  <2>1. p # <<>> /\ p[1] \in UserHalf
    BY <1>1
  <2> QED BY <1>6, <1>8, <2>1 DEF UserNodes
<1>11. Space(cs)
  <2>1. DOMAIN cs = {<<>>} \cup DOMAIN KernelHalf \cup UserNodes(cs)
    BY <1>8, <1>10 DEF Space
  <2>2. \A n \in DOMAIN KernelHalf : cs[n] = KernelHalf[n]
    BY <1>8 DEF Space
  <2>3. IsFiniteSet(UserNodes(cs))
    <3>1. IsFiniteSet({new[i] : i \in DOMAIN new})
      <4>1. IsFiniteSet(DOMAIN new)
        BY <1>5, FS_Interval
      <4>2. new \in Surjection(DOMAIN new, {new[i] : i \in DOMAIN new})
        BY <1>5 DEF Surjection
      <4> QED BY <4>1, <4>2, FS_Surjection
    <3>2. IsFiniteSet(UserNodes(sp) \cup {p})
      BY FS_AddElement DEF Space
    <3> DEFINE U == UserNodes(sp) \cup {p}
               T == {new[i] : i \in DOMAIN new}
    <3>3. UserNodes(cs) = U \cup T
      BY <1>10
    <3> HIDE DEF U, T
    <3>4. IsFiniteSet(U) /\ IsFiniteSet(T)
      BY <3>1, <3>2 DEF U, T
    <3>5. IsFiniteSet(U \cup T)
      BY <3>4, FS_Union
    <3> QED BY <3>3, <3>5
  <2>4. ASSUME NEW n \in UserNodes(cs)
        PROVE  /\ n \in Seq(Nat) /\ Len(n) \in 1 .. 4
               /\ Len(n) > 1 => Prefix(n, Len(n) - 1) \in UserNodes(cs)
    <3>1. CASE n \in UserNodes(sp)
      BY <1>10, <3>1 DEF Space
    <3>2. \A k \in 1 .. 3 : Prefix(p, k) \in UserNodes(cs)
      <4> SUFFICES ASSUME NEW k \in 1 .. 3 PROVE Prefix(p, k) \in UserNodes(cs)
        OBVIOUS
      <4>1. k \in 1 .. 4
        OBVIOUS
      <4>2. CASE k < first
        <5>1. Prefix(p, k) \in DOMAIN sp
          BY <1>2, <4>2
        <5> QED BY <1>1, <1>4, <1>10, <4>1, <5>1 DEF UserNodes
      <4>3. CASE k >= first
        <5>1. k - first + 1 \in DOMAIN new /\ first + (k - first + 1) - 1 = k
          BY <1>5, <4>3
        <5>2. new[k - first + 1] = Prefix(p, k)
          BY <1>5, <5>1
        <5> QED BY <1>10, <5>1, <5>2
      <4> QED BY <4>2, <4>3
    <3>3. ASSUME NEW k \in 1 .. 4, n = Prefix(p, k)
          PROVE  /\ n \in Seq(Nat) /\ Len(n) \in 1 .. 4
                 /\ Len(n) > 1 => Prefix(n, Len(n) - 1) \in UserNodes(cs)
      <4>1. Len(n) = k /\ n \in Seq(Nat)
        BY <1>4, <3>3
      <4>2. k > 1 => k - 1 \in 1 .. 3 /\ Prefix(n, k - 1) = Prefix(p, k - 1)
        BY <1>4, <3>3
      <4> QED BY <3>2, <4>1, <4>2
    <3>4. CASE n = p
      <4>1. 4 \in 1 .. 4
        OBVIOUS
      <4> QED BY <1>4, <3>3, <3>4, <4>1
    <3>5. ASSUME NEW i \in DOMAIN new, n = new[i]
          PROVE  /\ n \in Seq(Nat) /\ Len(n) \in 1 .. 4
                 /\ Len(n) > 1 => Prefix(n, Len(n) - 1) \in UserNodes(cs)
      <4>1. first + i - 1 \in 1 .. 4 /\ n = Prefix(p, first + i - 1)
        BY <1>5, <3>5
      <4> QED BY <3>3, <4>1
    <3> QED BY <1>10, <3>1, <3>4, <3>5
  <2> QED BY <2>1, <2>2, <2>3, <2>4 DEF Space
<1>12. \A i \in DOMAIN new : Len(new[i]) \in 1 .. 3
  BY <1>5, <1>6
<1>13. Len(new) \in 0 .. 3
  BY <1>5
<1> QED BY <1>5, <1>6, <1>7, <1>8, <1>9, <1>10, <1>11, <1>12, <1>13 DEF Grown, p, new, cs
-----------------------------------------------------------------------------
(* The frames of an address space that are its own.                        *)
Nodes(sp) == {<<>>} \cup UserNodes(sp)
Image(sp) == {sp[n] : n \in Nodes(sp)}

(* The first n pages are mapped and nothing else is, no two nodes share a   *)
(* frame, and none of them is the task's kernel stack.                      *)
Mapped(sp, stack, pages, n) ==
    /\ Space(sp)
    /\ {p \in UserNodes(sp) : Len(p) = 4} = {Path(pages[i]) : i \in 1 .. n}
    /\ n = 0 => UserNodes(sp) = {}
    /\ \A m1, m2 \in Nodes(sp) : sp[m1] = sp[m2] => m1 = m2
    /\ stack \notin Image(sp)

(* The frame of each of them was filled for it.                            *)
Filled(s, sp, pages, n, hs) ==
    \A i \in 1 .. n : LeafOf(sp, pages[i]) \in DOMAIN hs /\ hs[LeafOf(sp, pages[i])] = <<s, pages[i]>>

Wanted(pages) == pages \in Seq(UserPages) /\ IsInjective(pages)

Record(r) == r = [state |-> r.state, user |-> r.user, stack |-> r.stack, as |-> r.as, pages |-> r.pages]

(* A task is built as far as it was loaded: whole, unless it is loading.    *)
Whole(s, r, td, hs) ==
    /\ Record(r)
    /\ r.state \in {"free", "alive", "zombie", "loading"} /\ r.user \in BOOLEAN
    /\ r.state = "loading" => r.user
    /\ r.state # "free" /\ r.user =>
         /\ Wanted(r.pages)
         /\ \E k \in 0 .. Len(r.pages) :
              /\ Mapped(r.as, r.stack, r.pages, k) /\ Filled(s, r.as, r.pages, k, hs)
              /\ IF r.state = "loading" THEN k < Len(r.pages) /\ td = SubSeq(r.pages, k + 1, Len(r.pages))
                                        ELSE k = Len(r.pages)

(* The frames of each slot: they, the free ones and the kernel's make up    *)
(* the machine and do not meet.                                             *)
OwnedBy(r) ==
    IF r.state = "free" THEN {} ELSE {r.stack} \cup (IF r.user THEN Image(r.as) ELSE {})
OwnersOf(tk) == [s \in Slots |-> OwnedBy(tk[s])]

Books(fr, own) ==
    /\ fr \cap KernelFrames = {}
    /\ \A s \in Slots : own[s] \cap (fr \cup KernelFrames) = {}
    /\ \A s, t \in Slots : s # t => own[s] \cap own[t] = {}
    /\ Frames = fr \cup KernelFrames \cup UNION {own[s] : s \in Slots}

SpawnInv ==
    /\ DOMAIN task = Slots
    /\ \A s \in Slots : Whole(s, task[s], todo, holds)
    /\ \A s, t \in Loading : s = t
    /\ Books(free, OwnersOf(task))
    /\ halted # "assert"
-----------------------------------------------------------------------------
(* The lowest clear bits are clear, and each is another.                    *)
LEMMA LowestIs ==
    ASSUME NEW n \in Nat, free \in SUBSET Nat, IsFiniteSet(free), ~ Short(n)
    PROVE  /\ \A i \in 1 .. n : Lowest(n)[i] = Nth(free, i) /\ Nth(free, i) \in free
           /\ \A i, j \in 1 .. n : Nth(free, i) = Nth(free, j) => i = j
           /\ Range(Lowest(n)) = {Nth(free, i) : i \in 1 .. n}
           /\ Lowest(n) \in Seq(free) /\ Len(Lowest(n)) = n
<1>1. \A i \in 1 .. n : i \in 1 .. Cardinality(free)
  BY FS_CardinalityType DEF Short
<1>2. Lowest(n) = [i \in 1 .. n |-> Nth(free, i)]
  BY DEF Lowest, Nth
<1>3. /\ \A i \in 1 .. n : Nth(free, i) \in free
      /\ \A i, j \in 1 .. n : Nth(free, i) = Nth(free, j) => i = j
  BY <1>1, NthIs, Zenon
<1>4. Lowest(n) \in Seq(free) /\ Len(Lowest(n)) = n
  BY <1>2, <1>3
<1>5. Range(Lowest(n)) = {Nth(free, i) : i \in 1 .. n}
  BY <1>2 DEF Range
<1> QED BY <1>2, <1>3, <1>4, <1>5

-----------------------------------------------------------------------------
(* Frames for a page and the tables it misses: each another, and none of    *)
(* them the task's.                                                         *)
Apart(sp, stack, page, leaf, frames) ==
    LET new == MissingTables(sp, page)
    IN  /\ leaf \notin Image(sp) \cup {stack}
        /\ \A i \in DOMAIN new : frames[i] \notin Image(sp) \cup {stack, leaf}
        /\ \A i, j \in DOMAIN new : frames[i] = frames[j] => i = j

(* One page more: its frame and those of its tables are the space's now.    *)
Extended(sp, cs, stack, pages, n, leaf, frames) ==
    /\ Mapped(cs, stack, pages, n + 1)
    /\ Image(cs) = Image(sp) \cup {leaf} \cup {frames[i] : i \in DOMAIN MissingTables(sp, pages[n + 1])}
    /\ LeafOf(cs, pages[n + 1]) = leaf
    /\ \A i \in 1 .. n : LeafOf(cs, pages[i]) = LeafOf(sp, pages[i])

LEMMA PageMapped ==
    ASSUME NEW sp, NEW stack, NEW pages, NEW n \in Nat, Wanted(pages), n < Len(pages),
           Mapped(sp, stack, pages, n), NEW leaf, NEW frames, Apart(sp, stack, pages[n + 1], leaf, frames)
    PROVE  Extended(sp, MapPage(sp, pages[n + 1], leaf, frames), stack, pages, n, leaf, frames)
<1> DEFINE page == pages[n + 1]
           new == MissingTables(sp, page)
           cs == MapPage(sp, page, leaf, frames)
           old == UserNodes(sp)
<1>1. /\ \A i \in 1 .. n + 1 : i \in DOMAIN pages /\ pages[i] \in UserPages /\ Len(Path(pages[i])) = 4
      /\ \A i \in 1 .. n : i \in 1 .. n + 1 /\ pages[i] # page
      /\ page \in UserPages
  <2> HIDE DEF page
  <2>1. n + 1 \in 1 .. n + 1 /\ \A i \in 1 .. n + 1 : i \in 1 .. Len(pages)
    BY DEF Wanted
  <2>2. \A i \in 1 .. n + 1 : i \in DOMAIN pages /\ pages[i] \in UserPages
    BY <2>1 DEF Wanted
  <2>3. \A i \in 1 .. n + 1 : Len(Path(pages[i])) = 4
    BY <2>2, PathIs
  <2>4. \A i \in 1 .. n : i \in 1 .. n + 1 /\ i # n + 1
    OBVIOUS
  <2>5. \A i \in 1 .. n : pages[i] # pages[n + 1]
    BY <2>1, <2>2, <2>4 DEF Wanted, IsInjective
  <2> QED BY <2>1, <2>2, <2>3, <2>4, <2>5 DEF page
<1>2. \A i \in 1 .. n : Path(pages[i]) \in old /\ Path(pages[i]) \in DOMAIN sp /\ Path(pages[i]) # Path(page)
  BY <1>1, PathInjective DEF Mapped, UserNodes
<1>3. Path(page) # <<>> /\ Path(page)[1] \in UserHalf /\ Len(Path(page)) = 4
  BY <1>1, PathIs
<1>4. Path(page) \notin DOMAIN sp
  <2> SUFFICES ASSUME Path(page) \in DOMAIN sp PROVE FALSE
    OBVIOUS
  <2>1. Path(page) \in {p \in UserNodes(sp) : Len(p) = 4}
    BY <1>3 DEF UserNodes
  <2>2. Path(page) \in {Path(pages[i]) : i \in 1 .. n}
    BY <2>1 DEF Mapped
  <2> QED BY <1>2, <2>2
<1>5. Space(cs) /\ Grown(sp, cs, page, leaf, new, frames)
  BY <1>1, <1>4, Mapping DEF Mapped
<1> HIDE DEF new, cs
<1> USE DEF Grown
<1>6. <<>> \in DOMAIN sp /\ <<>> \in DOMAIN cs /\ <<>> \notin old
  BY <1>5 DEF Space, Mapped, UserNodes
<1>7. \A m \in Nodes(sp) : m \in DOMAIN sp /\ cs[m] = sp[m] /\ cs[m] \in Image(sp) /\ m # Path(page)
  BY <1>4, <1>5, <1>6 DEF Nodes, UserNodes, Image
<1>8. Nodes(cs) = Nodes(sp) \cup {Path(page)} \cup {new[i] : i \in DOMAIN new}
  BY <1>5 DEF Nodes
<1>9. Image(cs) = Image(sp) \cup {leaf} \cup {frames[i] : i \in DOMAIN new}
  <2>1. cs[Path(page)] = leaf /\ \A i \in DOMAIN new : cs[new[i]] = frames[i]
    BY <1>5
  <2>2. Image(cs) = {cs[m] : m \in Nodes(sp)} \cup {cs[Path(page)]} \cup {cs[new[i]] : i \in DOMAIN new}
    BY <1>8 DEF Image
  <2>3. {cs[m] : m \in Nodes(sp)} = Image(sp)
    BY <1>7 DEF Image
  <2> QED BY <2>1, <2>2, <2>3
<1>10. {p \in UserNodes(cs) : Len(p) = 4} = {Path(pages[i]) : i \in 1 .. n + 1}
  <2>1. {Path(pages[i]) : i \in 1 .. n + 1} = {Path(pages[i]) : i \in 1 .. n} \cup {Path(page)}
    OBVIOUS
  <2>2. {p \in UserNodes(cs) : Len(p) = 4} = {p \in old : Len(p) = 4} \cup {Path(page)}
    <3>0. \A i \in DOMAIN new : Len(new[i]) \in 1 .. 3
      BY <1>5, Zenon
    <3>1. \A i \in DOMAIN new : Len(new[i]) # 4
      <4>1. \A l \in 1 .. 3 : l # 4
        OBVIOUS
      <4> QED BY <3>0, <4>1, Zenon
    <3>2. UserNodes(cs) = old \cup {Path(page)} \cup {new[i] : i \in DOMAIN new}
      BY <1>5
    <3> HIDE DEF Grown, old
    <3> QED BY <1>3, <3>1, <3>2
  <2> QED BY <2>1, <2>2 DEF Mapped
<1>11. ASSUME NEW m1 \in Nodes(cs), NEW m2 \in Nodes(cs), cs[m1] = cs[m2] PROVE m1 = m2
  <2>1. \A m \in Nodes(cs) : \/ m \in Nodes(sp) /\ cs[m] = sp[m] /\ cs[m] \in Image(sp) 
                             \/ m = Path(page) /\ cs[m] = leaf
                             \/ \E i \in DOMAIN new : m = new[i] /\ cs[m] = frames[i]
    BY <1>5, <1>7, <1>8
  <2>2. /\ leaf \notin Image(sp) /\ \A i \in DOMAIN new : frames[i] \notin Image(sp) /\ frames[i] # leaf
        /\ \A i, j \in DOMAIN new : frames[i] = frames[j] => i = j
    BY DEF new, Apart
  <2>3. m1 \in Nodes(sp) /\ m2 \in Nodes(sp) /\ sp[m1] = sp[m2] => m1 = m2
    BY DEF Mapped
  <2> QED BY <1>11, <2>1, <2>2, <2>3
<1>12. stack \notin Image(cs)
  BY <1>9 DEF Mapped, new, Apart
<1>13. Mapped(cs, stack, pages, n + 1)
  <2>1. n + 1 # 0
    OBVIOUS
  <2> QED BY <1>5, <1>10, <1>11, <1>12, <2>1 DEF Mapped
<1>14. \A i \in 1 .. n : LeafOf(cs, pages[i]) = LeafOf(sp, pages[i])
  BY <1>2, <1>5 DEF LeafOf
<1> QED BY <1>5, <1>9, <1>13, <1>14 DEF Extended, LeafOf, new, cs

LEMMA PageFilled ==
    ASSUME NEW s, NEW sp, NEW cs, NEW pages, NEW n \in Nat, NEW hs, Filled(s, sp, pages, n, hs),
           LET leaf == LeafOf(cs, pages[n + 1]) IN leaf \in DOMAIN hs /\ hs[leaf] = <<s, pages[n + 1]>>,
           \A i \in 1 .. n : LeafOf(cs, pages[i]) = LeafOf(sp, pages[i])
    PROVE  Filled(s, cs, pages, n + 1, hs)
<1>1. \A i \in 1 .. n + 1 : i \in 1 .. n \/ i = n + 1
  OBVIOUS
<1> QED BY <1>1 DEF Filled
-----------------------------------------------------------------------------
(* Free frames go to a slot, or all that a slot has goes back.              *)
LEMMA BooksGive ==
    ASSUME NEW fr, NEW own, NEW own2, NEW s \in Slots, NEW new, Books(fr, own),
           new \subseteq fr, own2[s] = own[s] \cup new,
           \A t \in Slots : t # s => own2[t] = own[t]
    PROVE  Books(fr \ new, own2)
<1> DEFINE fr2 == fr \ new
<1>1. \A t \in Slots : own2[t] \subseteq own[t] \cup new /\ (t # s => own2[t] = own[t]) /\ own[t] \cap new = {}
  BY DEF Books
<1>2. \A t \in Slots : own2[t] \cap (fr2 \cup KernelFrames) = {}
  BY <1>1 DEF Books
<1>3. \A t, u \in Slots : t # u => own2[t] \cap own2[u] = {}
  BY <1>1 DEF Books
<1>4. UNION {own2[t] : t \in Slots} = (UNION {own[t] : t \in Slots}) \cup new
  <2> DEFINE A == UNION {own[t] : t \in Slots}
             B == UNION {own2[t] : t \in Slots}
  <2>1. ASSUME NEW t \in Slots PROVE own2[t] \subseteq A \cup new
    BY <1>1
  <2>2. ASSUME NEW t \in Slots PROVE own[t] \subseteq B
    <3>1. own[t] \subseteq own2[t]
      BY <1>1
    <3> QED BY <3>1
  <2>3. B \subseteq A \cup new /\ A \subseteq B /\ new \subseteq B
    BY <2>1, <2>2
  <2> HIDE DEF A, B
  <2>4. B = A \cup new
    BY <2>3
  <2> QED BY <2>4 DEF A, B
<1> QED BY <1>2, <1>3, <1>4 DEF Books

LEMMA BooksBack ==
    ASSUME NEW fr, NEW own, NEW own2, NEW s \in Slots, Books(fr, own), own2[s] = {},
           \A t \in Slots : t # s => own2[t] = own[t]
    PROVE  Books(fr \cup own[s], own2)
<1> DEFINE fr2 == fr \cup own[s]
<1>1. fr2 \cap KernelFrames = {}
  BY DEF Books
<1>2. ASSUME NEW t \in Slots PROVE own2[t] \cap (fr2 \cup KernelFrames) = {}
  BY <1>2 DEF Books
<1>3. \A t, u \in Slots : t # u => own2[t] \cap own2[u] = {}
  BY DEF Books
<1>4. fr2 \cup UNION {own2[t] : t \in Slots} = fr \cup UNION {own[t] : t \in Slots}
  <2>1. ASSUME NEW t \in Slots PROVE own2[t] \subseteq UNION {own[u] : u \in Slots}
    OBVIOUS
  <2>2. ASSUME NEW t \in Slots PROVE own[t] \subseteq fr2 \cup UNION {own2[u] : u \in Slots}
    OBVIOUS
  <2> QED BY <2>1, <2>2
<1> QED BY <1>1, <1>2, <1>3, <1>4 DEF Books

(* The leaves are among the frames of the space.                            *)
LEMMA LeavesAreNodes ==
    ASSUME NEW sp, NEW stack, NEW pages, NEW n \in Nat, Mapped(sp, stack, pages, n), NEW i \in 1 .. n
    PROVE  Path(pages[i]) \in UserNodes(sp) /\ LeafOf(sp, pages[i]) \in Image(sp)
BY DEF Mapped, Image, Nodes, LeafOf

(* A task that is not loading does not care for what is still to be loaded, *)
(* nor for the labels of frames it does not own.                            *)
LEMMA WholeKept ==
    ASSUME NEW s, NEW r, NEW td, NEW td2, NEW hs, NEW hs2, Whole(s, r, td, hs),
           r.state = "loading" => td2 = td,
           \A f \in OwnedBy(r) : f \in DOMAIN hs => f \in DOMAIN hs2 /\ hs2[f] = hs[f]
    PROVE  Whole(s, r, td2, hs2)
<1> SUFFICES ASSUME r.state # "free", r.user
             PROVE  /\ Wanted(r.pages)
                    /\ \E k \in 0 .. Len(r.pages) :
                         /\ Mapped(r.as, r.stack, r.pages, k) /\ Filled(s, r.as, r.pages, k, hs2)
                         /\ IF r.state = "loading" THEN k < Len(r.pages) /\ td2 = SubSeq(r.pages, k + 1, Len(r.pages))
                                                   ELSE k = Len(r.pages)
  BY DEF Whole
<1>1. Wanted(r.pages)
  BY DEF Whole
<1>2. PICK k \in 0 .. Len(r.pages) :
         /\ Mapped(r.as, r.stack, r.pages, k) /\ Filled(s, r.as, r.pages, k, hs)
         /\ IF r.state = "loading" THEN k < Len(r.pages) /\ td = SubSeq(r.pages, k + 1, Len(r.pages))
                                   ELSE k = Len(r.pages)
  BY DEF Whole
<1>3. \A i \in 1 .. k : LeafOf(r.as, r.pages[i]) \in OwnedBy(r)
  BY <1>2, LeavesAreNodes DEF OwnedBy
<1>4. Filled(s, r.as, r.pages, k, hs2)
  BY <1>2, <1>3 DEF Filled
<1> QED BY <1>1, <1>2, <1>4

(* A step changes one slot.                                                 *)
LEMMA SlotChanged ==
    ASSUME SpawnInv, NEW s \in Slots, NEW r, task' = [task EXCEPT ![s] = r],
           Whole(s, r, todo', holds'), Books(free', OwnersOf(task')), halted' = halted,
           \A t \in Slots : t # s /\ task[t].state = "loading" => todo' = todo /\ r.state # "loading",
           \A t \in Slots : t # s => 
              \A f \in OwnedBy(task[t]) : f \in DOMAIN holds => f \in DOMAIN holds' /\ holds'[f] = holds[f]
    PROVE  SpawnInv'
<1>1. DOMAIN task' = Slots /\ task'[s] = r /\ \A t \in Slots : t # s => task'[t] = task[t]
  BY DEF SpawnInv
<1>2. \A t \in Slots : Whole(t, task'[t], todo', holds')
  <2>1. \A t \in Slots : t # s => Whole(t, task[t], todo', holds')
    BY WholeKept DEF SpawnInv
  <2> QED BY <1>1, <2>1
<1>3. \A t, u \in Loading' : t = u
  BY <1>1 DEF SpawnInv, Loading
<1> QED BY <1>1, <1>2, <1>3 DEF SpawnInv

(* The books when one slot changes.                                        *)
LEMMA SlotOwners ==
    ASSUME SpawnInv, NEW s \in Slots, NEW r, task' = [task EXCEPT ![s] = r]
    PROVE  /\ OwnersOf(task)[s] = OwnedBy(task[s]) /\ OwnersOf(task')[s] = OwnedBy(r)
           /\ \A t \in Slots : t # s => OwnersOf(task')[t] = OwnersOf(task)[t]
<1>1. task'[s] = r /\ \A t \in Slots : t # s => task'[t] = task[t]
  BY DEF SpawnInv
<1> QED BY <1>1 DEF OwnersOf

LEMMA Given ==
    ASSUME SpawnInv, NEW s \in Slots, NEW r, task' = [task EXCEPT ![s] = r],
           NEW new, new \subseteq free, free' = free \ new, OwnedBy(r) = OwnedBy(task[s]) \cup new
    PROVE  Books(free', OwnersOf(task'))
<1>1. OwnersOf(task')[s] = OwnersOf(task)[s] \cup new
  BY SlotOwners
<1>2. \A t \in Slots : t # s => OwnersOf(task')[t] = OwnersOf(task)[t]
  BY SlotOwners
<1>3. Books(free, OwnersOf(task))
  BY DEF SpawnInv
<1> DEFINE own == OwnersOf(task)
           own2 == OwnersOf(task')
<1> HIDE DEF own, own2
<1>4. Books(free, own) /\ own2[s] = own[s] \cup new /\ \A t \in Slots : t # s => own2[t] = own[t]
  BY <1>1, <1>2, <1>3 DEF own, own2
<1>5. Books(free \ new, own2)
  BY <1>4, BooksGive
<1> QED BY <1>5 DEF own2

LEMMA GivenBack ==
    ASSUME SpawnInv, NEW s \in Slots, task' = [task EXCEPT ![s] = NoTask],
           free' = free \cup OwnedBy(task[s])
    PROVE  Books(free', OwnersOf(task'))
<1>1. OwnersOf(task')[s] = {} /\ free' = free \cup OwnersOf(task)[s]
  <2>1. OwnedBy(NoTask) = {}
    BY DEF OwnedBy, NoTask
  <2> QED BY <2>1, SlotOwners
<1>2. \A t \in Slots : t # s => OwnersOf(task')[t] = OwnersOf(task)[t]
  BY SlotOwners
<1>3. Books(free, OwnersOf(task))
  BY DEF SpawnInv
<1> DEFINE own == OwnersOf(task)
           own2 == OwnersOf(task')
<1> HIDE DEF own, own2
<1>4. Books(free, own) /\ own2[s] = {} /\ \A t \in Slots : t # s => own2[t] = own[t]
  BY <1>1, <1>2, <1>3 DEF own, own2
<1>5. Books(free \cup own[s], own2)
  BY <1>4, BooksBack
<1> QED BY <1>1, <1>5 DEF own, own2

(* What the free frames are, and who does not own them.                     *)
LEMMA FreeFrames ==
    ASSUME SpawnInv
    PROVE  /\ free \in SUBSET Nat /\ IsFiniteSet(free)
           /\ \A s \in Slots : OwnedBy(task[s]) \cap free = {} /\ OwnedBy(task[s]) \subseteq Frames
<1>1. free \subseteq Frames
  BY DEF SpawnInv, Books
<1>2. \A s \in Slots : OwnersOf(task)[s] = OwnedBy(task[s])
  BY DEF OwnersOf
<1> QED BY <1>1, <1>2, MachineAssumption, FS_Subset DEF SpawnInv, Books
-----------------------------------------------------------------------------
LEMMA PanicStep ==
    ASSUME SpawnInv, Panic("memory")
    PROVE  SpawnInv'
BY DEF Panic, SpawnInv, Loading

LEMMA CreateStep ==
    ASSUME SpawnInv, NEW s \in Slots, Create(s)
    PROVE  SpawnInv'
<1>1. CASE Short(1)
  BY <1>1, PanicStep DEF Create
<1>2. CASE ~ Short(1)
  <2> DEFINE r == [state |-> "alive", user |-> FALSE, stack |-> Lowest(1)[1], as |-> <<>>, pages |-> <<>>]
  <2>1. /\ task' = [task EXCEPT ![s] = r] /\ free' = free \ Range(Lowest(1))
        /\ todo' = todo /\ holds' = holds /\ halted' = halted
        /\ task[s].state = "free" /\ Loading = {}
    BY <1>2 DEF Create
  <2>2. /\ Lowest(1)[1] = Nth(free, 1) /\ Nth(free, 1) \in free
        /\ Range(Lowest(1)) = {Nth(free, 1)}
    <3>1. 1 \in Nat /\ 1 \in 1 .. 1 /\ {Nth(free, i) : i \in 1 .. 1} = {Nth(free, 1)}
      OBVIOUS
    <3> QED BY <1>2, <3>1, FreeFrames, LowestIs
  <2>3. r = [state |-> "alive", user |-> FALSE, stack |-> Nth(free, 1), as |-> <<>>, pages |-> <<>>]
    BY <2>2
  <2> HIDE DEF r
  <2>4. OwnedBy(r) = {Nth(free, 1)} /\ OwnedBy(task[s]) = {}
    BY <2>1, <2>3 DEF OwnedBy
  <2>5. Books(free', OwnersOf(task'))
    <3>1. /\ {Nth(free, 1)} \subseteq free /\ free' = free \ {Nth(free, 1)}
          /\ OwnedBy(r) = OwnedBy(task[s]) \cup {Nth(free, 1)} /\ task' = [task EXCEPT ![s] = r]
      BY <2>1, <2>2, <2>4
    <3> QED BY <3>1, Given, Zenon
  <2>6. Whole(s, r, todo', holds')
    BY <2>3 DEF Whole, Record
  <2>7. \A t \in Slots : task[t].state # "loading"
    BY <2>1 DEF Loading
  <2> QED BY <2>1, <2>5, <2>6, <2>7, SlotChanged
<1> QED BY <1>1, <1>2

(* A new address space, with nothing mapped.                                *)
LEMMA EmptySpace ==
    ASSUME NEW pml4, NEW stack, stack # pml4, NEW pages
    PROVE  /\ Mapped(NewSpace(pml4, KernelHalf), stack, pages, 0) 
           /\ Image(NewSpace(pml4, KernelHalf)) = {pml4}
<1> DEFINE sp == NewSpace(pml4, KernelHalf)
<1>1. Space(sp) /\ UserNodes(sp) = {} /\ sp[<<>>] = pml4
  BY NewSpaceIs
<1> HIDE DEF sp
<1>2. Nodes(sp) = {<<>>} /\ Image(sp) = {pml4}
  BY <1>1 DEF Nodes, Image
<1>3. 1 .. 0 = {}
  OBVIOUS
<1> QED BY <1>1, <1>2, <1>3 DEF Mapped, sp

LEMMA CreateElfStep ==
    ASSUME SpawnInv, NEW s \in Slots, NEW program \in Programs, CreateElf(s, program)
    PROVE  SpawnInv'
<1>1. CASE Short(2)
  BY <1>1, PanicStep DEF CreateElf
<1>2. CASE ~ Short(2)
  <2> DEFINE pages == program \o Stack
             sp == NewSpace(Nth(free, 2), KernelHalf)
             r == [state |-> "loading", user |-> TRUE, stack |-> Nth(free, 1), as |-> sp, pages |-> pages]
  <2>1. /\ Lowest(2)[1] = Nth(free, 1) /\ Lowest(2)[2] = Nth(free, 2)
        /\ {Nth(free, 1), Nth(free, 2)} \subseteq free /\ Nth(free, 1) # Nth(free, 2)
        /\ Range(Lowest(2)) = {Nth(free, 1), Nth(free, 2)}
    <3>1. 2 \in Nat /\ 1 \in 1 .. 2 /\ 2 \in 1 .. 2 /\ 1 # 2
          /\ {Nth(free, i) : i \in 1 .. 2} = {Nth(free, 1), Nth(free, 2)}
      OBVIOUS
    <3> QED BY <1>2, <3>1, FreeFrames, LowestIs
  <2>2. /\ task' = [task EXCEPT ![s] = r] /\ free' = free \ {Nth(free, 1), Nth(free, 2)}
        /\ todo' = pages /\ holds' = holds /\ halted' = halted
        /\ task[s].state = "free" /\ Loading = {}
    BY <1>2, <2>1 DEF CreateElf
  <2>3. Wanted(pages) /\ Len(pages) > 0 /\ pages = SubSeq(pages, 0 + 1, Len(pages))
    <3>1. pages \in Seq(UserPages) /\ Len(pages) > 0
      BY ProgramAssumption
    <3>2. IsInjective(pages)
      BY ProgramAssumption
    <3> HIDE DEF pages
    <3> QED BY <3>1, <3>2 DEF Wanted
  <2>4. Mapped(sp, Nth(free, 1), pages, 0) /\ Image(sp) = {Nth(free, 2)}
    BY <2>1, EmptySpace
  <2> HIDE DEF sp, pages
  <2>5. Filled(s, sp, pages, 0, holds')
    BY DEF Filled
  <2>6. Whole(s, r, todo', holds')
    <3>1. 0 \in 0 .. Len(pages) /\ todo' = SubSeq(pages, 0 + 1, Len(pages)) /\ 0 < Len(pages)
      BY <2>2, <2>3
    <3> QED BY <2>3, <2>4, <2>5, <3>1 DEF Whole, Record
  <2>7. OwnedBy(r) = {Nth(free, 1), Nth(free, 2)} /\ OwnedBy(task[s]) = {}
    BY <2>2, <2>4 DEF OwnedBy
  <2> HIDE DEF r
  <2>8. Books(free', OwnersOf(task'))
    <3> DEFINE two == {Nth(free, 1), Nth(free, 2)}
    <3>1. /\ task' = [task EXCEPT ![s] = r] /\ two \subseteq free /\ free' = free \ two
          /\ OwnedBy(r) = OwnedBy(task[s]) \cup two
      BY <2>1, <2>2, <2>7
    <3> HIDE DEF two
    <3> QED BY <3>1, Given, Zenon
  <2>9. \A t \in Slots : task[t].state # "loading"
    BY <2>2 DEF Loading
  <2> QED BY <2>2, <2>6, <2>8, <2>9, SlotChanged
<1> QED BY <1>1, <1>2

LEMMA DieStep ==
    ASSUME SpawnInv, NEW s \in Slots, Die(s)
    PROVE  SpawnInv'
<1> DEFINE r == [task[s] EXCEPT !.state = "zombie"]
<1>1. /\ task' = [task EXCEPT ![s] = r] /\ task[s].state = "alive"
      /\ free' = free /\ todo' = todo /\ holds' = holds /\ halted' = halted
  BY DEF Die, SpawnInv
<1>2. Whole(s, task[s], todo, holds)
  BY DEF SpawnInv
<1>3. r = [state |-> "zombie", user |-> task[s].user, stack |-> task[s].stack, as |-> task[s].as,
           pages |-> task[s].pages]
  BY <1>2 DEF Whole, Record
<1> HIDE DEF r
<1>4. /\ r.state = "zombie" /\ r.user = task[s].user /\ r.stack = task[s].stack
      /\ r.as = task[s].as /\ r.pages = task[s].pages
  BY <1>3
<1>5. Whole(s, r, todo', holds')
  BY <1>1, <1>2, <1>3, <1>4 DEF Whole, Record
<1>6. OwnedBy(r) = OwnedBy(task[s])
  BY <1>1, <1>4 DEF OwnedBy
<1>7. Books(free', OwnersOf(task'))
  <2>1. OwnersOf(task') = OwnersOf(task)
    BY <1>1, <1>6 DEF OwnersOf, SpawnInv
  <2> QED BY <1>1, <2>1 DEF SpawnInv
<1> QED BY <1>1, <1>4, <1>5, <1>7, SlotChanged

(* An image that is refused has mapped nothing.                             *)
LEMMA RefuseStep ==
    ASSUME SpawnInv, NEW s \in Slots, Refuse(s)
    PROVE  SpawnInv'
<1> DEFINE r == task[s]
<1>1. /\ task' = [task EXCEPT ![s] = NoTask] /\ r.state = "loading" /\ todo = r.pages
      /\ free' = free \cup {r.as[<<>>], r.stack} /\ holds' = holds /\ halted' = halted
  BY DEF Refuse
<1>2. Whole(s, r, todo, holds)
  BY DEF SpawnInv
<1> HIDE DEF r
<1>3. r.user /\ Wanted(r.pages)
  BY <1>1, <1>2 DEF Whole
<1>4. PICK k \in 0 .. Len(r.pages) :
        Mapped(r.as, r.stack, r.pages, k) /\ k < Len(r.pages) /\ todo = SubSeq(r.pages, k + 1, Len(r.pages))
  BY <1>1, <1>2, <1>3 DEF Whole
<1>5. k = 0
  <2>1. r.pages \in Seq(UserPages) /\ Len(r.pages) \in Nat /\ k \in Nat /\ k < Len(r.pages)
    BY <1>3, <1>4 DEF Wanted
  <2>2. Len(SubSeq(r.pages, k + 1, Len(r.pages))) = Len(r.pages) - k
    BY <2>1
  <2>3. Len(r.pages) = Len(r.pages) - k
    BY <1>1, <1>4, <2>2
  <2> QED BY <2>1, <2>3
<1>6. UserNodes(r.as) = {} /\ Image(r.as) = {r.as[<<>>]}
  BY <1>4, <1>5 DEF Mapped, Image, Nodes
<1>7. OwnedBy(r) = {r.as[<<>>], r.stack}
  BY <1>1, <1>3, <1>6 DEF OwnedBy
<1>8. Books(free', OwnersOf(task'))
  BY <1>1, <1>7, GivenBack DEF r
<1>9. Whole(s, NoTask, todo', holds')
  BY DEF Whole, Record, NoTask
<1>10. \A t \in Slots : t # s => task[t].state # "loading"
  BY <1>1 DEF SpawnInv, Loading, r
<1> QED BY <1>1, <1>8, <1>9, <1>10, SlotChanged
-----------------------------------------------------------------------------
(* What task_reap gives back is what the task owns, each frame once.        *)
LEMMA ReturnedOnce ==
    ASSUME SpawnInv, NEW s \in Slots, task[s].state \in {"alive", "zombie"}
    PROVE  Returned(s) = OwnedBy(task[s]) /\ ~ FreedTwice(s)
<1> DEFINE r == task[s]
<1>1. Whole(s, r, todo, holds) /\ OwnedBy(r) \cap free = {}
  BY FreeFrames DEF SpawnInv
<1>2. Returned(s) = (IF r.user THEN UserFrames(r.as) \cup {r.as[<<>>]} ELSE {}) \cup {r.stack}
  BY DEF Returned
<1>3. FreedTwice(s) <=> \/ Returned(s) \cap free # {}
                        \/ r.user /\ Cardinality(UserFrames(r.as)) # Cardinality(UserNodes(r.as))
  BY DEF FreedTwice
<1>4. r.state \in {"alive", "zombie"}
  OBVIOUS
<1> HIDE DEF r
<1>5. Image(r.as) = UserFrames(r.as) \cup {r.as[<<>>]}
  BY DEF Image, Nodes, UserFrames
<1>6. Returned(s) = OwnedBy(r)
  BY <1>2, <1>4, <1>5 DEF OwnedBy
<1>7. ASSUME r.user PROVE Cardinality(UserFrames(r.as)) = Cardinality(UserNodes(r.as))
  <2>1. PICK k \in 0 .. Len(r.pages) : Mapped(r.as, r.stack, r.pages, k)
    BY <1>1, <1>4, <1>7 DEF Whole
  <2> DEFINE U == UserNodes(r.as)
             f == [n \in U |-> r.as[n]]
  <2>2. IsFiniteSet(U) /\ \A m, n \in U : r.as[m] = r.as[n] => m = n
    BY <2>1 DEF Mapped, Space, Nodes
  <2>3. f \in Bijection(U, UserFrames(r.as))
    BY <2>2 DEF UserFrames, Bijection, Injection, Surjection, IsInjective
  <2>4. ExistsBijection(U, UserFrames(r.as))
    BY <2>3 DEF ExistsBijection
  <2> QED BY <2>2, <2>4, FS_Bijection
<1> QED BY <1>1, <1>3, <1>6, <1>7 DEF r

LEMMA ReapStep ==
    ASSUME SpawnInv, NEW s \in Slots, Reap(s)
    PROVE  SpawnInv'
<1>1. task[s].state = "zombie" /\ Loading = {}
  BY DEF Reap
<1>2. Returned(s) = OwnedBy(task[s]) /\ ~ FreedTwice(s)
  BY <1>1, ReturnedOnce
<1>3. /\ task' = [task EXCEPT ![s] = NoTask] /\ free' = free \cup OwnedBy(task[s])
      /\ holds' = Restrict(holds, DOMAIN holds \ OwnedBy(task[s])) /\ todo' = todo /\ halted' = halted
  BY <1>2 DEF Reap
<1>4. Books(free', OwnersOf(task'))
  BY <1>3, GivenBack
<1>5. Whole(s, NoTask, todo', holds')
  BY DEF Whole, Record, NoTask
<1>6. \A t \in Slots : task[t].state # "loading"
  BY <1>1 DEF Loading
<1>7. ASSUME NEW t \in Slots, t # s, NEW f \in OwnedBy(task[t]), f \in DOMAIN holds
      PROVE  f \in DOMAIN holds' /\ holds'[f] = holds[f]
  <2>1. f \notin OwnedBy(task[s])
    <3>1. OwnersOf(task)[s] = OwnedBy(task[s]) /\ OwnersOf(task)[t] = OwnedBy(task[t])
      BY DEF OwnersOf
    <3>2. OwnersOf(task)[s] \cap OwnersOf(task)[t] = {}
      BY <1>7 DEF SpawnInv, Books
    <3> QED BY <1>7, <3>1, <3>2
  <2> QED BY <1>3, <1>7, <2>1 DEF Restrict
<1> QED BY <1>3, <1>4, <1>5, <1>6, <1>7, SlotChanged
-----------------------------------------------------------------------------
(* The labels of the frames that are filled.                                *)
LEMMA EntryOne ==
    ASSUME NEW s, NEW page, NEW f
    PROVE  DOMAIN Entry(s, <<<<page, f>>>>) = {f} /\ Entry(s, <<<<page, f>>>>)[f] = <<s, page>>
<1> DEFINE ps == <<<<page, f>>>>
<1>1. DOMAIN ps = {1} /\ ps[1] = <<page, f>> /\ ps[1][1] = page /\ ps[1][2] = f
  OBVIOUS
<1>2. Entry(s, ps) = [x \in {ps[i][2] : i \in DOMAIN ps} |-> <<s, (CHOOSE p \in Range(ps) : p[2] = x)[1]>>]
  BY DEF Entry
<1> HIDE DEF ps
<1>3. {ps[i][2] : i \in DOMAIN ps} = {f} /\ Range(ps) = {<<page, f>>}
  BY <1>1 DEF Range
<1>4. (CHOOSE p \in Range(ps) : p[2] = f) = <<page, f>>
  <2>1. <<page, f>>[2] = f
    OBVIOUS
  <2> QED BY <1>3, <2>1
<1>5. <<page, f>>[1] = page
  OBVIOUS
<1>6. DOMAIN Entry(s, ps) = {f} /\ Entry(s, ps)[f] = <<s, page>>
  <2>1. Entry(s, ps) = [x \in {f} |-> <<s, (CHOOSE p \in Range(ps) : p[2] = x)[1]>>]
    BY <1>2, <1>3, Zenon
  <2>2. Entry(s, ps)[f] = <<s, (CHOOSE p \in Range(ps) : p[2] = f)[1]>>
    BY <2>1, Zenon
  <2>3. DOMAIN Entry(s, ps) = {f}
    BY <2>1, Zenon
  <2> QED BY <1>4, <1>5, <2>2, <2>3, Zenon
<1> QED BY <1>6 DEF ps

LEMMA EntryTwo ==
    ASSUME NEW s, NEW ps, DOMAIN ps = {1, 2}, ps[1][2] # ps[2][2]
    PROVE  /\ DOMAIN Entry(s, ps) = {ps[1][2], ps[2][2]}
           /\ Entry(s, ps)[ps[1][2]] = <<s, ps[1][1]>> /\ Entry(s, ps)[ps[2][2]] = <<s, ps[2][1]>>
<1>1. Entry(s, ps) = [x \in {ps[i][2] : i \in DOMAIN ps} |-> <<s, (CHOOSE p \in Range(ps) : p[2] = x)[1]>>]
  BY DEF Entry
<1>2. {ps[i][2] : i \in DOMAIN ps} = {ps[1][2], ps[2][2]} /\ Range(ps) = {ps[1], ps[2]}
  BY DEF Range
<1>3. /\ (CHOOSE p \in Range(ps) : p[2] = ps[1][2]) = ps[1]
      /\ (CHOOSE p \in Range(ps) : p[2] = ps[2][2]) = ps[2]
  BY <1>2
<1> QED BY <1>1, <1>2, <1>3

LEMMA LabelledIs ==
    ASSUME NEW new
    PROVE  /\ \A f \in DOMAIN new : f \in DOMAIN Labelled(new) /\ Labelled(new)[f] = new[f]
           /\ \A f \in DOMAIN holds : /\ f \in DOMAIN Labelled(new) 
                                      /\ f \notin DOMAIN new => Labelled(new)[f] = holds[f]
BY DEF Labelled
-----------------------------------------------------------------------------
LEMMA MapNextStep ==
    ASSUME SpawnInv, NEW s \in Slots, MapNext(s)
    PROVE  SpawnInv'
<1> DEFINE r == task[s]
           page == Head(todo)
           missing == MissingTables(r.as, page)
           need == 1 + Len(missing)
           leaf == Nth(free, 1)
           cs == MapPage(r.as, page, Lowest(1)[1], Tail(Lowest(need)))
           new == {Nth(free, i) : i \in 1 .. need}
           r2 == [state |-> IF Tail(todo) = <<>> THEN "alive" ELSE "loading", user |-> TRUE,
                  stack |-> r.stack, as |-> cs, pages |-> r.pages]
<1>1. r.state = "loading" /\ Whole(s, r, todo, holds)
  BY DEF MapNext, SpawnInv
<1>2. r.user /\ Wanted(r.pages)
  BY <1>1 DEF Whole
<1>3. PICK k \in 0 .. Len(r.pages) :
        /\ Mapped(r.as, r.stack, r.pages, k) /\ Filled(s, r.as, r.pages, k, holds)
        /\ k < Len(r.pages) /\ todo = SubSeq(r.pages, k + 1, Len(r.pages))
  BY <1>1, <1>2 DEF Whole
<1>4. /\ k \in Nat /\ Len(r.pages) \in Nat /\ page = r.pages[k + 1] /\ page \in UserPages
      /\ Tail(todo) = SubSeq(r.pages, (k + 1) + 1, Len(r.pages)) 
      /\ Tail(todo) = <<>> <=> k + 1 = Len(r.pages)
  <2> DEFINE ps == r.pages
  <2>1. ps \in Seq(UserPages) /\ Len(ps) \in Nat /\ k \in Nat /\ k < Len(ps) /\ todo = SubSeq(ps, k + 1, Len(ps))
    BY <1>2, <1>3 DEF Wanted
  <2> HIDE DEF r, ps
  <2>2. todo \in Seq(UserPages) /\ Len(todo) = Len(ps) - k /\ \A i \in 1 .. Len(ps) - k : todo[i] = ps[k + i]
    BY <2>1
  <2>3. Head(todo) = ps[k + 1] /\ ps[k + 1] \in UserPages
    BY <2>1, <2>2
  <2>4. Tail(todo) = SubSeq(ps, (k + 1) + 1, Len(ps))
    BY <2>1, <2>2
  <2>5. Tail(todo) = <<>> <=> k + 1 = Len(ps)
    <3>1. Tail(todo) \in Seq(UserPages) /\ Len(Tail(todo)) = Len(ps) - k - 1
      <4>1. todo \in Seq(UserPages) /\ Len(todo) = Len(ps) - k /\ Len(todo) # 0
        BY <2>1, <2>2
      <4>2. todo # <<>>
        BY <4>1
      <4> QED BY <4>1, <4>2, HeadTailProperties
    <3>2. \A q \in Seq(UserPages) : q = <<>> <=> Len(q) = 0
      OBVIOUS
    <3>3. Tail(todo) = <<>> <=> Len(ps) - k - 1 = 0
      BY <3>1, <3>2
    <3> QED BY <2>1, <3>3
  <2> QED BY <2>1, <2>3, <2>4, <2>5 DEF ps
<1>5. CASE Short(need)
  BY <1>5, PanicStep DEF MapNext
<1>6. CASE ~ Short(need)
  <2>1. /\ task' = [task EXCEPT ![s] = r2]
        /\ holds' = Labelled(Entry(s, <<<<page, Lowest(1)[1]>>>>))
        /\ free' = free \ Range(Lowest(need)) /\ todo' = Tail(todo) /\ halted' = halted
    BY <1>6 DEF MapNext
  <2>2. DOMAIN missing = 1 .. Len(missing) /\ Len(missing) \in Nat
    <3>1. Space(r.as)
      BY <1>3 DEF Mapped
    <3> QED BY <1>4, <3>1, MissingCount, Zenon
  <2> DEFINE frames == Tail(Lowest(need))
  <2>3. /\ Lowest(1)[1] = leaf /\ leaf \in free
        /\ \A i \in DOMAIN missing : frames[i] = Nth(free, i + 1) /\ frames[i] \in free /\ frames[i] # leaf
        /\ \A i, j \in DOMAIN missing : frames[i] = frames[j] => i = j
        /\ Range(Lowest(need)) = new /\ new = {leaf} \cup {frames[i] : i \in DOMAIN missing}
        /\ new \subseteq free
    <3>1. need \in Nat /\ need >= 1 /\ free \in SUBSET Nat /\ IsFiniteSet(free)
      BY <2>2, FreeFrames
    <3>2. /\ \A i \in 1 .. need : Lowest(need)[i] = Nth(free, i) /\ Nth(free, i) \in free
          /\ \A i, j \in 1 .. need : Nth(free, i) = Nth(free, j) => i = j
          /\ Range(Lowest(need)) = new
          /\ Lowest(need) \in Seq(free) /\ Len(Lowest(need)) = need
      BY <1>6, <3>1, LowestIs
    <3>3. Lowest(1)[1] = leaf
      <4>1. ~ Short(1) /\ 1 \in Nat /\ 1 \in 1 .. 1
        BY <1>6, <3>1, FS_CardinalityType DEF Short
      <4> QED BY <3>1, <4>1, LowestIs
    <3>4. \A i \in DOMAIN missing : i + 1 \in 1 .. need /\ 1 \in 1 .. need /\ i + 1 # 1 /\ frames[i] = Nth(free, i + 1)
      <4>1. \A i \in DOMAIN missing : i \in 1 .. need - 1
        BY <2>2
      <4> HIDE DEF need, missing
      <4>2. \A i \in 1 .. need - 1 : frames[i] = Lowest(need)[i + 1]
        BY <3>1, <3>2
      <4> QED BY <3>1, <3>2, <4>1, <4>2
    <3>5. \A i, j \in DOMAIN missing : i + 1 = j + 1 => i = j
      BY <2>2
    <3>6. 1 \in 1 .. need
      BY <3>1
    <3>7. new = {leaf} \cup {frames[i] : i \in DOMAIN missing}
      <4>1. \A i \in 1 .. need : i = 1 \/ (i - 1 \in DOMAIN missing /\ (i - 1) + 1 = i)
        BY <2>2
      <4> HIDE DEF need, missing, frames
      <4>2. new \subseteq {leaf} \cup {frames[i] : i \in DOMAIN missing}
        <5> SUFFICES ASSUME NEW i \in 1 .. need PROVE Nth(free, i) \in {leaf} \cup {frames[j] : j \in DOMAIN missing}
          OBVIOUS
        <5> QED BY <3>4, <4>1
      <4>3. {leaf} \cup {frames[i] : i \in DOMAIN missing} \subseteq new
        BY <3>4, <3>6
      <4> QED BY <4>2, <4>3
    <3> HIDE DEF need, missing, frames
    <3>8. /\ \A i \in DOMAIN missing : frames[i] = Nth(free, i + 1) /\ frames[i] \in free /\ frames[i] # leaf
          /\ \A i, j \in DOMAIN missing : frames[i] = frames[j] => i = j
      BY <3>2, <3>4, <3>5
    <3>9. leaf \in free /\ new \subseteq free
      BY <3>2, <3>6
    <3> QED BY <3>2, <3>3, <3>7, <3>8, <3>9
  <2> HIDE DEF missing, new, leaf, need
  <2>4. OwnedBy(r) = Image(r.as) \cup {r.stack} /\ OwnedBy(r) \cap free = {}
    BY <1>1, <1>2, FreeFrames DEF OwnedBy
  <2>5. /\ Mapped(cs, r.stack, r.pages, k + 1)
        /\ Image(cs) = Image(r.as) \cup {leaf} \cup {frames[i] : i \in DOMAIN missing}
        /\ LeafOf(cs, page) = leaf
        /\ \A i \in 1 .. k : LeafOf(cs, r.pages[i]) = LeafOf(r.as, r.pages[i])
    <3>1. missing = MissingTables(r.as, r.pages[k + 1]) /\ cs = MapPage(r.as, r.pages[k + 1], leaf, frames)
      BY <1>4, <2>3 DEF missing
    <3>2. /\ leaf \notin Image(r.as) \cup {r.stack}
          /\ \A i \in DOMAIN missing : frames[i] \notin Image(r.as) \cup {r.stack, leaf}
      BY <2>3, <2>4
    <3>3. Apart(r.as, r.stack, r.pages[k + 1], leaf, frames)
      BY <2>3, <3>1, <3>2 DEF Apart
    <3> DEFINE pg == r.pages[k + 1]
    <3>4. /\ Mapped(MapPage(r.as, pg, leaf, frames), r.stack, r.pages, k + 1)
          /\ Image(MapPage(r.as, pg, leaf, frames))
                = Image(r.as) \cup {leaf} \cup {frames[i] : i \in DOMAIN MissingTables(r.as, pg)}
          /\ LeafOf(MapPage(r.as, pg, leaf, frames), pg) = leaf
          /\ \A i \in 1 .. k : LeafOf(MapPage(r.as, pg, leaf, frames), r.pages[i]) = LeafOf(r.as, r.pages[i])
      <4> HIDE DEF cs, frames, r, page
      <4>1. Extended(r.as, MapPage(r.as, pg, leaf, frames), r.stack, r.pages, k, leaf, frames)
        BY <1>2, <1>3, <1>4, <3>3, PageMapped
      <4> QED BY <4>1 DEF Extended
    <3> HIDE DEF cs, frames, r, page
    <3> QED BY <1>4, <3>1, <3>4, Zenon
  <2> HIDE DEF cs, frames
  <2>6. holds' = Labelled(Entry(s, <<<<page, leaf>>>>))
    BY <2>1, <2>3
  <2>7. DOMAIN Entry(s, <<<<page, leaf>>>>) = {leaf} /\ Entry(s, <<<<page, leaf>>>>)[leaf] = <<s, page>>
    BY EntryOne
  <2>8. \A t \in Slots : \A f \in OwnedBy(task[t]) : f \in DOMAIN holds => f \in DOMAIN holds' /\ holds'[f] = holds[f]
    BY <2>3, <2>6, <2>7, LabelledIs, FreeFrames
  <2>9. leaf \in DOMAIN holds' /\ holds'[leaf] = <<s, page>>
    BY <2>6, <2>7, LabelledIs
  <2>10. Filled(s, cs, r.pages, k + 1, holds')
    <3>1. Filled(s, r.as, r.pages, k, holds')
      <4>1. \A i \in 1 .. k : LeafOf(r.as, r.pages[i]) \in OwnedBy(r)
        BY <1>3, <1>4, <2>4, LeavesAreNodes
      <4> QED BY <1>3, <2>8, <4>1 DEF Filled
    <3> HIDE DEF r, page
    <3> QED BY <1>4, <2>5, <2>9, <3>1, PageFilled
  <2>11. Whole(s, r2, todo', holds')
    <3>1. k + 1 \in 0 .. Len(r.pages) /\ (Tail(todo) # <<>> => k + 1 < Len(r.pages))
      <4> DEFINE l == Len(r.pages)
      <4>1. l \in Nat /\ k \in Nat /\ k < l /\ (Tail(todo) = <<>> <=> k + 1 = l)
        BY <1>3, <1>4
      <4> HIDE DEF l
      <4>2. k + 1 \in 0 .. l /\ (Tail(todo) # <<>> => k + 1 < l)
        BY <4>1
      <4> QED BY <4>2 DEF l
    <3>2. CASE Tail(todo) = <<>>
      <4>1. r2.state = "alive" /\ r2.user /\ r2.stack = r.stack /\ r2.as = cs /\ r2.pages = r.pages /\ Record(r2)
        BY <3>2 DEF Record
      <4> HIDE DEF r, r2
      <4> QED BY <1>2, <1>4, <2>5, <2>10, <3>1, <3>2, <4>1 DEF Whole
    <3>3. CASE Tail(todo) # <<>>
      <4>1. r2.state = "loading" /\ r2.user /\ r2.stack = r.stack /\ r2.as = cs /\ r2.pages = r.pages /\ Record(r2)
        BY <3>3 DEF Record
      <4> HIDE DEF r, r2
      <4> QED BY <1>2, <1>4, <2>1, <2>5, <2>10, <3>1, <3>3, <4>1 DEF Whole
    <3> QED BY <3>2, <3>3
  <2>12. Books(free', OwnersOf(task'))
    <3>1. OwnedBy(r2) = OwnedBy(task[s]) \cup new
      <4>1. r2.state # "free" /\ r2.user /\ r2.stack = r.stack /\ r2.as = cs
        OBVIOUS
      <4> HIDE DEF r2
      <4>2. OwnedBy(r2) = Image(cs) \cup {r.stack}
        BY <4>1 DEF OwnedBy
      <4> QED BY <2>3, <2>4, <2>5, <4>2
    <3>2. new \subseteq free /\ free' = free \ new /\ task' = [task EXCEPT ![s] = r2]
      BY <2>1, <2>3
    <3> QED BY <3>1, <3>2, Given, Zenon
  <2>13. \A t \in Slots : t # s => task[t].state # "loading"
    BY <1>1 DEF SpawnInv, Loading
  <2> HIDE DEF r, r2
  <2>14. task' = [task EXCEPT ![s] = r2] /\ halted' = halted
    BY <2>1
  <2>15. /\ \A t \in Slots : t # s /\ task[t].state = "loading" => todo' = todo /\ r2.state # "loading"
         /\ \A t \in Slots : t # s => 
              \A f \in OwnedBy(task[t]) : f \in DOMAIN holds => f \in DOMAIN holds' /\ holds'[f] = holds[f]
    BY <2>8, <2>13
  <2> QED BY <2>11, <2>12, <2>14, <2>15, SlotChanged
<1> QED BY <1>5, <1>6
-----------------------------------------------------------------------------
(* The first frames are the stack's, the PML4's and the two pages'; those   *)
(* of their tables follow.                                                  *)
LEMMA CreateUserStep ==
    ASSUME SpawnInv, NEW s \in Slots, CreateUser(s)
    PROVE  SpawnInv'
<1> DEFINE size == Cardinality(free)
           nth(i) == Nth(free, i)
           frames(n) == SubSeq(Lowest(size), n + 1, size)
           empty == NewSpace(IF Short(2) THEN 0 ELSE Lowest(2)[2], KernelHalf)
           missing1 == MissingTables(empty, Code[1])
           first == Len(missing1)
           coded == MapPage(empty, Code[1], Lowest(3)[3], frames(4))
           missing2 == MissingTables(coded, Code[2])
           second == Len(missing2)
           need == 4 + first + second
           space == MapPage(coded, Code[2], Lowest(4)[4], frames(4 + first))
           new == {nth(i) : i \in 1 .. need}
           r == [state |-> "alive", user |-> TRUE, stack |-> Lowest(1)[1], as |-> space, pages |-> Code]
<1>1. CASE Short(4 + first) \/ Short(need)
  BY <1>1, PanicStep DEF CreateUser
<1>2. CASE ~ Short(4 + first) /\ ~ Short(need)
  <2>1. /\ task[s].state = "free" /\ Loading = {} /\ task' = [task EXCEPT ![s] = r]
        /\ holds' = Labelled(Entry(s, <<<<Code[1], Lowest(3)[3]>>, <<Code[2], Lowest(4)[4]>>>>))
        /\ free' = free \ Range(Lowest(need)) /\ todo' = todo /\ halted' = halted
    BY <1>2 DEF CreateUser
  <2>2. free \in SUBSET Nat /\ IsFiniteSet(free) /\ size \in Nat
    BY FreeFrames, FS_CardinalityType
  <2>3. Wanted(Code) /\ Len(Code) = 2 /\ Code[1] \in UserPages /\ Code[2] \in UserPages
    <3>1. Code \in Seq(UserPages) /\ Len(Code) = 2
      BY ProgramAssumption
    <3>2. IsInjective(Code)
      BY ProgramAssumption, Zenon
    <3>3. Wanted(Code)
      BY <3>1, <3>2 DEF Wanted
    <3>4. Code[1] \in UserPages /\ Code[2] \in UserPages
      <4>1. 1 \in 1 .. Len(Code) /\ 2 \in 1 .. Len(Code)
        BY <3>1
      <4> HIDE DEF UserPages
      <4> QED BY <3>1, <4>1, ElementOfSeq
    <3> QED BY <3>1, <3>3, <3>4
  <2> HIDE DEF new, r
  <2>4. first \in Nat /\ DOMAIN missing1 = 1 .. first
    <3>1. Space(empty)
      BY NewSpaceIs
    <3> HIDE DEF empty
    <3> QED BY <2>3, <3>1, MissingCount, Zenon
  <2>5. 4 + first <= size
    BY <1>2, <2>2, <2>4 DEF Short
  <2>6. /\ Lowest(1)[1] = nth(1) /\ Lowest(2)[2] = nth(2) /\ ~ Short(2)
        /\ Lowest(3)[3] = nth(3) /\ Lowest(4)[4] = nth(4)
    <3>1. ASSUME NEW n \in 1 .. 4 PROVE ~ Short(n) /\ Lowest(n)[n] = nth(n)
      <4>1. n \in Nat /\ n \in 1 .. n /\ ~ Short(n)
        BY <2>2, <2>4, <2>5 DEF Short
      <4> QED BY <2>2, <4>1, LowestIs
    <3> QED BY <3>1
  <2>7. /\ \A i \in 1 .. size : nth(i) \in free
        /\ \A i, j \in 1 .. size : nth(i) = nth(j) => i = j
    BY <2>2, NthIs
  <2>8. ASSUME NEW n \in Nat, n <= size PROVE \A i \in 1 .. size - n : frames(n)[i] = nth(n + i)
    <3>1. ~ Short(size)
      BY <2>2 DEF Short
    <3>2. Lowest(size) \in Seq(free) /\ Len(Lowest(size)) = size /\ \A i \in 1 .. size : Lowest(size)[i] = nth(i)
      BY <2>2, <3>1, LowestIs
    <3> DEFINE l == Lowest(size)
    <3> HIDE DEF l, size
    <3>3. \A i \in 1 .. size - n : SubSeq(l, n + 1, size)[i] = l[n + i] /\ n + i \in 1 .. size
      BY <2>2, <2>8, <3>2 DEF l
    <3> QED BY <3>2, <3>3 DEF l
  <2>9. Mapped(empty, nth(1), Code, 0) /\ Image(empty) = {nth(2)}
    <3>1. empty = NewSpace(nth(2), KernelHalf)
      BY <2>6
    <3>2. 1 \in 1 .. size /\ 2 \in 1 .. size
      BY <2>2, <2>4, <2>5
    <3>3. nth(1) # nth(2)
      BY <2>7, <3>2
    <3> QED BY <3>1, <3>3, EmptySpace
  <2> HIDE DEF empty
  <2>10. \A i \in 1 .. first : /\ 4 + i \in 1 .. size /\ frames(4)[i] = nth(4 + i) /\ 4 + i > 4
    <3>1. \A i \in 1 .. first : i \in 1 .. size - 4 /\ 4 + i \in 1 .. size /\ 4 + i > 4
      BY <2>2, <2>4, <2>5
    <3>2. 4 \in Nat /\ 4 <= size
      BY <2>2, <2>4, <2>5
    <3> HIDE DEF frames, nth, size
    <3>3. \A i \in 1 .. size - 4 : frames(4)[i] = nth(4 + i)
      BY <2>8, <3>2
    <3> QED BY <3>1, <3>3
  <2>11. 1 \in 1 .. size /\ 2 \in 1 .. size /\ 3 \in 1 .. size /\ 4 \in 1 .. size
    BY <2>2, <2>4, <2>5
  <2> HIDE DEF nth, size, frames
  <2>12. Apart(empty, nth(1), Code[1], nth(3), frames(4))
    <3>1. nth(3) \notin Image(empty) \cup {nth(1)}
      BY <2>7, <2>9, <2>11
    <3>2. ASSUME NEW i \in DOMAIN missing1 PROVE frames(4)[i] \notin Image(empty) \cup {nth(1), nth(3)}
      <4>1. frames(4)[i] = nth(4 + i) /\ 4 + i \in 1 .. size /\ 4 + i # 1 /\ 4 + i # 2 /\ 4 + i # 3
        BY <2>4, <2>10
      <4> QED BY <2>7, <2>9, <2>11, <4>1
    <3>3. ASSUME NEW i \in DOMAIN missing1, NEW j \in DOMAIN missing1, frames(4)[i] = frames(4)[j] PROVE i = j
      <4>1. 4 + i = 4 + j
        BY <2>4, <2>7, <2>10, <3>3
      <4> QED BY <2>4, <4>1
    <3> QED BY <3>1, <3>2, <3>3 DEF Apart
  <2>13. /\ Mapped(coded, nth(1), Code, 1)
         /\ Image(coded) = {nth(2), nth(3)} \cup {frames(4)[i] : i \in 1 .. first}
         /\ LeafOf(coded, Code[1]) = nth(3)
    <3> DEFINE cs == MapPage(empty, Code[0 + 1], nth(3), frames(4))
    <3>1. cs = coded /\ 0 \in Nat /\ 0 < Len(Code) /\ Code[0 + 1] = Code[1] /\ 0 + 1 = 1
      BY <2>3, <2>6
    <3>2. /\ Mapped(cs, nth(1), Code, 0 + 1)
          /\ Image(cs) = Image(empty) \cup {nth(3)} \cup {frames(4)[i] : i \in DOMAIN MissingTables(empty, Code[0 + 1])}
          /\ LeafOf(cs, Code[0 + 1]) = nth(3)
      <4>1. Apart(empty, nth(1), Code[0 + 1], nth(3), frames(4))
        BY <2>12, <3>1
      <4>2. Extended(empty, cs, nth(1), Code, 0, nth(3), frames(4))
        BY <2>3, <2>9, <3>1, <4>1, PageMapped
      <4> QED BY <4>2 DEF Extended
    <3> HIDE DEF cs, coded
    <3> QED BY <2>4, <2>9, <3>1, <3>2
  <2> HIDE DEF coded
  <2>14. second \in Nat /\ DOMAIN missing2 = 1 .. second
    <3>1. Space(coded)
      BY <2>13 DEF Mapped
    <3> QED BY <2>3, <3>1, MissingCount, Zenon
  <2>15. 4 + first + second <= size
    BY <1>2, <2>2, <2>4, <2>14 DEF Short, size
  <2>16. \A i \in 1 .. second : /\ 4 + first + i \in 1 .. size /\ frames(4 + first)[i] = nth(4 + first + i) 
                                /\ 4 + first + i > 4 + first
    <3>1. \A i \in 1 .. second : i \in 1 .. size - (4 + first) /\ 4 + first + i \in 1 .. size /\ 4 + first + i > 4 + first
      BY <2>2, <2>4, <2>14, <2>15
    <3>2. 4 + first \in Nat /\ 4 + first <= size
      BY <2>2, <2>4, <2>5
    <3> HIDE DEF first, second
    <3>3. \A i \in 1 .. size - (4 + first) : frames(4 + first)[i] = nth(4 + first + i)
      BY <2>8, <3>2
    <3> QED BY <3>1, <3>3
  <2>17. Image(coded) \subseteq {nth(i) : i \in 2 .. 3} \cup {nth(i) : i \in 5 .. 4 + first}
    <3>1. 2 \in 2 .. 3 /\ 3 \in 2 .. 3 /\ \A i \in 1 .. first : 4 + i \in 5 .. 4 + first
      BY <2>4
    <3> QED BY <2>10, <2>13, <3>1
  <2>18. \A i \in 1 .. size : nth(i) \in Image(coded) \cup {nth(1)} => i \in 1 .. 3 \cup 5 .. 4 + first
    <3> SUFFICES ASSUME NEW i \in 1 .. size, nth(i) \in Image(coded) \cup {nth(1)} PROVE i \in 1 .. 3 \cup 5 .. 4 + first
      OBVIOUS
    <3>1. PICK j \in 1 .. 3 \cup 5 .. 4 + first : nth(i) = nth(j)
      BY <2>17
    <3>2. j \in 1 .. size
      BY <2>2, <2>4, <2>5
    <3> QED BY <2>7, <3>1, <3>2
  <2>19. Apart(coded, nth(1), Code[2], nth(4), frames(4 + first))
    <3>1. nth(4) \notin Image(coded) \cup {nth(1)}
      BY <2>11, <2>18
    <3>2. ASSUME NEW i \in DOMAIN missing2 PROVE frames(4 + first)[i] \notin Image(coded) \cup {nth(1), nth(4)}
      <4>1. /\ frames(4 + first)[i] = nth(4 + first + i) /\ 4 + first + i \in 1 .. size 
            /\ 4 + first + i \notin 1 .. 3 \cup 5 .. 4 + first /\ 4 + first + i # 4
        <5>1. /\ frames(4 + first)[i] = nth(4 + first + i) /\ 4 + first + i \in 1 .. size
              /\ 4 + first + i > 4 + first /\ i \in Nat
          <6>1. i \in 1 .. second /\ i \in Nat
            BY <2>14
          <6> QED BY <2>16, <6>1, Zenon
        <5> HIDE DEF first
        <5>2. 4 + first + i \notin 1 .. 3 /\ 4 + first + i \notin 5 .. 4 + first /\ 4 + first + i # 4
          BY <2>4, <5>1
        <5> QED BY <5>1, <5>2
      <4>2. nth(4 + first + i) # nth(4)
        BY <2>7, <2>11, <4>1
      <4> QED BY <2>18, <4>1, <4>2
    <3>3. ASSUME NEW i \in DOMAIN missing2, NEW j \in DOMAIN missing2, 
                 frames(4 + first)[i] = frames(4 + first)[j] 
          PROVE  i = j
      <4>1. 4 + first + i = 4 + first + j
        BY <2>7, <2>14, <2>16, <3>3
      <4> QED BY <2>4, <2>14, <4>1
    <3> QED BY <3>1, <3>2, <3>3 DEF Apart
  <2>20. /\ Mapped(space, nth(1), Code, 2)
         /\ Image(space) = Image(coded) \cup {nth(4)} \cup {frames(4 + first)[i] : i \in 1 .. second}
         /\ LeafOf(space, Code[2]) = nth(4) /\ LeafOf(space, Code[1]) = nth(3)
    <3> DEFINE cs == MapPage(coded, Code[1 + 1], nth(4), frames(4 + first))
    <3>1. cs = space /\ 1 \in Nat /\ 1 < Len(Code) /\ Code[1 + 1] = Code[2] /\ 1 + 1 = 2 /\ 1 \in 1 .. 1
      BY <2>3, <2>6
    <3>2. /\ Mapped(cs, nth(1), Code, 1 + 1)
          /\ Image(cs) = Image(coded) \cup {nth(4)} \cup {frames(4 + first)[i] : i \in DOMAIN MissingTables(coded, Code[1 + 1])}
          /\ LeafOf(cs, Code[1 + 1]) = nth(4)
          /\ \A i \in 1 .. 1 : LeafOf(cs, Code[i]) = LeafOf(coded, Code[i])
      <4>1. Apart(coded, nth(1), Code[1 + 1], nth(4), frames(4 + first))
        BY <2>19, <3>1
      <4> HIDE DEF first
      <4>2. Extended(coded, cs, nth(1), Code, 1, nth(4), frames(4 + first))
        BY <2>3, <2>13, <3>1, <4>1, PageMapped
      <4> QED BY <4>2 DEF Extended
    <3> HIDE DEF cs, space
    <3> QED BY <2>13, <2>14, <3>1, <3>2
  <2> HIDE DEF space
  <2>21. Image(space) \cup {nth(1)} = new /\ new \subseteq free /\ Range(Lowest(need)) = new
    <3>1. ASSUME NEW i \in 1 .. need 
          PROVE  i \in 1 .. 4 \/ i - 4 \in 1 .. first \/ i - (4 + first) \in 1 .. second
      BY <2>4, <2>14
    <3>2. ASSUME NEW i \in 1 .. need PROVE nth(i) \in Image(space) \cup {nth(1)}
      <4>1. CASE i \in 1 .. 4
        BY <2>13, <2>20, <4>1
      <4>2. CASE i - 4 \in 1 .. first
        <5>1. frames(4)[i - 4] = nth(i)
          <6>1. 4 + (i - 4) = i
            OBVIOUS
          <6> QED BY <2>10, <4>2, <6>1
        <5> QED BY <2>13, <2>20, <4>2, <5>1
      <4>3. CASE i - (4 + first) \in 1 .. second
        <5>1. frames(4 + first)[i - (4 + first)] = nth(i)
          <6>1. 4 + first + (i - (4 + first)) = i
            BY <2>4
          <6> QED BY <2>16, <4>3, <6>1
        <5> QED BY <2>20, <4>3, <5>1
      <4> QED BY <3>1, <4>1, <4>2, <4>3
    <3>3. /\ \A i \in 1 .. 4 : i \in 1 .. need
          /\ \A i \in 5 .. 4 + first : i \in 1 .. need
          /\ \A i \in 1 .. second : 4 + first + i \in 1 .. need
          /\ \A i \in 1 .. need : i \in 1 .. size
      BY <2>2, <2>4, <2>14, <2>15
    <3>4. Image(space) \cup {nth(1)} \subseteq new
      <4>1. \A i \in 1 .. need : nth(i) \in new
        BY DEF new
      <4>2. Image(coded) \cup {nth(1), nth(4)} \subseteq new
        <5>1. 2 .. 3 \subseteq 1 .. 4 /\ 1 \in 1 .. 4 /\ 4 \in 1 .. 4
          OBVIOUS
        <5> QED BY <2>17, <3>3, <4>1, <5>1
      <4>3. \A i \in 1 .. second : frames(4 + first)[i] \in new
        BY <2>16, <3>3, <4>1
      <4> QED BY <2>20, <4>2, <4>3
    <3>5. new \subseteq Image(space) \cup {nth(1)}
      BY <3>2 DEF new
    <3>6. new \subseteq free
      BY <2>7, <3>3 DEF new
    <3>7. need \in Nat
      BY <2>4, <2>14
    <3>8. Range(Lowest(need)) = new
      <4> HIDE DEF need
      <4> QED BY <1>2, <2>2, <3>7, LowestIs DEF new, nth
    <3> QED BY <3>4, <3>5, <3>6, <3>8
  <2>22. nth(3) # nth(4) /\ nth(3) \in free /\ nth(4) \in free
    BY <2>7, <2>11
  <2>23. /\ DOMAIN Entry(s, <<<<Code[1], nth(3)>>, <<Code[2], nth(4)>>>>) = {nth(3), nth(4)}
         /\ Entry(s, <<<<Code[1], nth(3)>>, <<Code[2], nth(4)>>>>)[nth(3)] = <<s, Code[1]>>
         /\ Entry(s, <<<<Code[1], nth(3)>>, <<Code[2], nth(4)>>>>)[nth(4)] = <<s, Code[2]>>
    <3> DEFINE ps == <<<<Code[1], nth(3)>>, <<Code[2], nth(4)>>>>
    <3>1. /\ DOMAIN ps = {1, 2} /\ ps[1][1] = Code[1] /\ ps[1][2] = nth(3)
          /\ ps[2][1] = Code[2] /\ ps[2][2] = nth(4)
      OBVIOUS
    <3> HIDE DEF ps
    <3>2. /\ DOMAIN Entry(s, ps) = {nth(3), nth(4)}
          /\ Entry(s, ps)[nth(3)] = <<s, Code[1]>> /\ Entry(s, ps)[nth(4)] = <<s, Code[2]>>
      <4>1. ps[1][2] # ps[2][2]
        BY <2>22, <3>1
      <4>2. /\ DOMAIN Entry(s, ps) = {ps[1][2], ps[2][2]}
            /\ Entry(s, ps)[ps[1][2]] = <<s, ps[1][1]>> /\ Entry(s, ps)[ps[2][2]] = <<s, ps[2][1]>>
        BY <3>1, <4>1, EntryTwo, Zenon
      <4> QED BY <3>1, <4>2
    <3> QED BY <3>2 DEF ps
  <2>24. holds' = Labelled(Entry(s, <<<<Code[1], nth(3)>>, <<Code[2], nth(4)>>>>))
    BY <2>1, <2>6
  <2>25. \A t \in Slots : \A f \in OwnedBy(task[t]) : f \in DOMAIN holds => f \in DOMAIN holds' /\ holds'[f] = holds[f]
    BY <2>22, <2>23, <2>24, LabelledIs, FreeFrames
  <2>26. Filled(s, space, Code, 2, holds')
    <3>1. nth(3) \in DOMAIN holds' /\ holds'[nth(3)] = <<s, Code[1]>> /\ nth(4) \in DOMAIN holds' /\ holds'[nth(4)] = <<s, Code[2]>>
      BY <2>23, <2>24, LabelledIs
    <3>2. 1 .. 2 = {1, 2}
      OBVIOUS
    <3> QED BY <2>20, <3>1, <3>2 DEF Filled
  <2>27. r.state = "alive" /\ r.user = TRUE /\ r.stack = nth(1) /\ r.as = space /\ r.pages = Code /\ Record(r)
    BY <2>6 DEF r, Record
  <2>28. Whole(s, r, todo', holds')
    <3>1. 2 \in 0 .. Len(Code)
      BY <2>3
    <3> QED BY <2>3, <2>20, <2>26, <2>27, <3>1 DEF Whole
  <2>29. Books(free', OwnersOf(task'))
    <3>1. OwnedBy(r) = OwnedBy(task[s]) \cup new
      BY <2>1, <2>21, <2>27 DEF OwnedBy
    <3>2. new \subseteq free /\ free' = free \ new /\ task' = [task EXCEPT ![s] = r]
      BY <2>1, <2>21
    <3> QED BY <3>1, <3>2, Given, Zenon
  <2>30. \A t \in Slots : t # s => task[t].state # "loading"
    BY <2>1 DEF Loading
  <2> QED BY <2>1, <2>25, <2>28, <2>29, <2>30, SlotChanged, Zenon
<1> QED BY <1>1, <1>2
-----------------------------------------------------------------------------
LEMMA SpawnInit == Init => SpawnInv
<1> SUFFICES ASSUME Init PROVE SpawnInv
  OBVIOUS
<1>1. DOMAIN task = Slots /\ \A s \in Slots : task[s] = NoTask
  BY DEF Init
<1>2. \A s \in Slots : Whole(s, task[s], todo, holds)
  <2>1. ASSUME NEW s PROVE Whole(s, NoTask, todo, holds)
    BY DEF Whole, Record, NoTask
  <2> QED BY <1>1, <2>1
<1>3. Loading = {}
  BY <1>1 DEF Loading, NoTask
<1>4. Books(free, OwnersOf(task))
  <2>1. \A s \in Slots : OwnersOf(task)[s] = {}
    BY <1>1 DEF OwnersOf, OwnedBy, NoTask
  <2>2. UNION {OwnersOf(task)[s] : s \in Slots} = {}
    BY <2>1
  <2>3. KernelFrames \subseteq Frames
    BY MachineAssumption DEF KernelFrames
  <2> QED BY <2>1, <2>2, <2>3 DEF Books, Init
<1> QED BY <1>1, <1>2, <1>3, <1>4 DEF SpawnInv, Init

LEMMA SpawnNext == SpawnInv /\ [Next]_vars => SpawnInv'
<1> SUFFICES ASSUME SpawnInv, [Next]_vars PROVE SpawnInv'
  OBVIOUS
<1>1. CASE Next
  <2>1. PICK s \in Slots : \/ Create(s) \/ CreateUser(s) \/ (\E program \in Programs : CreateElf(s, program))
                           \/ Refuse(s) \/ MapNext(s) \/ Die(s) \/ Reap(s)
    BY <1>1 DEF Next
  <2> QED BY <2>1, CreateStep, CreateUserStep, CreateElfStep, RefuseStep, MapNextStep, DieStep, ReapStep
<1>2. CASE UNCHANGED vars
  BY <1>2 DEF vars, SpawnInv, Loading
<1> QED BY <1>1, <1>2

LEMMA SpawnAlways == Spec => []SpawnInv
BY SpawnInit, SpawnNext, PTL DEF Spec

(* The frames of a task are as many as it has uses for them.                *)
LEMMA OwnedOnce ==
    ASSUME SpawnInv, NEW s \in Tasks
    PROVE  Owned(s) = OwnedBy(task[s]) /\ Cardinality(Owned(s)) = 1 + Cardinality(Private(s))
<1> DEFINE r == task[s]
<1>1. Whole(s, r, todo, holds) /\ r.state # "free" /\ r.user \in BOOLEAN
  BY DEF SpawnInv, Tasks, Whole
<1>2. Owned(s) = {r.stack} \cup {r.as[n] : n \in Private(s)} /\ Private(s) = IF r.user THEN Nodes(r.as) ELSE {}
  BY DEF Owned, Private, Nodes
<1> HIDE DEF r
<1>3. CASE ~ r.user
  <2>1. Private(s) = {} /\ Owned(s) = {r.stack}
    BY <1>2, <1>3
  <2>2. Cardinality(Private(s)) = 0 /\ Cardinality(Owned(s)) = 1
    BY <2>1, FS_EmptySet, FS_Singleton
  <2>3. Owned(s) = OwnedBy(r)
    BY <1>1, <1>3, <2>1 DEF OwnedBy
  <2> QED BY <2>2, <2>3 DEF r
<1>4. CASE r.user
  <2>1. PICK k \in 0 .. Len(r.pages) : Mapped(r.as, r.stack, r.pages, k)
    BY <1>1, <1>4 DEF Whole
  <2>2. Private(s) = Nodes(r.as) /\ Owned(s) = {r.stack} \cup Image(r.as)
    BY <1>2, <1>4 DEF Image
  <2>3. Owned(s) = OwnedBy(r)
    BY <1>1, <1>4, <2>2 DEF OwnedBy
  <2>4. IsFiniteSet(Nodes(r.as)) /\ Cardinality(Nodes(r.as)) \in Nat
    BY <2>1, FS_Singleton, FS_Union, FS_CardinalityType DEF Mapped, Space, Nodes
  <2> DEFINE f == [n \in Nodes(r.as) |-> r.as[n]]
  <2>5. f \in Bijection(Nodes(r.as), Image(r.as))
    BY <2>1 DEF Mapped, Image, Bijection, Injection, Surjection, IsInjective
  <2>6. ExistsBijection(Nodes(r.as), Image(r.as))
    BY <2>5 DEF ExistsBijection
  <2>7. IsFiniteSet(Image(r.as)) /\ Cardinality(Image(r.as)) = Cardinality(Nodes(r.as))
    BY <2>4, <2>6, FS_Bijection
  <2>8. r.stack \notin Image(r.as)
    BY <2>1 DEF Mapped
  <2>9. Cardinality(Image(r.as) \cup {r.stack}) = Cardinality(Image(r.as)) + 1
    BY <2>7, <2>8, FS_AddElement
  <2>10. Owned(s) = Image(r.as) \cup {r.stack}
    BY <2>2
  <2>11. Cardinality(Owned(s)) = Cardinality(Private(s)) + 1
    BY <2>2, <2>7, <2>9, <2>10
  <2>12. Cardinality(Owned(s)) = 1 + Cardinality(Private(s))
    BY <2>2, <2>4, <2>11
  <2> QED BY <2>3, <2>12 DEF r
<1> QED BY <1>1, <1>3, <1>4

LEMMA SpawnInvOneOwner == SpawnInv => OneOwner
<1> SUFFICES ASSUME SpawnInv PROVE OneOwner
  OBVIOUS
<1>1. \A s \in Slots : OwnersOf(task)[s] = IF s \in Tasks THEN Owned(s) ELSE {}
  <2> SUFFICES ASSUME NEW s \in Slots PROVE OwnersOf(task)[s] = IF s \in Tasks THEN Owned(s) ELSE {}
    OBVIOUS
  <2>1. OwnersOf(task)[s] = OwnedBy(task[s])
    BY DEF OwnersOf
  <2>2. s \notin Tasks => OwnedBy(task[s]) = {}
    BY DEF Tasks, OwnedBy
  <2> QED BY <2>1, <2>2, OwnedOnce
<1>2. Isolated
  <2>1. \A s \in Tasks : s \in Slots /\ OwnersOf(task)[s] = Owned(s) /\ Cardinality(Owned(s)) = 1 + Cardinality(Private(s))
    BY <1>1, OwnedOnce DEF Tasks
  <2> QED BY <2>1 DEF SpawnInv, Books, Isolated
<1>3. NoLeak
  <2>1. UNION {OwnersOf(task)[s] : s \in Slots} = UNION {Owned(s) : s \in Tasks}
    <3>1. \A s \in Tasks : s \in Slots /\ OwnersOf(task)[s] = Owned(s)
      BY <1>1 DEF Tasks
    <3>2. \A s \in Slots : s \notin Tasks => OwnersOf(task)[s] = {}
      BY <1>1
    <3> QED BY <3>1, <3>2
  <2> QED BY <2>1 DEF SpawnInv, Books, NoLeak
<1> QED BY <1>2, <1>3 DEF OneOwner, NeverAsserts, SpawnInv

LEMMA SpawnInvImageKept == SpawnInv => ImageKept
<1> SUFFICES ASSUME SpawnInv, NEW s \in UserTasks, task[s].state = "alive", NEW page \in Range(task[s].pages)
             PROVE  Path(page) \in DOMAIN task[s].as /\ holds[LeafOf(task[s].as, page)] = <<s, page>>
  BY DEF ImageKept
<1> DEFINE r == task[s]
<1>1. Whole(s, r, todo, holds) /\ r.user /\ r.state = "alive" /\ page \in Range(r.pages)
  BY DEF SpawnInv, UserTasks, Tasks
<1> HIDE DEF r
<1>2. /\ r.pages \in Seq(UserPages) /\ Mapped(r.as, r.stack, r.pages, Len(r.pages)) 
      /\ Filled(s, r.as, r.pages, Len(r.pages), holds)
  BY <1>1 DEF Whole, Wanted
<1>3. PICK i \in 1 .. Len(r.pages) : page = r.pages[i]
  BY <1>1, <1>2 DEF Range
<1>4. Path(page) \in DOMAIN r.as
  BY <1>2, <1>3, LeavesAreNodes DEF UserNodes
<1> QED BY <1>2, <1>3, <1>4 DEF Filled, r

LEMMA SpawnInvKernelMapped == SpawnInv => KernelMapped
<1> SUFFICES ASSUME SpawnInv PROVE KernelMapped
  OBVIOUS
<1>1. KernelFrames \cap free = {}
  BY DEF SpawnInv, Books
<1>2. ASSUME NEW s \in UserTasks, NEW n \in DOMAIN KernelHalf PROVE task[s].as[n] = KernelHalf[n]
  <2>1. Whole(s, task[s], todo, holds) /\ task[s].user /\ task[s].state # "free"
    BY DEF SpawnInv, UserTasks, Tasks
  <2>2. Space(task[s].as)
    BY <2>1 DEF Whole, Mapped
  <2> QED BY <2>2 DEF Space
<1> QED BY <1>1, <1>2 DEF KernelMapped

(* Through every creation, load, refusal, death and reaping, whatever the   *)
(* images: no frame has two uses, none is lost, and pmm_free_frame never    *)
(* meets a bit that is clear.                                               *)
THEOREM EveryFrameOneOwner == Spec => []OneOwner
BY SpawnAlways, SpawnInvOneOwner, PTL

(* A task that runs has all its pages, on the frames filled for it.         *)
THEOREM EveryImageKept == Spec => []ImageKept
BY SpawnAlways, SpawnInvImageKept, PTL

(* Every address space shares the kernel's tables, and they are never freed.*)
THEOREM KernelStaysMapped == Spec => []KernelMapped
BY SpawnAlways, SpawnInvKernelMapped, PTL
-----------------------------------------------------------------------------
(* A size rounded up to the alignment.                                      *)
LEMMA Rounded ==
    ASSUME NEW d \in Nat \ {0}, NEW a \in Nat
    PROVE  LET r == ((a + d - 1) \div d) * d
           IN  r \in Nat /\ r % d = 0 /\ a <= r /\ r < a + d
<1> DEFINE b == a + d - 1
           q == b \div d
           r == q * d
<1>1. b \in Nat /\ b = d * q + (b % d) /\ b % d \in 0 .. d - 1 /\ q \in Nat
  <2>1. b \in Nat
    OBVIOUS
  <2> HIDE DEF b
  <2> QED BY <2>1, Digit
<1>2. r = d * q /\ r \in Nat
  BY <1>1
<1>3. a <= r /\ r < a + d
  <2> HIDE DEF r, q
  <2> QED BY <1>1, <1>2
<1>4. r % d = 0
  <2> HIDE DEF q, r
  <2>1. r = d * q + 0 /\ 0 \in 0 .. d - 1
    BY <1>2
  <2>2. d \in Nat \ {0} /\ q \in Nat /\ r \in Nat
    BY <1>1, <1>2
  <2> QED BY <2>1, <2>2, QuotientUnique
<1> QED BY <1>2, <1>3, <1>4

(* Multiples of the alignment are apart by it.                              *)
LEMMA Multiples ==
    ASSUME NEW d \in Nat \ {0}, NEW a \in Nat, NEW b \in Nat, a % d = 0, b % d = 0
    PROVE  (a + b) % d = 0 /\ (a < b => a + d <= b)
<1> DEFINE p == a \div d
           q == b \div d
<1>1. p \in Nat /\ q \in Nat /\ a = d * p /\ b = d * q
  BY Digit
<1> HIDE DEF p, q
<1>2. (a + b) % d = 0
  <2>1. p + q \in Nat /\ a + b = d * (p + q) + 0 /\ 0 \in 0 .. d - 1 /\ a + b \in Nat
    BY <1>1, ProductLaws
  <2> QED BY <2>1, QuotientUnique
<1>3. a < b => a + d <= b
  <2> SUFFICES ASSUME a < b PROVE a + d <= b
    OBVIOUS
  <2>1. p < q
    <3>1. CASE q <= p
      <4>1. q < p => d * q + d <= d * p
        BY <1>1, ProductGrows
      <4> QED BY <1>1, <3>1, <4>1
    <3> QED BY <1>1, <3>1
  <2>2. d * p + d <= d * q
    BY <1>1, <2>1, ProductGrows
  <2> QED BY <1>1, <2>2
<1> QED BY <1>2, <1>3

ArenaBlock == [at : Nat, size : Nat]

(* Blocks lie one behind the other below the pointer.                       *)
ArenaInv ==
    /\ blocks \subseteq ArenaBlock
    /\ IF heap_initialized THEN heap_ptr \in Heap .. Heap + HEAP_SIZE /\ heap_ptr % ALIGN = 0
       ELSE blocks = {} /\ last.given
    /\ \A b \in blocks : Heap <= b.at /\ b.at % ALIGN = 0 /\ b.at + b.size <= heap_ptr
    /\ \A b, c \in blocks : b = c \/ b.at + b.size <= c.at \/ c.at + c.size <= b.at
    /\ Arena!UsedUp

LEMMA ArenaStart == Arena!Init => ArenaInv
BY DEF Arena!Init, ArenaInv, Arena!UsedUp

LEMMA ArenaGrows ==
    ASSUME ArenaInv, NEW size \in Nat, Heap + HEAP_SIZE + size + ALIGN < 2 ^ W, Arena!malloc(size, size)
    PROVE  ArenaInv'
<1> DEFINE A == Arena!Aligned(size)
           h == Arena!Here
<1>1. Heap \in Nat /\ HEAP_SIZE \in Nat /\ ALIGN \in Nat \ {0} /\ 2 ^ W \in Nat /\ Heap % ALIGN = 0 /\ HEAP_SIZE % ALIGN = 0
  BY ArenaAssumption
<1>2. \A n \in Nat : n < 2 ^ W => Arena!Word(n) = n
  <2>1. 2 ^ W \in Nat \ {0}
    BY <1>1
  <2> QED BY <2>1 DEF Arena!Word
<1>3. A \in Nat /\ A % ALIGN = 0 /\ size <= A /\ A < size + ALIGN
  <2>1. Arena!Word(size + ALIGN - 1) = size + ALIGN - 1
    BY <1>1, <1>2
  <2>2. A = ((size + ALIGN - 1) \div ALIGN) * ALIGN
    BY <2>1 DEF Arena!Aligned
  <2> QED BY <1>1, <2>2, Rounded
<1>4. h \in Heap .. Heap + HEAP_SIZE /\ h % ALIGN = 0 /\ h \in Nat /\ \A b \in blocks : b.at + b.size <= h
  BY <1>1 DEF ArenaInv, Arena!Here
<1>5. Arena!Word(h + A) = h + A
  BY <1>1, <1>2, <1>3, <1>4
<1>6. Arena!Fits(size) <=> h + A <= Heap + HEAP_SIZE
  BY <1>5 DEF Arena!Fits
<1>7. /\ heap_initialized' = TRUE /\ last' = [size |-> size, given |-> Arena!Fits(size)]
      /\ IF Arena!Fits(size) THEN heap_ptr' = h + A /\ blocks' = blocks \cup {[at |-> h, size |-> size]}
         ELSE heap_ptr' = h /\ UNCHANGED blocks
  BY <1>5 DEF Arena!malloc
<1> HIDE DEF A, h
<1>8. CASE Arena!Fits(size)
  <2> DEFINE n == [at |-> h, size |-> size]
  <2>1. blocks' = blocks \cup {n} /\ heap_ptr' = h + A /\ h + A <= Heap + HEAP_SIZE /\ last'.given
    BY <1>6, <1>7, <1>8
  <2>2. n \in ArenaBlock /\ n.at = h /\ n.size = size
    BY <1>4 DEF ArenaBlock
  <2> HIDE DEF n
  <2>3. (h + A) % ALIGN = 0
    BY <1>1, <1>3, <1>4, Multiples
  <2>4. \A b \in blocks : b.at \in Nat /\ b.size \in Nat
    BY DEF ArenaInv, ArenaBlock
  <2>5. \A b \in blocks' : Heap <= b.at /\ b.at % ALIGN = 0 /\ b.at + b.size <= heap_ptr'
    <3>1. Heap <= n.at /\ n.at % ALIGN = 0 /\ n.at + n.size <= heap_ptr'
      BY <1>1, <1>3, <1>4, <2>1, <2>2
    <3>2. \A b \in blocks : b.at + b.size <= heap_ptr'
      BY <1>3, <1>4, <2>1, <2>4
    <3> QED BY <2>1, <3>1, <3>2 DEF ArenaInv
  <2>6. \A b, c \in blocks' : b = c \/ b.at + b.size <= c.at \/ c.at + c.size <= b.at
    <3>1. \A b \in blocks : b.at + b.size <= n.at
      BY <1>4, <2>2
    <3> QED BY <2>1, <3>1 DEF ArenaInv
  <2>7. heap_ptr' \in Heap .. Heap + HEAP_SIZE
    BY <1>1, <1>3, <1>4, <2>1
  <2> QED BY <1>7, <2>1, <2>2, <2>3, <2>5, <2>6, <2>7 DEF ArenaInv, Arena!UsedUp
<1>9. CASE ~ Arena!Fits(size)
  <2>1. heap_ptr' = h /\ blocks' = blocks /\ last'.size = size /\ Heap + HEAP_SIZE < h + A
    BY <1>1, <1>3, <1>4, <1>6, <1>7, <1>9
  <2>2. size > Heap + HEAP_SIZE - h
    <3> DEFINE E == Heap + HEAP_SIZE
    <3>1. E \in Nat /\ E % ALIGN = 0 /\ h <= E
      <4>1. (Heap + HEAP_SIZE) % ALIGN = 0
        BY <1>1, Multiples
      <4> QED BY <1>1, <1>4, <4>1
    <3> HIDE DEF E
    <3>2. (h + A) % ALIGN = 0 /\ h + A \in Nat
      BY <1>1, <1>3, <1>4, Multiples
    <3>3. E + ALIGN <= h + A
      BY <1>1, <2>1, <3>1, <3>2, Multiples DEF E
    <3>4. h + A < h + size + ALIGN
      BY <1>1, <1>3, <1>4
    <3>5. E < h + size
      BY <1>1, <1>3, <1>4, <3>1, <3>3, <3>4
    <3>6. size > E - h
      BY <1>4, <3>1, <3>5
    <3>7. E = Heap + HEAP_SIZE
      BY DEF E
    <3> QED BY <1>1, <1>4, <3>1, <3>6, <3>7
  <2>3. \A b \in blocks' : Heap <= b.at /\ b.at % ALIGN = 0 /\ b.at + b.size <= heap_ptr'
    BY <1>4, <2>1 DEF ArenaInv
  <2> QED BY <1>4, <1>7, <2>1, <2>2, <2>3 DEF ArenaInv, Arena!UsedUp
<1> QED BY <1>8, <1>9

LEMMA ArenaStep == ArenaInv /\ [Arena!Next]_(Arena!vars) => ArenaInv'
<1> SUFFICES ASSUME ArenaInv, [Arena!Next]_(Arena!vars) PROVE ArenaInv'
  OBVIOUS
<1>1. CASE UNCHANGED Arena!vars
  BY <1>1 DEF Arena!vars, ArenaInv, Arena!UsedUp
<1>2. CASE Arena!Malloc
  <2>1. PICK size \in Sizes : Arena!malloc(size, size)
    BY <1>2 DEF Arena!Malloc
  <2>2. size \in Nat /\ Heap + HEAP_SIZE + 1 * size + ALIGN < 2 ^ W
    BY ArenaAssumption
  <2>3. 1 * size = size
    BY <2>2
  <2> QED BY <2>1, <2>2, <2>3, ArenaGrows
<1>3. CASE Arena!calloc
  <2>1. PICK num \in Counts, size \in Sizes : Arena!malloc(Arena!Word(num * size), num * size)
    BY <1>3 DEF Arena!calloc
  <2>2. PICK m : m = num * size
    OBVIOUS
  <2>3. m \in Nat
    BY <2>2, ArenaAssumption
  <2>4. Heap + HEAP_SIZE + m + ALIGN < 2 ^ W
    BY <2>2, ArenaAssumption
  <2>5. Arena!Word(m) = m
    <3>1. m < 2 ^ W /\ 2 ^ W \in Nat
      BY <2>3, <2>4, ArenaAssumption
    <3> QED BY <2>3, <3>1 DEF Arena!Word
  <2>6. Arena!malloc(m, m)
    BY <2>1, <2>2, <2>5
  <2> QED BY <2>3, <2>4, <2>6, ArenaGrows
<1> QED BY <1>1, <1>2, <1>3 DEF Arena!Next

LEMMA ArenaDisjoint == ArenaInv => Arena!Disjoint /\ Arena!UsedUp
<1> SUFFICES ASSUME ArenaInv PROVE Arena!Disjoint
  BY DEF ArenaInv
<1>1. Heap \in Nat /\ HEAP_SIZE \in Nat
  BY ArenaAssumption
<1>2. \A b \in blocks : b.at \in Nat /\ b.size \in Nat
  BY DEF ArenaInv, ArenaBlock
<1>3. ASSUME NEW b \in blocks PROVE Arena!Bytes(b) \subseteq Heap .. Heap + HEAP_SIZE - 1 /\ b.at % ALIGN = 0
  <2>1. Heap <= b.at /\ b.at % ALIGN = 0 /\ b.at + b.size <= Heap + HEAP_SIZE
    BY <1>1, <1>2 DEF ArenaInv
  <2> QED BY <1>1, <1>2, <2>1 DEF Arena!Bytes
<1>4. ASSUME NEW b \in blocks, NEW c \in blocks, b # c PROVE Arena!Bytes(b) \cap Arena!Bytes(c) = {}
  <2>1. b.at + b.size <= c.at \/ c.at + c.size <= b.at
    BY <1>4 DEF ArenaInv
  <2> QED BY <1>2, <2>1 DEF Arena!Bytes
<1> QED BY <1>3, <1>4 DEF Arena!Disjoint

(* Arena: the blocks of malloc are disjoint, whatever is asked for.         *)
ArenaInAlgorithms == part = "malloc" => ArenaInv

LEMMA ArenaInit == AlgorithmInit => ArenaInAlgorithms
BY ArenaStart DEF AlgorithmInit, ArenaInAlgorithms

LEMMA ArenaNext == ArenaInAlgorithms /\ [AlgorithmNext]_algorithmVars => ArenaInAlgorithms'
<1> SUFFICES ASSUME ArenaInAlgorithms, [AlgorithmNext]_algorithmVars, part' = "malloc" PROVE ArenaInv'
  BY DEF ArenaInAlgorithms
<1>1. part = "malloc" /\ (Arena!Next \/ UNCHANGED mallocVars)
  BY DEF AlgorithmNext, algorithmVars
<1>2. ArenaInv /\ [Arena!Next]_(Arena!vars)
  BY <1>1 DEF ArenaInAlgorithms, mallocVars, Arena!vars
<1> QED BY <1>2, ArenaStep

(* malloc, calloc and realloc, called in any order with any sizes that do not *)
(* wrap: the blocks lie in the array, aligned, and share no byte, and one is  *)
(* refused only if the rest of the array is too small for it.                 *)
THEOREM BlocksStayDisjoint == AlgorithmSpec => []BlocksDisjoint
<1>1. ArenaInAlgorithms => BlocksDisjoint
  BY ArenaDisjoint DEF ArenaInAlgorithms, BlocksDisjoint
<1> QED BY <1>1, ArenaInit, ArenaNext, PTL DEF AlgorithmSpec
-----------------------------------------------------------------------------
(* Where the first character of a set is.                                   *)
LEMMA FirstIs ==
    ASSUME NEW s, Len(s) \in Nat, NEW i \in 1 .. Len(s) + 1, NEW C
    PROVE  /\ Shell!First(s, i, C) \in i .. Len(s) + 1
           /\ Shell!First(s, i, C) <= Len(s) => s[Shell!First(s, i, C)] \in C
           /\ \A j \in i .. Shell!First(s, i, C) - 1 : s[j] \notin C
<1> DEFINE S == {j \in i .. Len(s) : s[j] \in C} \cup {Len(s) + 1}
<1>1. S \in SUBSET Nat /\ S # {}
  OBVIOUS
<1>2. Min(S) \in S /\ \A y \in S : Min(S) <= y
  <2> HIDE DEF S
  <2> QED BY <1>1, MinIsLeast
<1>3. Shell!First(s, i, C) = Min(S)
  BY DEF Shell!First, Shell!Min, Min
<1> HIDE DEF S
<1>4. Min(S) \in i .. Len(s) + 1 /\ (Min(S) <= Len(s) => s[Min(S)] \in C)
  BY <1>2 DEF S
<1>5. \A j \in i .. Min(S) - 1 : s[j] \notin C
  <2> SUFFICES ASSUME NEW j \in i .. Min(S) - 1, s[j] \in C PROVE FALSE
    OBVIOUS
  <2>1. j \in S /\ j < Min(S) /\ Min(S) \in Nat
    BY <1>4 DEF S
  <2> QED BY <1>2, <2>1
<1> QED BY <1>3, <1>4, <1>5

LEMMA FirstUnique ==
    ASSUME NEW s, Len(s) \in Nat, NEW i \in 1 .. Len(s) + 1, NEW C, NEW f \in i .. Len(s) + 1,
           f <= Len(s) => s[f] \in C, \A j \in i .. f - 1 : s[j] \notin C
    PROVE  Shell!First(s, i, C) = f
<1> DEFINE F == Shell!First(s, i, C)
<1>1. F \in i .. Len(s) + 1 /\ (F <= Len(s) => s[F] \in C) /\ \A j \in i .. F - 1 : s[j] \notin C
  BY FirstIs
<1> HIDE DEF F
<1>2. ~ (F < f) /\ ~ (f < F)
  BY <1>1
<1> QED BY <1>1, <1>2 DEF F

(* The buffer under the parser: the line as typed, with a NUL behind it and  *)
(* perhaps in place of a space.                                             *)
Buffer ==
    /\ typed \in Seq(Shell!Keys) /\ typed # <<>>
    /\ line \in Seq(Shell!Keys \cup {Shell!NUL}) /\ Len(line) = Len(typed) + 1 /\ line[Len(typed) + 1] = Shell!NUL
    /\ \A i \in 1 .. Len(typed) : line[i] = typed[i] \/ (typed[i] = Shell!SPACE /\ line[i] = Shell!NUL)

(* The words in front of the cursor have been found, in order, each ended   *)
(* by a NUL; what is behind it is as it was typed, from the start of a word *)
(* or a space on.                                                           *)
WordEnd(i) == Shell!First(typed, i, {Shell!SPACE})
BeginsBelow(q) == {j \in Shell!Begins : j < q}
BeginsTo(q) == {j \in Shell!Begins : j <= q}
Found ==
    /\ cursor \in 1 .. Len(typed) + 1 /\ \A i \in cursor .. Len(typed) : line[i] = typed[i]
    /\ cursor = 1 \/ cursor = Len(typed) + 1 \/ typed[cursor - 1] = Shell!SPACE
    /\ argv \in Seq(Nat) /\ Len(argv) <= SHELL_MAX_ARGS /\ Len(argv) = Cardinality(BeginsBelow(cursor))
    /\ \A n \in DOMAIN argv : argv[n] \in Shell!Begins /\ Cardinality(BeginsTo(argv[n])) = n /\ line[WordEnd(argv[n])] = Shell!NUL

Reply(handler) ==
    IF handler \notin {"cat", "run"} THEN [status |-> "OK", file |-> Shell!NoFile]
    ELSE IF Len(argv) < 2 THEN [status |-> "ARGS", file |-> Shell!NoFile]
    ELSE [status |-> IF Shell!Lookup(Shell!Path(handler)) = Shell!NoFile THEN "FILE" ELSE "OK", file |-> Shell!Lookup(Shell!Path(handler))]

Outcome ==
    IF argv = <<>> THEN [status |-> "EMPTY", file |-> Shell!NoFile]
    ELSE IF Shell!Row(Shell!String(argv[1])) \notin DOMAIN Commands THEN [status |-> "UNKNOWN", file |-> Shell!NoFile]
    ELSE Reply(Commands[Shell!Row(Shell!String(argv[1]))].handler)

ParserInv ==
    /\ pc \in {"typing", "parse", "dispatch", "done"} /\ dir \in Directories
    /\ pc = "typing" => typed \in Seq(Shell!Keys)
    /\ pc # "typing" => Buffer /\ Found
    /\ pc \in {"dispatch", "done"} => cursor = Len(typed) + 1 \/ Len(argv) = SHELL_MAX_ARGS
    /\ pc = "done" => result = Outcome

(* No key is the NUL.                                                       *)
LEMMA KeysAre == Shell!SPACE \in Shell!Keys /\ Shell!NUL \notin Shell!Keys /\ Shell!SPACE # Shell!NUL /\ Shell!SPACE # Shell!DOT
BY ShellAssumption DEF Shell!Keys, Shell!SPACE, Shell!DOT, Shell!NUL

LEMMA BeginsAre ==
    ASSUME Buffer
    PROVE  /\ Shell!Begins \in SUBSET (1 .. Len(typed)) /\ IsFiniteSet(Shell!Begins)
           /\ \A S \in SUBSET Shell!Begins : IsFiniteSet(S) /\ Cardinality(S) \in Nat /\ S \in SUBSET Nat
<1>1. Shell!Begins \subseteq 1 .. Len(typed) /\ Len(typed) \in Nat
  BY DEF Shell!Begins, Buffer
<1>2. IsFiniteSet(1 .. Len(typed))
  BY <1>1, FS_Interval
<1>3. IsFiniteSet(Shell!Begins)
  BY <1>1, <1>2, FS_Subset
<1>4. ASSUME NEW S \in SUBSET Shell!Begins
      PROVE  IsFiniteSet(S) /\ Cardinality(S) \in Nat /\ S \in SUBSET Nat
  <2>1. IsFiniteSet(S)
    BY <1>3, FS_Subset
  <2>2. Cardinality(S) \in Nat
    BY <2>1, FS_CardinalityType
  <2> QED BY <1>1, <2>1, <2>2
<1> QED BY <1>1, <1>3, <1>4

(* A token the parser cuts is the next word.                                *)
LEMMA TokenIsWord ==
    ASSUME Buffer, Found, Shell!MoreTokens, line[Shell!TokenStart] # Shell!NUL
    PROVE  LET t == Shell!TokenStart
               e == Shell!First(line, t, {Shell!SPACE, Shell!NUL})
           IN  /\ t \in Shell!Begins /\ t \in cursor .. Len(typed) /\ e \in t + 1 .. Len(typed) + 1 /\ e = WordEnd(t)
               /\ BeginsTo(t) = BeginsBelow(cursor) \cup {t}
               /\ \A q \in e .. Len(typed) + 1 : q <= e + 1 => BeginsBelow(q) = BeginsTo(t)
               /\ line[e] = Shell!SPACE <=> e <= Len(typed)
               /\ line[e] = Shell!SPACE \/ line[e] = Shell!NUL
<1> DEFINE N == Len(typed)
           t == Shell!TokenStart
           e == Shell!First(line, t, {Shell!SPACE, Shell!NUL})
<1>1. N \in Nat /\ Len(line) = N + 1 /\ cursor \in 1 .. N + 1 /\ line[N + 1] = Shell!NUL
  BY DEF Buffer, Found
<1>2. \A i \in 1 .. N : typed[i] \in Shell!Keys /\ typed[i] # Shell!NUL /\ line[i] \in Shell!Keys \cup {Shell!NUL}
  BY KeysAre DEF Buffer
<1>3. \A i \in cursor .. N : line[i] = typed[i]
  BY DEF Found
<1>4. t \in cursor .. N + 1 /\ \A j \in cursor .. t - 1 : line[j] \notin (Shell!Keys \ {Shell!SPACE}) \cup {Shell!NUL}
  <2>1. t \in cursor .. N + 2 /\ (t <= N + 1 => line[t] \in (Shell!Keys \ {Shell!SPACE}) \cup {Shell!NUL})
        /\ \A j \in cursor .. t - 1 : line[j] \notin (Shell!Keys \ {Shell!SPACE}) \cup {Shell!NUL}
    BY <1>1, FirstIs DEF Shell!TokenStart
  <2>2. t # N + 2
    BY <1>1, <2>1
  <2> QED BY <1>1, <2>1, <2>2
<1>5. t \in cursor .. N /\ line[t] # Shell!SPACE
  <2>1. t <= N
    BY <1>1, <1>4
  <2>2. line[t] \in (Shell!Keys \ {Shell!SPACE}) \cup {Shell!NUL}
    BY <1>1, <1>4, FirstIs, <2>1 DEF Shell!TokenStart
  <2> QED BY <1>4, <2>1, <2>2, KeysAre
<1> HIDE DEF t
<1>6. \A j \in cursor .. t - 1 : typed[j] = Shell!SPACE
  <2> SUFFICES ASSUME NEW j \in cursor .. t - 1 PROVE typed[j] = Shell!SPACE
    OBVIOUS
  <2>1. j \in cursor .. N /\ j \in 1 .. N
    BY <1>1, <1>5
  <2> QED BY <1>2, <1>3, <1>4, <2>1
<1>7. typed[t] = line[t] /\ typed[t] # Shell!SPACE /\ t \in 1 .. N
  BY <1>1, <1>3, <1>5
<1>8. t \in Shell!Begins
  <2>1. CASE t = cursor
    BY <1>1, <1>5, <1>7, <2>1 DEF Shell!Begins, Found, Buffer
  <2>2. CASE t # cursor
    <3>1. t - 1 \in cursor .. t - 1
      BY <1>1, <1>5, <2>2
    <3>2. typed[t - 1] = Shell!SPACE
      BY <1>6, <3>1
    <3> QED BY <1>7, <3>2 DEF Shell!Begins, Buffer
  <2> QED BY <2>1, <2>2
<1>9. /\ e \in t + 1 .. N + 1 /\ (e <= N => line[e] \in {Shell!SPACE, Shell!NUL})
      /\ \A j \in t .. e - 1 : line[j] \notin {Shell!SPACE, Shell!NUL}
  <2>1. e \in t .. N + 2 /\ (e <= N + 1 => line[e] \in {Shell!SPACE, Shell!NUL}) /\ \A j \in t .. e - 1 : line[j] \notin {Shell!SPACE, Shell!NUL}
    BY <1>1, <1>5, FirstIs
  <2> HIDE DEF e
  <2>2. e # N + 2
    BY <1>1, <1>5, <2>1
  <2>3. e # t
    BY <1>2, <1>5, <1>7, <2>1
  <2> QED BY <1>1, <1>5, <2>1, <2>2, <2>3
<1> HIDE DEF e
<1>10. (e <= N => line[e] = Shell!SPACE /\ typed[e] = Shell!SPACE) /\ \A j \in t .. e - 1 : typed[j] # Shell!SPACE
  <2>1. e <= N => e \in cursor .. N /\ e \in 1 .. N
    BY <1>1, <1>5, <1>9
  <2>2. \A j \in t .. e - 1 : j \in cursor .. N
    BY <1>1, <1>5, <1>9
  <2> QED BY <1>2, <1>3, <1>9, <2>1, <2>2
<1>11. e = WordEnd(t)
  <2>1. Len(typed) \in Nat /\ t \in 1 .. Len(typed) + 1 /\ e \in t .. Len(typed) + 1
    BY <1>1, <1>7, <1>9
  <2>2. (e <= Len(typed) => typed[e] \in {Shell!SPACE}) /\ \A j \in t .. e - 1 : typed[j] \notin {Shell!SPACE}
    BY <1>10
  <2>3. Shell!First(typed, t, {Shell!SPACE}) = e
    BY <2>1, <2>2, FirstUnique
  <2> QED BY <2>3 DEF WordEnd
<1>12. Shell!Begins \subseteq 1 .. N
  BY BeginsAre
<1>13. \A j \in Shell!Begins : ~ (j \in cursor .. t - 1)
  BY <1>6 DEF Shell!Begins
<1>14. \A j \in Shell!Begins : ~ (j \in t + 1 .. e)
  <2> SUFFICES ASSUME NEW j \in Shell!Begins, j \in t + 1 .. e PROVE FALSE
    OBVIOUS
  <2>1. j - 1 \in t .. e - 1 /\ j # 1 /\ j <= N
    BY <1>5, <1>9, <1>12, <1>1
  <2>2. typed[j - 1] # Shell!SPACE
    BY <1>10, <2>1
  <2> QED BY <2>1, <2>2 DEF Shell!Begins
<1>15. BeginsTo(t) = BeginsBelow(cursor) \cup {t}
  <2>1. \A j \in Shell!Begins : j <= t <=> j < cursor \/ j = t
    BY <1>1, <1>5, <1>12, <1>13
  <2> QED BY <1>8, <2>1 DEF BeginsTo, BeginsBelow
<1>16. ASSUME NEW q \in e .. N + 1, q <= e + 1 PROVE BeginsBelow(q) = BeginsTo(t)
  <2>1. \A j \in Shell!Begins : j < q <=> j <= t
    BY <1>1, <1>5, <1>9, <1>12, <1>14, <1>16
  <2> QED BY <2>1 DEF BeginsTo, BeginsBelow
<1>17. (line[e] = Shell!SPACE <=> e <= N) /\ (line[e] = Shell!SPACE \/ line[e] = Shell!NUL)
  BY <1>1, <1>9, <1>10, KeysAre
<1> QED BY <1>5, <1>8, <1>9, <1>11, <1>15, <1>16, <1>17 DEF t, e

(* Once found, a word is a C string in the buffer.                          *)
LEMMA StringIsWord ==
    ASSUME Buffer, NEW i \in Shell!Begins, line[WordEnd(i)] = Shell!NUL
    PROVE  Shell!String(i) = Shell!WordAt(i)
<1> DEFINE N == Len(typed)
           e == WordEnd(i)
<1>1. N \in Nat /\ Len(line) = N + 1 /\ i \in 1 .. N /\ typed[i] # Shell!SPACE
  BY BeginsAre DEF Buffer, Shell!Begins
<1>2. e \in i .. N + 1 /\ \A j \in i .. e - 1 : typed[j] # Shell!SPACE
  BY <1>1, FirstIs DEF WordEnd
<1>3. line[e] = Shell!NUL
  OBVIOUS
<1> HIDE DEF e
<1>4. \A j \in i .. e - 1 : line[j] = typed[j] /\ line[j] # Shell!NUL
  <2> SUFFICES ASSUME NEW j \in i .. e - 1 PROVE line[j] = typed[j] /\ line[j] # Shell!NUL
    OBVIOUS
  <2>1. j \in 1 .. N /\ typed[j] # Shell!SPACE
    BY <1>1, <1>2
  <2>2. typed[j] \in Shell!Keys
    BY <2>1 DEF Buffer
  <2>3. line[j] = typed[j]
    BY <2>1 DEF Buffer
  <2> QED BY <2>2, <2>3, KeysAre
<1>5. Shell!First(line, i, {Shell!NUL}) = e
  <2>1. Len(line) \in Nat /\ i \in 1 .. Len(line) + 1 /\ e \in i .. Len(line) + 1
    BY <1>1, <1>2
  <2>2. line[e] \in {Shell!NUL} /\ \A j \in i .. e - 1 : line[j] \notin {Shell!NUL}
    BY <1>3, <1>4
  <2> QED BY <2>1, <2>2, FirstUnique
<1>6. e = Shell!First(typed, i, {Shell!SPACE})
  BY DEF e, WordEnd
<1>7. SubSeq(line, i, e - 1) = SubSeq(typed, i, e - 1)
  <2>1. line \in Seq(Shell!Keys \cup {Shell!NUL}) /\ typed \in Seq(Shell!Keys)
    BY DEF Buffer
  <2>2. e - 1 \in Int /\ i \in Int
    BY <1>1, <1>2
  <2>3. SubSeq(line, i, e - 1) = [k \in 1 .. (e - 1 - i + 1) |-> line[i + k - 1]]
    BY <2>1, <2>2
  <2>4. SubSeq(typed, i, e - 1) = [k \in 1 .. (e - 1 - i + 1) |-> typed[i + k - 1]]
    BY <2>1, <2>2
  <2>5. \A k \in 1 .. (e - 1 - i + 1) : line[i + k - 1] = typed[i + k - 1]
    BY <1>1, <1>2, <1>4
  <2> QED BY <2>3, <2>4, <2>5
<1> QED BY <1>5, <1>6, <1>7 DEF Shell!String, Shell!WordAt

(* One round of the parser.                                                 *)
LEMMA TokenStep ==
    ASSUME Buffer, Found, Shell!MoreTokens, Shell!Token
    PROVE  Buffer' /\ Found'
<1> DEFINE N == Len(typed)
           t == Shell!TokenStart
           e == Shell!First(line, t, {Shell!SPACE, Shell!NUL})
<1>1. N \in Nat /\ Len(line) = N + 1 /\ cursor \in 1 .. N + 1 /\ line[N + 1] = Shell!NUL /\ typed' = typed
  BY DEF Buffer, Found, Shell!Token
<1>2. \A i \in 1 .. N : typed[i] \in Shell!Keys /\ line[i] \in Shell!Keys \cup {Shell!NUL}
  BY DEF Buffer
<1>3. /\ IsFiniteSet(Shell!Begins) /\ Shell!Begins \in SUBSET (1 .. N) /\ Shell!Begins' = Shell!Begins
      /\ \A S \in SUBSET Shell!Begins : IsFiniteSet(S) /\ Cardinality(S) \in Nat /\ S \in SUBSET Nat
  <2>1. Shell!Begins' = Shell!Begins
    BY <1>1 DEF Shell!Begins
  <2> QED BY <2>1, BeginsAre
<1>4. argv \in Seq(Nat) /\ Len(argv) < SHELL_MAX_ARGS
  <2>1. SHELL_MAX_ARGS \in Nat /\ Len(argv) <= SHELL_MAX_ARGS
    BY ShellAssumption DEF Found
  <2> QED BY <2>1 DEF Found, Shell!MoreTokens
<1>5. CASE line[t] = Shell!NUL
  <2>1. cursor' = t /\ line' = line /\ argv' = argv
    BY <1>5 DEF Shell!Token
  <2>2. t \in cursor .. N + 2 /\ (\A j \in cursor .. t - 1 : line[j] \notin (Shell!Keys \ {Shell!SPACE}) \cup {Shell!NUL})
    BY <1>1, FirstIs DEF Shell!TokenStart
  <2>3. \A i \in cursor .. N : line[i] = typed[i]
    BY DEF Found
  <2>4. t # N + 2
    <3>1. line[N + 1] \in (Shell!Keys \ {Shell!SPACE}) \cup {Shell!NUL}
      BY <1>1
    <3>2. t = N + 2 => N + 1 \in cursor .. t - 1
      BY <1>1
    <3> QED BY <2>2, <3>1, <3>2
  <2> HIDE DEF t
  <2>5. t = N + 1
    <3> SUFFICES ASSUME t # N + 1 PROVE FALSE
      OBVIOUS
    <3>1. t \in cursor .. N /\ t \in 1 .. N
      BY <1>1, <2>2, <2>4
    <3>2. line[t] \in Shell!Keys
      BY <1>2, <2>3, <3>1
    <3> QED BY <1>5, <3>2, KeysAre
  <2>6. \A j \in Shell!Begins : j < cursor
    <3> SUFFICES ASSUME NEW j \in Shell!Begins, ~ (j < cursor) PROVE FALSE
      OBVIOUS
    <3>1. j \in cursor .. N /\ j \in 1 .. N /\ j \in cursor .. t - 1
      BY <1>1, <1>3, <2>5
    <3>2. line[j] = typed[j] /\ typed[j] # Shell!SPACE /\ typed[j] \in Shell!Keys
      BY <1>2, <2>3, <3>1 DEF Shell!Begins
    <3> QED BY <2>2, <3>1, <3>2
  <2>7. BeginsBelow(N + 1) = BeginsBelow(cursor)
    <3>1. \A j \in Shell!Begins : j < N + 1 <=> j < cursor
      BY <1>1, <1>3, <2>6
    <3> QED BY <3>1 DEF BeginsBelow
  <2>8. Buffer'
    BY <1>1, <2>1 DEF Buffer
  <2>9. Found'
    <3>1. cursor' = N + 1 /\ Len(typed') = N
      BY <1>1, <2>1, <2>5
    <3>2. \A i \in cursor' .. N : FALSE
      BY <1>1, <3>1
    <3>3. BeginsBelow(cursor)' = BeginsBelow(cursor)
      BY <1>3, <2>7, <3>1 DEF BeginsBelow
    <3>4. \A i : BeginsTo(i)' = BeginsTo(i) /\ WordEnd(i)' = WordEnd(i)
      BY <1>1, <1>3 DEF BeginsTo, WordEnd
    <3> QED BY <1>1, <1>3, <2>1, <3>1, <3>2, <3>3, <3>4 DEF Found
  <2> QED BY <2>8, <2>9
<1>6. CASE line[t] # Shell!NUL
  <2>1. /\ t \in Shell!Begins /\ t \in cursor .. N /\ e \in t + 1 .. N + 1 /\ e = WordEnd(t)
        /\ BeginsTo(t) = BeginsBelow(cursor) \cup {t}
        /\ \A q \in e .. N + 1 : q <= e + 1 => BeginsBelow(q) = BeginsTo(t)
        /\ line[e] = Shell!SPACE <=> e <= N
        /\ line[e] = Shell!SPACE \/ line[e] = Shell!NUL
    BY <1>6, TokenIsWord
  <2>2. argv' = Append(argv, t) /\ line' = Shell!Cut(e) /\ cursor' = IF line[e] = Shell!SPACE THEN e + 1 ELSE e
    BY <1>6 DEF Shell!Token
  <2> HIDE DEF t, e
  <2>3. /\ line' \in Seq(Shell!Keys \cup {Shell!NUL}) /\ Len(line') = N + 1 /\ line'[e] = Shell!NUL
        /\ \A i \in 1 .. N + 1 : i # e => line'[i] = line[i]
    <3>1. line \in Seq(Shell!Keys \cup {Shell!NUL}) /\ e \in 1 .. N + 1
      BY <1>1, <2>1 DEF Buffer
    <3>2. CASE line[e] = Shell!SPACE
      BY <1>1, <2>2, <3>1, <3>2 DEF Shell!Cut
    <3>3. CASE line[e] # Shell!SPACE
      BY <1>1, <2>1, <2>2, <3>1, <3>3 DEF Shell!Cut
    <3> QED BY <3>2, <3>3
  <2>4. cursor' \in e .. N + 1 /\ cursor' <= e + 1 /\ (cursor' = N + 1 \/ cursor' = e + 1) /\ (e <= N => cursor' = e + 1)
    <3>1. e \in 1 .. N + 1 /\ N \in Nat /\ (line[e] = Shell!SPACE <=> e <= N)
      BY <1>1, <2>1
    <3>2. CASE e <= N
      <4>1. cursor' = e + 1
        BY <2>2, <3>1, <3>2
      <4> QED BY <3>1, <3>2, <4>1
    <3>3. CASE ~ (e <= N)
      <4>1. cursor' = e
        BY <2>2, <3>1, <3>3
      <4> QED BY <3>1, <3>3, <4>1
    <3> QED BY <3>2, <3>3
  <2>5. e <= N => typed[e] = Shell!SPACE
    <3> SUFFICES ASSUME e <= N PROVE typed[e] = Shell!SPACE
      OBVIOUS
    <3>1. e \in cursor .. N
      BY <1>1, <2>1
    <3> QED BY <2>1, <3>1 DEF Found
  <2>6. Buffer'
    <3>1. \A i \in 1 .. N : line'[i] = typed[i] \/ (typed[i] = Shell!SPACE /\ line'[i] = Shell!NUL)
      <4> SUFFICES ASSUME NEW i \in 1 .. N PROVE line'[i] = typed[i] \/ (typed[i] = Shell!SPACE /\ line'[i] = Shell!NUL)
        OBVIOUS
      <4>1. CASE i = e
        BY <2>3, <2>5, <4>1
      <4>2. CASE i # e
        <5>1. line'[i] = line[i]
          BY <1>1, <2>3, <4>2
        <5> QED BY <5>1 DEF Buffer
      <4> QED BY <4>1, <4>2
    <3>2. line'[N + 1] = Shell!NUL
      BY <1>1, <2>3
    <3> QED BY <1>1, <2>3, <3>1, <3>2 DEF Buffer
  <2>7. argv' \in Seq(Nat) /\ Len(argv') = Len(argv) + 1 /\ argv'[Len(argv) + 1] = t
        /\ \A n \in 1 .. Len(argv) : argv'[n] = argv[n]
    BY <1>1, <1>4, <2>1, <2>2
  <2>8. Cardinality(BeginsTo(t)) = Len(argv) + 1
    <3>1. t \notin BeginsBelow(cursor) /\ BeginsBelow(cursor) \subseteq Shell!Begins
      BY <1>1, <2>1 DEF BeginsBelow
    <3>2. Cardinality(BeginsBelow(cursor)) = Len(argv) /\ IsFiniteSet(BeginsBelow(cursor))
      BY <1>3, <3>1 DEF Found
    <3> QED BY <2>1, <3>1, <3>2, FS_AddElement
  <2>9. \A i : BeginsTo(i)' = BeginsTo(i) /\ WordEnd(i)' = WordEnd(i)
    BY <1>1, <1>3 DEF BeginsTo, WordEnd
  <2>10. BeginsBelow(cursor)' = BeginsTo(t)
    <3>1. BeginsBelow(cursor)' = {j \in Shell!Begins : j < cursor'}
      BY <1>3 DEF BeginsBelow
    <3>2. BeginsBelow(cursor') = BeginsTo(t)
      BY <2>1, <2>4
    <3> QED BY <3>1, <3>2 DEF BeginsBelow
  <2>11. ASSUME NEW n \in 1 .. Len(argv)
         PROVE  argv[n] \in Shell!Begins /\ Cardinality(BeginsTo(argv[n])) = n /\ line'[WordEnd(argv[n])] = Shell!NUL
    <3>1. argv[n] \in Shell!Begins /\ Cardinality(BeginsTo(argv[n])) = n /\ line[WordEnd(argv[n])] = Shell!NUL
      BY <1>4, <2>11 DEF Found
    <3>2. WordEnd(argv[n]) \in 1 .. N + 1
      <4>1. argv[n] \in 1 .. N
        BY <1>3, <3>1
      <4>2. argv[n] \in 1 .. Len(typed) + 1 /\ Len(typed) \in Nat
        BY <1>1, <4>1
      <4>3. WordEnd(argv[n]) \in argv[n] .. Len(typed) + 1
        BY <4>2, FirstIs DEF WordEnd
      <4> QED BY <4>1, <4>3
    <3>3. line'[WordEnd(argv[n])] = Shell!NUL
      BY <2>3, <3>1, <3>2
    <3> QED BY <3>1, <3>3
  <2>12. \A n \in DOMAIN argv' : argv'[n] \in Shell!Begins /\ Cardinality(BeginsTo(argv'[n])) = n /\ line'[WordEnd(argv'[n])] = Shell!NUL
    <3> SUFFICES ASSUME NEW n \in 1 .. Len(argv) + 1
                 PROVE  argv'[n] \in Shell!Begins /\ Cardinality(BeginsTo(argv'[n])) = n /\ line'[WordEnd(argv'[n])] = Shell!NUL
      BY <2>7
    <3>1. CASE n \in 1 .. Len(argv)
      BY <2>7, <2>11, <3>1
    <3>2. CASE n \notin 1 .. Len(argv)
      <4>1. n = Len(argv) + 1
        BY <1>4, <3>2
      <4> QED BY <2>1, <2>3, <2>7, <2>8, <4>1
    <3> QED BY <3>1, <3>2
  <2>13. Found'
    <3>1. cursor' \in 1 .. N + 1
      BY <1>1, <2>1, <2>4
    <3>2. \A i \in cursor' .. N : line'[i] = typed[i]
      <4> SUFFICES ASSUME NEW i \in cursor' .. N PROVE line'[i] = typed[i]
        OBVIOUS
      <4>1. i \in cursor .. N /\ i # e /\ i \in 1 .. N + 1
        BY <1>1, <2>1, <2>4
      <4> QED BY <2>3, <4>1 DEF Found
    <3>3. cursor' = N + 1 \/ typed[cursor' - 1] = Shell!SPACE
      BY <1>1, <2>1, <2>4, <2>5
    <3>4. Len(argv') <= SHELL_MAX_ARGS /\ Len(argv') = Cardinality(BeginsBelow(cursor)')
      BY <1>4, <2>7, <2>8, <2>10, ShellAssumption
    <3> QED BY <1>1, <1>3, <2>7, <2>9, <2>12, <3>1, <3>2, <3>3, <3>4 DEF Found
  <2> QED BY <2>6, <2>13
<1> QED BY <1>5, <1>6

LEMMA ShellCardinality == \A S : Shell!Cardinality(S) = Cardinality(S)
BY DEF Shell!Cardinality, Cardinality

(* Names of commands are the same when shell_strcmp says so.                *)
LEMMA StrcmpIs ==
    ASSUME NEW a \in Seq(Shell!Keys), NEW b \in Seq(Shell!Keys)
    PROVE  Shell!shell_strcmp(a, b) <=> a = b
<1> DEFINE char(s, i) == IF i \in DOMAIN s THEN s[i] ELSE Shell!NUL
           S == {i \in 1 .. Len(a) + 1 : char(a, i) = Shell!NUL \/ char(b, i) # char(a, i)}
           stop == Min(S)
<1>1. Shell!shell_strcmp(a, b) <=> char(a, stop) = char(b, stop)
  BY DEF Shell!shell_strcmp, Shell!Min, Min
<1>2. /\ \A i \in Nat : char(a, i) = Shell!NUL <=> i \notin 1 .. Len(a)
      /\ \A i \in Nat : char(b, i) = Shell!NUL <=> i \notin 1 .. Len(b)
      /\ \A i \in 1 .. Len(a) : char(a, i) = a[i]
      /\ \A i \in 1 .. Len(b) : char(b, i) = b[i]
      /\ Len(a) \in Nat /\ Len(b) \in Nat
  BY KeysAre
<1> HIDE DEF char
<1>3. stop \in 1 .. Len(a) + 1 /\ (char(a, stop) = Shell!NUL \/ char(b, stop) # char(a, stop))
      /\ \A i \in 1 .. Len(a) + 1 : i < stop => char(a, i) # Shell!NUL /\ char(b, i) = char(a, i)
  <2>1. Len(a) + 1 \in S /\ S \in SUBSET Nat
    BY <1>2
  <2>2. S # {}
    BY <2>1
  <2>3. stop \in S /\ \A i \in S : stop <= i
    <3> HIDE DEF S
    <3> QED BY <2>1, <2>2, MinIsLeast
  <2> HIDE DEF stop
  <2>4. stop \in Nat
    BY <2>1, <2>3
  <2>5. ASSUME NEW i \in 1 .. Len(a) + 1, i < stop PROVE char(a, i) # Shell!NUL /\ char(b, i) = char(a, i)
    <3>1. i \notin S
      BY <2>3, <2>4, <2>5
    <3> QED BY <3>1
  <2> QED BY <2>3, <2>5
<1> HIDE DEF stop
<1>4. a = b => char(a, stop) = char(b, stop)
  OBVIOUS
<1>5. char(a, stop) = char(b, stop) => a = b
  <2> SUFFICES ASSUME char(a, stop) = char(b, stop) PROVE a = b
    OBVIOUS
  <2>1. stop = Len(a) + 1 /\ char(b, stop) = Shell!NUL
    BY <1>2, <1>3
  <2>2. \A i \in 1 .. Len(a) : char(b, i) # Shell!NUL /\ b[i] = a[i]
    <3> SUFFICES ASSUME NEW i \in 1 .. Len(a) PROVE char(b, i) # Shell!NUL /\ b[i] = a[i]
      OBVIOUS
    <3>1. char(a, i) # Shell!NUL /\ char(b, i) = char(a, i)
      BY <1>2, <1>3, <2>1
    <3>2. i \in 1 .. Len(b)
      BY <1>2, <3>1
    <3> QED BY <1>2, <3>1, <3>2
  <2>3. Len(b) = Len(a)
    <3>1. Len(a) + 1 \notin 1 .. Len(b)
      BY <1>2, <2>1
    <3>2. Len(a) # 0 => Len(a) \in 1 .. Len(b)
      BY <1>2, <2>2
    <3> QED BY <1>2, <3>1, <3>2
  <2> QED BY <2>2, <2>3
<1> QED BY <1>1, <1>4, <1>5

LEMMA RowIs ==
    ASSUME NEW w \in Seq(Shell!Keys)
    PROVE  /\ Shell!Row(w) \in DOMAIN Commands => Shell!Row(w) \in Shell!Named(w)
           /\ \A i \in Shell!Named(w) : Shell!Row(w) = i
<1> DEFINE S == {i \in DOMAIN Commands : Shell!shell_strcmp(w, Commands[i].name)} \cup {Len(Commands) + 1}
<1>1. /\ Commands \in Seq([name : Seq(Shell!Keys), handler : STRING])
      /\ \A i, j \in DOMAIN Commands : Commands[i].name = Commands[j].name => i = j
  BY ShellAssumption
<1>2. DOMAIN Commands = 1 .. Len(Commands) /\ Len(Commands) \in Nat
      /\ \A i \in DOMAIN Commands : Commands[i].name \in Seq(Shell!Keys)
  <2> DEFINE K == [name : Seq(Shell!Keys), handler : STRING]
  <2>1. \A c \in K : c.name \in Seq(Shell!Keys)
    OBVIOUS
  <2>2. Commands \in Seq(K)
    BY <1>1
  <2> HIDE DEF K
  <2> QED BY <2>1, <2>2
<1>3. {i \in DOMAIN Commands : Shell!shell_strcmp(w, Commands[i].name)} = Shell!Named(w)
  BY <1>2, StrcmpIs DEF Shell!Named
<1>4. Shell!Row(w) = Min(S)
  BY DEF Shell!Row, Shell!Min, Min
<1>5. S = Shell!Named(w) \cup {Len(Commands) + 1} /\ Shell!Named(w) \subseteq DOMAIN Commands
  BY <1>3 DEF Shell!Named
<1> HIDE DEF S
<1>6. Min(S) \in S /\ \A i \in S : Min(S) <= i
  <2>1. S \in SUBSET Nat /\ S # {}
    BY <1>2, <1>5
  <2> QED BY <2>1, MinIsLeast
<1>7. \A i \in Shell!Named(w) : Min(S) = i
  <2> SUFFICES ASSUME NEW i \in Shell!Named(w) PROVE Min(S) = i
    OBVIOUS
  <2>1. Min(S) # Len(Commands) + 1
    <3>1. i \in 1 .. Len(Commands) /\ Min(S) <= i /\ Len(Commands) \in Nat
      BY <1>2, <1>5, <1>6
    <3> QED BY <3>1
  <2>2. Min(S) \in Shell!Named(w)
    BY <1>5, <1>6, <2>1
  <2> QED BY <1>1, <2>2 DEF Shell!Named
<1>8. Min(S) \in DOMAIN Commands => Min(S) \in Shell!Named(w)
  BY <1>2, <1>5, <1>6
<1> QED BY <1>4, <1>7, <1>8

(* What was found is the words of the line, as many as there is room for.   *)
LEMMA WordsFound ==
    ASSUME Buffer, Found, cursor = Len(typed) + 1 \/ Len(argv) = SHELL_MAX_ARGS
    PROVE  /\ Cardinality(Shell!Begins) \in Nat /\ Len(argv) <= SHELL_MAX_ARGS /\ Len(argv) <= Cardinality(Shell!Begins)
           /\ Len(argv) = SHELL_MAX_ARGS \/ Len(argv) = Cardinality(Shell!Begins)
           /\ Len(argv) \in Nat /\ DOMAIN argv = 1 .. Len(argv)
           /\ \A n \in DOMAIN argv : /\ Shell!String(argv[n]) = Shell!Word(n) /\ Shell!Word(n) \in Seq(Shell!Keys \ {Shell!SPACE}) /\ Shell!Word(n) # <<>>
<1>1. /\ IsFiniteSet(Shell!Begins) /\ Shell!Begins \in SUBSET (1 .. Len(typed)) /\ Shell!Begins \in SUBSET Nat
      /\ \A S \in SUBSET Shell!Begins : IsFiniteSet(S) /\ Cardinality(S) \in Nat /\ S \in SUBSET Nat
  BY BeginsAre
<1>2. Len(argv) <= SHELL_MAX_ARGS /\ argv \in Seq(Nat) /\ Len(argv) = Cardinality(BeginsBelow(cursor))
  BY DEF Found
<1>3. Cardinality(Shell!Begins) \in Nat
  BY <1>1
<1>4. Len(argv) <= Cardinality(Shell!Begins)
  <2>1. BeginsBelow(cursor) \subseteq Shell!Begins
    BY DEF BeginsBelow
  <2> QED BY <1>1, <1>2, <2>1, FS_Subset
<1>5. cursor = Len(typed) + 1 => Len(argv) = Cardinality(Shell!Begins)
  <2>1. \A j \in Shell!Begins : Len(typed) \in Nat /\ j < Len(typed) + 1
    BY <1>1 DEF Buffer
  <2>2. cursor = Len(typed) + 1 => BeginsBelow(cursor) = Shell!Begins
    BY <2>1 DEF BeginsBelow
  <2> QED BY <1>2, <2>2
<1>6. ASSUME NEW a \in Shell!Begins, NEW n \in Nat \ {0}, Cardinality(BeginsTo(a)) = n
      PROVE  Nth(Shell!Begins, n) = a
  <2> DEFINE B == {g \in Shell!Begins : g < a}
  <2>1. BeginsTo(a) = B \cup {a} /\ a \notin B
    <3>1. \A j \in Shell!Begins : (j <= a <=> j < a \/ j = a) /\ ~ (a < a)
      BY <1>1
    <3> QED BY <3>1 DEF BeginsTo
  <2>2. B \in SUBSET Shell!Begins
    OBVIOUS
  <2> HIDE DEF B
  <2>3. IsFiniteSet(B) /\ Cardinality(B) \in Nat
    BY <1>1, <2>2
  <2>4. Cardinality(BeginsTo(a)) = Cardinality(B) + 1
    BY <2>1, <2>3, FS_AddElement
  <2>5. Cardinality({g \in Shell!Begins : g < a}) = n - 1
    BY <1>6, <2>3, <2>4 DEF B
  <2> QED BY <1>1, <1>6, <2>5, NthUnique
<1>7. ASSUME NEW n \in DOMAIN argv PROVE Shell!Nth(n) = argv[n] /\ argv[n] \in Shell!Begins
  <2>1. argv[n] \in Shell!Begins /\ Cardinality(BeginsTo(argv[n])) = n /\ n \in Nat \ {0}
    BY <1>2, <1>7 DEF Found
  <2>2. Shell!Cardinality({j \in Shell!Begins : j <= argv[n]}) = n
    BY <2>1, ShellCardinality DEF BeginsTo
  <2>3. Shell!Nth(n) \in Shell!Begins /\ Shell!Cardinality({j \in Shell!Begins : j <= Shell!Nth(n)}) = n
    BY <2>1, <2>2 DEF Shell!Nth
  <2>5. Cardinality(BeginsTo(Shell!Nth(n))) = n
    BY <2>3, ShellCardinality DEF BeginsTo
  <2>4. Nth(Shell!Begins, n) = argv[n] /\ Nth(Shell!Begins, n) = Shell!Nth(n)
    BY <1>6, <2>1, <2>3, <2>5
  <2> QED BY <2>1, <2>4
<1>8. ASSUME NEW n \in DOMAIN argv PROVE Shell!String(argv[n]) = Shell!Word(n) /\ Shell!Word(n) \in Seq(Shell!Keys \ {Shell!SPACE}) /\ Shell!Word(n) # <<>>
  <2>1. argv[n] \in Shell!Begins /\ line[WordEnd(argv[n])] = Shell!NUL /\ Shell!Word(n) = Shell!WordAt(argv[n])
    BY <1>7, <1>8 DEF Found, Shell!Word
  <2>2. Shell!String(argv[n]) = Shell!WordAt(argv[n])
    BY <2>1, StringIsWord
  <2> DEFINE i == argv[n]
             e == WordEnd(i)
  <2>3. i \in 1 .. Len(typed) /\ typed[i] # Shell!SPACE /\ Len(typed) \in Nat
    BY <1>1, <2>1 DEF Shell!Begins, Buffer
  <2> HIDE DEF i
  <2>4. e \in i .. Len(typed) + 1 /\ (e <= Len(typed) => typed[e] = Shell!SPACE) /\ \A j \in i .. e - 1 : typed[j] # Shell!SPACE
    BY <2>3, FirstIs DEF WordEnd
  <2>5. Shell!WordAt(i) = SubSeq(typed, i, e - 1)
    BY DEF Shell!WordAt, WordEnd
  <2> HIDE DEF e
  <2>6. \A j \in i .. e - 1 : typed[j] \in Shell!Keys \ {Shell!SPACE}
    <3> SUFFICES ASSUME NEW j \in i .. e - 1 PROVE typed[j] \in Shell!Keys \ {Shell!SPACE}
      OBVIOUS
    <3>1. j \in 1 .. Len(typed)
      BY <2>3, <2>4
    <3> QED BY <2>4, <3>1 DEF Buffer
  <2>7. e # i
    BY <2>3, <2>4
  <2>8. SubSeq(typed, i, e - 1) \in Seq(Shell!Keys \ {Shell!SPACE}) /\ Len(SubSeq(typed, i, e - 1)) = e - i
    <3>1. i \in Int /\ e - 1 \in Int /\ i <= e - 1
      BY <2>3, <2>4, <2>7
    <3> QED BY <2>3, <2>4, <2>6, <3>1, SubSeqProperties
  <2>9. Shell!WordAt(i) # <<>>
    BY <2>3, <2>4, <2>5, <2>7, <2>8
  <2> QED BY <2>1, <2>2, <2>5, <2>8, <2>9 DEF i
<1> QED BY <1>2, <1>3, <1>4, <1>5, <1>8

LEMMA ParserStart == Shell!Init => ParserInv
<1> SUFFICES ASSUME Shell!Init PROVE ParserInv
  OBVIOUS
<1>1. typed \in Seq(Shell!Keys)
  BY DEF Shell!Init
<1> QED BY <1>1 DEF Shell!Init, ParserInv

LEMMA OutcomeKept == UNCHANGED <<dir, line, argv>> => Outcome' = Outcome
<1> SUFFICES ASSUME dir' = dir, line' = line, argv' = argv PROVE Outcome' = Outcome
  OBVIOUS
<1>1. \A i : Shell!String(i)' = Shell!String(i)
  BY DEF Shell!String
<1>2. \A h : Shell!Path(h)' = Shell!Path(h)
  BY <1>1 DEF Shell!Path
<1>3. \A f : Shell!Lookup(f)' = Shell!Lookup(f)
  BY DEF Shell!Lookup
<1>4. \A h : Reply(h)' = Reply(h)
  BY <1>2, <1>3 DEF Reply
<1> QED BY <1>1, <1>4 DEF Outcome

LEMMA DispatchOutcome == Shell!shell_dispatch => result' = Outcome
<1> SUFFICES ASSUME Shell!shell_dispatch PROVE result' = Outcome
  OBVIOUS
<1>1. \A h : Shell!Handle(h) => result' = Reply(h)
  BY DEF Shell!Handle, Reply, Shell!Answer
<1> QED BY <1>1 DEF Shell!shell_dispatch, Outcome, Shell!Answer

LEMMA ParserStep == ParserInv /\ [Shell!Next]_(Shell!vars) => ParserInv'
<1> SUFFICES ASSUME ParserInv, [Shell!Next]_(Shell!vars) PROVE ParserInv'
  OBVIOUS
<1>1. CASE Shell!Type
  <2>1. PICK c \in Shell!Keys : typed' = Append(typed, c)
    BY <1>1 DEF Shell!Type
  <2>2. typed' \in Seq(Shell!Keys)
    BY <1>1, <2>1 DEF ParserInv, Shell!Type
  <2> QED BY <1>1, <2>2 DEF ParserInv, Shell!Type
<1>2. CASE Shell!Enter
  <2>1. typed \in Seq(Shell!Keys) /\ typed # <<>> /\ typed' = typed /\ line' = Append(typed, Shell!NUL)
        /\ cursor' = 1 /\ argv' = <<>> /\ dir' = dir /\ pc' = "parse"
    BY <1>2 DEF ParserInv, Shell!Enter
  <2>2. Buffer'
    BY <2>1 DEF Buffer
  <2>3. BeginsBelow(cursor)' = {}
    <3>1. \A j \in 1 .. Len(typed) : ~ (j < 1)
      BY <2>1
    <3>2. BeginsBelow(cursor)' = {j \in Shell!Begins : j < 1}
      BY <2>1 DEF BeginsBelow, Shell!Begins
    <3>3. Shell!Begins \subseteq 1 .. Len(typed)
      BY <2>1 DEF Shell!Begins
    <3> QED BY <3>1, <3>2, <3>3
  <2>4. Found'
    <3>1. \A i \in 1 .. Len(typed) : line'[i] = typed[i]
      BY <2>1
    <3>2. Len(argv') = 0 /\ DOMAIN argv' = {} /\ argv' \in Seq(Nat) /\ Len(argv') = Cardinality(BeginsBelow(cursor)')
      <4>1. Cardinality({}) = 0
        BY FS_EmptySet
      <4>2. Len(argv') = 0 /\ argv' \in Seq(Nat)
        BY <2>1, EmptySeq
      <4>3. DOMAIN argv' = {}
        BY <2>1
      <4> QED BY <2>3, <4>1, <4>2, <4>3
    <3>3. 1 \in 1 .. Len(typed) + 1 /\ 0 <= SHELL_MAX_ARGS
      BY <2>1, ShellAssumption
    <3> QED BY <2>1, <3>1, <3>2, <3>3 DEF Found
  <2> QED BY <2>1, <2>2, <2>4 DEF ParserInv
<1>3. CASE Shell!Token
  <2>1. pc = "parse" /\ pc' = "parse" /\ Shell!MoreTokens /\ dir' = dir
    BY <1>3 DEF Shell!Token
  <2>2. Buffer' /\ Found'
    BY <1>3, <2>1, TokenStep DEF ParserInv
  <2> QED BY <2>1, <2>2 DEF ParserInv
<1>4. CASE Shell!Parsed
  <2>1. pc = "parse" /\ pc' = "dispatch" /\ ~ Shell!MoreTokens /\ UNCHANGED <<dir, typed, line, cursor, argv, result>>
    BY <1>4 DEF Shell!Parsed
  <2>2. Buffer /\ Found
    BY <2>1 DEF ParserInv
  <2>3. cursor = Len(typed) + 1 \/ Len(argv) = SHELL_MAX_ARGS
    <3>1. CASE line[cursor] = Shell!NUL
      <4> SUFFICES ASSUME cursor # Len(typed) + 1 PROVE FALSE
        OBVIOUS
      <4>1. cursor \in cursor .. Len(typed) /\ cursor \in 1 .. Len(typed)
        BY <2>2 DEF Buffer, Found
      <4>2. line[cursor] \in Shell!Keys
        BY <2>2, <4>1 DEF Buffer, Found
      <4> QED BY <3>1, <4>2, KeysAre
    <3>2. CASE ~ (Len(argv) < SHELL_MAX_ARGS)
      <4>1. Len(argv) \in Nat /\ Len(argv) <= SHELL_MAX_ARGS /\ SHELL_MAX_ARGS \in Nat
        BY <2>2, ShellAssumption DEF Found
      <4> QED BY <3>2, <4>1
    <3> QED BY <2>1, <3>1, <3>2 DEF Shell!MoreTokens
  <2>4. Buffer' /\ Found'
    <3>1. \A i : BeginsTo(i)' = BeginsTo(i) /\ WordEnd(i)' = WordEnd(i)
      BY <2>1 DEF BeginsTo, WordEnd, Shell!Begins
    <3>2. BeginsBelow(cursor)' = BeginsBelow(cursor) /\ Shell!Begins' = Shell!Begins
      BY <2>1 DEF BeginsBelow, Shell!Begins
    <3> QED BY <2>1, <2>2, <3>1, <3>2 DEF Buffer, Found
  <2> QED BY <2>1, <2>3, <2>4 DEF ParserInv
<1>5. CASE Shell!shell_dispatch
  <2>1. pc = "dispatch" /\ pc' = "done" /\ UNCHANGED <<dir, typed, line, cursor, argv>>
    BY <1>5 DEF Shell!shell_dispatch
  <2>2. result' = Outcome'
    BY <1>5, <2>1, DispatchOutcome, OutcomeKept
  <2>3. Buffer /\ Found
    BY <2>1 DEF ParserInv
  <2>4. Buffer' /\ Found'
    <3>1. \A i : BeginsTo(i)' = BeginsTo(i) /\ WordEnd(i)' = WordEnd(i)
      BY <2>1 DEF BeginsTo, WordEnd, Shell!Begins
    <3>2. BeginsBelow(cursor)' = BeginsBelow(cursor) /\ Shell!Begins' = Shell!Begins
      BY <2>1 DEF BeginsBelow, Shell!Begins
    <3> QED BY <2>1, <2>3, <3>1, <3>2 DEF Buffer, Found
  <2> QED BY <2>1, <2>2, <2>4 DEF ParserInv
<1>6. CASE Shell!Prompt
  <2>1. pc' = "typing" /\ typed' = <<>> /\ dir' = dir
    BY <1>6 DEF Shell!Prompt
  <2>2. typed' \in Seq(Shell!Keys)
    BY <2>1
  <2> QED BY <2>1, <2>2 DEF ParserInv
<1>7. CASE UNCHANGED Shell!vars
  <2>1. UNCHANGED <<dir, pc, typed, line, cursor, argv, result>>
    BY <1>7 DEF Shell!vars
  <2>2. Outcome' = Outcome
    BY <2>1, OutcomeKept
  <2>3. \A i : BeginsTo(i)' = BeginsTo(i) /\ WordEnd(i)' = WordEnd(i)
    BY <2>1 DEF BeginsTo, WordEnd, Shell!Begins
  <2>4. BeginsBelow(cursor)' = BeginsBelow(cursor) /\ Shell!Begins' = Shell!Begins
    BY <2>1 DEF BeginsBelow, Shell!Begins
  <2>5. Buffer => Buffer'
    BY <2>1 DEF Buffer
  <2>6. Found => Found'
    BY <2>1, <2>3, <2>4 DEF Found
  <2> QED BY <2>1, <2>2, <2>5, <2>6 DEF ParserInv
<1> QED BY <1>1, <1>2, <1>3, <1>4, <1>5, <1>6, <1>7 DEF Shell!Next

LEMMA ParserInvWords == ParserInv => Shell!Words
<1> SUFFICES ASSUME ParserInv, pc \in {"dispatch", "done"}
             PROVE  /\ Len(argv) = Shell!Min({SHELL_MAX_ARGS, Shell!Cardinality(Shell!Begins)})
                    /\ \A n \in DOMAIN argv : Shell!String(argv[n]) = Shell!Word(n)
  BY DEF Shell!Words
<1>1. /\ Cardinality(Shell!Begins) \in Nat /\ Len(argv) <= SHELL_MAX_ARGS /\ Len(argv) <= Cardinality(Shell!Begins)
      /\ Len(argv) = SHELL_MAX_ARGS \/ Len(argv) = Cardinality(Shell!Begins)
      /\ Len(argv) \in Nat
      /\ \A n \in DOMAIN argv : Shell!String(argv[n]) = Shell!Word(n)
  BY WordsFound DEF ParserInv
<1> DEFINE S == {SHELL_MAX_ARGS, Cardinality(Shell!Begins)}
<1>2. S \in SUBSET Nat /\ S # {}
  BY <1>1, ShellAssumption
<1>3. Min(S) \in S /\ \A y \in S : Min(S) <= y
  <2> HIDE DEF S
  <2> QED BY <1>2, MinIsLeast
<1>4. Min(S) = Len(argv)
  <2>1. SHELL_MAX_ARGS \in Nat /\ Min(S) \in Nat
    BY <1>2, <1>3
  <2> QED BY <1>1, <1>3, <2>1
<1>5. Shell!Min({SHELL_MAX_ARGS, Shell!Cardinality(Shell!Begins)}) = Min(S)
  <2>1. Shell!Cardinality(Shell!Begins) = Cardinality(Shell!Begins)
    BY ShellCardinality
  <2> QED BY <2>1 DEF Shell!Min, Min
<1> QED BY <1>1, <1>4, <1>5

LEMMA ParserInvDispatched == ParserInv => Shell!Dispatched
<1> SUFFICES ASSUME ParserInv, pc = "done"
             PROVE  /\ result.status = "EMPTY" <=> Shell!Begins = {}
                    /\ result.status = "UNKNOWN" <=> Shell!Begins # {} /\ Shell!Named(Shell!Word(1)) = {}
                    /\ result.status = "ARGS" =>
                           /\ Shell!Cardinality(Shell!Begins) = 1
                           /\ \E i \in Shell!Named(Shell!Word(1)) : Commands[i].handler \in {"cat", "run"}
  BY DEF Shell!Dispatched
<1>1. /\ Cardinality(Shell!Begins) \in Nat /\ Len(argv) <= Cardinality(Shell!Begins)
      /\ Len(argv) = SHELL_MAX_ARGS \/ Len(argv) = Cardinality(Shell!Begins)
      /\ Len(argv) \in Nat /\ DOMAIN argv = 1 .. Len(argv)
      /\ \A n \in DOMAIN argv : Shell!String(argv[n]) = Shell!Word(n) /\ Shell!Word(n) \in Seq(Shell!Keys \ {Shell!SPACE})
  BY WordsFound DEF ParserInv
<1>2. result = Outcome /\ Buffer /\ argv \in Seq(Nat) /\ SHELL_MAX_ARGS \in Nat \ {0, 1}
  BY ShellAssumption DEF ParserInv, Found
<1>6. (Len(argv) = 0 <=> Cardinality(Shell!Begins) = 0) /\ (Len(argv) = 1 => Cardinality(Shell!Begins) = 1)
  <2> DEFINE l == Len(argv)
             c == Cardinality(Shell!Begins)
  <2>1. SHELL_MAX_ARGS \in Nat /\ SHELL_MAX_ARGS # 0 /\ SHELL_MAX_ARGS # 1
    BY <1>2
  <2>2. l \in Nat /\ c \in Nat /\ l <= c /\ (l = SHELL_MAX_ARGS \/ l = c)
    BY <1>1
  <2> HIDE DEF l, c
  <2>3. (l = 0 <=> c = 0) /\ (l = 1 => c = 1)
    BY <2>1, <2>2
  <2> QED BY <2>3 DEF l, c
<1>3. argv = <<>> <=> Shell!Begins = {}
  <2>1. IsFiniteSet(Shell!Begins)
    BY <1>2, BeginsAre
  <2>2. Shell!Begins = {} <=> Cardinality(Shell!Begins) = 0
    BY <2>1, FS_EmptySet
  <2>3. argv = <<>> <=> Len(argv) = 0
    BY <1>2, EmptySeq
  <2>4. Len(argv) = 0 <=> Cardinality(Shell!Begins) = 0
    BY <1>6
  <2> QED BY <2>2, <2>3, <2>4
<1>4. CASE argv = <<>>
  <2>1. result = [status |-> "EMPTY", file |-> Shell!NoFile]
    BY <1>2, <1>4 DEF Outcome
  <2> QED BY <1>3, <1>4, <2>1
<1>5. CASE argv # <<>>
  <2>1. 1 \in DOMAIN argv
    <3>1. Len(argv) # 0
      BY <1>2, <1>5, EmptySeq
    <3> QED BY <1>1, <3>1
  <2> DEFINE w == Shell!Word(1)
  <2>2. Shell!String(argv[1]) = w /\ w \in Seq(Shell!Keys)
    BY <1>1, <2>1
  <2> HIDE DEF w
  <2>3. /\ Shell!Row(w) \in DOMAIN Commands => Shell!Row(w) \in Shell!Named(w)
        /\ \A i \in Shell!Named(w) : Shell!Row(w) = i
    BY <2>2, RowIs
  <2>4. CASE Shell!Row(w) \notin DOMAIN Commands
    <3>1. result = [status |-> "UNKNOWN", file |-> Shell!NoFile]
      BY <1>2, <1>5, <2>2, <2>4 DEF Outcome
    <3>2. Shell!Named(w) = {}
      BY <2>3, <2>4 DEF Shell!Named
    <3> QED BY <1>3, <1>5, <3>1, <3>2 DEF w
  <2>5. CASE Shell!Row(w) \in DOMAIN Commands
    <3> DEFINE h == Commands[Shell!Row(w)].handler
    <3>1. result = Reply(h)
      BY <1>2, <1>5, <2>2, <2>5 DEF Outcome
    <3>2. Shell!Row(w) \in Shell!Named(w)
      BY <2>3, <2>5
    <3> HIDE DEF h
    <3>3. result.status \in {"OK", "ARGS", "FILE"}
      BY <3>1 DEF Reply
    <3>4. result.status = "ARGS" => h \in {"cat", "run"} /\ Len(argv) < 2
      BY <3>1 DEF Reply
    <3>5. result.status = "ARGS" => Shell!Cardinality(Shell!Begins) = 1
      <4>1. Len(argv) # 0
        BY <1>1, <2>1
      <4>2. Len(argv) < 2 => Len(argv) = 1
        BY <1>1, <4>1
      <4>3. Len(argv) < 2 => Cardinality(Shell!Begins) = 1
        BY <1>6, <4>2
      <4>4. Shell!Cardinality(Shell!Begins) = Cardinality(Shell!Begins)
        BY ShellCardinality
      <4> QED BY <3>4, <4>3, <4>4
    <3>6. result.status = "ARGS" => \E i \in Shell!Named(w) : Commands[i].handler \in {"cat", "run"}
      BY <3>2, <3>4 DEF h
    <3> QED BY <1>3, <1>5, <3>2, <3>3, <3>5, <3>6 DEF w
  <2> QED BY <2>4, <2>5
<1> QED BY <1>4, <1>5

LEMMA SameSequence ==
    ASSUME NEW A, NEW B, NEW a \in Seq(A), NEW b \in Seq(B), Len(a) = Len(b),
           \A i \in 1 .. Len(a) : a[i] = b[i]
    PROVE  a = b
<1>1. a = [i \in 1 .. Len(a) |-> a[i]] /\ b = [i \in 1 .. Len(b) |-> b[i]]
  OBVIOUS
<1> QED BY <1>1, Zenon

(* A part of a sequence: the k elements behind its first m.               *)
LEMMA Slice ==
    ASSUME NEW S, NEW s \in Seq(S), NEW m \in Nat, NEW k \in Nat, m + k <= Len(s),
           NEW from, from = m + 1, NEW to, to = m + k
    PROVE  /\ SubSeq(s, from, to) \in Seq(S) /\ Len(SubSeq(s, from, to)) = k
           /\ \A j \in 1 .. k : SubSeq(s, from, to)[j] = s[m + j]
<1>1. from \in Int /\ to \in Int /\ \A j \in from .. to : s[j] \in S
  OBVIOUS
<1>2. /\ SubSeq(s, from, to) \in Seq(S)
      /\ Len(SubSeq(s, from, to)) = IF from <= to THEN to - from + 1 ELSE 0
      /\ \A j \in 1 .. to - from + 1 : SubSeq(s, from, to)[j] = s[from + j - 1]
  BY <1>1, SubSeqProperties
<1>3. to - from + 1 = k /\ \A j \in 1 .. k : from + j - 1 = m + j
  OBVIOUS
<1>4. (IF from <= to THEN to - from + 1 ELSE 0) = k
  OBVIOUS
<1> QED BY <1>2, <1>3, <1>4

(* Upper case touches neither spaces nor dots and happens once.             *)
LEMMA UpperIs ==
    ASSUME NEW c
    PROVE  /\ Shell!Upper(Shell!Upper(c)) = Shell!Upper(c) /\ Shell!Upper(c) \notin DOMAIN Letters
           /\ Shell!Upper(c) = Shell!SPACE <=> c = Shell!SPACE
           /\ Shell!Upper(c) = Shell!DOT <=> c = Shell!DOT
           /\ c \in Shell!Keys => Shell!Upper(c) \in Shell!Keys
<1>1. \A l \in DOMAIN Letters : /\ l # Shell!SPACE /\ l # Shell!DOT /\ Letters[l] # Shell!SPACE /\ Letters[l] # Shell!DOT 
                                /\ Letters[l] \notin DOMAIN Letters /\ Letters[l] \in Shell!Keys
  BY ShellAssumption DEF Shell!Keys
<1> QED BY <1>1 DEF Shell!Upper

LEMMA UpperCaseIs ==
    ASSUME NEW w \in Seq(Shell!Keys)
    PROVE  Shell!UpperCase(w) \in Seq(Shell!Keys) /\ Len(Shell!UpperCase(w)) = Len(w) /\ \A i \in 1 .. Len(w) : Shell!UpperCase(w)[i] = Shell!Upper(w[i])
<1>1. \A i \in 1 .. Len(w) : Shell!Upper(w[i]) \in Shell!Keys
  BY UpperIs
<1> QED BY <1>1 DEF Shell!UpperCase

(* The characters of the name a path stands for.                            *)
LEMMA TargetIs ==
    ASSUME NEW w \in Seq(Shell!Keys)
    PROVE  LET dot == Shell!First(w, 1, {Shell!DOT})
               T == Shell!Target(w)
           IN  /\ T \in Seq(Shell!Keys) /\ Len(T) = NAME + EXT
               /\ \A j \in 1 .. NAME : T[j] = IF j < dot THEN Shell!Upper(w[j]) ELSE Shell!SPACE
               /\ \A j \in 1 .. EXT : T[NAME + j] = IF dot + j <= Len(w) THEN Shell!Upper(w[dot + j]) ELSE Shell!SPACE
<1> DEFINE dot == Shell!First(w, 1, {Shell!DOT})
           a == SubSeq(w, 1, dot - 1)
           b == SubSeq(w, dot + 1, Len(w))
           n == Len(w)
<1>1. n \in Nat /\ dot \in 1 .. n + 1 /\ NAME \in Nat /\ EXT \in Nat
  BY FirstIs, ShellAssumption
<1>2. Shell!Target(w) = Shell!Field(a, NAME) \o Shell!Field(b, EXT)
  BY DEF Shell!Target
<1> HIDE DEF dot
<1>3. a \in Seq(Shell!Keys) /\ Len(a) = dot - 1 /\ \A j \in 1 .. dot - 1 : a[j] = w[j]
  <2>1. 0 \in Nat /\ dot - 1 \in Nat /\ 0 + (dot - 1) <= Len(w) /\ 1 = 0 + 1 /\ dot - 1 = 0 + (dot - 1)
    BY <1>1
  <2>2. a \in Seq(Shell!Keys) /\ Len(a) = dot - 1 /\ \A j \in 1 .. dot - 1 : a[j] = w[0 + j]
    BY <2>1, Slice
  <2> QED BY <2>2
<1>4. b \in Seq(Shell!Keys) /\ Len(b) = (IF dot <= n THEN n - dot ELSE 0) /\ \A j \in 1 .. n - dot : b[j] = w[dot + j]
  <2>1. CASE dot <= n
    <3>1. dot \in Nat /\ n - dot \in Nat /\ dot + (n - dot) <= Len(w) /\ n = dot + (n - dot)
      BY <1>1, <2>1
    <3> DEFINE k == n - dot
    <3>2. dot \in Nat /\ k \in Nat /\ dot + k <= Len(w) /\ Len(w) = dot + k
      BY <3>1
    <3> HIDE DEF k
    <3>3. b \in Seq(Shell!Keys) /\ Len(b) = k /\ \A j \in 1 .. k : b[j] = w[dot + j]
      BY <3>2, Slice
    <3> QED BY <2>1, <3>3 DEF k
  <2>2. CASE ~ (dot <= n)
    <3>1. b = <<>>
      BY <1>1, <2>2, SubSeqEmpty
    <3>3. <<>> \in Seq(Shell!Keys) /\ Len(<<>>) = 0
      BY EmptySeq
    <3>2. \A j \in 1 .. n - dot : FALSE
      BY <1>1, <2>2
    <3> HIDE DEF b
    <3> QED BY <2>2, <3>1, <3>2, <3>3
  <2> QED BY <2>1, <2>2
<1> HIDE DEF a, b
<1>5. ASSUME NEW s \in Seq(Shell!Keys), NEW k \in Nat
      PROVE  /\ Shell!Field(s, k) \in Seq(Shell!Keys) /\ Len(Shell!Field(s, k)) = k
             /\ \A j \in 1 .. k : Shell!Field(s, k)[j] = IF j <= Len(s) THEN Shell!Upper(s[j]) ELSE Shell!SPACE
  <2>1. \A j \in 1 .. k : j \in DOMAIN s <=> j <= Len(s)
    OBVIOUS
  <2>2. \A j \in 1 .. k : (IF j \in DOMAIN s THEN Shell!Upper(s[j]) ELSE Shell!SPACE) \in Shell!Keys
    BY UpperIs, KeysAre
  <2> QED BY <2>1, <2>2 DEF Shell!Field
<1> DEFINE A == Shell!Field(a, NAME)
           B == Shell!Field(b, EXT)
<1>6. A \in Seq(Shell!Keys) /\ Len(A) = NAME /\ \A j \in 1 .. NAME : A[j] = IF j <= dot - 1 THEN Shell!Upper(a[j]) ELSE Shell!SPACE
  BY <1>1, <1>3, <1>5
<1>7. B \in Seq(Shell!Keys) /\ Len(B) = EXT /\ \A j \in 1 .. EXT : B[j] = IF j <= Len(b) THEN Shell!Upper(b[j]) ELSE Shell!SPACE
  BY <1>1, <1>4, <1>5
<1> HIDE DEF A, B
<1>8. Shell!Target(w) \in Seq(Shell!Keys) /\ Len(Shell!Target(w)) = NAME + EXT
      /\ (\A j \in 1 .. NAME : Shell!Target(w)[j] = A[j]) /\ \A j \in 1 .. EXT : Shell!Target(w)[NAME + j] = B[j]
  <2>1. Shell!Target(w) = A \o B
    BY <1>2 DEF A, B
  <2>2. A \o B \in Seq(Shell!Keys) /\ Len(A \o B) = NAME + EXT
    <3>1. A \in Seq(Shell!Keys) /\ Len(A) = NAME /\ B \in Seq(Shell!Keys) /\ Len(B) = EXT
      BY <1>6, <1>7
    <3> QED BY <3>1, ConcatProperties
  <2>3. \A j \in 1 .. NAME : (A \o B)[j] = A[j]
    BY <1>1, <1>6, <1>7
  <2>4. \A j \in 1 .. EXT : (A \o B)[NAME + j] = B[j]
    BY <1>1, <1>6, <1>7
  <2> QED BY <2>1, <2>2, <2>3, <2>4
<1>9. \A j \in 1 .. NAME : A[j] = IF j < dot THEN Shell!Upper(w[j]) ELSE Shell!SPACE
  <2>1. \A j \in 1 .. NAME : (j <= dot - 1 <=> j < dot) /\ (j < dot => j \in 1 .. dot - 1)
    BY <1>1
  <2> QED BY <1>3, <1>6, <2>1
<1>10. \A j \in 1 .. EXT : B[j] = IF dot + j <= n THEN Shell!Upper(w[dot + j]) ELSE Shell!SPACE
  <2>1. \A j \in 1 .. EXT : (j <= Len(b) <=> dot + j <= n) /\ (dot + j <= n => j \in 1 .. n - dot)
    BY <1>1, <1>4
  <2> QED BY <1>4, <1>7, <2>1
<1> QED BY <1>8, <1>9, <1>10 DEF dot

LEMMA TargetUpper == ASSUME NEW w \in Seq(Shell!Keys) PROVE Shell!Target(Shell!UpperCase(w)) = Shell!Target(w)
<1> DEFINE u == Shell!UpperCase(w)
           dot == Shell!First(w, 1, {Shell!DOT})
<1>1. u \in Seq(Shell!Keys) /\ Len(u) = Len(w) /\ (\A i \in 1 .. Len(w) : u[i] = Shell!Upper(w[i])) /\ Len(w) \in Nat
  BY UpperCaseIs
<1>2. /\ dot \in 1 .. Len(w) + 1
      /\ dot <= Len(w) => w[dot] \in {Shell!DOT}
      /\ \A j \in 1 .. dot - 1 : w[j] \notin {Shell!DOT}
  BY <1>1, FirstIs
<1> HIDE DEF u, dot
<1>3. Shell!First(u, 1, {Shell!DOT}) = dot
  <2>1. dot <= Len(u) => u[dot] \in {Shell!DOT}
    BY <1>1, <1>2, UpperIs
  <2>2. \A j \in 1 .. dot - 1 : u[j] \notin {Shell!DOT}
    BY <1>1, <1>2, UpperIs
  <2>3. Len(u) \in Nat /\ 1 \in 1 .. Len(u) + 1 /\ dot \in 1 .. Len(u) + 1
    BY <1>1, <1>2
  <2> QED BY <2>1, <2>2, <2>3, FirstUnique
<1> DEFINE T == Shell!Target(w)
           V == Shell!Target(u)
<1>4. /\ T \in Seq(Shell!Keys) /\ Len(T) = NAME + EXT
      /\ \A j \in 1 .. NAME : T[j] = IF j < dot THEN Shell!Upper(w[j]) ELSE Shell!SPACE
      /\ \A j \in 1 .. EXT : T[NAME + j] = IF dot + j <= Len(w) THEN Shell!Upper(w[dot + j]) ELSE Shell!SPACE
  BY TargetIs DEF dot
<1>5. /\ V \in Seq(Shell!Keys) /\ Len(V) = NAME + EXT
      /\ \A j \in 1 .. NAME : V[j] = IF j < dot THEN Shell!Upper(u[j]) ELSE Shell!SPACE
      /\ \A j \in 1 .. EXT : V[NAME + j] = IF dot + j <= Len(w) THEN Shell!Upper(u[dot + j]) ELSE Shell!SPACE
  BY <1>1, <1>3, TargetIs
<1>6. \A i \in 1 .. Len(w) : Shell!Upper(u[i]) = Shell!Upper(w[i])
  BY <1>1, UpperIs
<1> HIDE DEF T, V
<1>7. NAME \in Nat /\ EXT \in Nat
  BY ShellAssumption
<1>8. \A j \in 1 .. NAME : V[j] = T[j]
  <2>1. \A j \in 1 .. NAME : j < dot => j \in 1 .. Len(w)
    BY <1>1, <1>2, <1>7
  <2> QED BY <1>4, <1>5, <1>6, <2>1
<1>9. \A j \in 1 .. EXT : V[NAME + j] = T[NAME + j]
  <2>1. \A j \in 1 .. EXT : dot + j <= Len(w) => dot + j \in 1 .. Len(w)
    BY <1>1, <1>2, <1>7
  <2> QED BY <1>4, <1>5, <1>6, <2>1
<1>10. \A i \in 1 .. Len(V) : V[i] = T[i]
  <2> SUFFICES ASSUME NEW i \in 1 .. NAME + EXT PROVE V[i] = T[i]
    BY <1>5
  <2>1. i \in 1 .. NAME \/ (i - NAME \in 1 .. EXT /\ NAME + (i - NAME) = i)
    BY <1>7
  <2> QED BY <1>8, <1>9, <2>1
<1>11. V = T
  BY <1>4, <1>5, <1>10, SameSequence
<1> QED BY <1>11 DEF V, T, u

(* The characters of the name ls shows for a record.                        *)
NameChars == STRING \cup {Shell!DOT}
StoredName(d) ==
    /\ d \in Seq(NameChars) /\ Len(d) = NAME + EXT
    /\ Padded(SubSeq(d, 1, NAME)) /\ Padded(SubSeq(d, NAME + 1, NAME + EXT))

(* The padding of an n-character part starts at f.                          *)
PartUpTo(s, n, f) ==
    /\ f \in 1 .. n + 1
    /\ \A j \in 1 .. n : s[j] = Shell!SPACE <=> j > f - 1
    /\ SubSeq(s, 1, f - 1) \in Seq(NameChars) /\ Len(SubSeq(s, 1, f - 1)) = f - 1 
    /\ \A j \in 1 .. f - 1 : SubSeq(s, 1, f - 1)[j] = s[j]

LEMMA PartIs ==
    ASSUME NEW s \in Seq(NameChars), Padded(s), NEW n, Len(s) = n, NEW f, f = Shell!First(s, 1, {Shell!SPACE})
    PROVE  PartUpTo(s, n, f)
<1>1. Len(s) \in Nat /\ DOMAIN s = 1 .. Len(s)
  OBVIOUS
<1>2. /\ f \in 1 .. Len(s) + 1
      /\ f <= Len(s) => s[f] = Shell!SPACE
      /\ \A j \in 1 .. f - 1 : s[j] # Shell!SPACE
  <2> DEFINE blank == {Shell!SPACE}
  <2>1. f = Shell!First(s, 1, blank) /\ 1 \in 1 .. Len(s) + 1 /\ s \in Seq(NameChars)
    BY <1>1
  <2> HIDE DEF blank
  <2>2. /\ f \in 1 .. Len(s) + 1
        /\ f <= Len(s) => s[f] \in blank
        /\ \A j \in 1 .. f - 1 : s[j] \notin blank
    BY <2>1, FirstIs
  <2> QED BY <2>2 DEF blank
<1>3. \A j \in 1 .. Len(s) : s[j] = Shell!SPACE <=> j > f - 1
  <2> SUFFICES ASSUME NEW j \in 1 .. Len(s) PROVE s[j] = Shell!SPACE <=> j > f - 1
    OBVIOUS
  <2>1. CASE j > f - 1
    <3>1. f \in DOMAIN s /\ s[f] = Shell!SPACE /\ f <= j
      BY <1>1, <1>2, <2>1
    <3> QED BY <1>1, <2>1, <3>1 DEF Padded
  <2>2. CASE ~ (j > f - 1)
    <3>1. j \in 1 .. f - 1
      BY <1>1, <1>2, <2>2
    <3> QED BY <1>2, <2>2, <3>1
  <2> QED BY <2>1, <2>2
<1>4. /\ SubSeq(s, 1, f - 1) \in Seq(NameChars) /\ Len(SubSeq(s, 1, f - 1)) = f - 1
      /\ \A j \in 1 .. f - 1 : SubSeq(s, 1, f - 1)[j] = s[j]
  <2> DEFINE k == f - 1
  <2>1. k \in Nat /\ 0 + k <= Len(s) /\ 1 = 0 + 1 /\ k = 0 + k /\ 0 \in Nat
    BY <1>1, <1>2
  <2> HIDE DEF k
  <2>2. /\ SubSeq(s, 1, k) \in Seq(NameChars) /\ Len(SubSeq(s, 1, k)) = k
        /\ \A j \in 1 .. k : SubSeq(s, 1, k)[j] = s[0 + j]
    BY <2>1, Slice
  <2>3. \A j \in 1 .. k : 0 + j = j
    BY <2>1
  <2>4. /\ SubSeq(s, 1, k) \in Seq(NameChars) /\ Len(SubSeq(s, 1, k)) = k
        /\ \A j \in 1 .. k : SubSeq(s, 1, k)[j] = s[j]
    BY <2>2, <2>3
  <2> QED BY <2>4 DEF k
<1> QED BY <1>2, <1>3, <1>4 DEF PartUpTo

Shows(d, b, e) ==
    /\ \A j \in 1 .. NAME : d[j] = Shell!SPACE <=> j > b
    /\ \A j \in 1 .. EXT : d[NAME + j] = Shell!SPACE <=> j > e
    /\ \A j \in 1 .. NAME : d[j] # Shell!DOT
    /\ Shell!Listed(d) \in Seq(NameChars) /\ Len(Shell!Listed(d)) = IF e = 0 THEN b ELSE b + 1 + e
    /\ \A j \in 1 .. b : Shell!Listed(d)[j] = d[j]
    /\ e # 0 => Shell!Listed(d)[b + 1] = Shell!DOT /\ \A j \in 1 .. e : Shell!Listed(d)[b + 1 + j] = d[NAME + j]

LEMMA ListedIs ==
    ASSUME NEW d, StoredName(d)
    PROVE  \E b \in 0 .. NAME, e \in 0 .. EXT : Shows(d, b, e)
<1> DEFINE base == SubSeq(d, 1, NAME)
           ext == SubSeq(d, NAME + 1, NAME + EXT)
           f == Shell!First(base, 1, {Shell!SPACE})
           g == Shell!First(ext, 1, {Shell!SPACE})
           B == SubSeq(base, 1, f - 1)
           E == SubSeq(ext, 1, g - 1)
<1>1. NAME \in Nat /\ EXT \in Nat /\ NAME # 0 /\ EXT # 0 /\ d \in Seq(NameChars) /\ Len(d) = NAME + EXT
  BY ShellAssumption DEF StoredName
<1>2. base \in Seq(NameChars) /\ Len(base) = NAME /\ \A j \in 1 .. NAME : base[j] = d[j]
  <2>1. 0 + NAME <= Len(d) /\ 1 = 0 + 1 /\ NAME = 0 + NAME /\ 0 \in Nat
    BY <1>1
  <2>2. base \in Seq(NameChars) /\ Len(base) = NAME /\ \A j \in 1 .. NAME : base[j] = d[0 + j]
    BY <1>1, <2>1, Slice
  <2> QED BY <1>1, <2>2
<1>3. ext \in Seq(NameChars) /\ Len(ext) = EXT /\ \A j \in 1 .. EXT : ext[j] = d[NAME + j]
  BY <1>1, Slice
<1>4. Padded(base) /\ Padded(ext)
  BY DEF StoredName
<1>5. Shell!Listed(d) = B \o (IF ext[1] = Shell!SPACE THEN <<>> ELSE <<Shell!DOT>> \o E)
  BY DEF Shell!Listed
<1> HIDE DEF base, ext
<1>6. /\ f \in 1 .. NAME + 1
      /\ \A j \in 1 .. NAME : base[j] = Shell!SPACE <=> j > f - 1
      /\ B \in Seq(NameChars) /\ Len(B) = f - 1 /\ \A j \in 1 .. f - 1 : B[j] = base[j]
  <2>1. PartUpTo(base, NAME, f)
    BY <1>2, <1>4, PartIs, Zenon
  <2> QED BY <2>1 DEF PartUpTo
<1>7. /\ g \in 1 .. EXT + 1
      /\ \A j \in 1 .. EXT : ext[j] = Shell!SPACE <=> j > g - 1
      /\ E \in Seq(NameChars) /\ Len(E) = g - 1 /\ \A j \in 1 .. g - 1 : E[j] = ext[j]
  <2>1. PartUpTo(ext, EXT, g)
    BY <1>3, <1>4, PartIs, Zenon
  <2> QED BY <2>1 DEF PartUpTo
<1> HIDE DEF f, g, B, E
<1> DEFINE b == f - 1
           e == g - 1
<1>8. b \in 0 .. NAME /\ e \in 0 .. EXT /\ (ext[1] = Shell!SPACE <=> e = 0)
  <2>1. 1 \in 1 .. EXT
    BY <1>1
  <2>2. f \in 1 .. NAME + 1 /\ g \in 1 .. EXT + 1 /\ (ext[1] = Shell!SPACE <=> 1 > g - 1)
    BY <1>6, <1>7, <2>1
  <2> HIDE DEF ext
  <2> QED BY <1>1, <2>2
<1>9. Len(B) = b /\ Len(E) = e /\ \A j \in 1 .. b : B[j] = base[j]
  BY <1>6, <1>7
<1>10. /\ \A j \in 1 .. NAME : base[j] = Shell!SPACE <=> j > b
       /\ \A j \in 1 .. EXT : ext[j] = Shell!SPACE <=> j > e
       /\ \A j \in 1 .. e : E[j] = ext[j]
  BY <1>6, <1>7
<1> HIDE DEF b, e
<1>11. \A j \in 1 .. NAME : d[j] # Shell!DOT
  <2>1. \A j \in 1 .. NAME : base[j] # Shell!DOT
    BY <1>2, <1>4 DEF Padded
  <2> QED BY <1>2, <2>1
<1>12. /\ Shell!Listed(d) \in Seq(NameChars) /\ Len(Shell!Listed(d)) = (IF e = 0 THEN b ELSE b + 1 + e)
       /\ \A j \in 1 .. b : Shell!Listed(d)[j] = B[j]
       /\ e # 0 => Shell!Listed(d)[b + 1] = Shell!DOT /\ \A j \in 1 .. e : Shell!Listed(d)[b + 1 + j] = E[j]
  <2>1. CASE e = 0
    <3>1. Shell!Listed(d) = B
      BY <1>5, <1>6, <1>8, <2>1, ConcatEmptySeq
    <3> QED BY <1>6, <1>9, <2>1, <3>1
  <2>2. CASE e # 0
    <3>1. Shell!Listed(d) = B \o (<<Shell!DOT>> \o E)
      BY <1>5, <1>8, <2>2
    <3>2. <<Shell!DOT>> \in Seq(NameChars) /\ Len(<<Shell!DOT>>) = 1 /\ <<Shell!DOT>>[1] = Shell!DOT
      <4>1. Shell!DOT \in NameChars
        BY DEF NameChars
      <4> QED BY <4>1
    <3> DEFINE F == <<Shell!DOT>> \o E
    <3>3. F \in Seq(NameChars) /\ Len(F) = 1 + e /\ F[1] = Shell!DOT /\ \A j \in 1 .. e : F[1 + j] = E[j]
      <4>1. F \in Seq(NameChars) /\ Len(F) = 1 + e
        BY <1>7, <1>9, <3>2
      <4>2. F[1] = Shell!DOT
        BY <1>7, <1>9, <3>2
      <4>3. \A j \in 1 .. e : F[1 + j] = E[j]
        BY <1>7, <1>8, <1>9, <3>2
      <4> QED BY <4>1, <4>2, <4>3
    <3> HIDE DEF F
    <3>4. Shell!Listed(d) = B \o F
      BY <3>1 DEF F
    <3>5. Shell!Listed(d) \in Seq(NameChars) /\ Len(Shell!Listed(d)) = b + 1 + e
      <4>1. B \in Seq(NameChars) /\ Len(B) = b /\ F \in Seq(NameChars) /\ Len(F) = 1 + e /\ b \in Nat /\ e \in Nat
        BY <1>1, <1>6, <1>8, <1>9, <3>3
      <4>2. B \o F \in Seq(NameChars) /\ Len(B \o F) = b + (1 + e)
        BY <4>1, ConcatProperties
      <4> QED BY <3>4, <4>1, <4>2
    <3>6. \A j \in 1 .. b : Shell!Listed(d)[j] = B[j]
      BY <1>6, <1>8, <1>9, <3>3, <3>4, ConcatProperties
    <3>7. \A k \in 1 .. 1 + e : Shell!Listed(d)[b + k] = F[k]
      BY <1>6, <1>8, <1>9, <3>3, <3>4, ConcatProperties
    <3>8. Shell!Listed(d)[b + 1] = Shell!DOT /\ \A j \in 1 .. e : Shell!Listed(d)[b + 1 + j] = E[j]
      <4>1. \A j \in 1 .. e : 1 + j \in 1 .. 1 + e /\ b + (1 + j) = b + 1 + j
        BY <1>1, <1>8
      <4>2. 1 \in 1 .. 1 + e
        BY <1>1, <1>8
      <4> QED BY <3>3, <3>7, <4>1, <4>2
    <3> QED BY <2>2, <3>5, <3>6, <3>8
  <2> QED BY <2>1, <2>2
<1>13. /\ \A j \in 1 .. NAME : d[j] = Shell!SPACE <=> j > b
       /\ \A j \in 1 .. EXT : d[NAME + j] = Shell!SPACE <=> j > e
       /\ \A j \in 1 .. b : Shell!Listed(d)[j] = d[j]
       /\ \A j \in 1 .. e : E[j] = d[NAME + j]
  <2>1. \A j \in 1 .. b : j \in 1 .. NAME
    BY <1>1, <1>8
  <2>2. \A j \in 1 .. e : j \in 1 .. EXT
    BY <1>1, <1>8
  <2> QED BY <1>2, <1>3, <1>9, <1>10, <1>12, <2>1, <2>2
<1>15. Shows(d, b, e)
  BY <1>11, <1>12, <1>13 DEF Shows
<1> QED BY <1>8, <1>15

(* A record is the one ls shows a proper name for exactly when it is the one *)
(* fat_open looks for.                                                       *)
LEMMA ListedTarget ==
    ASSUME NEW d, StoredName(d), NEW w \in Seq(Shell!Keys \ {Shell!SPACE}), Shell!Proper(w)
    PROVE  Shell!Listed(d) = Shell!UpperCase(w) <=> d = Shell!Target(w)
<1> DEFINE u == Shell!UpperCase(w)
           n == Len(w)
           dot == Shell!First(w, 1, {Shell!DOT})
           T == Shell!Target(w)
           L == Shell!Listed(d)
<1>1. /\ NAME \in Nat /\ EXT \in Nat /\ NAME # 0 /\ EXT # 0 /\ w \in Seq(Shell!Keys) /\ n \in Nat
      /\ d \in Seq(NameChars) /\ Len(d) = NAME + EXT
  BY ShellAssumption DEF StoredName
<1>2. \A j \in 1 .. n : w[j] # Shell!SPACE /\ Shell!Upper(w[j]) # Shell!SPACE
  <2>1. \A j \in 1 .. n : w[j] \in Shell!Keys \ {Shell!SPACE}
    OBVIOUS
  <2> QED BY <2>1, UpperIs
<1>3. /\ dot - 1 \in 1 .. NAME
      /\ dot <= n => n - dot \in 1 .. EXT
  BY DEF Shell!Proper
<1>4. /\ dot \in 1 .. n + 1
      /\ dot <= n => w[dot] = Shell!DOT
      /\ \A j \in 1 .. dot - 1 : w[j] # Shell!DOT
  BY <1>1, FirstIs
<1>5. u \in Seq(Shell!Keys) /\ Len(u) = n /\ \A i \in 1 .. n : u[i] = Shell!Upper(w[i]) /\ (u[i] = Shell!DOT <=> w[i] = Shell!DOT)
  BY <1>1, UpperCaseIs, UpperIs
<1>6. /\ T \in Seq(Shell!Keys) /\ Len(T) = NAME + EXT
      /\ \A j \in 1 .. NAME : T[j] = IF j < dot THEN Shell!Upper(w[j]) ELSE Shell!SPACE
      /\ \A j \in 1 .. EXT : T[NAME + j] = IF dot + j <= n THEN Shell!Upper(w[dot + j]) ELSE Shell!SPACE
  BY <1>1, TargetIs
<1>7. PICK b \in 0 .. NAME, e \in 0 .. EXT : Shows(d, b, e)
  BY ListedIs
<1>8. /\ \A j \in 1 .. NAME : d[j] = Shell!SPACE <=> j > b
      /\ \A j \in 1 .. EXT : d[NAME + j] = Shell!SPACE <=> j > e
      /\ \A j \in 1 .. NAME : d[j] # Shell!DOT
      /\ L \in Seq(NameChars) /\ Len(L) = (IF e = 0 THEN b ELSE b + 1 + e)
      /\ \A j \in 1 .. b : L[j] = d[j]
      /\ e # 0 => L[b + 1] = Shell!DOT /\ \A j \in 1 .. e : L[b + 1 + j] = d[NAME + j]
  BY <1>7 DEF Shows
<1> HIDE DEF u, n, dot, T, L
<1>9. ASSUME dot = b + 1, n = IF e = 0 THEN b ELSE b + 1 + e
      PROVE  L = u <=> d = T
  <2>1. /\ \A j \in 1 .. NAME : (d[j] = Shell!SPACE /\ T[j] = Shell!SPACE) \/ j \in 1 .. b
        /\ \A j \in 1 .. EXT : (d[NAME + j] = Shell!SPACE /\ T[NAME + j] = Shell!SPACE) \/ j \in 1 .. e
    <3>1. \A j \in 1 .. NAME : j \notin 1 .. b => d[j] = Shell!SPACE /\ T[j] = Shell!SPACE
      BY <1>1, <1>6, <1>7, <1>8, <1>9
    <3>2. \A j \in 1 .. EXT : j \notin 1 .. e => j > e /\ ~ (dot + j <= n)
      BY <1>1, <1>7, <1>9
    <3>3. \A j \in 1 .. EXT : j \notin 1 .. e => d[NAME + j] = Shell!SPACE /\ T[NAME + j] = Shell!SPACE
      BY <1>6, <1>8, <3>2
    <3> QED BY <3>1, <3>3
  <2>2. \A j \in 1 .. b : L[j] = d[j] /\ u[j] = T[j]
    <3>1. \A j \in 1 .. b : j \in 1 .. NAME /\ j < dot /\ j \in 1 .. n
      BY <1>1, <1>7, <1>9
    <3> QED BY <1>5, <1>6, <1>8, <3>1
  <2>3. \A j \in 1 .. e : L[b + 1 + j] = d[NAME + j] /\ u[b + 1 + j] = T[NAME + j]
    <3>1. \A j \in 1 .. e : e # 0 /\ j \in 1 .. EXT /\ dot + j <= n /\ dot + j \in 1 .. n /\ b + 1 + j = dot + j
      BY <1>1, <1>7, <1>9
    <3>2. \A j \in 1 .. e : L[b + 1 + j] = d[NAME + j]
      BY <1>8, <3>1
    <3>3. \A j \in 1 .. e : u[dot + j] = T[NAME + j]
      BY <1>5, <1>6, <3>1
    <3> QED BY <3>1, <3>2, <3>3
  <2>4. e # 0 => L[b + 1] = Shell!DOT /\ u[b + 1] = Shell!DOT
    <3>1. e # 0 => dot <= n /\ dot \in 1 .. n
      BY <1>1, <1>3, <1>7, <1>9
    <3> QED BY <1>4, <1>5, <1>8, <1>9, <3>1
  <2>5. ASSUME L = u PROVE d = T
    <3>1. \A j \in 1 .. NAME : d[j] = T[j]
      BY <2>1, <2>2, <2>5
    <3>2. \A j \in 1 .. EXT : d[NAME + j] = T[NAME + j]
      BY <2>1, <2>3, <2>5
    <3>3. \A i \in 1 .. Len(d) : d[i] = T[i]
      <4> SUFFICES ASSUME NEW i \in 1 .. NAME + EXT PROVE d[i] = T[i]
        BY <1>1
      <4>1. i \in 1 .. NAME \/ (i - NAME \in 1 .. EXT /\ NAME + (i - NAME) = i)
        BY <1>1
      <4> QED BY <3>1, <3>2, <4>1
    <3> QED BY <1>1, <1>6, <3>3, SameSequence
  <2>6. ASSUME d = T PROVE L = u
    <3>1. Len(L) = n
      BY <1>8, <1>9
    <3>2. \A i \in 1 .. n : L[i] = u[i]
      <4> SUFFICES ASSUME NEW i \in 1 .. n PROVE L[i] = u[i]
        OBVIOUS
      <4>1. i \in 1 .. b \/ (e # 0 /\ i = b + 1) \/ (i - (b + 1) \in 1 .. e /\ b + 1 + (i - (b + 1)) = i)
        BY <1>1, <1>7, <1>9
      <4>2. CASE i \in 1 .. b
        BY <2>2, <2>6, <4>2
      <4>3. CASE e # 0 /\ i = b + 1
        BY <2>4, <4>3
      <4>4. CASE i - (b + 1) \in 1 .. e /\ b + 1 + (i - (b + 1)) = i
        BY <2>3, <2>6, <4>4
      <4> QED BY <4>1, <4>2, <4>3, <4>4
    <3> QED BY <1>5, <1>8, <3>1, <3>2, SameSequence
  <2> QED BY <2>5, <2>6
<1>10. ASSUME L = u PROVE dot = b + 1 /\ n = IF e = 0 THEN b ELSE b + 1 + e
  <2>1. n = IF e = 0 THEN b ELSE b + 1 + e
    BY <1>5, <1>8, <1>10
  <2>2. \A j \in 1 .. b : w[j] # Shell!DOT
    <3>1. \A j \in 1 .. b : j \in 1 .. NAME /\ j \in 1 .. n
      BY <1>1, <1>7, <2>1
    <3> QED BY <1>5, <1>8, <1>10, <3>1
  <2>3. ~ (dot <= b)
    <3> SUFFICES ASSUME dot <= b PROVE FALSE
      OBVIOUS
    <3>1. dot \in 1 .. b /\ dot <= n
      BY <1>1, <1>4, <1>7, <2>1
    <3> QED BY <1>4, <2>2, <3>1
  <2>4. e # 0 => ~ (b + 1 <= dot - 1)
    <3> SUFFICES ASSUME e # 0, b + 1 <= dot - 1 PROVE FALSE
      OBVIOUS
    <3>1. b + 1 \in 1 .. dot - 1 /\ b + 1 \in 1 .. n
      BY <1>1, <1>4, <1>7, <2>1
    <3>2. w[b + 1] = Shell!DOT
      BY <1>5, <1>8, <1>10, <3>1
    <3> QED BY <1>4, <3>1, <3>2
  <2>5. dot = b + 1
    BY <1>1, <1>4, <1>7, <2>1, <2>3, <2>4
  <2> QED BY <2>1, <2>5
<1>11. ASSUME d = T PROVE dot = b + 1 /\ n = IF e = 0 THEN b ELSE b + 1 + e
  <2>1. \A j \in 1 .. NAME : j > b <=> ~ (j < dot)
    <3>1. \A j \in 1 .. NAME : j < dot => j \in 1 .. n
      BY <1>1, <1>4
    <3>2. \A j \in 1 .. NAME : T[j] = Shell!SPACE <=> ~ (j < dot)
      BY <1>2, <1>6, <3>1
    <3> QED BY <1>8, <1>11, <3>2
  <2>2. dot = b + 1
    <3>1. dot \in Nat /\ b \in Nat /\ dot <= NAME + 1 /\ b <= NAME /\ dot >= 1
      BY <1>1, <1>3, <1>4, <1>7
    <3>2. ~ (b + 1 < dot)
      <4> SUFFICES ASSUME b + 1 < dot PROVE FALSE
        OBVIOUS
      <4>1. b + 1 \in 1 .. NAME /\ b + 1 > b
        BY <1>1, <3>1
      <4> QED BY <2>1, <4>1
    <3>3. ~ (dot < b + 1)
      <4> SUFFICES ASSUME dot < b + 1 PROVE FALSE
        OBVIOUS
      <4>1. dot \in 1 .. NAME /\ ~ (dot < dot) /\ ~ (dot > b)
        BY <1>1, <3>1
      <4> QED BY <2>1, <4>1
    <3> QED BY <3>1, <3>2, <3>3
  <2>3. \A j \in 1 .. EXT : j > e <=> ~ (dot + j <= n)
    <3>1. \A j \in 1 .. EXT : dot + j <= n => dot + j \in 1 .. n
      BY <1>1, <1>4
    <3>2. \A j \in 1 .. EXT : T[NAME + j] = Shell!SPACE <=> ~ (dot + j <= n)
      BY <1>2, <1>6, <3>1
    <3> QED BY <1>8, <1>11, <3>2
  <2>4. n = IF e = 0 THEN b ELSE b + 1 + e
    <3>1. CASE dot <= n
      <4>1. n - dot \in 1 .. EXT /\ e \in 0 .. EXT /\ dot \in Nat
        BY <1>3, <1>4, <1>7, <3>1
      <4>2. ~ (e < n - dot)
        <5> SUFFICES ASSUME e < n - dot PROVE FALSE
          OBVIOUS
        <5>1. e + 1 \in 1 .. EXT /\ e + 1 > e /\ dot + (e + 1) <= n
          BY <1>1, <4>1
        <5> QED BY <2>3, <5>1
      <4>3. ~ (n - dot < e)
        <5> SUFFICES ASSUME n - dot < e PROVE FALSE
          OBVIOUS
        <5>1. e \in 1 .. EXT /\ ~ (e > e) /\ ~ (dot + e <= n)
          BY <1>1, <4>1
        <5> QED BY <2>3, <5>1
      <4> QED BY <1>1, <2>2, <4>1, <4>2, <4>3
    <3>2. CASE ~ (dot <= n)
      <4>1. n = dot - 1
        BY <1>1, <1>4, <3>2
      <4>2. e = 0
        <5> SUFFICES ASSUME e # 0 PROVE FALSE
          OBVIOUS
        <5>1. 1 \in 1 .. EXT /\ ~ (1 > e) /\ ~ (dot + 1 <= n)
          BY <1>1, <1>4, <1>7, <3>2
        <5> QED BY <2>3, <5>1
      <4> QED BY <1>7, <2>2, <4>1, <4>2
    <3> QED BY <3>1, <3>2
  <2> QED BY <2>2, <2>4
<1>12. L = u <=> d = T
  BY <1>9, <1>10, <1>11
<1> QED BY <1>12 DEF L, u, T

LEMMA Widened == ASSUME NEW A, NEW B, A \subseteq B, NEW s \in Seq(A) PROVE s \in Seq(B)
<1>1. s = [i \in 1 .. Len(s) |-> s[i]] /\ Len(s) \in Nat /\ \A i \in 1 .. Len(s) : s[i] \in B
  OBVIOUS
<1>2. s \in [1 .. Len(s) -> B]
  BY <1>1, Zenon
<1> QED BY <1>1, <1>2

LEMMA RecordsAre ==
    ASSUME NEW names \in Directories
    PROVE  names \in Seq(Seq(STRING)) /\ \A i \in DOMAIN names : StoredName(names[i])
<1>1. /\ names \in Seq(Seq(STRING))
      /\ \A i \in DOMAIN names :
             /\ Len(names[i]) = NAME + EXT
             /\ Padded(SubSeq(names[i], 1, NAME)) /\ Padded(SubSeq(names[i], NAME + 1, NAME + EXT))
  BY ShellAssumption
<1>2. ASSUME NEW i \in DOMAIN names PROVE names[i] \in Seq(NameChars)
  <2>1. names[i] \in Seq(STRING)
    BY <1>1
  <2>2. STRING \subseteq NameChars
    BY DEF NameChars
  <2> QED BY <2>1, <2>2, Widened
<1> QED BY <1>1, <1>2 DEF StoredName

(* What fat_open finds.                                                     *)
LEMMA LookupIs ==
    ASSUME dir \in Directories, NEW f, NEW d \in Shell!Range(dir)
    PROVE  StoredName(d) /\ (Shell!Lookup(f) = d <=> d = Shell!Target(f))
<1>1. PICK k \in DOMAIN dir : d = dir[k]
  BY DEF Shell!Range
<1>2. StoredName(d) /\ d # Shell!NoFile /\ dir \in Seq(Seq(STRING))
  <2>1. StoredName(d) /\ dir \in Seq(Seq(STRING))
    BY <1>1, RecordsAre
  <2>2. Len(d) # 0
    BY <2>1, ShellAssumption DEF StoredName
  <2> QED BY <2>1, <2>2 DEF Shell!NoFile
<1> DEFINE hits == {i \in DOMAIN dir : dir[i] = Shell!Target(f)}
<1>3. Shell!Lookup(f) = IF hits = {} THEN Shell!NoFile ELSE dir[Min(hits)]
  BY DEF Shell!Lookup, Shell!fat_name_match, Shell!Min, Min
<1>4. CASE hits = {}
  BY <1>1, <1>2, <1>3, <1>4
<1>5. CASE hits # {}
  <2>1. hits \in SUBSET Nat
    BY <1>2
  <2>2. Min(hits) \in hits
    <3> HIDE DEF hits
    <3> QED BY <1>5, <2>1, MinIsLeast
  <2>3. Shell!Lookup(f) = Shell!Target(f)
    BY <1>3, <1>5, <2>2
  <2> QED BY <1>2, <2>3
<1> QED BY <1>2, <1>4, <1>5

LEMMA ParserInvOpens == ParserInv => Shell!OpensListed
<1> SUFFICES ASSUME ParserInv, pc = "done", result.status \in {"OK", "FILE"}, Shell!Cardinality(Shell!Begins) >= 2,
                    NEW i \in Shell!Named(Shell!Word(1)), Commands[i].handler \in {"cat", "run"}, Shell!Proper(Shell!Word(2)),
                    NEW d \in Shell!Range(dir)
             PROVE  result.file = d <=> Shell!Listed(d) = Shell!UpperCase(Shell!Word(2))
  BY DEF Shell!OpensListed
<1>1. /\ Cardinality(Shell!Begins) \in Nat
      /\ Len(argv) = SHELL_MAX_ARGS \/ Len(argv) = Cardinality(Shell!Begins)
      /\ Len(argv) \in Nat /\ DOMAIN argv = 1 .. Len(argv)
      /\ \A n \in DOMAIN argv : Shell!String(argv[n]) = Shell!Word(n) /\ Shell!Word(n) \in Seq(Shell!Keys \ {Shell!SPACE})
  BY WordsFound DEF ParserInv
<1>2. result = Outcome /\ dir \in Directories
  BY DEF ParserInv
<1>3. Len(argv) >= 2
  <2>1. SHELL_MAX_ARGS \in Nat /\ SHELL_MAX_ARGS # 0 /\ SHELL_MAX_ARGS # 1
    BY ShellAssumption
  <2>2. Cardinality(Shell!Begins) >= 2
    BY ShellCardinality
  <2> DEFINE l == Len(argv)
             c == Cardinality(Shell!Begins)
  <2>3. l \in Nat /\ c \in Nat /\ c >= 2 /\ (l = SHELL_MAX_ARGS \/ l = c)
    BY <1>1, <2>2
  <2> HIDE DEF l, c
  <2>4. l >= 2
    BY <2>1, <2>3
  <2> QED BY <2>4 DEF l
<1>4. 1 \in DOMAIN argv /\ 2 \in DOMAIN argv /\ argv # <<>>
  <2>1. 1 \in 1 .. Len(argv) /\ 2 \in 1 .. Len(argv) /\ Len(argv) # 0
    BY <1>1, <1>3
  <2>2. Len(<<>>) = 0
    BY EmptySeq
  <2> QED BY <1>1, <2>1, <2>2
<1> DEFINE v == Shell!Word(1)
           w == Shell!Word(2)
           h == Commands[i].handler
<1>5. Shell!String(argv[1]) = v /\ Shell!String(argv[2]) = w /\ v \in Seq(Shell!Keys) /\ w \in Seq(Shell!Keys) /\ w \in Seq(Shell!Keys \ {Shell!SPACE})
  BY <1>1, <1>4
<1>6. Shell!Row(v) = i /\ i \in DOMAIN Commands
  BY <1>5, RowIs DEF Shell!Named
<1>7. h \in {"cat", "run"} /\ Shell!Proper(w)
  OBVIOUS
<1> HIDE DEF v, w, h
<1>8. result = Reply(h)
  BY <1>2, <1>4, <1>5, <1>6 DEF Outcome, h
<1>9. result.file = Shell!Lookup(Shell!Path(h))
  BY <1>1, <1>3, <1>7, <1>8 DEF Reply
<1>10. Shell!Target(Shell!Path(h)) = Shell!Target(w)
  <2>1. Shell!Path(h) = Shell!UpperCase(w) \/ Shell!Path(h) = w
    BY <1>5 DEF Shell!Path
  <2> QED BY <1>5, <2>1, TargetUpper
<1>11. StoredName(d) /\ (result.file = d <=> d = Shell!Target(w))
  BY <1>2, <1>9, <1>10, LookupIs
<1>12. Shell!Listed(d) = Shell!UpperCase(w) <=> d = Shell!Target(w)
  BY <1>5, <1>7, <1>11, ListedTarget
<1> QED BY <1>11, <1>12 DEF w

(* Shell: a line is understood, whatever is typed and whatever the disk     *)
(* holds.                                                                   *)
ParserInAlgorithms == part = "shell" => ParserInv

LEMMA AlgorithmsParserInit == AlgorithmInit => ParserInAlgorithms
BY ParserStart DEF AlgorithmInit, ParserInAlgorithms

LEMMA AlgorithmsParserNext == ParserInAlgorithms /\ [AlgorithmNext]_algorithmVars => ParserInAlgorithms'
<1> SUFFICES ASSUME ParserInAlgorithms, [AlgorithmNext]_algorithmVars, part' = "shell" PROVE ParserInv'
  BY DEF ParserInAlgorithms
<1>1. part = "shell" /\ (Shell!Next \/ UNCHANGED shellVars)
  BY DEF AlgorithmNext, algorithmVars
<1>2. ParserInv /\ [Shell!Next]_(Shell!vars)
  BY <1>1 DEF ParserInAlgorithms, shellVars, Shell!vars
<1> QED BY <1>2, ParserStep

(* Any line typed at the prompt: shell_parse leaves in argv its words, as many *)
(* as there is room for, in order and whole; shell_dispatch runs the command   *)
(* whose name is the first of them; and cat and run open the file ls shows     *)
(* under the name they are given, in any case (fat_name_match).                *)
THEOREM LinesAreUnderstood == AlgorithmSpec => []LineUnderstood
<1>1. ParserInAlgorithms => LineUnderstood
  BY ParserInvWords, ParserInvDispatched, ParserInvOpens DEF ParserInAlgorithms, LineUnderstood
<1> QED BY <1>1, AlgorithmsParserInit, AlgorithmsParserNext, PTL DEF AlgorithmSpec
-----------------------------------------------------------------------------
(* A segment where the loader puts it.                                      *)
Segment == [type : STRING, vaddr : Int, memsz : Nat, filesz : Nat, offset : Nat]
Placed(s) == s \in Segment /\ s.memsz # 0 /\ s.vaddr >= USER_ADDR_MIN /\ Loader!SegEnd(s) <= USER_ADDR_MAX

LEMMA SegPagesAre ==
    ASSUME NEW s, Placed(s)
    PROVE  /\ \A p \in Loader!SegPages(s) : p \in Nat /\ p * PG >= USER_ADDR_MIN /\ (p + 1) * PG <= USER_ADDR_MAX + 1
           /\ \A a \in s.vaddr .. Loader!SegEnd(s) - 1 :
                  /\ a \in Nat /\ a \div PG \in Loader!SegPages(s) /\ a % PG \in 0 .. PG - 1
                  /\ (a \div PG) * PG + (a % PG) = a
<1> DEFINE v == s.vaddr
           e == Loader!SegEnd(s)
           f == Loader!FirstPage(s)
           l == Loader!PageEnd(s) - 1
<1>1. /\ PG \in Nat \ {0} /\ USER_ADDR_MIN \in Nat /\ USER_ADDR_MAX \in Nat
      /\ USER_ADDR_MIN % PG = 0 /\ (USER_ADDR_MAX + 1) % PG = 0
  BY LoaderAssumption
<1>2. v \in Nat /\ e \in Nat /\ USER_ADDR_MIN <= v /\ v + 1 <= e /\ e <= USER_ADDR_MAX
  BY <1>1 DEF Placed, Segment, Loader!SegEnd
<1>3. f = v \div PG /\ l = (e + PG - 1) \div PG - 1
  BY DEF Loader!FirstPage, Loader!PageEnd
<1> HIDE DEF v, e, f, l
<1>4. l = (e - 1) \div PG
  <2> DEFINE q == (e - 1) \div PG
             r == (e - 1) % PG
  <2>1. e - 1 = PG * q + r /\ r \in 0 .. PG - 1 /\ q \in Nat
    <3>1. e - 1 \in Nat
      BY <1>2
    <3> QED BY <1>1, <3>1, Digit
  <2> HIDE DEF q, r
  <2>2. PG * (q + 1) = PG * q + PG * 1 /\ PG * 1 = PG
    BY <1>1, <2>1, ProductLaws
  <2>3. e + PG - 1 = PG * (q + 1) + r /\ e + PG - 1 \in Nat /\ q + 1 \in Nat
    BY <1>1, <1>2, <2>1, <2>2
  <2> DEFINE b == e + PG - 1
             k == q + 1
  <2>4. b = PG * k + r /\ b \in Nat /\ k \in Nat
    BY <2>3
  <2> HIDE DEF b, k
  <2>5. b \div PG = k
    BY <1>1, <2>1, <2>4, QuotientUnique
  <2> QED BY <1>3, <2>1, <2>5 DEF q, b, k
<1> DEFINE m == USER_ADDR_MIN \div PG
           x == (USER_ADDR_MAX + 1) \div PG
<1>5. m \in Nat /\ x \in Nat /\ USER_ADDR_MIN = PG * m /\ USER_ADDR_MAX + 1 = PG * x
  BY <1>1, Digit
<1>6. m <= f /\ f \in Nat
  BY <1>1, <1>2, <1>3, QuotientMonotone, QuotientNat
<1>7. l < x /\ l \in Nat
  <2>1. l <= x /\ l \in Nat
    BY <1>1, <1>2, <1>4, QuotientMonotone, QuotientNat
  <2>2. PG * l <= e - 1
    <3>1. e - 1 \in Nat
      BY <1>2
    <3>2. e - 1 = PG * ((e - 1) \div PG) + ((e - 1) % PG) /\ (e - 1) % PG \in 0 .. PG - 1
      BY <1>1, <3>1, Digit
    <3>3. PG * l \in Int
      BY <1>1, <2>1, ProductLaws
    <3> QED BY <1>1, <1>4, <3>1, <3>2, <3>3
  <2>3. l # x
    BY <1>1, <1>2, <1>5, <2>2
  <2> HIDE DEF x
  <2> QED BY <1>5, <2>1, <2>3
<1> HIDE DEF m, x
<1>8. Loader!SegPages(s) = f .. l
  BY DEF Loader!SegPages, f, l
<1>9. ASSUME NEW p \in f .. l PROVE p \in Nat /\ p * PG >= USER_ADDR_MIN /\ (p + 1) * PG <= USER_ADDR_MAX + 1
  <2>1. p \in Nat /\ m <= p /\ p + 1 <= x
    BY <1>5, <1>6, <1>7
  <2>2. PG * m <= PG * p
    <3>1. CASE m = p
      BY <1>1, <2>1, <3>1, ProductLaws
    <3>2. CASE m < p
      <4>1. PG * m + PG <= PG * p
        BY <1>1, <1>5, <2>1, <3>2, ProductGrows
      <4>2. PG * m \in Int /\ PG * p \in Int
        BY <1>1, <1>5, <2>1, ProductLaws
      <4> QED BY <1>1, <4>1, <4>2
    <3> QED BY <1>5, <2>1, <3>1, <3>2
  <2>3. PG * (p + 1) <= PG * x
    <3>1. CASE p + 1 = x
      BY <1>1, <2>1, <3>1, ProductLaws
    <3>2. CASE p + 1 < x
      <4>1. PG * (p + 1) + PG <= PG * x
        BY <1>1, <1>5, <2>1, <3>2, ProductGrows
      <4>2. PG * (p + 1) \in Int /\ PG * x \in Int
        BY <1>1, <1>5, <2>1, ProductLaws
      <4> QED BY <1>1, <4>1, <4>2
    <3> QED BY <1>5, <2>1, <3>1, <3>2
  <2>4. p * PG = PG * p /\ (p + 1) * PG = PG * (p + 1)
    BY <1>1, <2>1, ProductLaws
  <2> QED BY <1>5, <2>1, <2>2, <2>3, <2>4
<1>10. ASSUME NEW a \in v .. e - 1
       PROVE  /\ a \in Nat /\ a \div PG \in f .. l /\ a % PG \in 0 .. PG - 1
              /\ (a \div PG) * PG + (a % PG) = a
  <2>1. a \in Nat /\ v <= a /\ a <= e - 1 /\ e - 1 \in Nat
    BY <1>2
  <2>2. v \div PG <= a \div PG /\ a \div PG <= (e - 1) \div PG
    BY <1>1, <1>2, <2>1, QuotientMonotone
  <2>3. a = PG * (a \div PG) + (a % PG) /\ a % PG \in 0 .. PG - 1 /\ a \div PG \in Nat
    BY <1>1, <2>1, Digit
  <2>4. PG * (a \div PG) = (a \div PG) * PG
    BY <1>1, <2>3, ProductLaws
  <2>5. a \div PG \in f .. l
    BY <1>3, <1>4, <1>6, <1>7, <2>2, <2>3
  <2> QED BY <2>1, <2>3, <2>4, <2>5
<1> QED BY <1>8, <1>9, <1>10 DEF v, e

(* What the second pass leaves.                                             *)
LEMMA MappedIs ==
    ASSUME NEW m, NEW segs, NEW turns \in SUBSET Nat, IsFiniteSet(turns)
    PROVE  /\ \A p : p \in DOMAIN Loader!Mapped(m, segs, turns) <=> p \in DOMAIN m \/ \E i \in turns : p \in Loader!SegPages(segs[i])
           /\ \A p \in DOMAIN Loader!Mapped(m, segs, turns) :
                \/ p \in DOMAIN m /\ Loader!Mapped(m, segs, turns)[p] = m[p] /\ \A i \in turns : p \notin Loader!SegPages(segs[i])
                \/ \E i \in turns : p \in Loader!SegPages(segs[i]) /\ Loader!Mapped(m, segs, turns)[p] = Loader!PageBytes(segs[i], p)
<1> DEFINE Over(p) == {i \in turns : p \in Loader!SegPages(segs[i])}
           D == DOMAIN m \cup UNION {Loader!SegPages(segs[i]) : i \in turns}
<1>1. Loader!Mapped(m, segs, turns) = [p \in D |-> IF Over(p) = {} THEN m[p] ELSE Loader!PageBytes(segs[Max(Over(p))], p)]
  BY DEF Loader!Mapped, Loader!Max, Max
<1>2. \A p : p \in D <=> p \in DOMAIN m \/ \E i \in turns : p \in Loader!SegPages(segs[i])
  OBVIOUS
<1> HIDE DEF D
<1>3. ASSUME NEW p \in D
      PROVE  LET M == IF Over(p) = {} THEN m[p] ELSE Loader!PageBytes(segs[Max(Over(p))], p)
             IN  \/ p \in DOMAIN m /\ M = m[p] /\ \A i \in turns : p \notin Loader!SegPages(segs[i])
                 \/ \E i \in turns : p \in Loader!SegPages(segs[i]) /\ M = Loader!PageBytes(segs[i], p)
  <2>1. CASE Over(p) = {}
    BY <1>2, <1>3, <2>1
  <2>2. CASE Over(p) # {}
    <3>1. Over(p) \in SUBSET turns
      OBVIOUS
    <3>2. IsFiniteSet(Over(p)) /\ Over(p) \in SUBSET Nat
      BY <3>1, FS_Subset
    <3>3. Max(Over(p)) \in Over(p)
      <4> HIDE DEF Over
      <4> QED BY <2>2, <3>2, MaxIsGreatest
    <3> QED BY <2>2, <3>3
  <2> QED BY <2>1, <2>2
<1> HIDE DEF Over
<1> QED BY <1>1, <1>2, <1>3

LEMMA SizesBounded ==
    ASSUME NEW im \in Images
    PROVE  Loader!Bytes = {Loader!Zero} \cup 0 .. Max({i.size : i \in Images}) /\ Max({i.size : i \in Images}) \in Nat
           /\ im.size <= Max({i.size : i \in Images})
<1> DEFINE S == {i.size : i \in Images}
<1>1. S \in SUBSET Nat /\ im.size \in S
  BY LoaderAssumption
<1>2. IsFiniteSet(S)
  <2> DEFINE f == [i \in Images |-> i.size]
  <2>1. f \in Surjection(Images, S)
    BY DEF Surjection
  <2> HIDE DEF f, S
  <2> QED BY <2>1, LoaderAssumption, FS_Surjection
<1>3. Max(S) \in S /\ \A y \in S : y <= Max(S)
  <2> HIDE DEF S
  <2> QED BY <1>1, <1>2, MaxIsGreatest
<1>4. Loader!Max(S) = Max(S)
  BY DEF Loader!Max, Max
<1> HIDE DEF S
<1> QED BY <1>1, <1>3, <1>4 DEF Loader!Bytes, S

(* The bytes of a page are bytes of the file, or zeros.                     *)
LEMMA PageBytesAre ==
    ASSUME NEW im \in Images, NEW s, Placed(s), Loader!InFile(im, s), NEW p \in Nat
    PROVE  Loader!PageBytes(s, p) \in [0 .. PG - 1 -> Loader!Bytes]
<1> DEFINE M == Max({i.size : i \in Images})
<1>1. Loader!Bytes = {Loader!Zero} \cup 0 .. M /\ M \in Nat /\ im.size <= M /\ im.size \in Nat
  BY SizesBounded, LoaderAssumption
<1> HIDE DEF M
<1>2. PG \in Nat \ {0} /\ s.vaddr \in Int /\ s.offset \in Nat /\ s.filesz \in Nat /\ s.offset + s.filesz <= im.size
  BY LoaderAssumption DEF Placed, Segment, Loader!InFile
<1>3. ASSUME NEW i \in 0 .. PG - 1
      PROVE  (IF s.vaddr <= p * PG + i /\ p * PG + i < s.vaddr + s.filesz
                THEN s.offset + ((p * PG + i) - s.vaddr) ELSE Loader!Zero) \in Loader!Bytes
  <2>1. p * PG \in Int
    BY <1>2, ProductLaws
  <2> DEFINE a == p * PG + i
  <2>2. a \in Int
    BY <1>2, <2>1
  <2> HIDE DEF a
  <2>3. ASSUME s.vaddr <= a, a < s.vaddr + s.filesz
        PROVE  s.offset + (a - s.vaddr) \in Loader!Bytes
    BY <1>1, <1>2, <2>2, <2>3
  <2>4. Loader!Zero \in Loader!Bytes
    BY <1>1
  <2> QED BY <2>3, <2>4 DEF a
<1> QED BY <1>3 DEF Loader!PageBytes

(* Pages typed and in the user range.                                       *)
InRange(m) == \A p \in DOMAIN m : /\ m[p] \in [0 .. PG - 1 -> Loader!Bytes]
                                  /\ p * PG >= USER_ADDR_MIN /\ (p + 1) * PG <= USER_ADDR_MAX + 1

LEMMA LoadedInRange ==
    ASSUME NEW m, InRange(m), NEW im \in Images, NEW segs, NEW turns \in SUBSET Nat, IsFiniteSet(turns),
           \A i \in turns : Placed(segs[i]) /\ Loader!InFile(im, segs[i])
    PROVE  InRange(Loader!Mapped(m, segs, turns))
<1> DEFINE N == Loader!Mapped(m, segs, turns)
<1>1. \A p \in DOMAIN N :
        \/ p \in DOMAIN m /\ N[p] = m[p]
        \/ \E i \in turns : p \in Loader!SegPages(segs[i]) /\ N[p] = Loader!PageBytes(segs[i], p)
  BY MappedIs
<1> HIDE DEF N
<1>2. SUFFICES ASSUME NEW p \in DOMAIN N
               PROVE  /\ N[p] \in [0 .. PG - 1 -> Loader!Bytes]
                      /\ p * PG >= USER_ADDR_MIN /\ (p + 1) * PG <= USER_ADDR_MAX + 1
  BY DEF N, InRange
<1>3. CASE p \in DOMAIN m /\ N[p] = m[p]
  BY <1>3 DEF InRange
<1>4. ASSUME NEW i \in turns, p \in Loader!SegPages(segs[i]), N[p] = Loader!PageBytes(segs[i], p)
      PROVE  /\ N[p] \in [0 .. PG - 1 -> Loader!Bytes]
             /\ p * PG >= USER_ADDR_MIN /\ (p + 1) * PG <= USER_ADDR_MAX + 1
  <2> DEFINE s == segs[i]
  <2>1. Placed(s) /\ Loader!InFile(im, s) /\ p \in Loader!SegPages(s) /\ N[p] = Loader!PageBytes(s, p)
    BY <1>4
  <2> HIDE DEF s
  <2>2. p \in Nat /\ p * PG >= USER_ADDR_MIN /\ (p + 1) * PG <= USER_ADDR_MAX + 1
    BY <2>1, SegPagesAre
  <2>3. Loader!PageBytes(s, p) \in [0 .. PG - 1 -> Loader!Bytes]
    BY <2>1, <2>2, PageBytesAre
  <2> QED BY <2>1, <2>2, <2>3
<1> QED BY <1>1, <1>3, <1>4

(* No two segments on one page: each address holds its segment's byte.       *)
LEMMA LoadedFaithful ==
    ASSUME NEW m, NEW segs, NEW turns \in SUBSET Nat, IsFiniteSet(turns), NEW S, S = {segs[i] : i \in turns},
           \A s \in S : Placed(s),
           \A s, t \in S : s # t => Loader!SegPages(s) \cap Loader!SegPages(t) = {},
           NEW s \in S, NEW a \in s.vaddr .. Loader!SegEnd(s) - 1
    PROVE  /\ a \div PG \in DOMAIN Loader!Mapped(m, segs, turns)
           /\ Loader!Mapped(m, segs, turns)[a \div PG][a % PG] = Loader!ByteAt(S, a)
<1> DEFINE N == Loader!Mapped(m, segs, turns)
           p == a \div PG
           r == a % PG
<1>1. a \in Nat /\ p \in Loader!SegPages(s) /\ r \in 0 .. PG - 1 /\ p * PG + r = a
  BY SegPagesAre
<1>2. PICK i \in turns : s = segs[i]
  OBVIOUS
<1>3. p \in DOMAIN N /\ \E j \in turns : p \in Loader!SegPages(segs[j]) /\ N[p] = Loader!PageBytes(segs[j], p)
  <2> HIDE DEF p
  <2> QED BY <1>1, <1>2, MappedIs
<1> HIDE DEF N, p, r
<1>4. PICK j \in turns : p \in Loader!SegPages(segs[j]) /\ N[p] = Loader!PageBytes(segs[j], p)
  BY <1>3
<1>5. segs[j] = s
  BY <1>1, <1>4
<1>6. s.vaddr \in Int /\ s.vaddr <= a /\ Loader!SegEnd(s) \in Int /\ a < Loader!SegEnd(s)
  BY <1>1 DEF Placed, Segment, Loader!SegEnd
<1>7. N[p][r] = IF a < s.vaddr + s.filesz THEN s.offset + (a - s.vaddr) ELSE Loader!Zero
  BY <1>1, <1>4, <1>5, <1>6 DEF Loader!PageBytes
<1>8. {q \in S : q.vaddr <= a /\ a < Loader!SegEnd(q)} = {s}
  <2>1. ASSUME NEW q \in S, q.vaddr <= a, a < Loader!SegEnd(q)
        PROVE  q = s
    <3>1. Placed(q) /\ q.vaddr \in Int /\ Loader!SegEnd(q) \in Int
      BY DEF Placed, Segment, Loader!SegEnd
    <3>2. a \in q.vaddr .. Loader!SegEnd(q) - 1
      BY <1>1, <2>1, <3>1
    <3>3. p \in Loader!SegPages(q)
      BY <3>1, <3>2, SegPagesAre DEF p
    <3> QED BY <1>1, <3>3
  <2> QED BY <1>6, <2>1
<1>9. Loader!ByteAt(S, a) = IF a < s.vaddr + s.filesz THEN s.offset + (a - s.vaddr) ELSE Loader!Zero
  BY <1>8 DEF Loader!ByteAt
<1> QED BY <1>3, <1>7, <1>9 DEF N, p, r

(* The segments both passes take, and where elf_load and elf_load_at put     *)
(* them.                                                                     *)
LEMMA LoadsAre ==
    ASSUME NEW im \in Images
    PROVE  /\ Loader!Loads(im) \in SUBSET Nat /\ IsFiniteSet(Loader!Loads(im))
           /\ \A i \in Loader!Loads(im) : im.segments[i] \in Segment /\ im.segments[i].memsz # 0 /\ im.segments[i].vaddr \in Nat
<1> DEFINE R == [type : STRING, vaddr : Nat, memsz : Nat, filesz : Nat, offset : Nat]
<1>1. im.segments \in Seq(R)
  BY LoaderAssumption
<1>2. DOMAIN im.segments = 1 .. Len(im.segments) /\ Len(im.segments) \in Nat
      /\ \A i \in DOMAIN im.segments : im.segments[i] \in R
  <2> HIDE DEF R
  <2> QED BY <1>1
<1>3. Loader!Loads(im) \subseteq 1 .. Len(im.segments)
  BY <1>2 DEF Loader!Loads
<1>4. IsFiniteSet(Loader!Loads(im)) /\ Loader!Loads(im) \in SUBSET Nat
  <2>1. IsFiniteSet(1 .. Len(im.segments)) /\ 1 .. Len(im.segments) \subseteq Nat
    BY <1>2, FS_Interval
  <2> QED BY <1>3, <2>1, FS_Subset
<1>5. \A i \in Loader!Loads(im) : im.segments[i].memsz # 0
  BY DEF Loader!Loads
<1>6. \A x \in R : x \in Segment /\ x.vaddr \in Nat
  BY DEF Segment
<1> HIDE DEF R
<1>7. \A i \in Loader!Loads(im) : im.segments[i] \in R
  BY <1>2, <1>3
<1> QED BY <1>4, <1>5, <1>6, <1>7

LEMMA LoadPlaced ==
    ASSUME NEW im \in Images, Loader!Accepted(im), NEW i \in Loader!Loads(im)
    PROVE  Placed(im.segments[i]) /\ Loader!InFile(im, im.segments[i])
<1>1. im.segments[i] \in Loader!LoadableSet(im)
  BY DEF Loader!LoadableSet
<1> QED BY <1>1, LoadsAre DEF Loader!Accepted, Loader!elf_validate_segment, Placed

LEMMA LoadAtPlaced ==
    ASSUME NEW im \in Images, Loader!AcceptedAt(im), NEW addr \in LoadAddrs, NEW i \in Loader!Loads(im)
    PROVE  /\ Loader!SegmentsAt(im, addr)[i] \in Segment /\ Loader!InFile(im, Loader!SegmentsAt(im, addr)[i])
           /\ i \notin Loader!Stops(im, addr) => Placed(Loader!SegmentsAt(im, addr)[i])
<1> DEFINE V == {s.vaddr : s \in Loader!LoadableSet(im)}
           by == Loader!OffsetAt(im, addr)
           s == im.segments[i]
           t == Loader!SegmentsAt(im, addr)[i]
<1>1. V \in SUBSET Nat /\ V # {}
  BY LoadsAre DEF Loader!AcceptedAt, Loader!LoadableSet
<1>2. Min(V) \in Nat
  <2> HIDE DEF V
  <2> QED BY <1>1, MinIsLeast
<1>3. by = addr - Min(V)
  BY DEF Loader!OffsetAt, Loader!LoadBase, Loader!Min, Min
<1>4. by \in Int
  BY <1>2, <1>3, LoaderAssumption
<1>5. t = [s EXCEPT !.vaddr = @ + by]
  BY DEF Loader!SegmentsAt, Loader!Moved
<1>6. s \in Segment /\ s.memsz # 0 /\ Loader!InFile(im, s)
  BY LoadsAre DEF Loader!AcceptedAt, Loader!LoadableSet
<1> HIDE DEF s, t, by
<1>7. t \in Segment /\ t.memsz = s.memsz /\ t.offset = s.offset /\ t.filesz = s.filesz
  BY <1>4, <1>5, <1>6 DEF Segment
<1>8. Loader!InFile(im, t)
  BY <1>6, <1>7 DEF Loader!InFile
<1>9. i \notin Loader!Stops(im, addr) => ~ Loader!Outside(t)
  BY DEF Loader!Stops, t
<1>10. ~ Loader!Outside(t) => Placed(t)
  <2>1. t.vaddr \in Int /\ Loader!SegEnd(t) \in Int /\ USER_ADDR_MIN \in Nat /\ USER_ADDR_MAX \in Nat
    BY <1>7, LoaderAssumption DEF Segment, Loader!SegEnd
  <2> QED BY <1>6, <1>7, <2>1 DEF Loader!Outside, Placed
<1> QED BY <1>7, <1>8, <1>9, <1>10 DEF t

LoaderInv ==
    /\ InRange(mem) /\ call.ret \in {0, -1} /\ calls \in 0 .. MaxCalls
    /\ Loader!ApartImageLoaded

(* A call whose segments, those whose turn came, lie in the user range and    *)
(* in the file keeps the invariant, if it returned 0 only when the turn of    *)
(* each of its segments came.                                                *)
LEMMA CallLoads ==
    ASSUME LoaderInv, NEW im \in Images, NEW segs, NEW all, NEW turns \in SUBSET all, all \in SUBSET Nat, IsFiniteSet(all),
           \A i \in turns : Placed(segs[i]) /\ Loader!InFile(im, segs[i]),
           mem' = Loader!Mapped(mem, segs, turns), call'.segs = {segs[i] : i \in all},
           call'.ret \in {0, -1}, call'.ret = 0 => turns = all
    PROVE  InRange(mem)' /\ Loader!ApartImageLoaded'
<1>1. turns \in SUBSET Nat /\ IsFiniteSet(turns)
  BY FS_Subset
<1>2. InRange(mem')
  BY <1>1, LoadedInRange DEF LoaderInv
<1>3. ASSUME Loader!SegmentsApart', call'.ret = 0, NEW s \in call'.segs, NEW a \in s.vaddr .. Loader!SegEnd(s) - 1
      PROVE  a \div PG \in DOMAIN mem' /\ mem'[a \div PG][a % PG] = Loader!ByteAt(call'.segs, a)
  <2> DEFINE S == call'.segs
  <2>1. S = {segs[i] : i \in turns}
    BY <1>3
  <2>2. (\A x \in S : Placed(x)) /\ \A x, y \in S : x # y => Loader!SegPages(x) \cap Loader!SegPages(y) = {}
    BY <1>3, <2>1 DEF Loader!SegmentsApart
  <2>3. s \in S
    BY <1>3
  <2> HIDE DEF S
  <2>4. /\ a \div PG \in DOMAIN Loader!Mapped(mem, segs, turns)
        /\ Loader!Mapped(mem, segs, turns)[a \div PG][a % PG] = Loader!ByteAt(S, a)
    BY <1>1, <2>1, <2>2, <2>3, LoadedFaithful
  <2> QED BY <2>4 DEF S
<1> QED BY <1>2, <1>3 DEF InRange, Loader!ApartImageLoaded, Loader!ImageLoaded, Loader!SegmentsApart

LEMMA LoaderStep ==
    ASSUME LoaderInv, Loader!Next PROVE LoaderInv'
<1>1. PICK im \in Images : calls < MaxCalls /\ calls' = calls + 1 /\ (Loader!elf_load(im) \/ \E addr \in LoadAddrs : Loader!elf_load_at(im, addr))
  BY DEF Loader!Next
<1>2. calls' \in 0 .. MaxCalls
  BY <1>1, LoaderAssumption DEF LoaderInv
<1>3. ASSUME mem' = mem, call'.ret = -1
      PROVE  InRange(mem)' /\ call'.ret \in {0, -1} /\ Loader!ApartImageLoaded'
  BY <1>3 DEF LoaderInv, InRange, Loader!ApartImageLoaded, Loader!ImageLoaded
<1>4. CASE Loader!elf_load(im) /\ ~ Loader!Accepted(im)
  BY <1>2, <1>3, <1>4 DEF Loader!elf_load, LoaderInv
<1>5. CASE Loader!elf_load(im) /\ Loader!Accepted(im)
  <2>1. mem' = Loader!Mapped(mem, im.segments, Loader!Loads(im)) /\ call'.segs = {im.segments[i] : i \in Loader!Loads(im)} /\ call'.ret = 0
    BY <1>5 DEF Loader!elf_load, Loader!LoadableSet
  <2>2. \A i \in Loader!Loads(im) : Placed(im.segments[i]) /\ Loader!InFile(im, im.segments[i])
    BY <1>5, LoadPlaced
  <2>3. InRange(mem)' /\ Loader!ApartImageLoaded'
    BY <2>1, <2>2, LoadsAre, CallLoads
  <2> QED BY <1>2, <2>1, <2>3 DEF LoaderInv
<1>6. ASSUME NEW addr \in LoadAddrs, Loader!elf_load_at(im, addr), ~ Loader!AcceptedAt(im)
      PROVE  LoaderInv'
  BY <1>2, <1>3, <1>6 DEF Loader!elf_load_at, LoaderInv, Loader!None
<1>7. ASSUME NEW addr \in LoadAddrs, Loader!elf_load_at(im, addr), Loader!AcceptedAt(im)
      PROVE  LoaderInv'
  <2> DEFINE segs == Loader!SegmentsAt(im, addr)
             turns == Loader!TurnsAt(im, addr)
             all == Loader!Loads(im)
  <2>1. mem' = Loader!Mapped(mem, segs, turns) /\ call'.segs = {segs[i] : i \in all}
        /\ call'.ret = IF Loader!Stops(im, addr) = {} THEN 0 ELSE -1
    BY <1>7 DEF Loader!elf_load_at
  <2>2. all \in SUBSET Nat /\ IsFiniteSet(all)
    BY LoadsAre
  <2>3. turns \in SUBSET all /\ \A i \in turns : i \notin Loader!Stops(im, addr)
    BY <2>2 DEF Loader!TurnsAt
  <2>4. Loader!Stops(im, addr) = {} => turns = all
    BY DEF Loader!TurnsAt
  <2>5. \A i \in turns : Placed(segs[i]) /\ Loader!InFile(im, segs[i])
    BY <1>7, <2>3, LoadAtPlaced
  <2> HIDE DEF segs, turns, all
  <2>6. call'.ret \in {0, -1} /\ (call'.ret = 0 => turns = all)
    BY <2>1, <2>4
  <2>7. InRange(mem)' /\ Loader!ApartImageLoaded'
    BY <2>1, <2>2, <2>3, <2>5, <2>6, CallLoads
  <2> QED BY <1>2, <2>6, <2>7 DEF LoaderInv
<1> QED BY <1>1, <1>4, <1>5, <1>6, <1>7

(* elf_load and elf_load_at, one after the other on one address space:       *)
(* whatever was loaded there before, a call that returned 0 left at each      *)
(* address of the image the byte of the file, or zero past the file data,     *)
(* when no two of its segments share a page; and no call, not one refused     *)
(* half way either, maps a page outside the user range.                       *)
THEOREM ImagesAreFaithful == AlgorithmSpec => []ImageFaithful
<1> DEFINE Inv == part = "loader" => LoaderInv
<1>1. AlgorithmInit => Inv
  <2>1. ASSUME Loader!Init PROVE LoaderInv
    BY <2>1, LoaderAssumption DEF Loader!Init, Loader!None, LoaderInv, InRange, Loader!ApartImageLoaded, Loader!ImageLoaded
  <2> QED BY <2>1 DEF AlgorithmInit
<1>2. Inv /\ [AlgorithmNext]_algorithmVars => Inv'
  <2> SUFFICES ASSUME Inv, [AlgorithmNext]_algorithmVars, part' = "loader" PROVE LoaderInv'
    OBVIOUS
  <2>1. CASE part = "loader" /\ Loader!Next
    BY <2>1, LoaderStep
  <2>2. CASE UNCHANGED <<part, loadVars>>
    BY <2>2 DEF loadVars, LoaderInv, InRange, Loader!ApartImageLoaded, Loader!ImageLoaded, Loader!SegmentsApart
  <2> QED BY <2>1, <2>2 DEF AlgorithmNext, algorithmVars
<1>3. Inv => ImageFaithful
  BY DEF ImageFaithful, LoaderInv, InRange, Loader!TypeOK, Loader!UserRangeOnly
<1> QED BY <1>1, <1>2, <1>3, PTL DEF AlgorithmSpec
-----------------------------------------------------------------------------
(* What the recursive function of Backwards is, and that there is one.       *)
DigitsOf(f, n, b) == f = [v \in 0 .. n |-> IF v = 0 THEN <<>> ELSE <<v % b>> \o f[v \div b]]

LEMMA DigitsAt ==
    ASSUME NEW f, NEW n, NEW b, DigitsOf(f, n, b), NEW v \in 0 .. n
    PROVE  f[v] = IF v = 0 THEN <<>> ELSE <<v % b>> \o f[v \div b]
<1> DEFINE R == [u \in 0 .. n |-> IF u = 0 THEN <<>> ELSE <<u % b>> \o f[u \div b]]
<1>1. f = R
  BY DEF DigitsOf
<1>2. R[v] = IF v = 0 THEN <<>> ELSE <<v % b>> \o f[v \div b]
  OBVIOUS
<1> HIDE DEF R
<1>3. f[v] = R[v]
  BY <1>1
<1> QED BY <1>2, <1>3

LEMMA QuotientLess ==
    ASSUME NEW b \in Nat \ {0, 1}, NEW v \in Nat \ {0}
    PROVE  v \div b \in Nat /\ v \div b < v
<1> DEFINE q == v \div b
<1>1. v = b * q + (v % b) /\ v % b \in 0 .. b - 1 /\ q \in Nat
  BY Digit
<1> HIDE DEF q
<1>2. q <= v \/ v < q
  BY <1>1
<1>3. CASE q = 0
  BY <1>3 DEF q
<1>4. CASE q # 0
  <2>1. b * 0 + b <= b * q
    BY <1>1, <1>4, ProductGrows
  <2>2. q * 1 + q <= q * b
    BY <1>1, ProductGrows
  <2>3. q * b = b * q /\ q * 1 = q /\ b * q \in Int
    BY <1>1, ProductLaws
  <2>4. q < v
    BY <1>1, <1>4, <2>2, <2>3
  <2> QED BY <1>1, <2>4 DEF q
<1> QED BY <1>3, <1>4

LEMMA DigitsExist ==
    ASSUME NEW b \in Nat \ {0, 1}
    PROVE  \A n \in Nat : \E f : DigitsOf(f, n, b)
<1> DEFINE N == {n \in Nat : \E f : DigitsOf(f, n, b)}
<1>1. 0 \in N
  <2> DEFINE g == [v \in 0 .. 0 |-> <<>>]
  <2>1. DigitsOf(g, 0, b)
    BY DEF DigitsOf
  <2> QED BY <2>1
<1>2. ASSUME NEW n \in N PROVE n + 1 \in N
  <2>1. PICK f : DigitsOf(f, n, b)
    OBVIOUS
  <2> DEFINE g == [v \in 0 .. n + 1 |-> IF v = 0 THEN <<>> ELSE <<v % b>> \o f[v \div b]]
  <2>2. \A v \in 0 .. n : g[v] = f[v]
    BY <2>1, DigitsAt
  <2>3. \A v \in 0 .. n + 1 : v # 0 => v \div b \in 0 .. n
    BY QuotientLess
  <2>4. DigitsOf(g, n + 1, b)
    <3>1. \A v \in 0 .. n + 1 : v # 0 => g[v \div b] = f[v \div b]
      <4> HIDE DEF g
      <4> QED BY <2>2, <2>3
    <3>2. g = [v \in 0 .. n + 1 |-> IF v = 0 THEN <<>> ELSE <<v % b>> \o g[v \div b]]
      BY <3>1
    <3> HIDE DEF g
    <3> QED BY <3>2 DEF DigitsOf
  <2> HIDE DEF g
  <2> QED BY <2>4
<1>3. N = Nat
  <2>1. N \in SUBSET Nat
    OBVIOUS
  <2> HIDE DEF N
  <2>2. \A n \in N : n + 1 \in N
    BY <1>2
  <2> QED BY <1>1, <2>1, <2>2, SetInduction
<1> QED BY <1>3

LEMMA DigitsAgree ==
    ASSUME NEW b \in Nat \ {0, 1}, NEW m \in Nat, NEW n \in Nat, NEW f, NEW g, DigitsOf(f, m, b), DigitsOf(g, n, b),
           NEW v \in Nat, v <= m, v <= n
    PROVE  f[v] = g[v]
<1> DEFINE D == {x \in 0 .. v : f[x] # g[x]}
<1>1. SUFFICES ASSUME D # {} PROVE FALSE
  OBVIOUS
<1>2. PICK x \in D : \A y \in D : x <= y
  <2>1. D \in SUBSET Nat
    OBVIOUS
  <2> HIDE DEF D
  <2> QED BY <1>1, <2>1, LeastExists
<1>3. x \in Nat /\ x <= m /\ x <= n /\ x <= v /\ f[x] # g[x]
  OBVIOUS
<1>4. f[x] = (IF x = 0 THEN <<>> ELSE <<x % b>> \o f[x \div b]) /\ g[x] = IF x = 0 THEN <<>> ELSE <<x % b>> \o g[x \div b]
  <2>1. x \in 0 .. m /\ x \in 0 .. n
    BY <1>3
  <2> QED BY <2>1, DigitsAt
<1>5. x # 0
  BY <1>3, <1>4
<1>6. x \div b \in Nat /\ x \div b < x
  BY <1>3, <1>5, QuotientLess
<1>7. x \div b \notin D
  BY <1>2, <1>3, <1>6
<1>8. f[x \div b] = g[x \div b]
  BY <1>3, <1>6, <1>7
<1> QED BY <1>3, <1>4, <1>8

(* The digits of a number, the last one first: one step of the loop.         *)
LEMMA BackwardsIs ==
    ASSUME NEW b \in Nat \ {0, 1}, NEW n \in Nat
    PROVE  Output!Backwards(n, b) = IF n = 0 THEN <<>> ELSE <<n % b>> \o Output!Backwards(n \div b, b)
<1> DEFINE F(k) == CHOOSE f : DigitsOf(f, k, b)
<1>1. \A k \in Nat : DigitsOf(F(k), k, b)
  BY DigitsExist
<1>2. \A k \in Nat : Output!Backwards(k, b) = F(k)[k]
  BY DEF Output!Backwards, DigitsOf
<1> HIDE DEF F
<1>3. F(n)[n] = IF n = 0 THEN <<>> ELSE <<n % b>> \o F(n)[n \div b]
  <2>1. DigitsOf(F(n), n, b) /\ n \in 0 .. n
    BY <1>1
  <2> QED BY <2>1, DigitsAt
<1>4. CASE n = 0
  BY <1>2, <1>3, <1>4
<1>5. CASE n # 0
  <2>1. n \div b \in Nat /\ n \div b < n
    BY <1>5, QuotientLess
  <2> DEFINE q == n \div b
  <2>2. F(n)[q] = F(q)[q]
    <3>1. q \in Nat /\ q <= n /\ q <= q
      BY <2>1
    <3> HIDE DEF q
    <3>2. DigitsOf(F(n), n, b) /\ DigitsOf(F(q), q, b)
      BY <1>1, <3>1
    <3> QED BY <3>1, <3>2, DigitsAgree
  <2> QED BY <1>2, <1>3, <1>5, <2>1, <2>2
<1> QED BY <1>4, <1>5

(* The same for the number a sequence of digits stands for.                  *)
ValueOf(f, n, s, b) == f = [i \in 0 .. n |-> IF i = 0 THEN 0 ELSE f[i - 1] * b + s[i]]

LEMMA ValueAt ==
    ASSUME NEW f, NEW n, NEW s, NEW b, ValueOf(f, n, s, b), NEW i \in 0 .. n
    PROVE  f[i] = IF i = 0 THEN 0 ELSE f[i - 1] * b + s[i]
<1> DEFINE R == [j \in 0 .. n |-> IF j = 0 THEN 0 ELSE f[j - 1] * b + s[j]]
<1>1. f = R
  BY DEF ValueOf
<1>2. R[i] = IF i = 0 THEN 0 ELSE f[i - 1] * b + s[i]
  OBVIOUS
<1> HIDE DEF R
<1>3. f[i] = R[i]
  BY <1>1
<1> QED BY <1>2, <1>3

LEMMA ValueExists ==
    ASSUME NEW s, NEW b
    PROVE  \A n \in Nat : \E f : ValueOf(f, n, s, b)
<1> DEFINE N == {n \in Nat : \E f : ValueOf(f, n, s, b)}
<1>1. 0 \in N
  <2> DEFINE g == [i \in 0 .. 0 |-> 0]
  <2>1. g = [i \in 0 .. 0 |-> IF i = 0 THEN 0 ELSE g[i - 1] * b + s[i]]
    OBVIOUS
  <2> HIDE DEF g
  <2>2. ValueOf(g, 0, s, b)
    BY <2>1 DEF ValueOf
  <2> QED BY <2>2
<1>2. ASSUME NEW n \in N PROVE n + 1 \in N
  <2>1. PICK f : ValueOf(f, n, s, b)
    OBVIOUS
  <2> DEFINE g == [i \in 0 .. n + 1 |-> IF i = 0 THEN 0 ELSE f[i - 1] * b + s[i]]
  <2>2. \A i \in 0 .. n : g[i] = f[i]
    BY <2>1, ValueAt
  <2>3. \A i \in 0 .. n + 1 : i # 0 => g[i - 1] = f[i - 1]
    <3> HIDE DEF g
    <3> QED BY <2>2
  <2>4. g = [i \in 0 .. n + 1 |-> IF i = 0 THEN 0 ELSE g[i - 1] * b + s[i]]
    BY <2>3
  <2> HIDE DEF g
  <2>5. ValueOf(g, n + 1, s, b)
    BY <2>4 DEF ValueOf
  <2> QED BY <2>5
<1>3. N = Nat
  <2>1. N \in SUBSET Nat
    OBVIOUS
  <2> HIDE DEF N
  <2>2. \A n \in N : n + 1 \in N
    BY <1>2
  <2> QED BY <1>1, <2>1, <2>2, SetInduction
<1> QED BY <1>3

LEMMA ValuesAgree ==
    ASSUME NEW b, NEW s, NEW t, NEW m \in Nat, NEW n \in Nat, NEW f, NEW g, ValueOf(f, m, s, b), ValueOf(g, n, t, b),
           NEW k \in Nat, k <= m, k <= n, \A i \in 1 .. k : s[i] = t[i]
    PROVE  f[k] = g[k]
<1> DEFINE D == {x \in 0 .. k : f[x] # g[x]}
<1>1. SUFFICES ASSUME D # {} PROVE FALSE
  OBVIOUS
<1>2. PICK x \in D : \A y \in D : x <= y
  <2>1. D \in SUBSET Nat
    OBVIOUS
  <2> HIDE DEF D
  <2> QED BY <1>1, <2>1, LeastExists
<1>3. x \in 0 .. m /\ x \in 0 .. n /\ x \in 0 .. k /\ f[x] # g[x]
  OBVIOUS
<1>4. f[x] = (IF x = 0 THEN 0 ELSE f[x - 1] * b + s[x]) /\ g[x] = IF x = 0 THEN 0 ELSE g[x - 1] * b + t[x]
  BY <1>3, ValueAt
<1>5. x # 0
  BY <1>3, <1>4
<1>6. x - 1 \in 0 .. k /\ x - 1 \notin D
  BY <1>2, <1>3, <1>5
<1>7. f[x - 1] = g[x - 1]
  BY <1>6
<1> QED BY <1>3, <1>4, <1>5, <1>7

LEMMA ValueIs ==
    ASSUME NEW b, NEW s \in Seq(Nat)
    PROVE  /\ Output!Value(<<>>, b) = 0
           /\ \A d \in Nat : Output!Value(Append(s, d), b) = Output!Value(s, b) * b + d
<1> DEFINE F(t) == CHOOSE f : ValueOf(f, Len(t), t, b)
<1>1. \A t : Len(t) \in Nat => ValueOf(F(t), Len(t), t, b)
  BY ValueExists
<1>2. \A t : Output!Value(t, b) = F(t)[Len(t)]
  BY DEF Output!Value, ValueOf
<1> HIDE DEF F
<1>3. Output!Value(<<>>, b) = 0
  <2>1. Len(<<>>) = 0
    OBVIOUS
  <2>2. ValueOf(F(<<>>), 0, <<>>, b) /\ Output!Value(<<>>, b) = F(<<>>)[0]
    BY <1>1, <1>2, <2>1
  <2>3. 0 \in 0 .. 0
    OBVIOUS
  <2> QED BY <2>2, <2>3, ValueAt
<1>4. ASSUME NEW d \in Nat PROVE Output!Value(Append(s, d), b) = Output!Value(s, b) * b + d
  <2> DEFINE t == Append(s, d)
             k == Len(s)
  <2>1. Len(t) = k + 1 /\ k \in Nat /\ t[k + 1] = d /\ \A i \in 1 .. k : s[i] = t[i]
    OBVIOUS
  <2> HIDE DEF t, k
  <2>2. ValueOf(F(t), k + 1, t, b) /\ Output!Value(t, b) = F(t)[k + 1]
    BY <1>1, <1>2, <2>1
  <2>3. ValueOf(F(s), k, s, b) /\ Output!Value(s, b) = F(s)[k]
    BY <1>1, <1>2, <2>1 DEF k
  <2>4. k + 1 \in 0 .. k + 1 /\ k + 1 # 0 /\ (k + 1) - 1 = k
    BY <2>1
  <2>5. F(t)[k + 1] = F(t)[k] * b + d
    <3>1. F(t)[k + 1] = F(t)[(k + 1) - 1] * b + t[k + 1]
      BY <2>2, <2>4, ValueAt
    <3> QED BY <3>1, <2>1, <2>4
  <2>6. F(t)[k] = F(s)[k]
    <3>1. k <= k + 1 /\ k <= k /\ k + 1 \in Nat
      BY <2>1
    <3>2. \A i \in 1 .. k : t[i] = s[i]
      BY <2>1
    <3> QED BY <2>1, <2>2, <2>3, <3>1, <3>2, ValuesAgree
  <2> QED BY <2>2, <2>3, <2>5, <2>6 DEF t
<1> QED BY <1>3, <1>4

LEMMA ReverseIs ==
    ASSUME NEW t \in Seq(Nat)
    PROVE  /\ Reverse(t) \in Seq(Nat) /\ Len(Reverse(t)) = Len(t)
           /\ \A i \in 1 .. Len(t) : Reverse(t)[i] = t[Len(t) - i + 1]
<1>1. Reverse(t) = [i \in 1 .. Len(t) |-> t[(Len(t) - i) + 1]]
  BY DEF Output!Reverse, Reverse
<1>2. Len(t) \in Nat /\ \A i \in 1 .. Len(t) : (Len(t) - i) + 1 \in 1 .. Len(t)
  OBVIOUS
<1>3. \A i \in 1 .. Len(t) : t[(Len(t) - i) + 1] \in Nat
  BY <1>2
<1>4. Reverse(t) \in [1 .. Len(t) -> Nat]
  BY <1>1, <1>3
<1>5. Reverse(t) \in Seq(Nat) /\ Len(Reverse(t)) = Len(t)
  BY <1>2, <1>4
<1> QED BY <1>1, <1>5

LEMMA ReverseCons ==
    ASSUME NEW t \in Seq(Nat), NEW d \in Nat
    PROVE  /\ <<d>> \o t \in Seq(Nat) /\ Len(<<d>> \o t) = Len(t) + 1
           /\ \A i \in 1 .. Len(t) : (<<d>> \o t)[i + 1] = t[i]
           /\ Reverse(<<d>> \o t) = Append(Reverse(t), d)
<1> DEFINE u == <<d>> \o t
           k == Len(t)
           r == Reverse(t)
           a == Append(r, d)
<1>1. u \in Seq(Nat) /\ Len(u) = k + 1 /\ u[1] = d /\ (\A i \in 1 .. k : u[i + 1] = t[i]) /\ k \in Nat
  OBVIOUS
<1>2. r \in Seq(Nat) /\ Len(r) = k /\ \A i \in 1 .. k : r[i] = t[k - i + 1]
  BY ReverseIs
<1> HIDE DEF r
<1>3. a \in Seq(Nat) /\ Len(a) = k + 1 /\ a[k + 1] = d /\ \A i \in 1 .. k : a[i] = r[i]
  BY <1>1, <1>2
<1> HIDE DEF u, a, k
<1>4. Reverse(u) \in Seq(Nat) /\ Len(Reverse(u)) = k + 1 /\ \A i \in 1 .. k + 1 : Reverse(u)[i] = u[k + 1 - i + 1]
  <2>1. /\ Reverse(u) \in Seq(Nat) /\ Len(Reverse(u)) = Len(u)
        /\ \A i \in 1 .. Len(u) : Reverse(u)[i] = u[Len(u) - i + 1]
    BY <1>1, ReverseIs
  <2> QED BY <1>1, <2>1
<1>5. ASSUME NEW i \in 1 .. k + 1 PROVE Reverse(u)[i] = a[i]
  <2>1. CASE i = k + 1
    BY <1>1, <1>3, <1>4, <2>1
  <2>2. CASE i \in 1 .. k
    <3>1. k - i + 1 \in 1 .. k /\ k + 1 - i + 1 = (k - i + 1) + 1
      BY <1>1, <2>2
    <3>2. Reverse(u)[i] = u[(k - i + 1) + 1]
      BY <1>4, <3>1
    <3>3. u[(k - i + 1) + 1] = t[k - i + 1]
      BY <1>1, <3>1
    <3> QED BY <1>2, <1>3, <2>2, <3>2, <3>3
  <2> QED BY <1>1, <2>1, <2>2
<1>6. Reverse(u) = a
  BY <1>1, <1>3, <1>4, <1>5, SeqEqual
<1> QED BY <1>1, <1>6 DEF u, a, r, k

(* The digits of a number read back as the number, and the first is not 0.    *)
LEMMA BackwardsReadsBack ==
    ASSUME NEW b \in Nat \ {0, 1}
    PROVE  \A n \in Nat : LET t == Output!Backwards(n, b)
                          IN  /\ t \in Seq(Nat) /\ Output!Value(Reverse(t), b) = n
                              /\ n # 0 => Len(t) # 0 /\ t[Len(t)] # 0
<1> DEFINE B(n) == Output!Backwards(n, b)
           Good(n) == /\ B(n) \in Seq(Nat) /\ Output!Value(Reverse(B(n)), b) = n
                      /\ n # 0 => Len(B(n)) # 0 /\ B(n)[Len(B(n))] # 0
           D == {n \in Nat : ~ Good(n)}
<1>1. SUFFICES ASSUME D # {} PROVE FALSE
  OBVIOUS
<1>2. PICK n \in D : \A m \in D : n <= m
  <2>1. D \in SUBSET Nat
    OBVIOUS
  <2> HIDE DEF D
  <2> QED BY <1>1, <2>1, LeastExists
<1>3. n \in Nat /\ ~ Good(n) /\ \A m \in Nat : m < n => Good(m)
  <2> HIDE DEF Good
  <2> QED BY <1>2
<1>4. B(n) = IF n = 0 THEN <<>> ELSE <<n % b>> \o B(n \div b)
  BY <1>3, BackwardsIs
<1> HIDE DEF D, B
<1>5. CASE n = 0
  <2>1. B(n) = <<>> /\ <<>> \in Seq(Nat) /\ Len(<<>>) = 0
    BY <1>4, <1>5
  <2>2. Reverse(<<>>) = <<>>
    <3>1. Reverse(<<>>) \in Seq(Nat) /\ Len(Reverse(<<>>)) = 0
      BY <2>1, ReverseIs
    <3> QED BY <3>1
  <2>3. Output!Value(<<>>, b) = 0
    BY <2>1, ValueIs
  <2> QED BY <1>3, <1>5, <2>1, <2>2, <2>3
<1>6. CASE n # 0
  <2> DEFINE q == n \div b
             d == n % b
             t == B(q)
  <2>1. n = b * q + d /\ d \in 0 .. b - 1 /\ q \in Nat /\ q < n
    BY <1>3, <1>6, Digit, QuotientLess
  <2>2. B(n) = <<d>> \o t
    BY <1>4, <1>6
  <2> HIDE DEF q, d
  <2>3. Good(q)
    <3> HIDE DEF Good
    <3> QED BY <1>3, <2>1
  <2>4. t \in Seq(Nat) /\ Output!Value(Reverse(t), b) = q /\ (q # 0 => Len(t) # 0 /\ t[Len(t)] # 0) /\ d \in Nat
    BY <2>1, <2>3
  <2> HIDE DEF t
  <2>5. /\ B(n) \in Seq(Nat) /\ Len(B(n)) = Len(t) + 1
        /\ \A i \in 1 .. Len(t) : B(n)[i + 1] = t[i]
        /\ Reverse(B(n)) = Append(Reverse(t), d)
    BY <2>2, <2>4, ReverseCons
  <2>6. Output!Value(Reverse(B(n)), b) = n
    <3>1. Reverse(t) \in Seq(Nat)
      BY <2>4, ReverseIs
    <3>2. Output!Value(Append(Reverse(t), d), b) = q * b + d
      BY <2>4, <3>1, ValueIs
    <3>3. q * b = b * q
      BY <2>1, ProductLaws
    <3> QED BY <2>1, <2>5, <3>2, <3>3
  <2>7. Len(B(n)) # 0 /\ B(n)[Len(B(n))] # 0
    <3>1. CASE q = 0
      <4>1. b * 0 = 0
        OBVIOUS
      <4>2. d = n
        BY <2>1, <3>1, <4>1
      <4>3. t = <<>>
        <5>1. B(0) = <<>>
          BY BackwardsIs DEF B
        <5> QED BY <3>1, <5>1 DEF t
      <4>4. Len(t) = 0
        BY <4>3
      <4>5. B(n)[1] = d
        BY <2>2, <2>4
      <4> QED BY <1>6, <2>5, <4>2, <4>4, <4>5
    <3>2. CASE q # 0
      <4>1. Len(t) \in 1 .. Len(t) /\ Len(t) \in Nat /\ Len(t) + 1 # 0
        BY <2>4, <3>2
      <4>2. B(n)[Len(t) + 1] = t[Len(t)]
        BY <2>5, <4>1, Zenon
      <4>3. t[Len(t)] # 0
        BY <2>4, <3>2
      <4> QED BY <2>5, <4>1, <4>2, <4>3, Zenon
    <3> QED BY <3>1, <3>2
  <2> QED BY <1>3, <2>5, <2>6, <2>7
<1> QED BY <1>5, <1>6

LEMMA NumberReadsBack ==
    ASSUME NEW b \in Nat \ {0, 1}, NEW n \in Nat
    PROVE  LET s == Output!uint_to_str(n, b)
           IN  s \in Seq(Nat) /\ Output!Value(s, b) = n /\ (s[1] = 0 => Len(s) = 1)
<1>1. CASE n = 0
  <2>1. Output!uint_to_str(n, b) = <<0>>
    BY <1>1 DEF Output!uint_to_str
  <2>2. <<0>> = Append(<<>>, 0) /\ <<>> \in Seq(Nat) /\ Len(<<0>>) = 1 /\ <<0>> \in Seq(Nat)
    OBVIOUS
  <2>3. Output!Value(Append(<<>>, 0), b) = Output!Value(<<>>, b) * b + 0 /\ Output!Value(<<>>, b) = 0
    BY <2>2, ValueIs
  <2>4. 0 * b + 0 = 0
    OBVIOUS
  <2> QED BY <1>1, <2>1, <2>2, <2>3, <2>4
<1>2. CASE n # 0
  <2> DEFINE t == Output!Backwards(n, b)
             r == Reverse(t)
  <2>1. Output!uint_to_str(n, b) = r
    BY <1>2 DEF Output!uint_to_str, Output!Reverse, Reverse
  <2>2. t \in Seq(Nat) /\ Output!Value(r, b) = n /\ Len(t) # 0 /\ t[Len(t)] # 0
    BY <1>2, BackwardsReadsBack
  <2>3. r \in Seq(Nat) /\ r[1] = t[Len(t)]
    <3> HIDE DEF t
    <3>1. Len(t) \in Nat /\ 1 \in 1 .. Len(t) /\ Len(t) - 1 + 1 = Len(t)
      BY <2>2
    <3>2. r \in Seq(Nat) /\ r[1] = t[Len(t) - 1 + 1]
      BY <2>2, <3>1, ReverseIs
    <3> QED BY <3>1, <3>2
  <2> HIDE DEF r, t
  <2> QED BY <2>1, <2>2, <2>3
<1> QED BY <1>1, <1>2

(* The text a format stands for, from a position and an argument on.          *)
Glyphs == STRING \cup Int \cup {Output!MINUS, Output!PERCENT, "0", "x"}
TextStep(f, i) ==
    [a \in Nat |->
        IF i > Len(fmt) \/ (i = Len(fmt) /\ fmt[i] = Output!PERCENT) THEN <<>>
        ELSE IF fmt[i] # Output!PERCENT THEN <<fmt[i]>> \o f[i + 1][a]
        ELSE Output!Expansion(fmt[i + 1], args[a]) \o f[i + 2][IF Output!Takes(fmt[i + 1]) THEN a + 1 ELSE a]]
IsText(f) == f = [i \in 1 .. Len(fmt) + 2 |-> TextStep(f, i)]
Text == CHOOSE f : IsText(f)

LEMMA TextStepSame ==
    ASSUME fmt \in Seq(STRING), NEW f, NEW g, NEW i \in 1 .. Len(fmt) + 2,
           \A j \in i + 1 .. Len(fmt) + 2 : f[j] = g[j]
    PROVE  TextStep(f, i) = TextStep(g, i)
<1>1. Len(fmt) \in Nat
  OBVIOUS
<1>2. i <= Len(fmt) => f[i + 1] = g[i + 1]
  BY <1>1
<1>3. i < Len(fmt) => f[i + 2] = g[i + 2]
  BY <1>1
<1>4. i > Len(fmt) \/ i = Len(fmt) \/ i < Len(fmt)
  BY <1>1
<1>5. CASE i > Len(fmt)
  BY <1>5 DEF TextStep
<1>6. CASE i = Len(fmt)
  <2>1. ~ (i > Len(fmt))
    BY <1>1, <1>6
  <2>2. CASE fmt[i] = Output!PERCENT
    BY <1>6, <2>2 DEF TextStep
  <2>3. CASE fmt[i] # Output!PERCENT
    BY <1>1, <1>2, <1>6, <2>1, <2>3 DEF TextStep
  <2> QED BY <2>2, <2>3
<1>7. CASE i < Len(fmt)
  <2>1. f[i + 1] = g[i + 1] /\ f[i + 2] = g[i + 2]
    BY <1>1, <1>2, <1>3, <1>7
  <2> QED BY <2>1 DEF TextStep
<1> QED BY <1>4, <1>5, <1>6, <1>7

LEMMA TextExists ==
    ASSUME fmt \in Seq(STRING)
    PROVE  IsText(Text)
<1> DEFINE L == Len(fmt) + 2
           From(f, k) == f = [i \in 1 .. L |-> f[i]] /\ \A i \in k .. L : f[i] = TextStep(f, i)
           N == {n \in Nat : \E f : n <= L => From(f, L + 1 - n)}
<1>1. L \in Nat /\ L >= 2
  OBVIOUS
<1> HIDE DEF L
<1>2. 0 \in N
  <2> DEFINE g == [i \in 1 .. L |-> 0]
  <2>1. g = [i \in 1 .. L |-> g[i]] /\ \A i \in L + 1 - 0 .. L : FALSE
    BY <1>1
  <2> HIDE DEF g
  <2>2. From(g, L + 1 - 0)
    BY <2>1
  <2> HIDE DEF From
  <2> QED BY <2>2
<1>3. ASSUME NEW n \in N PROVE n + 1 \in N
  <2>1. CASE ~ (n + 1 <= L)
    BY <2>1
  <2>2. CASE n + 1 <= L
    <3>1. PICK f : From(f, L + 1 - n)
      <4> HIDE DEF From
      <4> QED BY <1>1, <2>2
    <3> DEFINE k == L + 1 - (n + 1)
               g == [f EXCEPT ![k] = TextStep(f, k)]
    <3>2. k \in 1 .. L /\ k + 1 = L + 1 - n
      BY <1>1, <2>2
    <3> HIDE DEF k
    <3>3. DOMAIN f = 1 .. L
      <4> DEFINE R == [i \in 1 .. L |-> f[i]]
      <4>1. f = R /\ DOMAIN R = 1 .. L
        BY <3>1
      <4> HIDE DEF R
      <4> QED BY <4>1
    <3>4. g = [i \in 1 .. L |-> g[i]] /\ g[k] = TextStep(f, k) /\ \A i \in k + 1 .. L : g[i] = f[i]
      <4>1. g = [i \in 1 .. L |-> IF i = k THEN TextStep(f, k) ELSE f[i]]
        BY <3>3
      <4> DEFINE R == [i \in 1 .. L |-> IF i = k THEN TextStep(f, k) ELSE f[i]]
      <4>2. R = [i \in 1 .. L |-> R[i]] /\ R[k] = TextStep(f, k) /\ \A i \in k + 1 .. L : R[i] = f[i]
        BY <1>1, <3>2
      <4>3. g = R
        BY <4>1
      <4> HIDE DEF R, g
      <4> QED BY <4>2, <4>3
    <3> HIDE DEF g
    <3>5. ASSUME NEW i \in k .. L PROVE g[i] = TextStep(g, i)
      <4>1. i \in 1 .. L /\ \A j \in i + 1 .. L : f[j] = g[j]
        <5>1. \A j \in i + 1 .. L : j \in k + 1 .. L
          BY <1>1, <3>2
        <5>2. i \in 1 .. L
          BY <1>1, <3>2
        <5>3. \A j \in k + 1 .. L : g[j] = f[j]
          BY <3>4
        <5> QED BY <5>1, <5>2, <5>3
      <4>2. TextStep(f, i) = TextStep(g, i)
        BY <4>1, TextStepSame DEF L
      <4>3. CASE i = k
        BY <3>4, <4>2, <4>3
      <4>4. CASE i # k
        <5>1. i \in k + 1 .. L
          BY <1>1, <3>2, <4>4
        <5> QED BY <3>1, <3>2, <3>4, <4>2, <5>1
      <4> QED BY <4>3, <4>4
    <3>6. From(g, L + 1 - (n + 1))
      BY <3>4, <3>5 DEF k
    <3> HIDE DEF From
    <3> QED BY <3>6
  <2> QED BY <2>1, <2>2
<1>4. N = Nat
  <2>1. N \in SUBSET Nat
    OBVIOUS
  <2> HIDE DEF N
  <2>2. \A n \in N : n + 1 \in N
    BY <1>3
  <2> QED BY <1>2, <2>1, <2>2, SetInduction
<1>5. L \in N
  BY <1>1, <1>4
<1>6. PICK f : From(f, L + 1 - L)
  <2> HIDE DEF From
  <2> QED BY <1>1, <1>5
<1>7. f = [i \in 1 .. L |-> f[i]] /\ \A i \in 1 .. L : f[i] = TextStep(f, i)
  <2>1. L + 1 - L = 1
    BY <1>1
  <2> QED BY <1>6, <2>1
<1>8. f = [i \in 1 .. L |-> TextStep(f, i)]
  BY <1>7
<1> QED BY <1>8 DEF Text, IsText, L

(* The text from a position on, case by case.                                 *)
LEMMA TextIs ==
    ASSUME fmt \in Seq(STRING), NEW i \in 1 .. Len(fmt) + 2, NEW a \in Nat
    PROVE  /\ i > Len(fmt) \/ (i = Len(fmt) /\ fmt[i] = Output!PERCENT) => Text[i][a] = <<>>
           /\ i <= Len(fmt) /\ fmt[i] # Output!PERCENT => Text[i][a] = <<fmt[i]>> \o Text[i + 1][a]
           /\ i < Len(fmt) /\ fmt[i] = Output!PERCENT =>
                Text[i][a] = Output!Expansion(fmt[i + 1], args[a])
                             \o Text[i + 2][IF Output!Takes(fmt[i + 1]) THEN a + 1 ELSE a]
<1> DEFINE R == [j \in 1 .. Len(fmt) + 2 |-> TextStep(Text, j)]
<1>1. Text = R /\ R[i] = TextStep(Text, i)
  BY TextExists DEF IsText
<1> HIDE DEF R
<1>2. Text[i] = TextStep(Text, i)
  BY <1>1
<1>3. Len(fmt) \in Nat
  OBVIOUS
<1>4. Text[i][a] = IF i > Len(fmt) \/ (i = Len(fmt) /\ fmt[i] = Output!PERCENT) THEN <<>>
                   ELSE IF fmt[i] # Output!PERCENT THEN <<fmt[i]>> \o Text[i + 1][a]
                   ELSE Output!Expansion(fmt[i + 1], args[a]) \o Text[i + 2][IF Output!Takes(fmt[i + 1]) THEN a + 1 ELSE a]
  <2> DEFINE S == TextStep(Text, i)
  <2>1. S[a] = IF i > Len(fmt) \/ (i = Len(fmt) /\ fmt[i] = Output!PERCENT) THEN <<>>
               ELSE IF fmt[i] # Output!PERCENT THEN <<fmt[i]>> \o Text[i + 1][a]
               ELSE Output!Expansion(fmt[i + 1], args[a]) \o Text[i + 2][IF Output!Takes(fmt[i + 1]) THEN a + 1 ELSE a]
    BY DEF TextStep
  <2> HIDE DEF S
  <2>2. Text[i][a] = S[a]
    BY <1>2 DEF S
  <2> QED BY <2>1, <2>2
<1>5. /\ i > Len(fmt) => ~ (i <= Len(fmt)) /\ ~ (i < Len(fmt))
      /\ i < Len(fmt) => ~ (i > Len(fmt)) /\ i # Len(fmt) /\ i <= Len(fmt)
      /\ i <= Len(fmt) => ~ (i > Len(fmt))
  BY <1>3
<1>6. i > Len(fmt) \/ (i = Len(fmt) /\ fmt[i] = Output!PERCENT) => Text[i][a] = <<>>
  BY <1>4
<1>7. i <= Len(fmt) /\ fmt[i] # Output!PERCENT => Text[i][a] = <<fmt[i]>> \o Text[i + 1][a]
  BY <1>4, <1>5
<1>8. i < Len(fmt) /\ fmt[i] = Output!PERCENT =>
          Text[i][a] = Output!Expansion(fmt[i + 1], args[a]) \o Text[i + 2][IF Output!Takes(fmt[i + 1]) THEN a + 1 ELSE a]
  BY <1>4, <1>5
<1> QED BY <1>6, <1>7, <1>8

LEMMA FullIs ==
    Output!Full = Text[1][1]
BY DEF Output!Full, Text, IsText, TextStep

(* What a specifier stands for is characters.                                *)
LEMMA ExpansionIs ==
    ASSUME NEW spec \in STRING, NEW x, Output!Takes(spec) => x \in [s : Strings, n : Ints]
    PROVE  Output!Expansion(spec, x) \in Seq(Glyphs)
<1>1. \A t \in Seq(Nat) : t \in Seq(Glyphs)
  BY DEF Glyphs
<1>2. \A n \in Nat, b \in {10, 16} : Output!uint_to_str(n, b) \in Seq(Glyphs)
  BY <1>1, NumberReadsBack
<1>3. \A n \in Int : Output!Unsigned(n) \in Nat
  <2>1. 2 ^ W \in Nat \ {0}
    BY PrintfAssumption
  <2> QED BY <2>1 DEF Output!Unsigned
<1>4. \A n \in Int : Output!int_to_str(n) \in Seq(Glyphs)
  <2> SUFFICES ASSUME NEW n \in Int PROVE Output!int_to_str(n) \in Seq(Glyphs)
    OBVIOUS
  <2>1. CASE n < 0
    <3> DEFINE u == Output!uint_to_str(-n, 10)
    <3>1. -n \in Nat
      BY <2>1
    <3>2. u \in Seq(Glyphs) /\ Output!MINUS \in Glyphs
      <4>1. Output!MINUS \in Glyphs
        BY DEF Glyphs
      <4> QED BY <1>2, <3>1, <4>1
    <3>3. Output!int_to_str(n) = <<Output!MINUS>> \o u
      BY <2>1 DEF Output!int_to_str
    <3> HIDE DEF u
    <3> QED BY <3>2, <3>3
  <2>2. CASE n >= 0
    BY <1>2, <2>2 DEF Output!int_to_str
  <2> QED BY <2>1, <2>2
<1>5. \A s \in Strings : s \in Seq(Glyphs)
  BY PrintfAssumption DEF Glyphs
<1>6. CASE ~ Output!Takes(spec)
  <2>1. spec \in Glyphs /\ Output!PERCENT \in Glyphs
    BY DEF Glyphs
  <2>2. Output!Expansion(spec, x) = IF spec = Output!PERCENT THEN <<Output!PERCENT>> ELSE <<Output!PERCENT, spec>>
    BY <1>6 DEF Output!Expansion, Output!Takes, Output!Numbers, Output!Chars, Output!PERCENT
  <2> QED BY <2>1, <2>2
<1>7. CASE Output!Takes(spec)
  <2>1. x.s \in Strings /\ x.n \in Int
    BY <1>7, PrintfAssumption
  <2>2. CASE spec = "s"
    BY <1>5, <2>1, <2>2 DEF Output!Expansion, Output!Chars, Output!PERCENT
  <2>3. CASE spec \in {"d", "i"}
    BY <1>4, <2>1, <2>3 DEF Output!Expansion, Output!Chars, Output!PERCENT
  <2>4. CASE spec = "u"
    BY <1>2, <1>3, <2>1, <2>4 DEF Output!Expansion, Output!Chars, Output!PERCENT
  <2>5. CASE spec \in {"x", "X"}
    BY <1>2, <1>3, <2>1, <2>5 DEF Output!Expansion, Output!Chars, Output!PERCENT
  <2>6. CASE spec = "p"
    <3> DEFINE u == Output!uint_to_str(Output!Unsigned(x.n), 16)
    <3>1. u \in Seq(Glyphs) /\ "0" \in Glyphs /\ "x" \in Glyphs
      <4>1. "0" \in Glyphs /\ "x" \in Glyphs
        BY DEF Glyphs
      <4> QED BY <1>2, <1>3, <2>1, <4>1
    <3>2. Output!Expansion(spec, x) = <<"0", "x">> \o u
      BY <2>6 DEF Output!Expansion, Output!Chars, Output!PERCENT
    <3> HIDE DEF u
    <3> QED BY <3>1, <3>2
  <2>7. CASE spec = "c"
    BY <2>1, <2>7 DEF Output!Expansion, Output!Chars, Output!PERCENT, Glyphs
  <2> QED BY <1>7, <2>2, <2>3, <2>4, <2>5, <2>6, <2>7 DEF Output!Takes, Output!Numbers, Output!Chars
<1> QED BY <1>6, <1>7

(* The specifiers that still take an argument, for which there are enough.    *)
Left(i) == {k \in i .. Len(fmt) - 1 : fmt[k] = Output!PERCENT /\ Output!Takes(fmt[k + 1])}
Fits(i, a) == a \in Nat \ {0} /\ a + Cardinality(Left(i)) <= ArgCount + 1

LEMMA FitsNext ==
    ASSUME fmt \in Seq(STRING), args \in [1 .. ArgCount -> [s : Strings, n : Ints]],
           NEW i \in 1 .. Len(fmt), NEW a, Fits(i, a)
    PROVE  /\ Fits(i + 1, a)
           /\ i < Len(fmt) /\ fmt[i] = Output!PERCENT =>
                /\ Fits(i + 2, IF Output!Takes(fmt[i + 1]) THEN a + 1 ELSE a)
                /\ Output!Expansion(fmt[i + 1], args[a]) \in Seq(Glyphs)
<1>0. ArgCount \in Nat
  BY PrintfAssumption
<1>1. Len(fmt) \in Nat /\ i \in Nat /\ a \in Nat \ {0} /\ \A k \in 1 .. Len(fmt) : fmt[k] \in STRING
  BY DEF Fits
<1>2. IsFiniteSet(Left(i)) /\ Cardinality(Left(i)) \in Nat
  <2>1. Left(i) \subseteq i .. Len(fmt) - 1 /\ IsFiniteSet(i .. Len(fmt) - 1)
    <3>1. i \in Int /\ Len(fmt) - 1 \in Int
      BY <1>1
    <3> QED BY <3>1, FS_Interval DEF Left
  <2> QED BY <2>1, FS_Subset, FS_CardinalityType
<1>3. \A S \in SUBSET Left(i) : IsFiniteSet(S) /\ Cardinality(S) \in Nat /\ Cardinality(S) <= Cardinality(Left(i))
  BY <1>2, FS_Subset, FS_CardinalityType
<1>4. Left(i + 1) \in SUBSET Left(i) /\ Left(i + 2) \in SUBSET Left(i) /\ i \notin Left(i + 2)
  BY <1>1 DEF Left
<1>5. Fits(i + 1, a)
  BY <1>1, <1>2, <1>3, <1>4, <1>0 DEF Fits
<1>6. ASSUME i < Len(fmt), fmt[i] = Output!PERCENT
      PROVE  /\ Fits(i + 2, IF Output!Takes(fmt[i + 1]) THEN a + 1 ELSE a)
             /\ Output!Expansion(fmt[i + 1], args[a]) \in Seq(Glyphs)
  <2>1. fmt[i + 1] \in STRING
    BY <1>1, <1>6
  <2>2. CASE ~ Output!Takes(fmt[i + 1])
    <3>1. Fits(i + 2, a)
      BY <1>1, <1>2, <1>3, <1>4, <1>0 DEF Fits
    <3> QED BY <2>1, <2>2, <3>1, ExpansionIs
  <2>3. CASE Output!Takes(fmt[i + 1])
    <3>1. i \in Left(i)
      BY <1>1, <1>6, <2>3 DEF Left
    <3>2. Cardinality(Left(i) \ {i}) = Cardinality(Left(i)) - 1 /\ IsFiniteSet(Left(i) \ {i})
      BY <1>2, <3>1, FS_RemoveElement
    <3>3. Left(i + 2) \subseteq Left(i) \ {i}
      BY <1>4
    <3>4. Cardinality(Left(i + 2)) <= Cardinality(Left(i)) - 1 /\ Cardinality(Left(i + 2)) \in Nat
      BY <1>3, <1>4, <3>2, <3>3, FS_Subset
    <3>5. Fits(i + 2, a + 1) /\ a \in 1 .. ArgCount
      BY <1>1, <1>2, <3>4, <1>0 DEF Fits
    <3>6. args[a] \in [s : Strings, n : Ints]
      BY <3>5
    <3> QED BY <2>1, <2>3, <3>5, <3>6, ExpansionIs
  <2> QED BY <2>2, <2>3
<1> QED BY <1>5, <1>6

LEMMA TextTyped ==
    ASSUME fmt \in Seq(STRING), args \in [1 .. ArgCount -> [s : Strings, n : Ints]]
    PROVE  \A i \in 1 .. Len(fmt) + 2 : \A a \in Nat : Fits(i, a) => Text[i][a] \in Seq(Glyphs)
<1> DEFINE L == Len(fmt) + 2
           Good(i) == \A a \in Nat : Fits(i, a) => Text[i][a] \in Seq(Glyphs)
           D == {n \in 0 .. L - 1 : ~ Good(L - n)}
<1>1. L \in Nat /\ L >= 2 /\ Len(fmt) = L - 2 /\ \A k \in 1 .. Len(fmt) : fmt[k] \in STRING
  OBVIOUS
<1> HIDE DEF L, Good
<1>2. D = {}
  <2>1. SUFFICES ASSUME D # {} PROVE FALSE
    OBVIOUS
  <2>2. PICK n \in D : \A m \in D : n <= m
    <3>1. D \in SUBSET Nat
      BY <1>1
    <3> HIDE DEF D
    <3> QED BY <2>1, <3>1, LeastExists
  <2> DEFINE i == L - n
  <2>3. i \in 1 .. L /\ ~ Good(i) /\ \A j \in i + 1 .. L : Good(j)
    <3>1. n \in 0 .. L - 1 /\ ~ Good(L - n)
      BY <1>1
    <3>2. ASSUME NEW j \in i + 1 .. L PROVE Good(j)
      <4>1. L - j \in 0 .. L - 1 /\ L - j < n /\ L - (L - j) = j
        BY <1>1, <3>1
      <4>2. L - j \notin D
        <5> HIDE DEF D
        <5>1. L - j \in D => n <= L - j
          BY <2>2
        <5>2. n \in Int /\ L - j \in Int
          BY <3>1, <4>1
        <5> QED BY <4>1, <5>1, <5>2
      <4> QED BY <4>1, <4>2
    <3> QED BY <1>1, <3>1, <3>2
  <2> HIDE DEF i, D
  <2>4. PICK a \in Nat : Fits(i, a) /\ Text[i][a] \notin Seq(Glyphs)
    BY <2>3 DEF Good
  <2>5. i \in Nat /\ a \in Nat
    BY <1>1, <2>3
  <2>6. /\ i > Len(fmt) \/ (i = Len(fmt) /\ fmt[i] = Output!PERCENT) => Text[i][a] = <<>>
        /\ i <= Len(fmt) /\ fmt[i] # Output!PERCENT => Text[i][a] = <<fmt[i]>> \o Text[i + 1][a]
        /\ i < Len(fmt) /\ fmt[i] = Output!PERCENT =>
             Text[i][a] = Output!Expansion(fmt[i + 1], args[a]) \o Text[i + 2][IF Output!Takes(fmt[i + 1]) THEN a + 1 ELSE a]
    BY <1>1, <2>3, TextIs DEF L
  <2>7. CASE i > Len(fmt) \/ (i = Len(fmt) /\ fmt[i] = Output!PERCENT)
    <3>1. <<>> \in Seq(Glyphs)
      OBVIOUS
    <3>2. Text[i][a] = <<>>
      BY <2>6, <2>7
    <3> QED BY <2>4, <3>1, <3>2
  <2>8. CASE i <= Len(fmt) /\ fmt[i] # Output!PERCENT
    <3>1. Fits(i + 1, a) /\ i + 1 \in i + 1 .. L /\ fmt[i] \in Glyphs
      BY <1>1, <2>3, <2>4, <2>5, <2>8, FitsNext DEF Glyphs
    <3>2. Text[i + 1][a] \in Seq(Glyphs)
      BY <2>3, <2>5, <3>1 DEF Good
    <3> DEFINE t == Text[i + 1][a]
               c == fmt[i]
    <3>3. t \in Seq(Glyphs) /\ c \in Glyphs /\ Text[i][a] = <<c>> \o t
      BY <2>6, <2>8, <3>1, <3>2
    <3> HIDE DEF t, c
    <3> QED BY <2>4, <3>3
  <2>9. CASE i < Len(fmt) /\ fmt[i] = Output!PERCENT
    <3> DEFINE b == IF Output!Takes(fmt[i + 1]) THEN a + 1 ELSE a
               e == Output!Expansion(fmt[i + 1], args[a])
               t == Text[i + 2][b]
    <3>1. i \in 1 .. Len(fmt)
      BY <1>1, <2>3, <2>9
    <3>2. Fits(i + 2, b) /\ e \in Seq(Glyphs)
      BY <2>4, <2>9, <3>1, FitsNext
    <3>3. b \in Nat /\ i + 2 \in i + 1 .. L
      BY <1>1, <2>5, <2>9
    <3>4. Text[i][a] = e \o t
      BY <2>6, <2>9
    <3> HIDE DEF b, e
    <3>5. t \in Seq(Glyphs)
      BY <2>3, <3>2, <3>3 DEF Good
    <3> HIDE DEF t
    <3> QED BY <2>4, <3>2, <3>4, <3>5
  <2> QED BY <1>1, <2>5, <2>7, <2>8, <2>9
<1>3. ASSUME NEW i \in 1 .. L PROVE Good(i)
  <2>1. L - i \in 0 .. L - 1 /\ L - (L - i) = i
    BY <1>1
  <2> QED BY <1>2, <2>1
<1> QED BY <1>3 DEF L, Good

(* Cutting a text behind what is already written.                             *)
LEMMA CutBehind ==
    ASSUME NEW G, NEW b \in Seq(G), NEW t \in Seq(G)
    PROVE  /\ b \o t \in Seq(G) /\ Len(b \o t) = Len(b) + Len(t)
           /\ SubSeq(b \o t, 1, Len(b)) = b
<1> DEFINE u == SubSeq(b \o t, 1, Len(b))
<1>1. b \o t \in Seq(G) /\ Len(b \o t) = Len(b) + Len(t) /\ Len(b) \in Nat /\ Len(t) \in Nat
  OBVIOUS
<1>2. \A i \in 1 .. Len(b) : (b \o t)[i] = b[i]
  OBVIOUS
<1> DEFINE c == b \o t
           n == Len(b)
<1> HIDE DEF c, n
<1>3. c \in Seq(G) /\ n \in Nat /\ n <= Len(c)
  BY <1>1 DEF c, n
<1>4. SubSeq(c, 1, n) \in Seq(G) /\ Len(SubSeq(c, 1, n)) = n /\ \A i \in 1 .. n : SubSeq(c, 1, n)[i] = c[i]
  BY <1>3
<1>5. SubSeq(c, 1, n) = b
  BY <1>2, <1>4, SeqEqual DEF c, n
<1> QED BY <1>1, <1>5 DEF c, n

(* What is cut m glyphs into e is what precedes e and e's first m.          *)
CutInto(G, b, e, t, m) ==
    /\ SubSeq(e, 1, m) \in Seq(G) /\ Len(SubSeq(e, 1, m)) = m
    /\ b \o (e \o t) \in Seq(G) /\ Len(b \o (e \o t)) >= Len(b) + m
    /\ SubSeq(b \o (e \o t), 1, Len(b) + m) = b \o SubSeq(e, 1, m)

LEMMA CutWithin ==
    ASSUME NEW G, NEW b \in Seq(G), NEW e \in Seq(G), NEW t \in Seq(G), NEW m \in 0 .. Len(e)
    PROVE  CutInto(G, b, e, t, m)
<1> USE DEF CutInto
<1> DEFINE s == SubSeq(e, 1, m)
           r == SubSeq(e, m + 1, Len(e))
<1>1. m \in Nat /\ Len(e) \in Nat /\ m <= Len(e)
  OBVIOUS
<1>2. s \in Seq(G) /\ Len(s) = m /\ \A i \in 1 .. m : s[i] = e[i]
  BY <1>1
<1>3. r \in Seq(G) /\ Len(r) = Len(e) - m /\ \A i \in 1 .. Len(e) - m : r[i] = e[m + i]
  BY <1>1
<1> HIDE DEF s, r
<1>4. s \o r = e
  <2> DEFINE c == s \o r
  <2>1. c \in Seq(G) /\ Len(c) = m + (Len(e) - m)
        /\ (\A i \in 1 .. m : c[i] = s[i]) /\ \A i \in 1 .. Len(e) - m : c[m + i] = r[i]
    BY <1>1, <1>2, <1>3
  <2> HIDE DEF c
  <2>2. Len(c) = Len(e)
    BY <1>1, <2>1
  <2>3. ASSUME NEW i \in 1 .. Len(c) PROVE c[i] = e[i]
    <3>1. CASE i <= m
      BY <1>1, <1>2, <2>1, <3>1
    <3>2. CASE i > m
      <4>1. i - m \in 1 .. Len(e) - m /\ m + (i - m) = i
        BY <1>1, <2>2, <3>2
      <4> QED BY <1>3, <2>1, <4>1
    <3> QED BY <1>1, <3>1, <3>2
  <2>4. c = e
    BY <2>1, <2>2, <2>3, SeqEqual
  <2> QED BY <2>4 DEF c
<1>5. b \o (e \o t) = (b \o s) \o (r \o t)
  <2>1. e \o t = s \o (r \o t)
    <3>1. (s \o r) \o t = s \o (r \o t)
      BY <1>2, <1>3
    <3> QED BY <1>4, <3>1
  <2>2. r \o t \in Seq(G)
    BY <1>3
  <2>3. b \o (s \o (r \o t)) = (b \o s) \o (r \o t)
    <3> DEFINE q == r \o t
    <3>1. q \in Seq(G)
      BY <2>2
    <3> HIDE DEF q
    <3>2. b \o (s \o q) = (b \o s) \o q
      BY <1>2, <3>1
    <3> QED BY <3>2 DEF q
  <2> QED BY <2>1, <2>3
<1> DEFINE p == b \o s
           q == r \o t
<1>6. p \in Seq(G) /\ q \in Seq(G) /\ Len(p) = Len(b) + m
  <2>1. p \in Seq(G) /\ Len(p) = Len(b) + Len(s)
    <3>1. s \in Seq(G)
      BY <1>2
    <3> QED BY <3>1, ConcatProperties
  <2>2. q \in Seq(G)
    BY <1>3
  <2> QED BY <1>2, <2>1, <2>2
<1> HIDE DEF p, q
<1>7. p \o q \in Seq(G) /\ Len(p \o q) = Len(p) + Len(q) /\ SubSeq(p \o q, 1, Len(p)) = p
  BY <1>6, CutBehind
<1>8. Len(p \o q) >= Len(b) + m
  <2>1. Len(q) \in Nat /\ Len(p) \in Nat
    BY <1>6
  <2> QED BY <1>6, <1>7, <2>1
<1> QED BY <1>2, <1>5, <1>6, <1>7, <1>8 DEF p, q, s

LEMMA LesserIs ==
    ASSUME NEW a \in Nat, NEW b \in Nat
    PROVE  Output!Min({a, b}) = IF a <= b THEN a ELSE b
<1>1. {a, b} \in SUBSET Nat /\ {a, b} # {}
  OBVIOUS
<1>2. Output!Min({a, b}) = Min({a, b})
  BY DEF Output!Min, Min
<1>3. Min({a, b}) \in {a, b} /\ \A y \in {a, b} : Min({a, b}) <= y
  BY <1>1, MinIsLeast
<1> QED BY <1>2, <1>3

Limit == PRINTF_BUF_SIZE - 1

(* What is written and what the rest of the format stands for is the text, or  *)
(* the buffer is full of its beginning.                                        *)
Beginning ==
    \/ buf \o Text[at][arg] = Output!Full
    \/ Len(buf) = Limit /\ Output!Full \in Seq(Glyphs) /\ Len(Output!Full) >= Limit /\ buf = SubSeq(Output!Full, 1, Limit)
PrintInv ==
    /\ fmt \in Formats /\ args \in [1 .. ArgCount -> [s : Strings, n : Ints]]
    /\ at \in 1 .. Len(fmt) + 1 /\ Fits(at, arg)
    /\ buf \in Seq(Glyphs) /\ Len(buf) <= Limit
    /\ Beginning /\ Output!Cut

LEMMA PrintTypes ==
    ASSUME PrintInv
    PROVE  /\ fmt \in Seq(STRING) /\ Len(fmt) \in Nat /\ Limit \in Nat
           /\ at \in 1 .. Len(fmt) + 1 /\ at \in Nat /\ arg \in Nat /\ Len(buf) \in Nat
           /\ Text[at][arg] \in Seq(Glyphs)
<1>1. fmt \in Seq(STRING) /\ Limit \in Nat
  <2>1. fmt \in Formats
    BY DEF PrintInv
  <2>2. \A f \in Formats : f \in Seq(STRING)
    BY PrintfAssumption
  <2>3. Limit \in Nat
    BY PrintfAssumption DEF Limit
  <2> QED BY <2>1, <2>2, <2>3
<1>2. Len(fmt) \in Nat /\ at \in 1 .. Len(fmt) + 1 /\ at \in 1 .. Len(fmt) + 2 /\ at \in Nat /\ Fits(at, arg) /\ arg \in Nat
  BY <1>1 DEF PrintInv, Fits
<1>3. Text[at][arg] \in Seq(Glyphs)
  BY <1>1, <1>2, TextTyped DEF PrintInv
<1> QED BY <1>1, <1>2, <1>3 DEF PrintInv

LEMMA PrintStart ==
    ASSUME Output!Init PROVE PrintInv
<1>1. fmt \in Formats /\ fmt \in Seq(STRING) /\ at = 1 /\ arg = 1 /\ buf = <<>> /\ done = FALSE
      /\ args \in [1 .. ArgCount -> [s : Strings, n : Ints]]
  BY PrintfAssumption DEF Output!Init
<1>2. Len(fmt) \in Nat /\ Limit \in Nat
  BY <1>1, PrintfAssumption DEF Limit
<1>3. Fits(at, arg)
  <2>1. Cardinality({i \in 1 .. Len(fmt) - 1 : fmt[i] = Output!PERCENT /\ Output!Takes(fmt[i + 1])}) <= ArgCount
    BY <1>1, PrintfAssumption
  <2>2. Cardinality(Left(1)) <= ArgCount
    BY <2>1 DEF Left
  <2>3. Cardinality(Left(1)) \in Nat
    <3>1. 1 \in Int /\ Len(fmt) - 1 \in Int
      BY <1>2
    <3>2. IsFiniteSet(1 .. Len(fmt) - 1) /\ Left(1) \subseteq 1 .. Len(fmt) - 1
      BY <3>1, FS_Interval DEF Left
    <3> QED BY <3>2, FS_Subset, FS_CardinalityType
  <2> QED BY <1>1, <2>2, <2>3, PrintfAssumption DEF Fits
<1>4. Text[1][1] \in Seq(Glyphs)
  <2>1. 1 \in 1 .. Len(fmt) + 2 /\ 1 \in Nat
    BY <1>2
  <2> QED BY <1>1, <1>3, <2>1, TextTyped
<1>5. Beginning
  <2>1. <<>> \o Text[1][1] = Text[1][1]
    BY <1>4
  <2> QED BY <1>1, <2>1, FullIs DEF Beginning
<1>6. Len(buf) = 0 /\ buf \in Seq(Glyphs) /\ at \in 1 .. Len(fmt) + 1
  BY <1>1, <1>2
<1> QED BY <1>1, <1>2, <1>3, <1>5, <1>6 DEF PrintInv, Output!Cut

LEMMA PlainPrints ==
    ASSUME PrintInv, Output!Plain PROVE PrintInv'
<1>1. /\ ~ done /\ at <= Len(fmt) /\ Len(buf) < Limit /\ fmt[at] # Output!PERCENT
      /\ buf' = Append(buf, fmt[at]) /\ at' = at + 1 /\ fmt' = fmt /\ args' = args /\ arg' = arg /\ done' = done
  BY DEF Output!Plain, Output!Room, Limit
<1>2. /\ fmt \in Seq(STRING) /\ Len(fmt) \in Nat /\ Limit \in Nat
      /\ at \in 1 .. Len(fmt) + 1 /\ at \in Nat /\ arg \in Nat /\ Len(buf) \in Nat
      /\ Text[at][arg] \in Seq(Glyphs) /\ buf \in Seq(Glyphs) /\ Fits(at, arg)
  BY PrintTypes DEF PrintInv
<1>3. at \in 1 .. Len(fmt) /\ at + 1 \in 1 .. Len(fmt) + 1 /\ at + 1 \in 1 .. Len(fmt) + 2 /\ at \in 1 .. Len(fmt) + 2
  BY <1>1, <1>2
<1>4. Fits(at + 1, arg)
  BY <1>2, <1>3, FitsNext DEF PrintInv
<1>5. Text[at + 1][arg] \in Seq(Glyphs)
  BY <1>2, <1>3, <1>4, TextTyped DEF PrintInv
<1>6. Text[at][arg] = <<fmt[at]>> \o Text[at + 1][arg] /\ fmt[at] \in Glyphs
  <2>1. Text[at][arg] = <<fmt[at]>> \o Text[at + 1][arg]
    BY <1>1, <1>2, <1>3, TextIs
  <2>2. fmt[at] \in STRING
    BY <1>2, <1>3
  <2> QED BY <2>1, <2>2 DEF Glyphs
<1>7. buf' \in Seq(Glyphs) /\ Len(buf') = Len(buf) + 1
  BY <1>1, <1>2, <1>6
<1>8. buf \o Text[at][arg] = Output!Full
  BY <1>1, <1>2 DEF PrintInv, Beginning
<1>9. buf' \o Text[at + 1][arg] = Output!Full
  <2> DEFINE c == fmt[at]
             t == Text[at + 1][arg]
             b == buf
  <2>1. b \in Seq(Glyphs) /\ c \in Glyphs /\ t \in Seq(Glyphs)
    BY <1>2, <1>5, <1>6
  <2>2. b \o (<<c>> \o t) = Output!Full /\ buf' = Append(b, c)
    BY <1>1, <1>6, <1>8
  <2> HIDE DEF b, c, t
  <2>3. Append(b, c) \o t = b \o (<<c>> \o t)
    BY <2>1
  <2> QED BY <2>2, <2>3 DEF t
<1>10. Text' = Text /\ Output!Full' = Output!Full
  BY <1>1 DEF Text, IsText, TextStep, Output!Full
<1>11. Fits(at, arg)'
  BY <1>1, <1>4 DEF Fits, Left
<1>12. Beginning' /\ Output!Cut'
  BY <1>1, <1>9, <1>10 DEF Beginning, Output!Cut
<1> QED BY <1>1, <1>2, <1>3, <1>7, <1>11, <1>12 DEF PrintInv

LEMMA SpecifierPrints ==
    ASSUME PrintInv, Output!Specifier PROVE PrintInv'
<1> DEFINE e == Output!Expansion(fmt[at + 1], args[arg])
           a == IF Output!Takes(fmt[at + 1]) THEN arg + 1 ELSE arg
           t == Text[at + 2][a]
           room == Limit - Len(buf)
           m == IF Len(e) <= room THEN Len(e) ELSE room
<1>1. /\ ~ done /\ at < Len(fmt) /\ Len(buf) < Limit /\ fmt[at] = Output!PERCENT
      /\ buf' = buf \o Output!Fitted(e) /\ at' = at + 2 /\ arg' = a /\ fmt' = fmt /\ args' = args /\ done' = done
  BY DEF Output!Specifier, Output!Room, Limit
<1>2. /\ fmt \in Seq(STRING) /\ Len(fmt) \in Nat /\ Limit \in Nat
      /\ at \in 1 .. Len(fmt) + 1 /\ at \in Nat /\ arg \in Nat /\ Len(buf) \in Nat
      /\ buf \in Seq(Glyphs) /\ Fits(at, arg)
  BY PrintTypes DEF PrintInv
<1>3. at \in 1 .. Len(fmt) /\ at + 2 \in 1 .. Len(fmt) + 1 /\ at + 2 \in 1 .. Len(fmt) + 2 /\ at \in 1 .. Len(fmt) + 2
  BY <1>1, <1>2
<1>4. Fits(at + 2, a) /\ e \in Seq(Glyphs)
  BY <1>1, <1>2, <1>3, FitsNext DEF PrintInv
<1>5. a \in Nat
  BY <1>2
<1>6. t \in Seq(Glyphs)
  <2> HIDE DEF a
  <2> QED BY <1>2, <1>3, <1>4, <1>5, TextTyped DEF PrintInv
<1>7. Text[at][arg] = e \o t
  BY <1>1, <1>2, <1>3, TextIs
<1>8. buf \o (e \o t) = Output!Full
  <2>1. buf \o Text[at][arg] = Output!Full
    BY <1>1, <1>2 DEF PrintInv, Beginning
  <2> QED BY <1>7, <2>1
<1>9. Output!Fitted(e) = SubSeq(e, 1, m)
  <2> HIDE DEF e
  <2>1. Len(e) \in Nat /\ room \in Nat /\ PRINTF_BUF_SIZE - 1 - Len(buf) = room
    BY <1>1, <1>2, <1>4 DEF Limit
  <2>2. Output!Min({Len(e), room}) = m
    BY <2>1, LesserIs
  <2> QED BY <2>1, <2>2 DEF Output!Fitted
<1> HIDE DEF e, a, t
<1>10. Len(e) \in Nat /\ room \in Nat /\ m \in 0 .. Len(e) /\ m <= room /\ (m = Len(e) \/ m = room)
  BY <1>1, <1>2, <1>4
<1> HIDE DEF m
<1> DEFINE s == SubSeq(e, 1, m)
<1>11. /\ s \in Seq(Glyphs) /\ Len(s) = m
       /\ Output!Full \in Seq(Glyphs) /\ Len(Output!Full) >= Len(buf) + m
       /\ SubSeq(Output!Full, 1, Len(buf) + m) = buf \o s
  <2>1. /\ SubSeq(e, 1, m) \in Seq(Glyphs) /\ Len(SubSeq(e, 1, m)) = m
        /\ buf \o (e \o t) \in Seq(Glyphs) /\ Len(buf \o (e \o t)) >= Len(buf) + m
        /\ SubSeq(buf \o (e \o t), 1, Len(buf) + m) = buf \o SubSeq(e, 1, m)
    <3>1. buf \in Seq(Glyphs) /\ e \in Seq(Glyphs) /\ t \in Seq(Glyphs) /\ m \in 0 .. Len(e)
      BY <1>2, <1>4, <1>6, <1>10
    <3>2. CutInto(Glyphs, buf, e, t, m)
      BY <3>1, CutWithin
    <3> QED BY <3>2 DEF CutInto
  <2> QED BY <1>8, <2>1
<1>12. buf' = buf \o s
  BY <1>1, <1>9
<1> HIDE DEF s
<1>13. buf' \in Seq(Glyphs) /\ Len(buf') = Len(buf) + m /\ Len(buf') <= Limit
  BY <1>2, <1>10, <1>11, <1>12
<1>14. Text' = Text /\ Output!Full' = Output!Full
  BY <1>1 DEF Text, IsText, TextStep, Output!Full
<1>15. Fits(at, arg)'
  BY <1>1, <1>4 DEF Fits, Left
<1>16. Beginning'
  <2>1. CASE m = Len(e)
    <3>1. s = e
      BY <1>4, <1>10, <2>1 DEF s
    <3>2. (buf \o e) \o t = buf \o (e \o t)
      <4>1. buf \in Seq(Glyphs) /\ e \in Seq(Glyphs) /\ t \in Seq(Glyphs)
        BY <1>2, <1>4, <1>6
      <4> QED BY <4>1, ConcatAssociative
    <3>3. buf' \o t = Output!Full
      BY <1>8, <1>12, <3>1, <3>2
    <3>4. Text'[at'][arg'] = t
      BY <1>1, <1>14 DEF t
    <3> QED BY <1>14, <3>3, <3>4 DEF Beginning
  <2>2. CASE m = room
    <3>1. Len(buf) + m = Limit
      BY <1>2, <2>2
    <3>2. Len(buf') = Limit /\ Output!Full' \in Seq(Glyphs) /\ Len(Output!Full') >= Limit /\ buf' = SubSeq(Output!Full', 1, Limit)
      BY <1>11, <1>12, <1>13, <1>14, <3>1
    <3> QED BY <3>2 DEF Beginning, Limit
  <2> QED BY <1>10, <2>1, <2>2
<1>17. Output!Cut'
  BY <1>1 DEF Output!Cut
<1> QED BY <1>1, <1>2, <1>3, <1>13, <1>15, <1>16, <1>17 DEF PrintInv, Limit

LEMMA FinishPrints ==
    ASSUME PrintInv, Output!Finish PROVE PrintInv'
<1>1. /\ at > Len(fmt) \/ ~ (Len(buf) < Limit) \/ (at = Len(fmt) /\ fmt[at] = Output!PERCENT)
      /\ UNCHANGED <<fmt, args, at, arg, buf>>
  BY DEF Output!Finish, Output!Room, Limit
<1>2. /\ fmt \in Seq(STRING) /\ Len(fmt) \in Nat /\ Limit \in Nat
      /\ at \in 1 .. Len(fmt) + 1 /\ at \in Nat /\ arg \in Nat /\ Len(buf) \in Nat /\ Len(buf) <= Limit
      /\ Text[at][arg] \in Seq(Glyphs) /\ buf \in Seq(Glyphs)
  BY PrintTypes DEF PrintInv
<1> DEFINE t == Text[at][arg]
           m == Output!Min({Len(Output!Full), Limit})
<1>3. ASSUME buf \o t = Output!Full PROVE buf = SubSeq(Output!Full, 1, m)
  <2>1. Output!Full \in Seq(Glyphs) /\ Len(Output!Full) = Len(buf) + Len(t) /\ SubSeq(Output!Full, 1, Len(buf)) = buf /\ Len(t) \in Nat
    <3>1. t \in Seq(Glyphs)
      BY <1>2
    <3> HIDE DEF t
    <3>2. buf \o t \in Seq(Glyphs) /\ Len(buf \o t) = Len(buf) + Len(t) /\ SubSeq(buf \o t, 1, Len(buf)) = buf
      BY <1>2, <3>1, CutBehind
    <3> QED BY <1>3, <3>1, <3>2
  <2> DEFINE n == Len(Output!Full)
             k == Len(t)
             j == Len(buf)
  <2>2. n = j + k /\ k \in Nat /\ j \in Nat /\ j <= Limit /\ Limit \in Nat
    BY <1>2, <2>1
  <2>3. m = IF n <= Limit THEN n ELSE Limit
    <3>1. n \in Nat
      BY <2>2
    <3> HIDE DEF n
    <3>2. Output!Min({n, Limit}) = IF n <= Limit THEN n ELSE Limit
      BY <2>2, <3>1, LesserIs
    <3> QED BY <3>2 DEF n
  <2>4. k = 0 \/ j = Limit
    <3>1. CASE ~ (Len(buf) < Limit)
      BY <1>2, <3>1
    <3>2. CASE at > Len(fmt) \/ (at = Len(fmt) /\ fmt[at] = Output!PERCENT)
      <4>1. at \in 1 .. Len(fmt) + 2
        BY <1>2
      <4>2. t = <<>>
        BY <1>2, <3>2, <4>1, TextIs
      <4> QED BY <4>2
    <3> QED BY <1>1, <3>1, <3>2
  <2> HIDE DEF n, k, j, m
  <2>5. m = j
    BY <2>2, <2>3, <2>4
  <2> QED BY <2>1, <2>5 DEF j
<1>4. ASSUME Len(buf) = Limit, Output!Full \in Seq(Glyphs), Len(Output!Full) >= Limit, buf = SubSeq(Output!Full, 1, Limit)
      PROVE  buf = SubSeq(Output!Full, 1, m)
  <2>1. Len(Output!Full) \in Nat
    BY <1>4
  <2>2. m = IF Len(Output!Full) <= Limit THEN Len(Output!Full) ELSE Limit
    BY <1>2, <2>1, LesserIs
  <2> HIDE DEF m
  <2>3. m = Limit
    BY <1>2, <1>4, <2>1, <2>2
  <2> QED BY <1>4, <2>3
<1>5. buf = SubSeq(Output!Full, 1, m)
  BY <1>3, <1>4 DEF PrintInv, Beginning
<1>6. Text' = Text /\ Output!Full' = Output!Full
  BY <1>1 DEF Text, IsText, TextStep, Output!Full
<1>7. Output!Cut' /\ Beginning'
  BY <1>1, <1>5, <1>6 DEF Output!Cut, Beginning, Limit, PrintInv
<1>8. Fits(at, arg)'
  BY <1>1 DEF PrintInv, Fits, Left
<1> QED BY <1>1, <1>7, <1>8 DEF PrintInv, Limit

(* printf: what is written is the text the format stands for, cut where the    *)
(* buffer is full; and the digits of each number argument, in either base,     *)
(* read back as the number, the first of them not 0 (printf, uint_to_str).     *)
THEOREM TextsArePrinted == AlgorithmSpec => []TextPrinted
<1> DEFINE Inv == part = "printf" => PrintInv
<1>1. AlgorithmInit => Inv
  <2>1. ASSUME AlgorithmInit PROVE Output!Init
    BY <2>1 DEF AlgorithmInit
  <2> QED BY <2>1, PrintStart
<1>2. Inv /\ [AlgorithmNext]_algorithmVars => Inv'
  <2> SUFFICES ASSUME Inv, [AlgorithmNext]_algorithmVars, part' = "printf" PROVE PrintInv'
    OBVIOUS
  <2>1. CASE part = "printf" /\ Output!Next
    BY <2>1, PlainPrints, SpecifierPrints, FinishPrints DEF Output!Next
  <2>2. CASE UNCHANGED <<part, printVars>>
    <3>1. UNCHANGED <<part, fmt, args, at, arg, buf, done>>
      BY <2>2 DEF printVars
    <3>2. Text' = Text /\ Output!Full' = Output!Full
      BY <3>1 DEF Text, IsText, TextStep, Output!Full
    <3>3. Fits(at, arg)' = Fits(at, arg)
      BY <3>1 DEF Fits, Left
    <3>4. PrintInv
      BY <3>1
    <3>5. Beginning' /\ Output!Cut'
      BY <3>1, <3>2, <3>4 DEF Beginning, Output!Cut, PrintInv, Limit
    <3> QED BY <3>1, <3>3, <3>4, <3>5 DEF PrintInv, Limit
  <2> QED BY <2>1, <2>2 DEF AlgorithmNext, algorithmVars
<1>3. Inv => TextPrinted
  <2> SUFFICES ASSUME PrintInv PROVE Output!Cut /\ Output!ReadsBack
    BY DEF TextPrinted
  <2>1. ASSUME NEW i \in DOMAIN args, NEW b \in {10, 16}
        PROVE  LET s == Output!uint_to_str(Output!Unsigned(args[i].n), b)
               IN  Output!Value(s, b) = Output!Unsigned(args[i].n) /\ (s[1] = 0 => Len(s) = 1)
    <3> DEFINE n == Output!Unsigned(args[i].n)
    <3>1. args[i].n \in Int
      BY PrintfAssumption DEF PrintInv
    <3>2. 2 ^ W \in Nat \ {0}
      BY PrintfAssumption
    <3>3. n \in Nat
      BY <3>1, <3>2 DEF Output!Unsigned
    <3> HIDE DEF n
    <3>4. b \in Nat \ {0, 1}
      OBVIOUS
    <3>5. LET s == Output!uint_to_str(n, b) IN Output!Value(s, b) = n /\ (s[1] = 0 => Len(s) = 1)
      BY <3>3, <3>4, NumberReadsBack
    <3> QED BY <3>5 DEF n
  <2>2. Output!ReadsBack
    BY <2>1 DEF Output!ReadsBack
  <2> QED BY <2>2 DEF PrintInv
<1> QED BY <1>1, <1>2, <1>3, PTL DEF AlgorithmSpec
=============================================================================
