-------------------------------- MODULE Disk --------------------------------
(***************************************************************************)
(* The disk that mkfs.fat and mcopy write (Makefile): what is in each       *)
(* sector.  A byte of a file is its name and its place in it, so what a     *)
(* read returns says where it was taken from.                               *)
(*                                                                         *)
(* A disk is [bps, spc, reserved, fats, fatsz, root, slots]: the sizes of   *)
(* the boot sector, the cluster chain of the root directory and its         *)
(* entries [kind, name, chain, size] in order.                              *)
(***************************************************************************)
EXTENDS Integers, Sequences, FiniteSets

CONSTANTS FAT_ENTRY,     \* bytes of an entry of the table
          DIRENT,        \* bytes of a directory entry
          EOC_MIN,       \* the least end-of-chain mark
          MASK           \* an entry's cluster number is its value modulo this

ASSUME EntryAssumption ==
    {FAT_ENTRY, DIRENT, EOC_MIN} \subseteq Nat \ {0} /\ MASK \in Nat /\ EOC_MIN + 1 < MASK

Slack == <<"slack", 0>>

Chains(d) == {d.root} \cup {d.slots[i].chain : i \in DOMAIN d.slots}
FirstOf(e) == IF e.chain = <<>> THEN 0 ELSE e.chain[1]

(* The bits above the cluster number are reserved and may be set.           *)
Raw(d, c) ==
    IF \E ch \in Chains(d) : \E i \in 1 .. Len(ch) - 1 : ch[i] = c
      THEN MASK + (CHOOSE n \in 0 .. EOC_MIN : \E ch \in Chains(d) : \E i \in 1 .. Len(ch) - 1 : ch[i] = c /\ ch[i + 1] = n)
      ELSE IF \E ch \in Chains(d) : \E i \in DOMAIN ch : ch[i] = c THEN EOC_MIN + 1 ELSE 0

FatSector(d, s) ==
    [o \in {o \in 0 .. d.bps - 1 : o % FAT_ENTRY = 0} |-> Raw(d, (s * d.bps + o) \div FAT_ENTRY)]

End == [kind |-> "end", name |-> "", chain |-> <<>>, size |-> 0]

DirSector(d, s) ==
    LET per == d.bps \div DIRENT
    IN  [k \in 1 .. per |-> IF s * per + k \in DOMAIN d.slots THEN d.slots[s * per + k] ELSE End]

FileSector(d, e, s) ==
    [o \in 0 .. d.bps - 1 |-> IF s * d.bps + o < e.size THEN <<e.name, s * d.bps + o>> ELSE Slack]

(* The sector s of the cluster c.                                          *)
DataSector(d, c, s) ==
    IF \E i \in DOMAIN d.root : d.root[i] = c
      THEN DirSector(d, ((CHOOSE i \in DOMAIN d.root : d.root[i] = c) - 1) * d.spc + s)
    ELSE IF \E j \in DOMAIN d.slots : \E i \in DOMAIN d.slots[j].chain : d.slots[j].chain[i] = c
      THEN LET j == CHOOSE j \in DOMAIN d.slots : \E i \in DOMAIN d.slots[j].chain : d.slots[j].chain[i] = c
               i == CHOOSE i \in DOMAIN d.slots[j].chain : d.slots[j].chain[i] = c
           IN  FileSector(d, d.slots[j], (i - 1) * d.spc + s)
    ELSE [o \in 0 .. d.bps - 1 |-> Slack]

DataStart(d) == d.reserved + d.fats * d.fatsz

Sector(d, lba) ==
    IF lba < d.reserved THEN d
    ELSE IF lba < DataStart(d) THEN FatSector(d, (lba - d.reserved) % d.fatsz)
    ELSE DataSector(d, (lba - DataStart(d)) \div d.spc + 2, (lba - DataStart(d)) % d.spc)

LastSector(d) == DataStart(d) + (d.bps \div FAT_ENTRY) * d.fatsz * d.spc
-----------------------------------------------------------------------------
(* What the disk holds, as its user sees it.                                *)
Listed(d) ==
    LET end == {i \in DOMAIN d.slots : d.slots[i].kind = "end"}
    IN  {i \in DOMAIN d.slots : d.slots[i].kind \in {"file", "dir"} /\ \A j \in end : i < j}

(* The place of i among the numbers S (SelectSeq is recursive: no proof can  *)
(* expand it).                                                             *)
Rank(S, i) == Cardinality({j \in S : j <= i})

(* A chain may be shorter than the size says, on a damaged disk.            *)
Content(d, e) ==
    LET room == Len(e.chain) * d.spc * d.bps
    IN  [i \in 1 .. (IF e.size < room THEN e.size ELSE room) |-> <<e.name, i - 1>>]

Catalogue(d) ==
    IF d.fatsz = 0 THEN [n \in {} |-> <<>>]
    ELSE [n \in {d.slots[i].name : i \in Listed(d)} |->
             LET e == CHOOSE e \in {d.slots[i] : i \in Listed(d)} : e.name = n
             IN  [bytes |-> Content(d, e), size |-> e.size]]
-----------------------------------------------------------------------------
(* What mkfs.fat and mcopy promise: sizes that fit, chains in the table that *)
(* share no cluster, a root directory with room for its entries, names that  *)
(* differ, and no file with bytes but without a cluster.                     *)
Clusters(d) == {c \in 2 .. EOC_MIN - 1 : c * FAT_ENTRY < d.fatsz * d.bps}
ChainOf(d, i) == IF i = 0 THEN d.root ELSE d.slots[i].chain

Entries(d) ==
    [kind : {"file", "dir", "deleted", "lfn", "label", "end"}, name : STRING, chain : Seq(Clusters(d)), size : Nat]

Unshared(d) ==
    \A i, j \in 0 .. Len(d.slots) : \A k \in DOMAIN ChainOf(d, i), l \in DOMAIN ChainOf(d, j) :
        ChainOf(d, i)[k] = ChainOf(d, j)[l] => i = j /\ k = l

Formatted(d) ==
    /\ {d.bps, d.spc, d.reserved, d.fats} \subseteq Nat \ {0} /\ d.fatsz \in Nat
    /\ d.fatsz # 0 =>
         /\ d.bps % FAT_ENTRY = 0 /\ d.bps >= DIRENT
         /\ d.root \in Seq(Clusters(d)) \ {<<>>} /\ d.slots \in Seq(Entries(d)) /\ Unshared(d)
         /\ Len(d.slots) <= Len(d.root) * d.spc * (d.bps \div DIRENT)
         /\ \A i \in Listed(d) : d.slots[i].chain = <<>> => d.slots[i].size = 0
         /\ \A i, j \in Listed(d) : d.slots[i].name = d.slots[j].name => i = j
=============================================================================
