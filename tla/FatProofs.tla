------------------------------ MODULE FatProofs ------------------------------
(***************************************************************************)
(* The file system, for volumes of any size and any layout.  Types hold on *)
(* every volume.  On sound volumes of type FAT32 the path to a file loads  *)
(* the bytes of that file; and where the cluster that stands for a failed  *)
(* read is off the card, a file of the root is loaded right or not at all, *)
(* whichever reads fail.                                                   *)
(*                                                                         *)
(* The code computes what recursive definitions say is on the volume: the  *)
(* chain of clusters, the entries of a directory, the node of a path.  The *)
(* induction is over the least position at which one goes wrong.           *)
(***************************************************************************)
EXTENDS Fat, FiniteSetTheorems, WellFoundedInduction, TLAPS

Node == [name : Range(Lower) \cup {"/"}, size : Nat, isDir : BOOLEAN, cluster : Nat]

\* The steps of fat_read_dir, and those of fat_read.
InDir == pc \in {"dir", "dir_next"}
InFile == pc \in {"data", "next"}

\* The volume, what is mounted and the path.
VolumeTyped ==
  /\ vol \in Volumes /\ fs \in {NotMounted, Mounted(vol)}
  /\ InDir \/ InFile => fs = Mounted(vol) /\ path \in Paths
  /\ path \in Paths \cup {<<>>} /\ segment \in 1 .. Len(path) + 1
  /\ pc \in {"mbr", "boot"} => path = <<>>
  /\ pc \in {"mbr", "boot", "idle", "dir", "dir_next", "data", "next", "undefined"}
  /\ faults \in 0 .. MaxFaults

\* What is read.  A file that is read fits the buffer.
ReadTyped ==
  /\ current \in Node \cup {NoNode} /\ list \in Seq(Node)
  /\ offset \in Nat /\ cluster \in Nat /\ loc \in Nat
  /\ out \in Seq(Int \X Int) /\ Len(out) <= MaxSize /\ (InDir => out = <<>>)
  /\ InFile => current \in Node /\ current.size <= MaxSize /\ Len(out) <= current.size
  /\ pc = "idle" /\ path # <<>> => result \in {Failed, Len(out)}
  /\ pc # "idle" \/ path = <<>> => result = NoResult

TInv == VolumeTyped /\ ReadTyped

-----------------------------------------------------------------------------
(* The inductive invariant on sound FAT32 volumes.                          *)

SlotsOfDirs(v) == UNION {Range(v.dirs[d]) : d \in DOMAIN v.dirs}
DirNodes(v) == {Dirent(x) : x \in {y \in SlotsOfDirs(v) : y.kind = "dir"}}
FileNodes(v) == {Dirent(x) : x \in {y \in SlotsOfDirs(v) : y.kind = "file"}}

\* The entries in the clusters of a directory at the given positions.
EntriesIn(v, c, K) ==
  {Dirent(x) : x \in {y \in UNION {Range(v.dirs[ChainOf(v, c)[k]]) : k \in K} : IsEntry(y)}}

\* The directory that is searched.
DirNode == IF segment = 1 THEN RootNode(vol) ELSE current

\* The first clusters of the directory have been read, up to number j.
DirWalk ==
  InDir =>
    /\ IF segment = 1 THEN current = NoNode ELSE current \in DirNodes(vol)
    /\ \E j \in 0 .. Cardinality(DOMAIN vol.fat) - 1 :
         /\ \A k \in 0 .. j : ChainOf(vol, DirNode.cluster)[k] \in DOMAIN vol.dirs
         /\ cluster = ChainOf(vol, DirNode.cluster)[j]
         /\ Range(list) = EntriesIn(vol, DirNode.cluster,
                                    IF pc = "dir" THEN 0 .. j - 1 ELSE 0 .. j)

\* If nothing failed, the directory searched is the one that the segments
\* before lead to.
PathWalk ==
  InDir /\ faults = 0 /\ IsFile(vol, path) =>
    segment <= Len(path) /\ DirNode = NodeAt(vol, path, segment - 1)

\* A first segment that does not exist is the last one searched.
MissingFirst ==
  faults = 0 /\ path # <<>> /\ NodeAt(vol, path, 1) = NoNode =>
    ~InFile /\ (InDir => segment = 1)

\* The file that is read.
FileChosen ==
  InFile =>
    /\ current \in FileNodes(vol)
    /\ Len(path) = 1 \/ (faults = 0 /\ IsFile(vol, path)) => current = NodeOf(vol, path)

\* The first clusters of the file have been read, up to number k; a table entry
\* that could not be read counts as the cluster marked bad.
FileWalk ==
  InFile /\ (faults = 0 \/ ErrorsOffCard(vol)) =>
    \E k \in Nat :
      LET size == Sector * vol.spc IN
      /\ loc = Least(k * size, MaxSize)
      /\ out = SubSeq(Contents(vol, current), 1,
                      Least((IF pc = "data" THEN k ELSE k + 1) * size, current.size))
      /\ k * size < current.size =>
           \/ cluster = ChainOf(vol, current.cluster)[k]
           \/ pc = "data" /\ faults > 0 /\ cluster = BadMark

FileInv ==
  /\ DirWalk /\ PathWalk /\ MissingFirst /\ FileChosen /\ FileWalk
  /\ LoadsNamedFile /\ (ErrorsOffCard(vol) => RootFileOrError)

FInv == fs.type = "FAT32" /\ Sound(vol) => FileInv

-----------------------------------------------------------------------------
(* Induction and recursion over the positions of a finite sequence.         *)

\* A set of natural numbers that is not empty has a least element.
LEMMA LeastElement ==
  ASSUME NEW S \in SUBSET Nat, S # {}
  PROVE  \E x \in S : \A y \in S : x <= y
<1> DEFINE R == OpToRel(<, Nat)
<1>1. IsWellFoundedOn(R, Nat)
  BY NatLessThanWellFounded
<1>2. IsWellFoundedOn(R, S)
  BY <1>1, IsWellFoundedOnSubset
<1> HIDE DEF R
<1>3. PICK x \in S : \A y \in S : <<y, x>> \notin R
  BY <1>2, WFMin
<1>4. ASSUME NEW y \in S PROVE x <= y
  <2>1. x \in Nat /\ y \in Nat
    OBVIOUS
  <2>2. y < x => <<y, x>> \in R
    BY <2>1 DEF R, OpToRel
  <2> QED BY <1>3, <2>1, <2>2
<1> QED BY <1>4

\* What holds at 0 and passes from each position to the next holds up to n.
LEMMA Induction ==
  ASSUME NEW n \in Nat, NEW P, 0 \in P, \A k \in 1 .. n : k - 1 \in P => k \in P
  PROVE  \A k \in 0 .. n : k \in P
<1> DEFINE wrong == {k \in 0 .. n : k \notin P}
<1>1. ASSUME wrong # {} PROVE FALSE
  <2>1. wrong \in SUBSET Nat
    OBVIOUS
  <2>2. PICK m \in wrong : \A y \in wrong : m <= y
    BY <1>1, <2>1, LeastElement
  <2>3. m \in 1 .. n /\ m - 1 \in 0 .. n /\ ~(m <= m - 1)
    BY <2>2
  <2>4. m - 1 \in P
    BY <2>2, <2>3
  <2> QED BY <2>2, <2>3, <2>4
<1> QED BY <1>1

\* f begins with b, and goes on from position k - 1 to k as F[k] says.
Iterates(f, n, S, b, F) ==
  f \in [0 .. n -> S] /\ f[0] = b /\ \A k \in 1 .. n : f[k] = F[k][f[k - 1]]

\* A step on S, applied again and again, yields a function.
LEMMA Recursion ==
  ASSUME NEW n \in Nat, NEW S, NEW b \in S, NEW F \in [1 .. n -> [S -> S]]
  PROVE  \E f : Iterates(f, n, S, b, F)
<1> DEFINE P == {m \in 0 .. n : \E f : Iterates(f, m, S, b, F)}
<1>1. 0 \in P
  <2> DEFINE f == [k \in 0 .. 0 |-> b]
  <2>1. f \in [0 .. 0 -> S] /\ f[0] = b
    OBVIOUS
  <2> HIDE DEF f
  <2>2. Iterates(f, 0, S, b, F)
    BY <2>1 DEF Iterates
  <2> QED BY <2>2
<1>2. ASSUME NEW m \in 1 .. n, m - 1 \in P PROVE m \in P
  <2>1. PICK g : Iterates(g, m - 1, S, b, F)
    BY <1>2
  <2> DEFINE f == [k \in 0 .. m |-> IF k = m THEN F[m][g[m - 1]] ELSE g[k]]
  <2>2. g \in [0 .. m - 1 -> S] /\ F[m][g[m - 1]] \in S
    BY <2>1 DEF Iterates
  <2>3. f \in [0 .. m -> S]
    BY <2>2
  <2>4. f[0] = b
    BY <2>1 DEF Iterates
  <2>5. ASSUME NEW k \in 1 .. m PROVE f[k] = F[k][f[k - 1]]
    <3>1. f[k - 1] = g[k - 1]
      OBVIOUS
    <3>2. k # m => k \in 1 .. m - 1 /\ f[k] = g[k]
      OBVIOUS
    <3>3. k = m => f[k] = F[m][g[m - 1]]
      OBVIOUS
    <3> HIDE DEF f
    <3> QED BY <2>1, <3>1, <3>2, <3>3 DEF Iterates
  <2> HIDE DEF f
  <2>6. Iterates(f, m, S, b, F)
    BY <2>3, <2>4, <2>5 DEF Iterates
  <2> QED BY <2>6
<1> HIDE DEF P
<1>3. \A k \in 0 .. n : k \in P
  BY <1>1, <1>2, Induction
<1>4. n \in P
  BY <1>3
<1> QED BY <1>4 DEF P

-----------------------------------------------------------------------------
(* What the recursive definitions compute.                                  *)

\* at begins with cluster c, and goes on as the table says.
IsChain(at, v, c, n) ==
  /\ at \in [0 .. n -> Nat] /\ at[0] = c
  /\ \A k \in 1 .. n : /\ at[k - 1] \in DOMAIN v.fat => at[k] = v.fat[at[k - 1]]
                       /\ at[k - 1] \notin DOMAIN v.fat => at[k] = at[k - 1]

\* The chain from c is one.
LEMMA ChainSteps ==
  ASSUME NEW v, IsVolume(v), NEW c \in Nat, NEW n \in Nat, n = Cardinality(DOMAIN v.fat)
  PROVE  IsChain(ChainOf(v, c), v, c, n)
<1> DEFINE Step(x) == IF x \in DOMAIN v.fat THEN v.fat[x] ELSE x
<1>1. \A x \in Nat : Step(x) \in Nat
  BY DEF IsVolume
<1>2. PICK F : F = [k \in 1 .. n |-> [x \in Nat |-> Step(x)]]
  OBVIOUS
<1>3. \A k \in 1 .. n, x \in Nat : F[k][x] = Step(x)
  <2> HIDE DEF Step
  <2> QED BY <1>2, Zenon
<1>4. F \in [1 .. n -> [Nat -> Nat]]
  <2> HIDE DEF Step
  <2> QED BY <1>1, <1>2, Zenon
<1>5. PICK f : Iterates(f, n, Nat, c, F)
  BY <1>4, Recursion, Zenon
<1> DEFINE Solves(g) == g = [k \in 0 .. n |-> IF k = 0 THEN c ELSE Step(g[k - 1])]
           at == CHOOSE g : Solves(g)
<1>6. ChainOf(v, c) = at
  BY DEF ChainOf
<1>7. Solves(f)
  <2>1. f \in [0 .. n -> Nat] /\ f[0] = c
    BY <1>5 DEF Iterates
  <2>2. \A k \in 1 .. n : f[k] = Step(f[k - 1])
    BY <1>3, <1>5, <2>1 DEF Iterates
  <2> QED BY <2>1, <2>2
<1>8. Solves(at)
  <2> HIDE DEF Solves
  <2> QED BY <1>7
<1> HIDE DEF at
<1>9. at[0] = c /\ DOMAIN at = 0 .. n /\ at = [k \in 0 .. n |-> at[k]]
  BY <1>8
<1>10. \A k \in 1 .. n : at[k] = Step(at[k - 1])
  BY <1>8
<1> HIDE DEF Solves
<1>11. \A k \in 0 .. n : at[k] \in Nat
  <2> DEFINE P == {k \in 0 .. n : at[k] \in Nat}
  <2>1. 0 \in P
    BY <1>9
  <2>2. ASSUME NEW k \in 1 .. n, k - 1 \in P PROVE k \in P
    <3>1. at[k - 1] \in Nat
      BY <2>2
    <3>2. Step(at[k - 1]) \in Nat
      BY <1>1, <3>1
    <3> HIDE DEF Step
    <3> QED BY <1>10, <3>2
  <2> HIDE DEF P
  <2>3. \A k \in 0 .. n : k \in P
    BY <2>1, <2>2, Induction
  <2> QED BY <2>3 DEF P
<1>12. at \in [0 .. n -> Nat]
  BY <1>9, <1>11
<1> QED BY <1>6, <1>9, <1>10, <1>12 DEF IsChain

\* An entry has a name and is one of the nodes.
LEMMA DirentIsNode ==
  ASSUME NEW x \in Slot
  PROVE  Dirent(x) \in Node /\ Dirent(x).name = Lower[x.name] /\ Dirent(x) # NoNode
         /\ Dirent(x).isDir = (x.kind = "dir") /\ Dirent(x).size = x.size
         /\ Dirent(x).cluster = x.cluster
<1>1. x.name \in DOMAIN Lower /\ Lower[x.name] # "" /\ x.size \in Nat /\ x.cluster \in Nat
  BY NamesAssumption DEF Slot
<1>2. Lower[x.name] \in Range(Lower)
  BY <1>1 DEF Range
<1>3. Dirent(x).name # NoNode.name
  BY <1>1 DEF Dirent, NoNode
<1> QED BY <1>1, <1>2, <1>3 DEF Dirent, Node

\* Appending adds one element to a sequence.
LEMMA RangeOfAppend ==
  ASSUME NEW S, NEW s \in Seq(S), NEW d \in S
  PROVE  Append(s, d) \in Seq(S) /\ Range(Append(s, d)) = Range(s) \cup {d}
<1>1. DOMAIN Append(s, d) = 1 .. Len(s) + 1 /\ DOMAIN s = 1 .. Len(s) /\ Len(s) \in Nat
  OBVIOUS
<1>2. Append(s, d)[Len(s) + 1] = d /\ \A i \in DOMAIN s : Append(s, d)[i] = s[i]
  OBVIOUS
<1>3. ASSUME NEW x, x \in Range(s) \cup {d} PROVE x \in Range(Append(s, d))
  BY <1>1, <1>2, <1>3 DEF Range
<1>4. ASSUME NEW x, x \in Range(Append(s, d)) PROVE x \in Range(s) \cup {d}
  BY <1>1, <1>2, <1>4 DEF Range
<1> QED BY <1>3, <1>4

\* The root is a node.
LEMMA RootIsNode ==
  ASSUME NEW v, IsVolume(v)
  PROVE  RootNode(v) \in Node
<1>1. v.rootCluster \in Nat
  BY DEF IsVolume
<1> QED BY <1>1 DEF RootNode, Node

\* What is read from slots are the entries in use among them.
LEMMA DirentsAre ==
  ASSUME NEW n \in Nat, NEW slots \in [1 .. n -> Slot \cup {NoSlot}]
  PROVE  /\ Dirents(slots) \in Seq(Node)
         /\ Range(Dirents(slots)) = {Dirent(x) : x \in {y \in Range(slots) : IsEntry(y)}}
<1> DEFINE Step(k, s) == IF IsEntry(slots[k]) THEN Append(s, Dirent(slots[k])) ELSE s
           Upto(k) == {Dirent(slots[i]) : i \in {j \in 1 .. k : IsEntry(slots[j])}}
<1>1. \A k \in 1 .. n : IsEntry(slots[k]) => Dirent(slots[k]) \in Node
  BY DirentIsNode DEF IsEntry, NoSlot
<1>2. ASSUME NEW k \in 1 .. n, NEW s \in Seq(Node)
      PROVE  /\ Step(k, s) \in Seq(Node)
             /\ Range(s) = Upto(k - 1) => Range(Step(k, s)) = Upto(k)
  <2>1. 1 .. k = (1 .. k - 1) \cup {k}
    OBVIOUS
  <2>2. CASE IsEntry(slots[k])
    <3> DEFINE d == Dirent(slots[k])
    <3>1. Append(s, d) \in Seq(Node) /\ Range(Append(s, d)) = Range(s) \cup {d}
      BY <1>1, <2>2, RangeOfAppend
    <3>2. Upto(k) = Upto(k - 1) \cup {d}
      BY <2>1, <2>2
    <3>3. Step(k, s) = Append(s, d)
      BY <2>2
    <3> HIDE DEF Step, Upto, d
    <3> QED BY <3>1, <3>2, <3>3
  <2>3. CASE ~IsEntry(slots[k])
    <3>1. Upto(k) = Upto(k - 1)
      BY <2>1, <2>3
    <3>2. Step(k, s) = s
      BY <2>3
    <3> HIDE DEF Step, Upto
    <3> QED BY <3>1, <3>2
  <2> QED BY <2>2, <2>3
<1>3. PICK F : F = [k \in 1 .. n |-> [s \in Seq(Node) |-> Step(k, s)]]
  OBVIOUS
<1>4. /\ \A k \in 1 .. n, s \in Seq(Node) : F[k][s] = Step(k, s)
      /\ F \in [1 .. n -> [Seq(Node) -> Seq(Node)]]
  <2> HIDE DEF Step, Upto
  <2> QED BY <1>2, <1>3, Zenon
<1>5. PICK f : Iterates(f, n, Seq(Node), <<>>, F)
  <2>1. <<>> \in Seq(Node)
    OBVIOUS
  <2> QED BY <1>4, <2>1, Recursion, Zenon
<1> DEFINE Solves(g) == g = [k \in 0 .. n |-> IF k = 0 THEN <<>> ELSE Step(k, g[k - 1])]
           read == CHOOSE g : Solves(g)
<1>6. Dirents(slots) = read[n]
  <2>1. Len(slots) = n
    OBVIOUS
  <2> QED BY <2>1 DEF Dirents
<1>7. Solves(f)
  <2> HIDE DEF Step
  <2>1. f \in [0 .. n -> Seq(Node)] /\ f[0] = <<>>
    BY <1>5 DEF Iterates
  <2>2. ASSUME NEW k \in 1 .. n PROVE f[k] = Step(k, f[k - 1])
    <3>1. f[k - 1] \in Seq(Node)
      BY <2>1
    <3> QED BY <1>4, <1>5, <3>1 DEF Iterates
  <2> QED BY <2>1, <2>2
<1>8. Solves(read)
  <2> HIDE DEF Solves
  <2> QED BY <1>7
<1> HIDE DEF read
<1>9. read[0] = <<>> /\ \A k \in 1 .. n : read[k] = Step(k, read[k - 1])
  <2> HIDE DEF Step
  <2> QED BY <1>8
<1> HIDE DEF Solves
<1>10. \A k \in 0 .. n : read[k] \in Seq(Node) /\ Range(read[k]) = Upto(k)
  <2> DEFINE P == {k \in 0 .. n : read[k] \in Seq(Node) /\ Range(read[k]) = Upto(k)}
  <2>1. 0 \in P
    <3>1. Range(<<>>) = {} /\ <<>> \in Seq(Node)
      BY DEF Range
    <3>2. Upto(0) = {}
      OBVIOUS
    <3> HIDE DEF Upto
    <3>3. 0 \in 0 .. n /\ read[0] \in Seq(Node) /\ Range(read[0]) = Upto(0)
      BY <1>9, <3>1, <3>2
    <3> QED BY <3>3
  <2>2. ASSUME NEW k \in 1 .. n, k - 1 \in P PROVE k \in P
    <3>1. read[k - 1] \in Seq(Node) /\ Range(read[k - 1]) = Upto(k - 1)
      BY <2>2
    <3>2. Step(k, read[k - 1]) \in Seq(Node) /\ Range(Step(k, read[k - 1])) = Upto(k)
      BY <1>2, <3>1
    <3> HIDE DEF Step, Upto
    <3> QED BY <1>9, <3>2
  <2> HIDE DEF P
  <2>3. \A k \in 0 .. n : k \in P
    BY <2>1, <2>2, Induction
  <2> QED BY <2>3 DEF P
<1>11. Upto(n) = {Dirent(x) : x \in {y \in Range(slots) : IsEntry(y)}}
  BY DEF Range
<1>12. n \in 0 .. n
  OBVIOUS
<1> HIDE DEF Upto
<1> QED BY <1>6, <1>10, <1>11, <1>12, Zenon

\* A bounded set of positions that is not empty has a greatest one.
LEMMA MaxIsElement ==
  ASSUME NEW n \in Nat, NEW S \in SUBSET (1 .. n), S # {}
  PROVE  Max(S) \in S /\ \A x \in S : Max(S) >= x
<1> DEFINE D == {d \in 0 .. n : n - d \in S}
<1>1. PICK x \in S : TRUE
  OBVIOUS
<1>2. n - x \in D /\ D \in SUBSET Nat
  BY <1>1
<1>3. PICK d \in D : \A e \in D : d <= e
  BY <1>2, LeastElement
<1>4. n - d \in S
  BY <1>3
<1>5. ASSUME NEW y \in S PROVE n - d >= y
  <2>1. n - y \in D
    OBVIOUS
  <2>2. d <= n - y
    BY <1>3, <2>1
  <2> QED BY <1>3, <2>2
<1>6. Max(S) = CHOOSE z \in S : \A y \in S : z >= y
  BY DEF Max
<1> HIDE DEF D
<1> QED BY <1>4, <1>5, <1>6

\* A product of positive numbers is positive.
LEMMA PositiveProduct ==
  ASSUME NEW a \in Nat \ {0}, NEW b \in Nat \ {0}
  PROVE  a * b \in Nat \ {0} /\ a * b = b * a
OBVIOUS

\* The numbers that follow from the fields of a volume.
LEMMA VolumeFields ==
  ASSUME NEW v, IsVolume(v)
  PROVE  /\ v.spc \in Nat \ {0} /\ v.fatSize \in Nat \ {0} /\ Sector \in Nat \ {0}
         /\ v.spc * Sector \in Nat \ {0} /\ Sector * v.spc = v.spc * Sector
         /\ PerSector \in Nat /\ v.spc * PerSector \in Nat
         /\ v.tables * v.fatSize \in Nat
         /\ FatStart(v) \in Nat /\ RootStart(v) \in Nat /\ DataStart(v) \in Nat
<1>1. /\ v.spc \in Nat \ {0} /\ v.fatSize \in Nat \ {0} /\ v.tables \in Nat
      /\ v.partition \in Nat /\ v.reserved \in Nat /\ v.rootEntries \in Nat
  BY DEF IsVolume
<1>2. Sector \in Nat \ {0} /\ EntrySize \in Nat \ {0}
  BY SizesAssumption
<1>3. v.spc * Sector \in Nat \ {0} /\ Sector * v.spc = v.spc * Sector
  BY <1>1, <1>2, PositiveProduct
<1>4. PerSector \in Nat
  BY <1>2 DEF PerSector
<1>5. v.spc * PerSector \in Nat
  BY <1>1, <1>4
<1>6. v.tables * v.fatSize \in Nat /\ v.rootEntries * EntrySize + Sector - 1 \in Nat
  <2>1. v.rootEntries * EntrySize \in Nat
    BY <1>1, <1>2
  <2> QED BY <1>1, <1>2, <2>1
<1>7. CeilDiv(v.rootEntries * EntrySize, Sector) \in Nat
  <2> DEFINE x == v.rootEntries * EntrySize + Sector - 1
  <2>1. x \in Nat
    BY <1>6
  <2>2. CeilDiv(v.rootEntries * EntrySize, Sector) = x \div Sector
    BY DEF CeilDiv
  <2> HIDE DEF x
  <2> QED BY <1>2, <2>1, <2>2
<1>8. FatStart(v) \in Nat /\ RootStart(v) \in Nat
  BY <1>1, <1>6 DEF FatStart, RootStart
<1>9. DataStart(v) \in Nat
  BY <1>7, <1>8 DEF DataStart
<1> QED BY <1>1, <1>2, <1>3, <1>4, <1>5, <1>6, <1>8, <1>9

-----------------------------------------------------------------------------
(* What the steps read.                                                     *)

\* The volume that is mounted is one of the volumes, with numbers as fields.
LEMMA MountedFields ==
  ASSUME TInv
  PROVE  /\ IsVolume(vol)
         /\ fs = Mounted(vol) =>
              /\ fs # NotMounted /\ fs.type \in {"FAT12", "FAT16", "FAT32"}
              /\ fs.spc = vol.spc /\ fs.spc \in Nat \ {0} /\ fs.type = VolumeType(vol)
              /\ fs.fatStart = FatStart(vol) /\ fs.fatStart \in Nat
              /\ fs.dataStart \in Nat /\ fs.rootCluster \in Nat
              /\ ClusterSize = Sector * vol.spc /\ ClusterSize \in Nat \ {0}
<1>1. IsVolume(vol)
  BY VolumesAssumption DEF TInv, VolumeTyped
<1>2. VolumeType(vol) \in {"FAT12", "FAT16", "FAT32"}
  BY DEF VolumeType
<1>3. ASSUME fs = Mounted(vol)
      PROVE  /\ fs.type = VolumeType(vol) /\ fs.spc = vol.spc
             /\ fs.fatStart = vol.partition + vol.reserved
             /\ fs.dataStart = vol.partition + vol.reserved + vol.tables * MountedTable(vol)
             /\ fs.rootCluster = IF VolumeType(vol) = "FAT32" THEN vol.rootCluster ELSE 0
  BY <1>3 DEF Mounted
<1>4. vol.tables * MountedTable(vol) \in Nat
  <2>1. MountedTable(vol) \in {0, vol.fatSize} /\ vol.tables \in Nat
    BY <1>1 DEF MountedTable, IsVolume
  <2>2. vol.tables * vol.fatSize \in Nat /\ vol.tables * 0 = 0
    BY <1>1, <2>1, VolumeFields
  <2> QED BY <2>1, <2>2
<1>5. Sector * vol.spc \in Nat \ {0} /\ vol.spc \in Nat \ {0}
  BY <1>1, VolumeFields
<1>6. vol.partition \in Nat /\ vol.reserved \in Nat /\ vol.rootCluster \in Nat
  BY <1>1 DEF IsVolume
<1>7. NotMounted.type = "none"
  BY DEF NotMounted
<1> QED BY <1>1, <1>2, <1>3, <1>4, <1>5, <1>6, <1>7 DEF ClusterSize, FatStart

\* A sector address is a number.
LEMMA AddressTyped ==
  ASSUME NEW s \in Int
  PROVE  Address(s) \in 0 .. Wrap - 1
BY SizesAssumption DEF Address

\* Where a cluster begins is a number.
LEMMA ClusterAddress ==
  ASSUME TInv, fs = Mounted(vol)
  PROVE  Address(GetSector(cluster)) \in Nat
<1>1. cluster \in Nat /\ fs.dataStart \in Nat /\ fs.spc \in Nat
  BY MountedFields DEF TInv, ReadTyped
<1>2. (cluster - 2) * fs.spc \in Int
  BY <1>1
<1>3. GetSector(cluster) \in Int
  BY <1>1, <1>2 DEF GetSector
<1>4. Address(GetSector(cluster)) \in 0 .. Wrap - 1
  BY <1>3, AddressTyped
<1> QED BY <1>4

\* What is read of the table is a number.
LEMMA EntriesTyped ==
  ASSUME NEW v, IsVolume(v), v = vol
  PROVE  \A n \in Entries : n \in Nat
BY SizesAssumption DEF IsVolume, Entries, Range

\* The slots of some sectors.
LEMMA SlotsTyped ==
  ASSUME NEW v, IsVolume(v), NEW s \in Nat, NEW count \in Nat
  PROVE  /\ count * PerSector \in Nat
         /\ SlotsAt(v, s, count) \in [1 .. count * PerSector -> Slot \cup {NoSlot}]
<1>1. PerSector \in Nat
  BY SizesAssumption DEF PerSector
<1>2. count * PerSector \in Nat
  BY <1>1
<1>3. ASSUME NEW k PROVE SlotAt(v, k) \in Slot \cup {NoSlot}
  <2> DEFINE first == DataStart(v) * PerSector
             c == (k - first) \div (v.spc * PerSector) + 2
             i == IF k < first THEN k - RootStart(v) * PerSector
                  ELSE (k - first) % (v.spc * PerSector)
             slots == CASE k < first -> v.rootSlots
                        [] k >= first /\ c \in DOMAIN v.dirs -> v.dirs[c]
                        [] OTHER -> <<>>
  <2>1. SlotAt(v, k) = IF i + 1 \in DOMAIN slots THEN slots[i + 1] ELSE NoSlot
    BY DEF SlotAt
  <2>2. slots \in Seq(Slot) \/ slots = <<>>
    <3> HIDE DEF c, first
    <3> QED BY DEF IsVolume
  <2> HIDE DEF slots, i
  <2>3. i + 1 \in DOMAIN slots => slots[i + 1] \in Slot
    BY <2>2
  <2> QED BY <2>1, <2>3
<1> QED BY <1>2, <1>3 DEF SlotsAt

\* The bytes of some sectors.
LEMMA BytesTyped ==
  ASSUME NEW v, IsVolume(v), NEW s \in Nat, NEW count \in Nat
  PROVE  /\ BytesAt(v, s, count) \in Seq(Int \X Int)
         /\ Len(BytesAt(v, s, count)) = count * Sector
<1>1. count * Sector \in Nat
  BY SizesAssumption
<1>2. DataStart(v) \in Nat /\ v.spc * Sector \in Nat \ {0}
  BY VolumeFields
<1> DEFINE byte(j) == (s - DataStart(v)) * Sector + j - 1
           at(j) == IF s < DataStart(v) THEN <<-s, j>>
                    ELSE <<byte(j) \div (v.spc * Sector) + 2, byte(j) % (v.spc * Sector)>>
<1>4. ASSUME NEW j \in 1 .. count * Sector PROVE at(j) \in Int \X Int
  <2>1. j \in Int /\ -s \in Int /\ byte(j) \in Int
    BY <1>1, <1>2, SizesAssumption
  <2>2. byte(j) \div (v.spc * Sector) + 2 \in Int /\ byte(j) % (v.spc * Sector) \in Int
    <3> DEFINE b == byte(j)
               size == v.spc * Sector
    <3>1. b \in Int /\ size \in Nat \ {0}
      BY <1>2, <2>1
    <3> HIDE DEF b, size
    <3>2. b \div size + 2 \in Int /\ b % size \in Int
      BY <3>1
    <3> QED BY <3>2 DEF b, size
  <2> QED BY <2>1, <2>2
<1>5. BytesAt(v, s, count) = [j \in 1 .. count * Sector |-> at(j)]
  BY DEF BytesAt
<1> HIDE DEF at
<1>6. \A j \in 1 .. count * Sector : at(j) \in Int \X Int
  BY <1>4
<1>7. BytesAt(v, s, count) \in [1 .. count * Sector -> Int \X Int]
  BY <1>5, <1>6, Zenon
<1> DEFINE m == count * Sector
<1>8. m \in Nat
  BY <1>1
<1> HIDE DEF m
<1>9. \A f \in [1 .. m -> Int \X Int] : f \in Seq(Int \X Int) /\ Len(f) = m
  BY <1>8
<1> QED BY <1>7, <1>9 DEF m

-----------------------------------------------------------------------------
(* Types.                                                                   *)

\* Failed reads are counted up to the bound.
LEMMA FaultsTyped ==
  ASSUME TInv, NEW s
  PROVE  /\ ReadWorks(s) => faults' = faults
         /\ ReadFails(s) => faults' \in {faults, faults + 1}
         /\ ReadWorks(s) \/ ReadFails(s) => faults' \in 0 .. MaxFaults
BY SizesAssumption DEF TInv, VolumeTyped, ReadWorks, ReadFails

\* What get_next_fat_entry returns is a number.
LEMMA NextEntryTyped ==
  ASSUME TInv, NEW n \in Entries, NextEntry(cluster, n)
  PROVE  n \in Nat /\ faults' \in 0 .. MaxFaults
<1>1. n \in Nat
  BY MountedFields, EntriesTyped
<1>2. faults' = faults \/ \E s : ReadWorks(s) \/ ReadFails(s)
  BY DEF NextEntry
<1> QED BY <1>1, <1>2, FaultsTyped DEF TInv, VolumeTyped

\* A search finds a node of the directory, or leaves the node it began with.
LEMMA MatchTyped ==
  ASSUME NEW l \in Seq(Node)
  PROVE  \/ Match(l) = current /\ \A k \in DOMAIN l : l[k].name # Segment
         \/ \E k \in DOMAIN l : Match(l) = l[k] /\ l[k].name = Segment
<1> DEFINE found == {k \in DOMAIN l : l[k].name = Segment}
<1>1. found = {} => Match(l) = current /\ \A k \in DOMAIN l : l[k].name # Segment
  BY DEF Match
<1>2. ASSUME found # {} PROVE \E k \in DOMAIN l : Match(l) = l[k] /\ l[k].name = Segment
  <2>1. Len(l) \in Nat /\ found \in SUBSET (1 .. Len(l))
    OBVIOUS
  <2>2. Max(found) \in found
    <3> HIDE DEF found
    <3> QED BY <1>2, <2>1, MaxIsElement
  <2>3. Match(l) = l[Max(found)]
    BY <1>2 DEF Match, LastOf
  <2> HIDE DEF Match
  <2> QED BY <2>2, <2>3
<1> QED BY <1>1, <1>2

\* fat_load goes on from a search with values of the right types.
LEMMA SearchTyped ==
  ASSUME TInv, InDir, NEW l \in Seq(Node), Search(l), UNCHANGED <<vol, fs>>,
         faults' \in 0 .. MaxFaults
  PROVE  TInv'
<1>1. Match(l) \in Node \cup {NoNode}
  BY MatchTyped DEF TInv, ReadTyped
<1>2. /\ fs = Mounted(vol) /\ path \in Paths /\ path # <<>> /\ Len(path) \in Nat
      /\ path' = path /\ out' = out /\ result = NoResult
  BY PathsAssumption DEF TInv, VolumeTyped, ReadTyped, Search, InDir
<1>3. CASE Match(l) = NoNode
  <2>1. /\ result' = Failed /\ pc' = "idle"
        /\ UNCHANGED <<segment, current, list, offset, cluster, loc>>
    BY <1>3 DEF Search, Return, Fits, Node, NoNode
  <2> QED BY <1>2, <2>1 DEF TInv, VolumeTyped, ReadTyped, InDir, InFile
<1>4. CASE Match(l) # NoNode /\ Match(l).isDir
  <2> DEFINE node == Match(l)
  <2>1. node \in Node
    BY <1>1, <1>4
  <2>2. /\ OpenDir(node) /\ segment' = Least(segment, Len(path)) + 1
        /\ UNCHANGED <<loc, result>>
    BY <1>4 DEF Search
  <2>3. /\ cluster' \in Nat /\ current' = node /\ list' = <<>> /\ offset' = 0 /\ pc' = "dir"
    BY <1>4, <2>1, <2>2 DEF OpenDir, Node
  <2>4. segment' \in 1 .. Len(path) + 1
    BY <1>2, <2>2 DEF Least, TInv, VolumeTyped
  <2> HIDE DEF node
  <2>5. VolumeTyped'
    BY <1>2, <2>3, <2>4 DEF TInv, VolumeTyped, InDir, InFile
  <2>6. ReadTyped'
    BY <1>2, <2>1, <2>2, <2>3 DEF TInv, ReadTyped, InFile
  <2> QED BY <2>5, <2>6 DEF TInv
<1>5. CASE Match(l) # NoNode /\ ~Match(l).isDir
  <2> DEFINE node == Match(l)
  <2>1. node \in Node
    BY <1>1, <1>5
  <2>2. /\ current' = node /\ cluster' = node.cluster /\ loc' = 0
        /\ (Fits(node) /\ pc' = "data" /\ UNCHANGED result) \/ Return(Failed) \/ Return(0)
        /\ UNCHANGED <<segment, list, offset>>
    BY <1>5 DEF Search
  <2> HIDE DEF node
  <2>3. node.cluster \in Nat /\ node.size \in Nat
    BY <2>1 DEF Node
  <2>4. VolumeTyped'
    BY <1>2, <2>2 DEF TInv, VolumeTyped, InDir, InFile, Return
  <2>5. CASE Return(Failed)
    BY <1>2, <2>1, <2>2, <2>3, <2>4, <2>5 DEF TInv, ReadTyped, InFile, InDir, Return
  <2>6. out = <<>> /\ Len(out) = 0
    BY DEF TInv, ReadTyped, InDir
  <2>7. CASE Return(0)
    BY <1>2, <2>1, <2>2, <2>3, <2>4, <2>6, <2>7 DEF TInv, ReadTyped, InFile, InDir, Return
  <2>8. CASE Fits(node) /\ pc' = "data" /\ UNCHANGED result
    BY <1>2, <2>1, <2>2, <2>3, <2>4, <2>6, <2>8 DEF TInv, ReadTyped, InFile, InDir, Fits
  <2> QED BY <2>2, <2>5, <2>7, <2>8
<1> QED BY <1>3, <1>4, <1>5

\* What is added to the buffer stays within the file.
LEMMA StaysWithin ==
  ASSUME NEW a \in Nat, NEW b \in Nat, NEW n \in Nat, NEW m \in Nat, b <= n - a, n <= m
  PROVE  a + b <= n /\ a + b <= m
OBVIOUS

\* The beginning of a sequence.
LEMMA BeginningOf ==
  ASSUME NEW S, NEW s \in Seq(S), NEW t \in 0 .. Len(s)
  PROVE  /\ SubSeq(s, 1, t) \in Seq(S) /\ Len(SubSeq(s, 1, t)) = t
         /\ \A i \in 1 .. t : SubSeq(s, 1, t)[i] = s[i]
OBVIOUS

\* Every step keeps the types.
LEMMA StepTyped ==
  ASSUME TInv, [Next]_vars
  PROVE  TInv'
<1> USE DEF TInv, VolumeTyped, ReadTyped, InDir, InFile
<1>1. CASE ReadMbr
  <2>1. pc' \in {"boot", "idle"} /\ UNCHANGED <<vol, fs, dirVars, cluster, readVars>>
    BY <1>1 DEF ReadMbr
  <2>2. faults' \in 0 .. MaxFaults
    BY <1>1, FaultsTyped DEF ReadMbr
  <2> QED BY <1>1, <2>1, <2>2 DEF ReadMbr, dirVars, readVars
<1>2. CASE ReadBootSector
  <2>1. pc' = "idle" /\ UNCHANGED <<vol, dirVars, cluster, readVars>> /\ fs' \in {fs, Mounted(vol)}
    BY <1>2 DEF ReadBootSector
  <2>2. faults' \in 0 .. MaxFaults
    BY <1>2, FaultsTyped DEF ReadBootSector
  <2> QED BY <1>2, <2>1, <2>2 DEF ReadBootSector, dirVars, readVars
<1>3. CASE FatLoad
  <2>1. /\ path' \in Paths /\ segment' = 1 /\ out' = <<>> /\ result' = NoResult
        /\ UNCHANGED <<vol, fs, loc, faults>>
    BY <1>3 DEF FatLoad
  <2>2. path' \in Seq(STRING) /\ path' # <<>> /\ Len(path') \in Nat
    BY <2>1, PathsAssumption
  <2>3. CASE fs = NotMounted
    <3>1. pc' = "undefined" /\ UNCHANGED <<current, list, offset, cluster>>
      BY <1>3, <2>3 DEF FatLoad
    <3> QED BY <2>1, <2>2, <3>1, SizesAssumption
  <2>4. CASE fs # NotMounted
    <3>1. fs = Mounted(vol) /\ fs.rootCluster \in Nat
      BY <2>4, MountedFields
    <3>2. cluster' = fs.rootCluster /\ current' = NoNode /\ list' = <<>> /\ offset' = 0 /\ pc' = "dir"
      BY <1>3, <2>4 DEF FatLoad, OpenDir
    <3> QED BY <2>1, <2>2, <3>1, <3>2, SizesAssumption
  <2> QED BY <2>3, <2>4
<1>4. CASE ReadDirCluster
  <2> DEFINE s == Address(GetSector(cluster))
  <2>1. pc = "dir" /\ UNCHANGED <<vol, fs>> /\ fs = Mounted(vol)
    BY <1>4 DEF ReadDirCluster
  <2>2. \/ /\ ReadWorks(s) /\ list' = list \o Dirents(SlotsAt(vol, s, fs.spc)) /\ pc' = "dir_next"
           /\ UNCHANGED <<path, segment, current, offset, cluster, readVars>>
        \/ ReadFails(s) /\ Search(<<>>)
    BY <1>4 DEF ReadDirCluster
  <2>3. faults' \in 0 .. MaxFaults
    BY <2>2, FaultsTyped
  <2>4. CASE ReadFails(s) /\ Search(<<>>)
    <3>1. <<>> \in Seq(Node)
      OBVIOUS
    <3> QED BY <2>1, <2>3, <2>4, <3>1, SearchTyped
  <2>5. CASE /\ ReadWorks(s) /\ list' = list \o Dirents(SlotsAt(vol, s, fs.spc)) /\ pc' = "dir_next"
             /\ UNCHANGED <<path, segment, current, offset, cluster, readVars>>
    <3> DEFINE slots == SlotsAt(vol, s, fs.spc)
    <3>1. s \in Nat /\ fs.spc \in Nat /\ IsVolume(vol)
      BY <2>1, ClusterAddress, MountedFields
    <3>2. fs.spc * PerSector \in Nat /\ slots \in [1 .. fs.spc * PerSector -> Slot \cup {NoSlot}]
      BY <3>1, SlotsTyped
    <3> HIDE DEF slots, s
    <3>3. Dirents(slots) \in Seq(Node)
      BY <3>2, DirentsAre
    <3>4. list' \in Seq(Node)
      BY <2>5, <3>3 DEF slots
    <3> QED BY <2>1, <2>3, <2>5, <3>4 DEF readVars
  <2> QED BY <2>2, <2>4, <2>5
<1>5. CASE NextDirCluster
  <2>1. pc = "dir_next" /\ UNCHANGED <<vol, fs>> /\ fs = Mounted(vol)
    BY <1>5 DEF NextDirCluster
  <2>2. CASE current = NoNode /\ fs.type # "FAT32"
    <3>1. UNCHANGED faults
      BY <1>5, <2>2 DEF NextDirCluster
    <3>2. \/ /\ offset' = offset + 1 /\ cluster' = cluster + 1 /\ pc' = "dir"
             /\ UNCHANGED <<path, segment, current, list, readVars>>
          \/ Search(list)
      BY <1>5, <2>2 DEF NextDirCluster
    <3>3. CASE Search(list)
      BY <2>1, <3>1, <3>3, SearchTyped
    <3>4. CASE /\ offset' = offset + 1 /\ cluster' = cluster + 1 /\ pc' = "dir"
               /\ UNCHANGED <<path, segment, current, list, readVars>>
      BY <2>1, <3>1, <3>4 DEF readVars
    <3> QED BY <3>2, <3>3, <3>4
  <2>3. CASE ~(current = NoNode /\ fs.type # "FAT32")
    <3>1. PICK n \in Entries : /\ NextEntry(cluster, n)
                               /\ \/ cluster' = n /\ pc' = "dir" /\ UNCHANGED <<dirVars, readVars>>
                                  \/ Search(list)
      BY <1>5, <2>3, Zenon DEF NextDirCluster
    <3>2. n \in Nat /\ faults' \in 0 .. MaxFaults
      BY <3>1, NextEntryTyped
    <3>3. CASE Search(list)
      BY <2>1, <3>2, <3>3, SearchTyped
    <3>4. CASE cluster' = n /\ pc' = "dir" /\ UNCHANGED <<dirVars, readVars>>
      BY <2>1, <3>2, <3>4 DEF dirVars, readVars
    <3> QED BY <3>1, <3>3, <3>4
  <2> QED BY <2>2, <2>3
<1>6. CASE ReadCluster
  <2> DEFINE s == Address(GetSector(cluster))
             take == Take(current.size, Len(out))
  <2>1. /\ pc = "data" /\ UNCHANGED <<vol, fs, dirVars, cluster>> /\ fs = Mounted(vol)
        /\ current \in Node /\ current.size \in Nat /\ current.size <= MaxSize /\ Len(out) <= current.size
    BY <1>6 DEF ReadCluster, Node
  <2>2. \/ /\ ReadWorks(s) /\ out' = out \o SubSeq(BytesAt(vol, s, fs.spc), 1, take)
           /\ pc' = "next" /\ UNCHANGED <<loc, result>>
        \/ ReadFails(s) /\ Return(Failed) /\ UNCHANGED <<loc, out>>
        \/ pc' = "next" /\ UNCHANGED <<readVars, faults>>
    BY <1>6 DEF ReadCluster
  <2>3. faults' \in 0 .. MaxFaults
    BY <2>2, FaultsTyped
  <2>4. CASE /\ ReadWorks(s) /\ out' = out \o SubSeq(BytesAt(vol, s, fs.spc), 1, take)
             /\ pc' = "next" /\ UNCHANGED <<loc, result>>
    <3>1. s \in Nat /\ fs.spc \in Nat /\ IsVolume(vol)
      BY <2>1, ClusterAddress, MountedFields
    <3> DEFINE bytes == BytesAt(vol, s, fs.spc)
    <3>2. bytes \in Seq(Int \X Int) /\ Len(bytes) = fs.spc * Sector
      BY <3>1, BytesTyped
    <3>3. ClusterSize \in Nat /\ ClusterSize = fs.spc * Sector
      BY <2>1, MountedFields, VolumeFields
    <3>4. take \in 0 .. Len(bytes) /\ take <= current.size - Len(out)
      BY <2>1, <3>2, <3>3 DEF Take, Least
    <3> HIDE DEF bytes, s, take
    <3>5. SubSeq(bytes, 1, take) \in Seq(Int \X Int) /\ Len(SubSeq(bytes, 1, take)) = take
      BY <3>2, <3>4, BeginningOf
    <3>6. out' \in Seq(Int \X Int) /\ Len(out') = Len(out) + take
      BY <2>4, <3>5 DEF bytes
    <3>7. Len(out') <= current.size /\ Len(out') <= MaxSize
      <4>1. Len(out) \in Nat /\ take \in Nat /\ MaxSize \in Nat /\ current.size \in Nat
        BY <2>1, <3>2, <3>4, SizesAssumption DEF TInv, ReadTyped
      <4>2. Len(out) + take <= current.size /\ Len(out) + take <= MaxSize
        BY <2>1, <3>4, <4>1, StaysWithin
      <4>3. Len(out') = Len(out) + take
        BY <3>6
      <4> QED BY <4>2, <4>3, Zenon
    <3> QED BY <2>1, <2>3, <2>4, <3>6, <3>7 DEF dirVars
  <2>5. CASE ReadFails(s) /\ Return(Failed) /\ UNCHANGED <<loc, out>>
    <3>1. path \in Paths /\ path # <<>>
      BY <2>1, PathsAssumption
    <3> HIDE DEF s
    <3> QED BY <2>1, <2>3, <2>5, <3>1 DEF dirVars, Return
  <2>6. CASE pc' = "next" /\ UNCHANGED <<readVars, faults>>
    BY <2>1, <2>3, <2>6 DEF dirVars, readVars
  <2> QED BY <2>2, <2>4, <2>5, <2>6
<1>7. CASE NextCluster
  <2>1. /\ pc = "next" /\ UNCHANGED <<vol, fs, dirVars, out>> /\ fs = Mounted(vol)
        /\ loc' = Least(loc + ClusterSize, MaxSize)
    BY <1>7 DEF NextCluster
  <2>2. PICK n \in Entries : /\ NextEntry(cluster, n) /\ cluster' = n
                             /\ (pc' = "data" /\ UNCHANGED result) \/ Return(Len(out))
    BY <1>7, Zenon DEF NextCluster
  <2>3. n \in Nat /\ faults' \in 0 .. MaxFaults
    BY <2>2, NextEntryTyped
  <2>4. loc' \in Nat
    BY <2>1, MountedFields, SizesAssumption DEF Least
  <2>5. path \in Paths /\ path # <<>>
    BY <2>1, PathsAssumption
  <2> QED BY <2>1, <2>2, <2>3, <2>4, <2>5 DEF dirVars, Return
<1>8. CASE Undefined \/ UNCHANGED vars
  <2>1. UNCHANGED vars
    BY <1>8 DEF Undefined
  <2> QED BY <2>1 DEF vars
<1> QED BY <1>1, <1>2, <1>3, <1>4, <1>5, <1>6, <1>7, <1>8 DEF Next

\* In the beginning nothing is read.
LEMMA InitTyped ==
  ASSUME Init
  PROVE  TInv
<1>1. <<>> \in Seq(Node) /\ <<>> \in Seq(Int \X Int) /\ Len(<<>>) = 0
  OBVIOUS
<1>2. MaxSize \in Nat /\ MaxFaults \in Nat
  BY SizesAssumption
<1>3. VolumeTyped
  BY <1>1, <1>2 DEF Init, VolumeTyped, InDir, InFile
<1>4. ReadTyped
  BY <1>1, <1>2 DEF Init, ReadTyped, InDir, InFile
<1> QED BY <1>3, <1>4 DEF TInv

\* The types, in every state.
LEMMA AlwaysTyped == Spec => []TInv
<1>1. Init => TInv
  BY InitTyped
<1>2. TInv /\ [Next]_vars => TInv'
  BY StepTyped
<1> QED BY <1>1, <1>2, PTL DEF Spec

(***************************************************************************)
(* Whatever lies on the card, sound or not: the buffer is never overrun,   *)
(* fat_load returns an error or the number of bytes it stored, and the     *)
(* path is searched segment by segment.                                    *)
(***************************************************************************)
THEOREM FatTyped == Spec => []TypeOK
<1>1. ASSUME TInv PROVE TypeOK
  <2>1. fs.type \in {"none", "FAT12", "FAT16", "FAT32"}
    <3>1. fs = NotMounted => fs.type = "none"
      BY DEF NotMounted
    <3>2. fs \in {NotMounted, Mounted(vol)}
      BY <1>1 DEF TInv, VolumeTyped
    <3> QED BY <1>1, <3>1, <3>2, MountedFields
  <2>2. current.name = "" \/ current.cluster \in Nat
    <3>1. current \in Node \cup {NoNode}
      BY <1>1 DEF TInv, ReadTyped
    <3>2. NoNode.name = ""
      BY DEF NoNode
    <3>3. current \in Node => current.cluster \in Nat
      BY DEF Node
    <3> QED BY <3>1, <3>2, <3>3
  <2>3. result = NoResult \/ result = Failed \/ result = Len(out)
    BY <1>1 DEF TInv, ReadTyped
  <2> QED BY <1>1, <2>1, <2>2, <2>3 DEF TInv, VolumeTyped, ReadTyped, TypeOK
<1>2. TInv => TypeOK
  BY <1>1
<1> QED BY <1>2, AlwaysTyped, PTL

-----------------------------------------------------------------------------
(* Directories, by their chains.                                            *)

\* All entries of the directory at c.
AllEntries(v, c) == {Dirent(x) : x \in {y \in SlotsOf(v, c) : IsEntry(y)}}

\* The directories are sound, and every cluster of a chain of theirs is below the
\* mark.
LEMMA DirIsSound ==
  ASSUME NEW v, IsVolume(v), Sound(v), NEW node \in DirNodes(v) \cup {RootNode(v)}
  PROVE  SoundDir(v, node.cluster) /\ node \in Node /\ node.isDir
<1>1. CASE node = RootNode(v)
  <2>1. v.rootCluster \in Nat /\ SoundDir(v, v.rootCluster)
    BY DEF Sound, IsVolume
  <2>2. node.cluster = v.rootCluster /\ node.isDir
    BY <1>1 DEF RootNode
  <2>3. node \in Node
    BY <2>1, <1>1, RootIsNode
  <2> QED BY <2>1, <2>2, <2>3
<1>2. CASE node \in DirNodes(v)
  <2>0. PICK d \in DOMAIN v.dirs :
          \E x \in Range(v.dirs[d]) : x.kind = "dir" /\ node = Dirent(x)
    BY <1>2 DEF DirNodes, SlotsOfDirs
  <2>1. PICK x \in Range(v.dirs[d]) : x.kind = "dir" /\ node = Dirent(x)
    BY <2>0
  <2>2. x \in Slot
    BY <2>1 DEF IsVolume, Range
  <2>3. SoundDir(v, x.cluster)
    BY <2>1 DEF Sound
  <2> QED BY <2>1, <2>2, <2>3, DirentIsNode
<1> QED BY <1>1, <1>2

\* The size of the table.
LEMMA TableSize ==
  ASSUME NEW v, IsVolume(v), Sound(v)
  PROVE  /\ Cardinality(DOMAIN v.fat) \in Nat \ {0} /\ Cardinality(DOMAIN v.fat) <= BadMark
         /\ DOMAIN v.fat = 0 .. Cardinality(DOMAIN v.fat) - 1
         /\ BadMark \in Nat
BY SizesAssumption DEF Sound

\* Clusters have an entry in the table.
LEMMA ClustersInTable ==
  ASSUME NEW v, IsVolume(v), Sound(v), NEW c \in Clusters(v)
  PROVE  c \in DOMAIN v.fat /\ c \in Nat /\ c < BadMark /\ v.fat[c] \in Nat
<1>1. c \in DOMAIN v.fat
  BY DEF Clusters
<1>2. v.fat[c] \in Nat
  BY <1>1 DEF IsVolume
<1>3. c \in Nat /\ c < BadMark
  BY <1>1, TableSize
<1> QED BY <1>1, <1>2, <1>3

\* A chain that has reached a mark stays there.
LEMMA ChainRests ==
  ASSUME NEW v, IsVolume(v), Sound(v), NEW c \in Nat, NEW n \in Nat,
         n = Cardinality(DOMAIN v.fat), NEW m \in 0 .. n, ChainOf(v, c)[m] >= BadMark
  PROVE  \A k \in m .. n : ChainOf(v, c)[k] = ChainOf(v, c)[m]
<1> DEFINE at == ChainOf(v, c)
           P == {k \in 0 .. n : k >= m => at[k] = at[m]}
<1>1. at[m] \in Nat /\ at[m] \notin DOMAIN v.fat
  <2>1. IsChain(at, v, c, n) /\ at[m] >= BadMark
    BY ChainSteps
  <2> HIDE DEF at
  <2>2. at[m] \in Nat
    BY <2>1 DEF IsChain
  <2> QED BY <2>1, <2>2, TableSize
<1>2. 0 \in P
  OBVIOUS
<1>3. ASSUME NEW k \in 1 .. n, k - 1 \in P PROVE k \in P
  <2>1. CASE k - 1 >= m
    <3>1. at[k - 1] = at[m]
      BY <1>3, <2>1
    <3>2. IsChain(at, v, c, n)
      BY ChainSteps
    <3> HIDE DEF at
    <3> QED BY <1>1, <3>1, <3>2 DEF IsChain
  <2>2. CASE ~(k - 1 >= m)
    <3>1. k >= m => k = m
      BY <2>2
    <3> QED BY <3>1
  <2> QED BY <2>1, <2>2
<1> HIDE DEF P
<1>4. \A k \in 0 .. n : k \in P
  BY <1>2, <1>3, Induction
<1> QED BY <1>4 DEF P

\* From a cluster of a directory the chain goes on to the next one or to its
\* end, and then all entries have been seen.
LEMMA DirGoesOn ==
  ASSUME NEW v, IsVolume(v), Sound(v), NEW c \in Nat, SoundDir(v, c),
         NEW n \in Nat, n = Cardinality(DOMAIN v.fat), NEW j \in 0 .. n - 1,
         \A k \in 0 .. j : ChainOf(v, c)[k] \in DOMAIN v.dirs
  PROVE  /\ ChainOf(v, c)[j] \in DOMAIN v.fat /\ ChainOf(v, c)[j + 1] = v.fat[ChainOf(v, c)[j]]
         /\ ChainOf(v, c)[j + 1] < BadMark =>
              j + 1 \in 0 .. n - 1 /\ ChainOf(v, c)[j + 1] \in DOMAIN v.dirs
         /\ ChainOf(v, c)[j + 1] >= BadMark => EntriesIn(v, c, 0 .. j) = AllEntries(v, c)
<1> DEFINE at == ChainOf(v, c)
<1>0. IsChain(at, v, c, n)
  BY ChainSteps
<1>1. (\A k \in 0 .. n : at[k] \in Nat) /\ DOMAIN at = 0 .. n
  <2> HIDE DEF at
  <2> QED BY <1>0 DEF IsChain
<1>2. PICK m \in 1 .. n : /\ \A k \in 0 .. m - 1 : at[k] \in DOMAIN v.dirs
                          /\ at[m] >= BadMark
  BY DEF SoundDir
<1>3. \A k \in 0 .. n : at[k] \in DOMAIN v.dirs => at[k] \in DOMAIN v.fat /\ at[k] < BadMark
  <2>1. DOMAIN v.dirs \subseteq Clusters(v)
    BY DEF Sound
  <2> HIDE DEF at
  <2> QED BY <2>1, ClustersInTable
<1>4. m \in 0 .. n /\ \A k \in m .. n : at[k] = at[m]
  <2>1. m \in 0 .. n
    OBVIOUS
  <2> QED BY <1>2, <2>1, ChainRests
<1>5. at[j] \in DOMAIN v.fat /\ at[j + 1] = v.fat[at[j]]
  <2>1. at[j] \in DOMAIN v.fat
    BY <1>3
  <2>2. j + 1 \in 1 .. n /\ (j + 1) - 1 = j
    OBVIOUS
  <2> HIDE DEF at
  <2> QED BY <1>0, <2>1, <2>2 DEF IsChain
<1> HIDE DEF at
<1>6. j < m
  <2>1. \A k \in 0 .. j : at[k] \in DOMAIN v.dirs
    BY DEF at
  <2>2. ASSUME m \in 0 .. j PROVE FALSE
    <3>1. at[m] \in Nat /\ at[m] < BadMark
      <4>1. m \in 0 .. n /\ at[m] \in DOMAIN v.dirs
        BY <2>1, <2>2
      <4> QED BY <1>1, <1>3, <4>1
    <3> QED BY <1>2, <3>1, TableSize
  <2> QED BY <2>2
<1>7. at[j + 1] < BadMark => j + 1 \in 0 .. n - 1 /\ at[j + 1] \in DOMAIN v.dirs
  <2>1. at[j + 1] < BadMark => j + 1 # m
    BY <1>1, <1>2, <1>4, TableSize
  <2> QED BY <1>2, <1>6, <2>1
<1>8. ASSUME at[j + 1] >= BadMark PROVE EntriesIn(v, c, 0 .. j) = AllEntries(v, c)
  <2>1. m = j + 1
    <3>1. ASSUME j + 1 \in 0 .. m - 1 PROVE FALSE
      <4>1. j + 1 \in 0 .. n /\ at[j + 1] \in DOMAIN v.dirs
        BY <1>2, <3>1
      <4> QED BY <1>1, <1>3, <1>8, <4>1, TableSize
    <3> QED BY <1>6, <3>1
  <2>2. at[m] \notin DOMAIN v.dirs
    BY <1>1, <1>2, <1>3, <1>4, TableSize
  <2>3. \A k \in 0 .. n : at[k] \in DOMAIN v.dirs <=> k \in 0 .. j
    <3>1. \A k \in 0 .. n : k \in 0 .. j \/ k \in m .. n
      BY <2>1
    <3> QED BY <1>2, <1>4, <2>1, <2>2, <3>1
  <2>4. SlotsOf(v, c) = UNION {Range(v.dirs[at[k]]) : k \in 0 .. j}
    <3>1. ASSUME NEW x \in SlotsOf(v, c) PROVE \E k \in 0 .. j : x \in Range(v.dirs[at[k]])
      <4>1. PICK d \in Range(at) \cap DOMAIN v.dirs : x \in Range(v.dirs[d])
        BY DEF SlotsOf, at
      <4>2. PICK k \in 0 .. n : at[k] = d
        BY <1>1, <4>1 DEF Range
      <4> QED BY <2>3, <4>1, <4>2
    <3>2. ASSUME NEW k \in 0 .. j, NEW x \in Range(v.dirs[at[k]]) PROVE x \in SlotsOf(v, c)
      <4>1. k \in 0 .. n /\ at[k] \in DOMAIN v.dirs
        BY <2>3
      <4>2. at[k] \in Range(at)
        BY <1>1, <4>1 DEF Range
      <4> QED BY <4>1, <4>2 DEF SlotsOf, at
    <3> QED BY <3>1, <3>2
  <2> QED BY <2>4 DEF EntriesIn, AllEntries, at
<1> QED BY <1>5, <1>7, <1>8 DEF at

-----------------------------------------------------------------------------
(* Paths, by their nodes.                                                   *)

\* Nodes have names.
LEMMA NodesAreNamed ==
  ASSUME NEW node \in Node
  PROVE  node.name # "" /\ node # NoNode /\ node.isDir \in BOOLEAN /\ node.cluster \in Nat
<1>1. node.name # ""
  BY NamesAssumption DEF Node, Range
<1>2. NoNode.name = ""
  BY DEF NoNode
<1>3. node.isDir \in BOOLEAN /\ node.cluster \in Nat
  BY DEF Node
<1> QED BY <1>1, <1>2, <1>3

\* The slots of a directory are slots.
LEMMA SlotsOfTyped ==
  ASSUME NEW v, IsVolume(v), NEW c
  PROVE  /\ SlotsOf(v, c) \subseteq Slot
         /\ \A x \in SlotsOf(v, c) : \E d \in DOMAIN v.dirs : x \in Range(v.dirs[d])
<1>1. ASSUME NEW x \in SlotsOf(v, c)
      PROVE  x \in Slot /\ \E d \in DOMAIN v.dirs : x \in Range(v.dirs[d])
  <2>1. PICK d \in DOMAIN v.dirs : x \in Range(v.dirs[d])
    BY DEF SlotsOf
  <2>2. v.dirs[d] \in Seq(Slot)
    BY DEF IsVolume
  <2>3. x \in Slot
    BY <2>1, <2>2 DEF Range
  <2> QED BY <2>1, <2>3
<1> QED BY <1>1

\* A segment leads from a directory to an entry of its name, or nowhere.
LEMMA BelowIsNamed ==
  ASSUME NEW v, IsVolume(v), NEW node, NEW name
  PROVE  /\ NodeBelow(v, node, name) \in Node \cup {NoNode}
         /\ NodeBelow(v, node, name) # NoNode =>
              node # NoNode /\ node.isDir /\ Named(v, node.cluster, name) # {}
<1> DEFINE found == IF node = NoNode \/ ~node.isDir THEN {} ELSE Named(v, node.cluster, name)
<1>1. Named(v, node.cluster, name) \subseteq Node
  BY SlotsOfTyped, DirentIsNode DEF Named
<1>2. found \subseteq Node
  BY <1>1
<1>3. NodeBelow(v, node, name) = IF found = {} THEN NoNode ELSE CHOOSE e \in found : TRUE
  BY DEF NodeBelow
<1>4. found # {} => (CHOOSE e \in found : TRUE) \in found
  <2> HIDE DEF found
  <2> QED OBVIOUS
<1>5. found # {} => node # NoNode /\ node.isDir /\ Named(v, node.cluster, name) # {}
  OBVIOUS
<1> HIDE DEF found
<1> QED BY <1>2, <1>3, <1>4, <1>5

\* A path begins at the root, and goes on as its segments say.
LEMMA NodeSteps ==
  ASSUME NEW v, IsVolume(v), NEW p, NEW n \in Nat, n = Len(p)
  PROVE  /\ NodeAt(v, p, 0) = RootNode(v)
         /\ \A k \in 1 .. n : NodeAt(v, p, k) = NodeBelow(v, NodeAt(v, p, k - 1), p[k])
         /\ \A k \in 0 .. n : NodeAt(v, p, k) \in Node \cup {NoNode}
<1> DEFINE S == Node \cup {NoNode}
           Step(k, x) == NodeBelow(v, x, p[k])
<1>1. \A k \in 1 .. n, x \in S : Step(k, x) \in S
  BY BelowIsNamed
<1>2. RootNode(v) \in S
  BY RootIsNode
<1> HIDE DEF S
<1>3. PICK F : F = [k \in 1 .. n |-> [x \in S |-> Step(k, x)]]
  OBVIOUS
<1>4. /\ \A k \in 1 .. n, x \in S : F[k][x] = Step(k, x)
      /\ F \in [1 .. n -> [S -> S]]
  <2> HIDE DEF Step
  <2> QED BY <1>1, <1>3, Zenon
<1>5. PICK f : Iterates(f, n, S, RootNode(v), F)
  BY <1>2, <1>4, Recursion, Zenon
<1> DEFINE Solves(g) == g = [i \in 0 .. n |-> IF i = 0 THEN RootNode(v) ELSE Step(i, g[i - 1])]
           node == CHOOSE g : Solves(g)
<1>6. ASSUME NEW k PROVE NodeAt(v, p, k) = node[k]
  BY DEF NodeAt
<1>7. Solves(f)
  <2> HIDE DEF Step
  <2>1. f \in [0 .. n -> S] /\ f[0] = RootNode(v)
    BY <1>5 DEF Iterates
  <2>2. ASSUME NEW k \in 1 .. n PROVE f[k] = Step(k, f[k - 1])
    <3>1. f[k - 1] \in S
      BY <2>1
    <3> QED BY <1>4, <1>5, <3>1 DEF Iterates
  <2> QED BY <2>1, <2>2
<1>8. Solves(node)
  <2> HIDE DEF Solves
  <2> QED BY <1>7
<1> HIDE DEF node
<1>9. node[0] = RootNode(v) /\ \A k \in 1 .. n : node[k] = Step(k, node[k - 1])
  <2> HIDE DEF Step
  <2> QED BY <1>8
<1> HIDE DEF Solves
<1>10. \A k \in 1 .. n : node[k] = NodeBelow(v, node[k - 1], p[k])
  BY <1>9
<1>11. ASSUME NEW k \in 0 .. n PROVE node[k] \in Node \cup {NoNode}
  <2>1. CASE k = 0
    BY <1>2, <1>9, <2>1 DEF S
  <2>2. CASE k # 0
    <3>1. k \in 1 .. n
      BY <2>2
    <3> QED BY <1>10, <3>1, BelowIsNamed
  <2> QED BY <2>1, <2>2
<1> QED BY <1>6, <1>9, <1>10, <1>11, Zenon

\* The nodes on the way to a file are directories.
LEMMA DirsOnTheWay ==
  ASSUME NEW v, IsVolume(v), NEW p, NEW n \in Nat, n = Len(p), IsFile(v, p)
  PROVE  /\ \A k \in 0 .. n : NodeAt(v, p, k) # NoNode
         /\ \A k \in 0 .. n - 1 : NodeAt(v, p, k).isDir
<1> DEFINE at(k) == NodeAt(v, p, k)
           P == {i \in 0 .. n : at(n - i) # NoNode /\ (i # 0 => at(n - i).isDir)}
<1>1. 0 \in P
  <2>1. at(n) # NoNode
    BY DEF IsFile, NodeOf
  <2>2. n - 0 = n
    OBVIOUS
  <2> HIDE DEF at
  <2> QED BY <2>1, <2>2
<1>2. ASSUME NEW i \in 1 .. n, i - 1 \in P PROVE i \in P
  <2>1. n - (i - 1) \in 1 .. n /\ (n - (i - 1)) - 1 = n - i
    OBVIOUS
  <2>2. at(n - (i - 1)) # NoNode
    BY <1>2
  <2>3. at(n - (i - 1)) = NodeBelow(v, at(n - i), p[n - (i - 1)])
    BY <2>1, NodeSteps
  <2>4. at(n - i) # NoNode /\ at(n - i).isDir
    BY <2>2, <2>3, BelowIsNamed
  <2> HIDE DEF at
  <2> QED BY <2>4
<1> HIDE DEF P
<1>3. \A i \in 0 .. n : i \in P
  BY <1>1, <1>2, Induction
<1>4. ASSUME NEW k \in 0 .. n PROVE at(k) # NoNode /\ (k # n => at(k).isDir)
  <2>1. n - k \in 0 .. n /\ n - (n - k) = k /\ (k # n => n - k # 0)
    OBVIOUS
  <2>2. n - k \in P
    BY <1>3, <2>1
  <2> HIDE DEF at
  <2> QED BY <2>1, <2>2 DEF P
<1> QED BY <1>4

\* An entry of a directory that a path may ask for is the node of its name.
LEMMA FoundBelow ==
  ASSUME NEW v, IsVolume(v), Sound(v), NEW dir \in DirNodes(v) \cup {RootNode(v)},
         NEW e \in AllEntries(v, dir.cluster), NEW p \in Paths, e.name \in Range(p)
  PROVE  /\ e = NodeBelow(v, dir, e.name)
         /\ IF e.isDir THEN e \in DirNodes(v) ELSE e \in FileNodes(v)
<1>1. PICK x \in SlotsOf(v, dir.cluster) : IsEntry(x) /\ e = Dirent(x)
  BY DEF AllEntries
<1>2. PICK d \in DOMAIN v.dirs : x \in Range(v.dirs[d])
  BY SlotsOfTyped
<1>3. x \in Slot /\ e.name = Lower[x.name] /\ e.isDir = (x.kind = "dir")
  BY <1>1, SlotsOfTyped, DirentIsNode
<1>4. x.kind \in {"file", "dir"}
  <2>1. x.kind = "label" => Lower[x.name] \notin Range(p)
    BY <1>2 DEF Sound
  <2> QED BY <1>1, <1>3, <2>1 DEF IsEntry
<1>5. Named(v, dir.cluster, e.name) = {e}
  <2>1. e \in Named(v, dir.cluster, e.name)
    BY <1>1, <1>3, <1>4 DEF Named
  <2>2. ASSUME NEW f \in Named(v, dir.cluster, e.name) PROVE f = e
    <3>1. PICK y \in SlotsOf(v, dir.cluster) :
            y.kind \in {"file", "dir"} /\ Lower[y.name] = e.name /\ f = Dirent(y)
      BY DEF Named
    <3>2. IsEntry(y)
      BY <3>1 DEF IsEntry
    <3>3. SoundDir(v, dir.cluster)
      BY DirIsSound
    <3>4. x = y
      BY <1>1, <1>3, <3>1, <3>2, <3>3 DEF SoundDir
    <3> QED BY <1>1, <3>1, <3>4
  <2> QED BY <2>1, <2>2
<1>6. dir # NoNode /\ dir.isDir
  BY DirIsSound, NodesAreNamed
<1>7. e = NodeBelow(v, dir, e.name)
  <2>1. (CHOOSE f \in {e} : TRUE) = e
    OBVIOUS
  <2> QED BY <1>5, <1>6, <2>1 DEF NodeBelow
<1>8. IF e.isDir THEN e \in DirNodes(v) ELSE e \in FileNodes(v)
  BY <1>1, <1>2, <1>3, <1>4 DEF DirNodes, FileNodes, SlotsOfDirs
<1> QED BY <1>7, <1>8

\* A name that no entry has leads nowhere.
LEMMA NotFoundBelow ==
  ASSUME NEW v, IsVolume(v), NEW dir, NEW name,
         \A e \in AllEntries(v, dir.cluster) : e.name # name
  PROVE  NodeBelow(v, dir, name) = NoNode
<1>1. ASSUME Named(v, dir.cluster, name) # {} PROVE FALSE
  <2>1. PICK x \in SlotsOf(v, dir.cluster) : x.kind \in {"file", "dir"} /\ Lower[x.name] = name
    BY <1>1 DEF Named
  <2>2. x \in Slot /\ Dirent(x).name = name
    BY <2>1, SlotsOfTyped, DirentIsNode
  <2>3. Dirent(x) \in AllEntries(v, dir.cluster)
    BY <2>1 DEF AllEntries, IsEntry
  <2> QED BY <2>2, <2>3
<1> QED BY <1>1, BelowIsNamed

-----------------------------------------------------------------------------
(* Reads of a sound volume.                                                 *)

\* A place in the n-th of a row of units.
LEMMA PlaceInUnit ==
  ASSUME NEW U \in Nat \ {0}, NEW n \in Nat, NEW r \in 0 .. U - 1
  PROVE  (n * U + r) \div U = n /\ (n * U + r) % U = r
OBVIOUS

\* The unit of a place, and where it is in its unit.
LEMMA UnitOfPlace ==
  ASSUME NEW x \in Nat, NEW U \in Nat \ {0}
  PROVE  x \div U \in Nat /\ x % U \in 0 .. U - 1 /\ x = (x \div U) * U + (x % U)
OBVIOUS

\* Where a row of units begins, in smaller units.
LEMMA Rescaled ==
  ASSUME NEW a \in Int, NEW n \in Int, NEW d \in Int, NEW u \in Int
  PROVE  (a + n * d) * u = a * u + n * (d * u)
OBVIOUS

\* The first sector of a cluster.
SectorOf(v, c) == DataStart(v) + (c - 2) * v.spc

\* The file system is mounted from a sound volume of type FAT32.
SoundMount == TInv /\ fs = Mounted(vol) /\ fs.type = "FAT32" /\ Sound(vol)

\* Cluster numbers become the sectors of the clusters.
LEMMA GetsSector ==
  ASSUME SoundMount, NEW c \in Nat
  PROVE  GetSector(c) = SectorOf(vol, c)
<1>1. IsVolume(vol) /\ fs.spc = vol.spc
  BY MountedFields DEF SoundMount
<1>2. fs.dataStart = vol.partition + vol.reserved + vol.tables * vol.fatSize
  BY DEF SoundMount, Mounted, MountedTable
<1>3. vol.rootEntries * EntrySize = 0
  BY SizesAssumption DEF SoundMount, Sound
<1>4. (0 + Sector - 1) \div Sector = 0
  BY SizesAssumption
<1>5. CeilDiv(vol.rootEntries * EntrySize, Sector) = 0
  BY <1>3, <1>4 DEF CeilDiv
<1>6. DataStart(vol) = RootStart(vol) + 0 /\ RootStart(vol) \in Nat
  BY <1>1, <1>5, VolumeFields DEF DataStart
<1>7. RootStart(vol) = vol.partition + vol.reserved + vol.tables * vol.fatSize
  BY DEF RootStart, FatStart
<1> QED BY <1>1, <1>2, <1>6, <1>7 DEF GetSector, SectorOf

\* Clusters are read where they are, on the card.
LEMMA ClusterSector ==
  ASSUME SoundMount, NEW c \in Clusters(vol)
  PROVE  /\ Address(GetSector(c)) = SectorOf(vol, c) /\ SectorOf(vol, c) \in Nat
         /\ OnCard(vol, SectorOf(vol, c))
<1>1. IsVolume(vol) /\ vol.spc \in Nat /\ DataStart(vol) \in Nat
  BY MountedFields, VolumeFields DEF SoundMount
<1>2. c \in Nat /\ c >= 2 /\ OnCard(vol, SectorOf(vol, c))
  BY <1>1, ClustersInTable DEF Clusters, SectorOf, SoundMount
<1>3. SectorOf(vol, c) \in Nat /\ SectorOf(vol, c) <= vol.partition + vol.total - 1
  <2>1. (c - 2) * vol.spc \in Nat
    BY <1>1, <1>2
  <2> QED BY <1>1, <1>2, <2>1 DEF SectorOf, OnCard
<1>4. vol.partition + vol.total <= Wrap /\ vol.partition \in Nat /\ vol.total \in Nat
  BY <1>1 DEF SoundMount, Sound, IsVolume
<1>5. SectorOf(vol, c) < Wrap /\ Wrap \in Nat \ {0}
  BY <1>3, <1>4, SizesAssumption
<1>6. SectorOf(vol, c) % Wrap = SectorOf(vol, c)
  BY <1>3, <1>5
<1> QED BY <1>2, <1>3, <1>6, GetsSector DEF Address

\* The slots of a cluster are those of its directory.
LEMMA ClusterSlots ==
  ASSUME SoundMount, NEW c \in DOMAIN vol.dirs
  PROVE  /\ Dirents(SlotsAt(vol, SectorOf(vol, c), vol.spc)) \in Seq(Node)
         /\ Range(Dirents(SlotsAt(vol, SectorOf(vol, c), vol.spc))) =
              {Dirent(x) : x \in {y \in Range(vol.dirs[c]) : IsEntry(y)}}
<1>1. IsVolume(vol) /\ c \in Clusters(vol)
  BY MountedFields DEF SoundMount, Sound
<1>2. c \in Nat /\ c >= 2
  BY <1>1, ClustersInTable DEF Clusters, SoundMount
<1>3. /\ vol.spc \in Nat /\ PerSector \in Nat /\ vol.spc * PerSector \in Nat
      /\ DataStart(vol) \in Nat
  BY <1>1, VolumeFields
<1> DEFINE s == SectorOf(vol, c)
           m == vol.spc * PerSector
           slots == SlotsAt(vol, s, vol.spc)
           mine == vol.dirs[c]
<1>4. mine \in Seq(Slot) /\ Len(mine) <= m
  BY <1>1 DEF IsVolume, Sound, SoundMount
<1>5. s * PerSector = DataStart(vol) * PerSector + (c - 2) * m
  <2>1. c - 2 \in Int
    BY <1>2
  <2> QED BY <1>3, <2>1, Rescaled DEF SectorOf
<1>6. ASSUME NEW j \in 1 .. m
      PROVE  SlotAt(vol, s * PerSector + j - 1) = IF j \in DOMAIN mine THEN mine[j] ELSE NoSlot
  <2> DEFINE first == DataStart(vol) * PerSector
             k == s * PerSector + j - 1
  <2>1. first \in Nat /\ m \in Nat \ {0} /\ c - 2 \in Nat /\ j - 1 \in 0 .. m - 1
    BY <1>2, <1>3
  <2>2. (c - 2) * m \in Nat
    BY <2>1
  <2> HIDE DEF m
  <2>3. k = first + (c - 2) * m + (j - 1)
    BY <1>5, <2>1
  <2> HIDE DEF first, k
  <2>4. k >= first /\ ~(k < first) /\ k - first = (c - 2) * m + (j - 1)
    BY <2>1, <2>2, <2>3
  <2>5. ((c - 2) * m + (j - 1)) \div m = c - 2 /\ ((c - 2) * m + (j - 1)) % m = j - 1
    BY <2>1, PlaceInUnit
  <2>6. (k - first) \div m + 2 = c /\ ((k - first) % m) + 1 = j
    <3>1. (k - first) \div m = c - 2 /\ (k - first) % m = j - 1
      BY <2>4, <2>5, Zenon
    <3> QED BY <1>2, <2>1, <3>1
  <2>7. SlotAt(vol, k) = IF ((k - first) % m) + 1 \in DOMAIN vol.dirs[(k - first) \div m + 2]
                         THEN vol.dirs[(k - first) \div m + 2][((k - first) % m) + 1] ELSE NoSlot
    BY <2>4, <2>6 DEF SlotAt, first, m
  <2> QED BY <2>6, <2>7 DEF k
<1>7. m \in Nat /\ slots \in [1 .. m -> Slot \cup {NoSlot}]
  <2>1. s \in Nat
    BY <1>1, ClusterSector
  <2> QED BY <1>1, <1>3, <2>1, SlotsTyped
<1>8. \A j \in 1 .. m : slots[j] = IF j \in DOMAIN mine THEN mine[j] ELSE NoSlot
  BY <1>6 DEF SlotsAt
<1>9. Dirents(slots) \in Seq(Node)
      /\ Range(Dirents(slots)) = {Dirent(x) : x \in {y \in Range(slots) : IsEntry(y)}}
  <2> HIDE DEF m, slots
  <2> QED BY <1>7, DirentsAre
<1> HIDE DEF m, slots, mine
<1>10. ~IsEntry(NoSlot)
  BY DEF IsEntry, NoSlot
<1>11. {y \in Range(slots) : IsEntry(y)} = {y \in Range(mine) : IsEntry(y)}
  <2>1. DOMAIN slots = 1 .. m /\ DOMAIN mine \subseteq 1 .. m
    BY <1>4, <1>7
  <2>2. ASSUME NEW y \in Range(slots), IsEntry(y) PROVE y \in Range(mine)
    <3>1. PICK j \in 1 .. m : y = slots[j]
      BY <2>1 DEF Range
    <3>2. j \in DOMAIN mine /\ y = mine[j]
      BY <1>8, <1>10, <2>2, <3>1
    <3> QED BY <3>2 DEF Range
  <2>3. ASSUME NEW y \in Range(mine) PROVE y \in Range(slots)
    <3>1. PICK j \in DOMAIN mine : y = mine[j]
      BY DEF Range
    <3>2. j \in DOMAIN slots /\ slots[j] = y
      BY <1>8, <2>1, <3>1
    <3> QED BY <3>2 DEF Range
  <2> QED BY <2>2, <2>3
<1> QED BY <1>9, <1>11 DEF slots, mine

\* The bytes of a cluster.
LEMMA ClusterBytes ==
  ASSUME SoundMount, NEW c \in Clusters(vol), NEW j \in 1 .. vol.spc * Sector
  PROVE  BytesAt(vol, SectorOf(vol, c), vol.spc)[j] = <<c, j - 1>>
<1>1. IsVolume(vol)
  BY MountedFields DEF SoundMount
<1>2. c \in Nat /\ c >= 2
  BY <1>1, ClustersInTable DEF Clusters, SoundMount
<1> DEFINE m == vol.spc * Sector
           s == SectorOf(vol, c)
           byte == (s - DataStart(vol)) * Sector + j - 1
<1>3. /\ vol.spc \in Nat /\ Sector \in Nat /\ m \in Nat \ {0} /\ DataStart(vol) \in Nat
      /\ c - 2 \in Nat /\ j - 1 \in 0 .. m - 1
  BY <1>1, <1>2, VolumeFields
<1>4. (c - 2) * vol.spc \in Nat
  BY <1>3
<1>5. s \in Nat /\ ~(s < DataStart(vol)) /\ s - DataStart(vol) = 0 + (c - 2) * vol.spc
  BY <1>3, <1>4 DEF SectorOf
<1>6. (0 + (c - 2) * vol.spc) * Sector = 0 * Sector + (c - 2) * m
  BY <1>3, Rescaled
<1>7. BytesAt(vol, s, vol.spc)[j] = <<byte \div m + 2, byte % m>>
  BY <1>5 DEF BytesAt
<1> HIDE DEF m, s
<1>8. byte = (c - 2) * m + (j - 1)
  <2>1. (c - 2) * m \in Nat
    BY <1>3
  <2> QED BY <1>3, <1>5, <1>6, <2>1
<1> HIDE DEF byte
<1>9. byte \div m = c - 2 /\ byte % m = j - 1
  BY <1>3, <1>8, PlaceInUnit
<1> QED BY <1>2, <1>7, <1>9 DEF s

\* The table is read where the entry is, or the read fails and is counted.
LEMMA NextInTable ==
  ASSUME SoundMount, NEW c \in DOMAIN vol.fat, NEW m \in Entries, NextEntry(c, m)
  PROVE  \/ m = vol.fat[c] /\ faults' = faults
         \/ m = BadMark /\ faults' = faults + 1
<1>1. /\ IsVolume(vol) /\ fs.fatStart = FatStart(vol) /\ FatStart(vol) \in Nat
      /\ Sector \in Nat \ {0} /\ vol.fatSize \in Nat \ {0} /\ vol.tables * vol.fatSize \in Nat
  BY MountedFields, VolumeFields DEF SoundMount
<1> DEFINE n == Cardinality(DOMAIN vol.fat)
           q == (4 * c) \div Sector
           r == (4 * c) % Sector
           s == FatStart(vol) + q
<1>2. n \in Nat /\ c \in 0 .. n - 1 /\ 4 * n <= vol.fatSize * Sector
  BY <1>1, TableSize DEF SoundMount, Sound
<1>3. q \in Nat /\ r \in 0 .. Sector - 1 /\ 4 * c = q * Sector + r
  <2>1. 4 * c \in Nat
    BY <1>2
  <2> QED BY <1>1, <2>1, UnitOfPlace
<1> HIDE DEF n, q, r
<1>4. q < vol.fatSize
  <2>1. ASSUME q >= vol.fatSize PROVE FALSE
    <3>1. q * Sector >= vol.fatSize * Sector /\ q * Sector \in Nat /\ vol.fatSize * Sector \in Nat
      BY <1>1, <1>3, <2>1
    <3> QED BY <1>2, <1>3, <3>1
  <2> QED BY <1>1, <1>3, <2>1
<1>5. vol.tables * vol.fatSize >= vol.fatSize
  <2>1. vol.tables \in Nat /\ vol.tables >= 1
    BY <1>1 DEF SoundMount, Sound, IsVolume
  <2> QED BY <1>1, <2>1
<1>6. s \in Nat /\ s < RootStart(vol) /\ s - FatStart(vol) = q
  BY <1>1, <1>3, <1>4, <1>5 DEF RootStart
<1>7. s < vol.partition + vol.total /\ s < Wrap
  <2>1. vol.partition + vol.total <= Wrap /\ RootStart(vol) <= vol.partition + vol.total
    BY DEF SoundMount, Sound
  <2>2. vol.partition + vol.total \in Nat /\ RootStart(vol) \in Nat
    <3>1. vol.partition + vol.total \in Nat
      BY <1>1 DEF IsVolume
    <3> QED BY <1>1, <3>1, VolumeFields
  <2> QED BY <1>6, <2>1, <2>2, SizesAssumption
<1> HIDE DEF s
<1>8. s % Wrap = s
  BY <1>6, <1>7, SizesAssumption
<1>9. OnCard(vol, s) /\ IsFatSector(vol, s)
  <2>1. vol.partition \in Nat /\ vol.total \in Nat
    BY <1>1 DEF IsVolume
  <2>2. s >= FatStart(vol)
    BY <1>1, <1>3 DEF s
  <2>3. RootStart(vol) \in Nat
    BY <1>1, VolumeFields
  <2>4. s \in 0 .. vol.partition + vol.total - 1
    BY <1>6, <1>7, <2>1
  <2>5. s \in FatStart(vol) .. RootStart(vol) - 1
    BY <1>1, <1>6, <2>2, <2>3
  <2> QED BY <2>4, <2>5 DEF OnCard, IsFatSector
<1>10. Address(fs.fatStart + (4 * c) \div Sector) = s /\ Index32(c) = r
  BY <1>1, <1>8 DEF Address, Index32, s, q, r
<1>11. WordsAt(vol, s, r, 4) = {vol.fat[c]}
  <2>1. (s - FatStart(vol)) % vol.fatSize = q
    BY <1>1, <1>3, <1>4, <1>6
  <2>2. (q * Sector + r) \div 4 = c
    BY <1>2, <1>3
  <2>3. r < Sector
    BY <1>1, <1>3
  <2>4. FatEntry(vol, c) = vol.fat[c]
    BY DEF FatEntry
  <2>5. WordsAt(vol, s, r, 4) =
          {FatEntry(vol, (((s - FatStart(vol)) % vol.fatSize) * Sector + r) \div 4)}
    BY <1>9, <2>3 DEF WordsAt
  <2> QED BY <2>1, <2>2, <2>4, <2>5
<1>12. \/ ReadWorks(s) /\ m \in WordsAt(vol, s, r, 4)
       \/ ReadFails(s) /\ m = BadMark
  BY <1>10 DEF NextEntry, ErrorEntry, SoundMount
<1> QED BY <1>9, <1>11, <1>12 DEF ReadWorks, ReadFails

-----------------------------------------------------------------------------
(* Searching the directories of a path.                                     *)

\* A directory that is opened is read from the beginning of its chain.
LEMMA DirOpened ==
  ASSUME SoundMount, UNCHANGED <<vol, fs>>, NEW node, OpenDir(node),
         \/ segment' = 1 /\ node = NoNode
         \/ segment' # 1 /\ node \in DirNodes(vol)
  PROVE  DirWalk'
<1>1. IsVolume(vol) /\ fs.rootCluster = vol.rootCluster
  <2>1. fs = Mounted(vol) /\ Mounted(vol).type = VolumeType(vol)
    BY DEF SoundMount, Mounted
  <2>2. VolumeType(vol) = "FAT32"
    BY <2>1 DEF SoundMount
  <2> QED BY <2>1, <2>2, MountedFields DEF SoundMount, Mounted
<1> DEFINE dir == IF segment' = 1 THEN RootNode(vol) ELSE node
           n == Cardinality(DOMAIN vol.fat)
<1>2. dir \in DirNodes(vol) \cup {RootNode(vol)} /\ (segment' # 1 => node # NoNode)
  <2>1. segment' # 1 => node # NoNode
    BY <1>1, DirIsSound, NodesAreNamed DEF SoundMount
  <2> QED BY <2>1
<1>3. /\ cluster' = dir.cluster /\ current' = node /\ list' = <<>> /\ pc' = "dir"
  <2>1. RootNode(vol).cluster = vol.rootCluster
    BY DEF RootNode
  <2> QED BY <1>1, <1>2, <2>1 DEF OpenDir
<1>4. DirNode' = dir
  BY <1>3 DEF DirNode
<1>5. SoundDir(vol, dir.cluster) /\ dir.cluster \in Nat
  BY <1>1, <1>2, DirIsSound, NodesAreNamed DEF SoundMount
<1> HIDE DEF dir
<1>6. n \in Nat \ {0} /\ IsChain(ChainOf(vol, dir.cluster), vol, dir.cluster, n)
  BY <1>1, <1>5, TableSize, ChainSteps DEF SoundMount
<1>7. ChainOf(vol, dir.cluster)[0] = dir.cluster /\ dir.cluster \in DOMAIN vol.dirs
  <2>1. PICK m \in 1 .. n : \A k \in 0 .. m - 1 : ChainOf(vol, dir.cluster)[k] \in DOMAIN vol.dirs
    BY <1>5 DEF SoundDir
  <2>2. 0 \in 0 .. m - 1
    BY <1>6
  <2> QED BY <1>6, <2>1, <2>2 DEF IsChain
<1>8. Range(<<>>) = {} /\ EntriesIn(vol, dir.cluster, 0 .. 0 - 1) = {}
  BY DEF Range, EntriesIn
<1>9. 0 \in 0 .. n - 1 /\ \A k \in 0 .. 0 : ChainOf(vol, dir.cluster)[k] \in DOMAIN vol.dirs
  BY <1>6, <1>7
<1>10. \E j \in 0 .. n - 1 :
         /\ \A k \in 0 .. j : ChainOf(vol, dir.cluster)[k] \in DOMAIN vol.dirs
         /\ cluster' = ChainOf(vol, dir.cluster)[j]
         /\ Range(list') = EntriesIn(vol, dir.cluster, 0 .. j - 1)
  BY <1>3, <1>7, <1>8, <1>9
<1>11. IF segment' = 1 THEN current' = NoNode ELSE current' \in DirNodes(vol)
  BY <1>3
<1> HIDE DEF n
<1> QED BY <1>3, <1>4, <1>10, <1>11 DEF DirWalk, n

\* The search of entries of the directory finds the node of the segment, or
\* goes on with the directory it began with.
LEMMA SearchFinds ==
  ASSUME SoundMount, DirWalk, InDir,
         NEW l \in Seq(Node), Range(l) \subseteq AllEntries(vol, DirNode.cluster)
  PROVE  LET below == NodeBelow(vol, DirNode, path[segment]) IN
         /\ Match(l) # NoNode =>
              IF Match(l).isDir THEN Match(l) \in DirNodes(vol)
              ELSE Match(l) \in FileNodes(vol) /\ segment <= Len(path) /\ Match(l) = below
         /\ segment <= Len(path) /\ Range(l) = AllEntries(vol, DirNode.cluster) /\ below # NoNode =>
              Match(l) = below
         /\ segment = 1 /\ below = NoNode => Match(l) = NoNode
<1> DEFINE below == NodeBelow(vol, DirNode, path[segment])
<1>1. /\ IsVolume(vol) /\ path \in Paths /\ path \in Seq(STRING) /\ Len(path) \in Nat \ {0}
      /\ segment \in 1 .. Len(path) + 1 /\ Sound(vol)
  <2>1. path \in Paths /\ segment \in 1 .. Len(path) + 1
    BY DEF SoundMount, TInv, VolumeTyped, InDir
  <2>2. path \in Seq(STRING) /\ path # <<>>
    BY <2>1, PathsAssumption
  <2>3. Len(path) \in Nat \ {0}
    BY <2>2
  <2> QED BY <2>1, <2>2, <2>3, MountedFields DEF SoundMount
<1>2. IF segment = 1 THEN current = NoNode ELSE current \in DirNodes(vol)
  BY DEF DirWalk
<1>3. DirNode \in DirNodes(vol) \cup {RootNode(vol)}
  BY <1>2 DEF DirNode
<1>4. CASE Match(l) = current /\ \A k \in DOMAIN l : l[k].name # Segment
  <2>1. current # NoNode => segment # 1 /\ current \in DirNodes(vol) /\ current.isDir
    BY <1>1, <1>2, DirIsSound
  <2>2. ASSUME segment <= Len(path), Range(l) = AllEntries(vol, DirNode.cluster)
        PROVE  below = NoNode
    <3>1. Segment = path[segment]
      BY <2>2 DEF Segment
    <3>2. \A e \in AllEntries(vol, DirNode.cluster) : e.name # path[segment]
      BY <1>4, <2>2, <3>1 DEF Range
    <3> QED BY <1>1, <3>2, NotFoundBelow
  <2>3. segment = 1 => current = NoNode
    BY <1>2
  <2> HIDE DEF below
  <2>4. /\ Match(l) # NoNode =>
             IF Match(l).isDir THEN Match(l) \in DirNodes(vol)
             ELSE Match(l) \in FileNodes(vol) /\ segment <= Len(path) /\ Match(l) = below
        /\ segment <= Len(path) /\ Range(l) = AllEntries(vol, DirNode.cluster) /\ below # NoNode =>
             Match(l) = below
        /\ segment = 1 /\ below = NoNode => Match(l) = NoNode
    BY <1>4, <2>1, <2>2, <2>3, Zenon
  <2> QED BY <2>4 DEF below
<1>5. ASSUME NEW k \in DOMAIN l, Match(l) = l[k], l[k].name = Segment
      PROVE  /\ Match(l) = below /\ segment <= Len(path) /\ Match(l) # NoNode
             /\ IF Match(l).isDir THEN Match(l) \in DirNodes(vol) ELSE Match(l) \in FileNodes(vol)
  <2>1. l[k] \in Node /\ l[k] \in Range(l)
    BY DEF Range
  <2>2. Segment # "" /\ l[k] # NoNode
    BY <1>5, <2>1, NodesAreNamed
  <2>3. segment <= Len(path) /\ Segment = path[segment]
    BY <2>2 DEF Segment
  <2>4. Segment \in Range(path)
    <3>1. segment \in DOMAIN path
      BY <1>1, <2>3
    <3> QED BY <2>3, <3>1 DEF Range
  <2>5. l[k] \in AllEntries(vol, DirNode.cluster) /\ l[k].name \in Range(path)
    BY <1>5, <2>1, <2>4
  <2>6. /\ l[k] = NodeBelow(vol, DirNode, l[k].name)
        /\ IF l[k].isDir THEN l[k] \in DirNodes(vol) ELSE l[k] \in FileNodes(vol)
    BY <1>1, <1>3, <2>5, FoundBelow
  <2> QED BY <1>5, <2>2, <2>3, <2>6
<1>6. ASSUME NEW k \in DOMAIN l, Match(l) = l[k], l[k].name = Segment
      PROVE  /\ Match(l) # NoNode =>
                  IF Match(l).isDir THEN Match(l) \in DirNodes(vol)
                  ELSE Match(l) \in FileNodes(vol) /\ segment <= Len(path) /\ Match(l) = below
             /\ segment <= Len(path) /\ Range(l) = AllEntries(vol, DirNode.cluster) /\ below # NoNode =>
                  Match(l) = below
             /\ segment = 1 /\ below = NoNode => Match(l) = NoNode
  <2> HIDE DEF below
  <2> QED BY <1>5, <1>6, Zenon
<1> QED BY <1>4, <1>6, MatchTyped

-----------------------------------------------------------------------------
(* Files, by their chains.                                                  *)

\* The clusters of a file that hold bytes of it are on the card.
LEMMA FileIsSound ==
  ASSUME NEW v, IsVolume(v), Sound(v), NEW node \in FileNodes(v)
  PROVE  /\ node \in Node /\ ~node.isDir /\ node.size \in Nat /\ node.cluster \in Nat
         /\ \A k \in Nat : k * (Sector * v.spc) < node.size =>
              /\ k \in 0 .. Cardinality(DOMAIN v.fat) - 1
              /\ ChainOf(v, node.cluster)[k] \in Clusters(v)
<1>0. PICK d \in DOMAIN v.dirs :
        \E x \in Range(v.dirs[d]) : x.kind = "file" /\ node = Dirent(x)
  BY DEF FileNodes, SlotsOfDirs
<1>1. PICK x \in Range(v.dirs[d]) : x.kind = "file" /\ node = Dirent(x)
  BY <1>0
<1>2. x \in Slot
  BY <1>1 DEF IsVolume, Range
<1>3. node \in Node /\ ~node.isDir /\ node.size = x.size /\ node.cluster = x.cluster
  BY <1>1, <1>2, DirentIsNode
<1>4. x.size \in Nat /\ x.cluster \in Nat
  BY <1>2 DEF Slot
<1>5. SoundFile(v, x)
  BY <1>1 DEF Sound
<1> DEFINE size == Sector * v.spc
           clusters == CeilDiv(x.size, size)
<1>6. size \in Nat \ {0}
  BY VolumeFields
<1> HIDE DEF size
<1>7. ASSUME NEW k \in Nat, k * size < x.size PROVE k \in 0 .. clusters - 1
  <2> DEFINE y == x.size + size - 1
  <2>1. y \in Nat /\ k * size \in Nat /\ y >= k * size + size
    BY <1>4, <1>6, <1>7
  <2>2. clusters = y \div size
    BY DEF CeilDiv
  <2> HIDE DEF y, clusters
  <2>3. clusters \in Nat /\ y % size \in 0 .. size - 1 /\ y = clusters * size + (y % size)
    BY <1>6, <2>1, <2>2, UnitOfPlace
  <2>4. ASSUME clusters <= k PROVE FALSE
    <3>1. clusters * size <= k * size /\ clusters * size \in Nat
      BY <1>6, <2>3, <2>4
    <3> QED BY <1>6, <2>1, <2>3, <3>1
  <2> QED BY <2>3, <2>4
<1>8. /\ clusters <= Cardinality(DOMAIN v.fat) /\ Cardinality(DOMAIN v.fat) \in Nat
      /\ \A k \in 0 .. clusters - 1 : ChainOf(v, x.cluster)[k] \in Clusters(v)
  BY <1>5, TableSize DEF SoundFile, size
<1>9. clusters \in Int
  <2>1. x.size + size - 1 \in Nat
    BY <1>4, <1>6
  <2> DEFINE y == x.size + size - 1
  <2>2. clusters = y \div size /\ y \in Nat
    BY <2>1 DEF CeilDiv
  <2> HIDE DEF y, clusters
  <2> QED BY <1>6, <2>2
<1> HIDE DEF clusters
<1>10. ASSUME NEW k \in Nat, k * size < node.size
       PROVE  /\ k \in 0 .. Cardinality(DOMAIN v.fat) - 1
              /\ ChainOf(v, node.cluster)[k] \in Clusters(v)
  <2>1. k \in 0 .. clusters - 1
    BY <1>3, <1>7, <1>10
  <2> QED BY <1>3, <1>8, <1>9, <2>1
<1> QED BY <1>3, <1>4, <1>10 DEF size

\* The contents of a file are as long as the file.
LEMMA ContentsTyped ==
  ASSUME NEW v, IsVolume(v), NEW node \in Node
  PROVE  /\ node.size \in Nat /\ Len(Contents(v, node)) = node.size
         /\ \E S : Contents(v, node) \in Seq(S)
<1>1. node.size \in Nat
  BY DEF Node
<1> DEFINE size == Sector * v.spc
           f(i) == <<ChainOf(v, node.cluster)[(i - 1) \div size], (i - 1) % size>>
           S == {f(i) : i \in 1 .. node.size}
           n == node.size
<1>2. Contents(v, node) = [i \in 1 .. n |-> f(i)]
  BY DEF Contents
<1>3. \A i \in 1 .. n : f(i) \in S
  OBVIOUS
<1> HIDE DEF f, S
<1>4. Contents(v, node) \in [1 .. n -> S]
  BY <1>2, <1>3, Zenon
<1>5. n \in Nat
  BY <1>1
<1> HIDE DEF n
<1>6. \A g \in [1 .. n -> S] : g \in Seq(S) /\ Len(g) = n
  BY <1>5
<1> QED BY <1>1, <1>4, <1>6 DEF n

\* A file that the search finds is the file of the path, where the path has one
\* segment or nothing failed.
LEMMA FileFound ==
  ASSUME SoundMount, DirWalk, PathWalk, InDir, NEW l \in Seq(Node),
         Range(l) \subseteq AllEntries(vol, DirNode.cluster),
         Match(l) # NoNode, ~Match(l).isDir
  PROVE  Len(path) = 1 \/ (faults = 0 /\ IsFile(vol, path)) => Match(l) = NodeOf(vol, path)
<1> DEFINE below == NodeBelow(vol, DirNode, path[segment])
<1>1. /\ IsVolume(vol) /\ Len(path) \in Nat /\ segment \in 1 .. Len(path) + 1
  <2>1. path \in Paths /\ segment \in 1 .. Len(path) + 1
    BY DEF SoundMount, TInv, VolumeTyped, InDir
  <2>2. Len(path) \in Nat
    BY <2>1, PathsAssumption
  <2> QED BY <2>1, <2>2, MountedFields DEF SoundMount
<1>2. segment <= Len(path) /\ Match(l) = below
  BY SearchFinds
<1>3. segment \in 1 .. Len(path)
  BY <1>1, <1>2
<1>4. NodeAt(vol, path, segment) = NodeBelow(vol, NodeAt(vol, path, segment - 1), path[segment])
  BY <1>1, <1>3, NodeSteps
<1>5. CASE Len(path) = 1
  <2>1. segment = 1 /\ DirNode = RootNode(vol)
    BY <1>3, <1>5 DEF DirNode
  <2>2. NodeAt(vol, path, 0) = RootNode(vol)
    BY <1>1, NodeSteps
  <2>3. NodeAt(vol, path, segment) = below
    BY <1>4, <2>1, <2>2
  <2> HIDE DEF below
  <2> QED BY <1>2, <1>5, <2>1, <2>3 DEF NodeOf
<1>6. CASE faults = 0 /\ IsFile(vol, path)
  <2>1. DirNode = NodeAt(vol, path, segment - 1)
    BY <1>6 DEF PathWalk
  <2>2. NodeAt(vol, path, segment) = Match(l)
    BY <1>2, <1>4, <2>1
  <2>3. segment = Len(path)
    <3>1. ASSUME segment \in 0 .. Len(path) - 1 PROVE FALSE
      BY <1>1, <1>6, <2>2, <3>1, DirsOnTheWay
    <3> QED BY <1>1, <1>3, <3>1
  <2> QED BY <2>2, <2>3 DEF NodeOf
<1> QED BY <1>5, <1>6

\* A search of all entries, when nothing failed, finds the node of its segment
\* on the way to a file, and one of the root nothing where there is nothing.
LEMMA SearchOnTheWay ==
  ASSUME SoundMount, DirWalk, PathWalk, MissingFirst, InDir, NEW l \in Seq(Node),
         Range(l) = AllEntries(vol, DirNode.cluster), faults = 0
  PROVE  /\ IsFile(vol, path) => segment \in 1 .. Len(path)
                                 /\ Match(l) = NodeAt(vol, path, segment) /\ Match(l) # NoNode
         /\ NodeAt(vol, path, 1) = NoNode => Match(l) = NoNode
<1> DEFINE below == NodeBelow(vol, DirNode, path[segment])
<1>1. /\ IsVolume(vol) /\ path # <<>> /\ Len(path) \in Nat \ {0} /\ segment \in 1 .. Len(path) + 1
  <2>1. path \in Paths /\ segment \in 1 .. Len(path) + 1
    BY DEF SoundMount, TInv, VolumeTyped, InDir
  <2>2. path \in Seq(STRING) /\ path # <<>>
    BY <2>1, PathsAssumption
  <2>3. Len(path) \in Nat \ {0}
    BY <2>2
  <2> QED BY <2>1, <2>2, <2>3, MountedFields DEF SoundMount
<1>2. ASSUME IsFile(vol, path)
      PROVE  /\ segment \in 1 .. Len(path)
             /\ Match(l) = NodeAt(vol, path, segment) /\ Match(l) # NoNode
  <2>1. segment <= Len(path) /\ DirNode = NodeAt(vol, path, segment - 1)
    BY <1>2 DEF PathWalk
  <2>2. segment \in 1 .. Len(path) /\ segment \in 0 .. Len(path)
    BY <1>1, <2>1
  <2>3. NodeAt(vol, path, segment) = NodeBelow(vol, NodeAt(vol, path, segment - 1), path[segment])
    BY <1>1, <2>2, NodeSteps
  <2>4. NodeAt(vol, path, segment) # NoNode
    BY <1>1, <1>2, <2>2, DirsOnTheWay
  <2>5. Match(l) = NodeAt(vol, path, segment)
    BY <2>1, <2>3, <2>4, SearchFinds
  <2> QED BY <2>2, <2>4, <2>5
<1>3. ASSUME NodeAt(vol, path, 1) = NoNode PROVE Match(l) = NoNode
  <2>1. segment = 1 /\ DirNode = RootNode(vol)
    BY <1>1, <1>3 DEF MissingFirst, DirNode
  <2>2. NodeAt(vol, path, 0) = RootNode(vol)
    BY <1>1, NodeSteps
  <2>3. 1 \in 1 .. Len(path) /\ 1 - 1 = 0
    BY <1>1
  <2>4. NodeAt(vol, path, 1) = NodeBelow(vol, NodeAt(vol, path, 1 - 1), path[1])
    BY <1>1, <2>3, NodeSteps
  <2>5. below = NoNode
    BY <1>3, <2>1, <2>2, <2>3, <2>4
  <2> QED BY <2>1, <2>5, SearchFinds
<1> QED BY <1>2, <1>3

\* After a search the invariant holds again: it goes on, has found the file, or
\* has rightly found nothing.
LEMMA SearchKeeps ==
  ASSUME SoundMount, FileInv, InDir, NEW l \in Seq(Node),
         Range(l) \subseteq AllEntries(vol, DirNode.cluster),
         faults' \in {faults, faults + 1},
         faults' = 0 => Range(l) = AllEntries(vol, DirNode.cluster),
         Search(l), UNCHANGED <<vol, fs>>
  PROVE  FileInv'
<1> DEFINE node == Match(l)
<1>1. /\ IsVolume(vol) /\ path \in Paths /\ path # <<>> /\ Len(path) \in Nat \ {0}
      /\ segment \in 1 .. Len(path) + 1 /\ out = <<>> /\ result = NoResult
      /\ faults \in Nat /\ Sound(vol)
  <2>1. path \in Paths /\ segment \in 1 .. Len(path) + 1
    BY DEF SoundMount, TInv, VolumeTyped, InDir
  <2>2. path \in Seq(STRING) /\ path # <<>>
    BY <2>1, PathsAssumption
  <2>3. Len(path) \in Nat \ {0}
    BY <2>2
  <2>4. out = <<>> /\ result = NoResult /\ faults \in Nat /\ Sound(vol)
    BY DEF SoundMount, TInv, VolumeTyped, ReadTyped, InDir
  <2> QED BY <2>1, <2>2, <2>3, <2>4, MountedFields DEF SoundMount
<1>2. /\ DirWalk /\ PathWalk /\ MissingFirst
      /\ path' = path /\ out' = out /\ vol' = vol /\ fs' = fs
      /\ faults' = 0 => faults = 0
  BY <1>1 DEF FileInv, Search
<1>3. ASSUME faults' = 0
      PROVE  /\ IsFile(vol, path) => segment \in 1 .. Len(path)
                                     /\ node = NodeAt(vol, path, segment) /\ node # NoNode
             /\ NodeAt(vol, path, 1) = NoNode => node = NoNode
  BY <1>2, <1>3, SearchOnTheWay
<1>4. node # NoNode => IF node.isDir THEN node \in DirNodes(vol) ELSE node \in FileNodes(vol)
  BY <1>2, SearchFinds
<1>5. node # NoNode /\ ~node.isDir /\ (Len(path) = 1 \/ (faults = 0 /\ IsFile(vol, path))) =>
        node = NodeOf(vol, path)
  BY <1>2, FileFound
<1>6. CASE node = NoNode
  <2>1. result' = Failed /\ pc' = "idle"
    BY <1>4, <1>6 DEF Search, Return
  <2>2. ~InDir' /\ ~InFile'
    BY <2>1 DEF InDir, InFile
  <2>3. LoadsNamedFile'
    <3>1. ~(faults' = 0 /\ IsFile(vol, path))
      BY <1>3, <1>6
    <3> QED BY <1>2, <2>1, <3>1 DEF LoadsNamedFile
  <2>4. RootFileOrError'
    BY <2>1 DEF RootFileOrError, Failed
  <2>5. DirWalk' /\ PathWalk' /\ MissingFirst' /\ FileChosen' /\ FileWalk'
    BY <2>2 DEF DirWalk, PathWalk, MissingFirst, FileChosen, FileWalk
  <2> QED BY <2>3, <2>4, <2>5 DEF FileInv
<1>7. CASE node # NoNode /\ node.isDir
  <2>1. OpenDir(node) /\ segment' = Least(segment, Len(path)) + 1
    BY <1>7 DEF Search
  <2>2. pc' = "dir" /\ current' = node /\ segment' \in Nat /\ segment' # 1
    BY <1>1, <2>1 DEF OpenDir, Least
  <2>3. node \in DirNodes(vol)
    BY <1>4, <1>7
  <2>4. DirWalk'
    BY <1>2, <2>1, <2>2, <2>3, DirOpened
  <2>5. PathWalk'
    <3>1. ASSUME faults' = 0, IsFile(vol, path)
          PROVE  segment' <= Len(path) /\ node = NodeAt(vol, path, segment' - 1)
      <4>1. segment \in 1 .. Len(path) /\ node = NodeAt(vol, path, segment)
        BY <1>3, <3>1
      <4>2. segment # Len(path)
        BY <1>7, <3>1, <4>1 DEF IsFile, NodeOf
      <4>3. segment' = segment + 1 /\ segment' <= Len(path) /\ segment' - 1 = segment
        BY <1>1, <2>1, <4>1, <4>2 DEF Least
      <4> QED BY <4>1, <4>3
    <3>2. DirNode' = node
      BY <2>2 DEF DirNode
    <3> QED BY <1>2, <3>1, <3>2 DEF PathWalk
  <2>6. MissingFirst'
    BY <1>2, <1>3, <1>7 DEF MissingFirst
  <2>7. FileChosen' /\ FileWalk' /\ LoadsNamedFile' /\ RootFileOrError'
    BY <2>2 DEF FileChosen, FileWalk, LoadsNamedFile, RootFileOrError, InFile
  <2> QED BY <2>4, <2>5, <2>6, <2>7 DEF FileInv
<1>8. CASE node # NoNode /\ ~node.isDir
  <2>1. /\ current' = node /\ cluster' = node.cluster /\ loc' = 0
        /\ \/ ~Fits(node) /\ Return(Failed)
           \/ Fits(node) /\ pc' = "data"
           \/ node.cluster >= EndMark /\ Return(0)
    BY <1>8 DEF Search
  <2>2. pc' \in {"data", "idle"} /\ ~InDir'
    BY <2>1 DEF Return, InDir
  <2>3. DirWalk' /\ PathWalk'
    BY <2>2 DEF DirWalk, PathWalk
  <2>4. MissingFirst'
    BY <1>2, <1>3, <1>8 DEF MissingFirst
  <2>5. FileChosen'
    BY <1>2, <1>4, <1>5, <1>8, <2>1 DEF FileChosen
  <2>6. FileWalk'
    <3>1. node \in Node /\ node.cluster \in Nat /\ node.size \in Nat
      BY <1>1, <1>4, <1>8, FileIsSound
    <3>2. ChainOf(vol, node.cluster)[0] = node.cluster
      <4>1. Cardinality(DOMAIN vol.fat) \in Nat
        BY <1>1, TableSize
      <4> QED BY <1>1, <3>1, <4>1, ChainSteps DEF IsChain
    <3> DEFINE size == Sector * vol.spc
    <3>3. size \in Nat
      BY <1>1, VolumeFields
    <3>4. 0 = Least(0 * size, MaxSize) /\ Least(0 * size, node.size) = 0
      BY <3>1, <3>3, SizesAssumption DEF Least
    <3>5. <<>> = SubSeq(Contents(vol, node), 1, 0)
      BY <3>1, ContentsTyped, <1>1
    <3> HIDE DEF size
    <3>6. ASSUME pc' = "data"
          PROVE /\ loc' = Least(0 * size, MaxSize)
                /\ out' = SubSeq(Contents(vol, node), 1,
                                 Least((IF pc' = "data" THEN 0 ELSE 0 + 1) * size, node.size))
                /\ cluster' = ChainOf(vol, node.cluster)[0]
      BY <1>1, <1>2, <2>1, <3>2, <3>4, <3>5, <3>6
    <3>7. InFile' => pc' = "data"
      BY <2>2 DEF InFile
    <3> QED BY <1>2, <2>1, <3>6, <3>7 DEF FileWalk, size
  <2>7. ASSUME node.cluster >= EndMark
        PROVE  node.size = 0 /\ Contents(vol, node) = <<>>
    <3>1. /\ node \in Node /\ node.cluster \in Nat /\ node.size \in Nat
          /\ 0 * (Sector * vol.spc) < node.size =>
               ChainOf(vol, node.cluster)[0] \in Clusters(vol)
      BY <1>1, <1>4, <1>8, FileIsSound
    <3>2. ChainOf(vol, node.cluster)[0] = node.cluster
      <4>1. Cardinality(DOMAIN vol.fat) \in Nat
        BY <1>1, TableSize
      <4> QED BY <1>1, <3>1, <4>1, ChainSteps DEF IsChain
    <3>3. node.cluster \notin Clusters(vol)
      <4>1. BadMark \in Nat
        BY SizesAssumption
      <4> QED BY <1>1, <2>7, <3>1, <4>1, ClustersInTable DEF EndMark
    <3>4. 0 * (Sector * vol.spc) = 0
      BY <1>1, VolumeFields
    <3>5. node.size = 0
      BY <3>1, <3>2, <3>3, <3>4
    <3>6. Len(Contents(vol, node)) = 0
      BY <1>1, <3>1, <3>5, ContentsTyped
    <3>7. PICK S : Contents(vol, node) \in Seq(S)
      BY <1>1, <3>1, ContentsTyped
    <3>8. Contents(vol, node) = <<>>
      <4> HIDE DEF node
      <4> QED BY <3>6, <3>7
    <3> QED BY <3>5, <3>8
  <2>8. LoadsNamedFile'
    <3>1. ASSUME pc' = "idle", faults' = 0
          PROVE  /\ IsFile(vol, path) /\ NodeOf(vol, path).size <= MaxSize =>
                      result' = NodeOf(vol, path).size /\ <<>> = Contents(vol, NodeOf(vol, path))
                 /\ NodeAt(vol, path, 1) # NoNode
      <4>1. NodeAt(vol, path, 1) # NoNode
        BY <1>3, <1>8, <3>1
      <4>2. IsFile(vol, path) => node = NodeOf(vol, path)
        BY <1>2, <1>5, <1>8, <3>1
      <4>3. ~Fits(node) \/ (node.cluster >= EndMark /\ result' = 0)
        BY <2>1, <3>1 DEF Return
      <4> QED BY <2>7, <4>1, <4>2, <4>3 DEF Fits
    <3> QED BY <1>1, <1>2, <3>1 DEF LoadsNamedFile
  <2>9. RootFileOrError'
    <3>1. pc' = "idle" => result' = Failed \/ (node.cluster >= EndMark /\ result' = 0)
      BY <2>1 DEF Return
    <3>2. Len(path) = 1 => node = NodeOf(vol, path)
      BY <1>5, <1>8
    <3>3. ASSUME pc' = "idle", result' >= 0, Len(path) = 1
          PROVE  IsFile(vol, path) /\ <<>> = Contents(vol, NodeOf(vol, path))
      BY <1>8, <2>7, <3>1, <3>2, <3>3 DEF IsFile, Failed
    <3> QED BY <1>1, <1>2, <3>3 DEF RootFileOrError
  <2> QED BY <2>3, <2>4, <2>5, <2>6, <2>8, <2>9 DEF FileInv
<1> QED BY <1>6, <1>7, <1>8

-----------------------------------------------------------------------------
(* Reading a file.                                                          *)

\* Sequences of the same elements are the same.
LEMMA SameSequence ==
  ASSUME NEW S, NEW s \in Seq(S), NEW t \in Seq(S), Len(s) = Len(t),
         \A i \in 1 .. Len(s) : s[i] = t[i]
  PROVE  s = t
OBVIOUS

\* What two sequences make, one after the other.
LEMMA OneAfterTheOther ==
  ASSUME NEW S, NEW s \in Seq(S), NEW t \in Seq(S), NEW w \in Seq(S),
         Len(w) = Len(s) + Len(t), \A i \in 1 .. Len(s) : w[i] = s[i],
         \A i \in 1 .. Len(t) : w[Len(s) + i] = t[i]
  PROVE  s \o t = w
<1>1. s \o t \in Seq(S) /\ Len(s \o t) = Len(s) + Len(t) /\ Len(s) \in Nat /\ Len(t) \in Nat
  OBVIOUS
<1>2. ASSUME NEW i \in 1 .. Len(s) + Len(t) PROVE (s \o t)[i] = w[i]
  <2>1. CASE i <= Len(s)
    <3>1. (s \o t)[i] = s[i] /\ i \in 1 .. Len(s)
      BY <2>1
    <3> QED BY <3>1
  <2>2. CASE ~(i <= Len(s))
    <3>1. i - Len(s) \in 1 .. Len(t) /\ Len(s) + (i - Len(s)) = i
      BY <1>1, <2>2
    <3>2. (s \o t)[i] = t[i - Len(s)]
      BY <2>2
    <3>3. w[Len(s) + (i - Len(s))] = t[i - Len(s)]
      BY <3>1
    <3> QED BY <3>1, <3>2, <3>3
  <2> QED BY <2>1, <2>2
<1> QED BY <1>1, <1>2, SameSequence

\* The beginning of c, continued by what follows in c, is a beginning of c.
LEMMA BeginningGrows ==
  ASSUME NEW S, NEW c \in Seq(S), NEW b \in Seq(S), NEW m \in 0 .. Len(c), NEW t \in 0 .. Len(b),
         m + t <= Len(c), \A j \in 1 .. t : c[m + j] = b[j]
  PROVE  SubSeq(c, 1, m) \o SubSeq(b, 1, t) = SubSeq(c, 1, m + t)
<1>1. PICK s : s = SubSeq(c, 1, m)
  OBVIOUS
<1>2. PICK u : u = SubSeq(b, 1, t)
  OBVIOUS
<1>3. PICK w : w = SubSeq(c, 1, m + t)
  OBVIOUS
<1>4. s \in Seq(S) /\ Len(s) = m /\ \A i \in 1 .. m : s[i] = c[i]
  BY <1>1, BeginningOf
<1>5. u \in Seq(S) /\ Len(u) = t /\ \A i \in 1 .. t : u[i] = b[i]
  BY <1>2, BeginningOf
<1>6. w \in Seq(S) /\ Len(w) = m + t /\ \A i \in 1 .. m + t : w[i] = c[i]
  <2>1. m + t \in 0 .. Len(c)
    OBVIOUS
  <2> QED BY <1>3, <2>1, BeginningOf
<1>7. \A i \in 1 .. m : w[i] = s[i]
  BY <1>4, <1>6
<1>8. \A i \in 1 .. t : w[m + i] = u[i]
  BY <1>5, <1>6
<1>9. s \o u = w
  BY <1>4, <1>5, <1>6, <1>7, <1>8, OneAfterTheOther
<1> QED BY <1>1, <1>2, <1>3, <1>9

\* The contents of a file, cluster by cluster.
LEMMA ContentsByCluster ==
  ASSUME NEW v, IsVolume(v), Sound(v), NEW node \in FileNodes(v)
  PROVE  /\ Contents(v, node) \in Seq(Int \X Int) /\ Len(Contents(v, node)) = node.size
         /\ \A k \in Nat, j \in 1 .. Sector * v.spc : k * (Sector * v.spc) + j <= node.size =>
              Contents(v, node)[k * (Sector * v.spc) + j] = <<ChainOf(v, node.cluster)[k], j - 1>>
<1> DEFINE size == Sector * v.spc
           at == ChainOf(v, node.cluster)
           f(i) == <<at[(i - 1) \div size], (i - 1) % size>>
           n == node.size
<1>1. n \in Nat /\ size \in Nat \ {0}
  BY FileIsSound, VolumeFields
<1>2. Contents(v, node) = [i \in 1 .. n |-> f(i)]
  BY DEF Contents
<1>3. \A k \in Nat : k * size < n => at[k] \in Nat
  BY FileIsSound, ClustersInTable
<1> HIDE DEF at, size, n
<1>4. ASSUME NEW i \in 1 .. n PROVE f(i) \in Int \X Int
  <2>1. i - 1 \in Nat
    OBVIOUS
  <2> DEFINE q == (i - 1) \div size
             r == (i - 1) % size
  <2>2. q \in Nat /\ r \in 0 .. size - 1 /\ i - 1 = q * size + r
    BY <1>1, <2>1, UnitOfPlace
  <2> HIDE DEF q, r
  <2>3. q * size < n
    <3>1. q * size \in Nat
      BY <1>1, <2>2
    <3> QED BY <1>1, <2>2, <3>1
  <2>4. at[q] \in Nat
    BY <1>3, <2>2, <2>3
  <2>5. f(i) = <<at[q], r>>
    BY DEF q, r
  <2> HIDE DEF f
  <2> QED BY <1>1, <2>2, <2>4, <2>5
<1>5. ASSUME NEW k \in Nat, NEW j \in 1 .. size, k * size + j <= n
      PROVE  k * size + j \in 1 .. n /\ f(k * size + j) = <<at[k], j - 1>>
  <2>1. k * size \in Nat /\ j - 1 \in 0 .. size - 1
    BY <1>1
  <2>2. (k * size + j) - 1 = k * size + (j - 1)
    BY <1>1, <2>1
  <2>3. (k * size + (j - 1)) \div size = k /\ (k * size + (j - 1)) % size = j - 1
    BY <1>1, <2>1, PlaceInUnit
  <2>4. k * size + j \in 1 .. n
    BY <1>1, <1>5, <2>1
  <2> QED BY <2>2, <2>3, <2>4
<1> HIDE DEF f
<1>6. \A i \in 1 .. n : f(i) \in Int \X Int
  BY <1>4
<1>7. Contents(v, node) \in [1 .. n -> Int \X Int]
  BY <1>2, <1>6, Zenon
<1>8. \A g \in [1 .. n -> Int \X Int] : g \in Seq(Int \X Int) /\ Len(g) = n
  BY <1>1
<1>9. ASSUME NEW k \in Nat, NEW j \in 1 .. size, k * size + j <= n
      PROVE  Contents(v, node)[k * size + j] = <<at[k], j - 1>>
  BY <1>2, <1>5, <1>9
<1> QED BY <1>7, <1>8, <1>9 DEF size, at, n

\* Reading a file does not touch the directories.
LEMMA FileFrame ==
  ASSUME SoundMount, FileInv, InFile, UNCHANGED <<vol, fs, dirVars>>,
         faults' \in {faults, faults + 1}, pc' \in {"data", "next", "idle"}
  PROVE  /\ DirWalk' /\ PathWalk' /\ MissingFirst' /\ FileChosen'
         /\ current \in FileNodes(vol) /\ current \in Node
         /\ (faults' = 0 => faults = 0) /\ faults \in Nat /\ MaxSize \in Nat
         /\ current.size \in Nat /\ current.size <= MaxSize
<1>1. faults \in Nat
  BY DEF SoundMount, TInv, VolumeTyped
<1>2. faults' = 0 => faults = 0
  BY <1>1
<1>3. ~InDir' /\ path' = path /\ current' = current /\ vol' = vol /\ fs' = fs
  BY DEF InDir, dirVars
<1>4. DirWalk' /\ PathWalk'
  BY <1>3 DEF DirWalk, PathWalk
<1>5. MissingFirst'
  <2>1. faults' = 0 => ~(path # <<>> /\ NodeAt(vol, path, 1) = NoNode)
    BY <1>2 DEF FileInv, MissingFirst
  <2> QED BY <1>3, <2>1 DEF MissingFirst
<1>6. FileChosen'
  BY <1>2, <1>3 DEF FileInv, FileChosen
<1>7. current \in FileNodes(vol)
  BY DEF FileInv, FileChosen
<1>8. current \in Node /\ current.size <= MaxSize /\ current.size \in Nat /\ MaxSize \in Nat
  BY SizesAssumption DEF SoundMount, TInv, ReadTyped, Node
<1> QED BY <1>1, <1>2, <1>4, <1>5, <1>6, <1>7, <1>8

\* What is taken from a cluster ends with it or with the file.
LEMMA TakeFits ==
  ASSUME NEW m \in Nat, NEW n \in Nat, NEW size \in Nat, m < n
  PROVE  /\ Least(n - m, size) \in 0 .. size /\ m \in 0 .. n
         /\ m + Least(n - m, size) <= n /\ m + Least(n - m, size) = Least(m + size, n)
BY DEF Least

\* Where the reading of a file is, after k clusters.
ReadsAt(k) ==
  /\ loc = Least(k * (Sector * vol.spc), MaxSize)
  /\ out = SubSeq(Contents(vol, current), 1,
                  Least((IF pc = "data" THEN k ELSE k + 1) * (Sector * vol.spc), current.size))
  /\ k * (Sector * vol.spc) < current.size =>
       \/ cluster = ChainOf(vol, current.cluster)[k]
       \/ pc = "data" /\ faults > 0 /\ cluster = BadMark

\* The next cluster of the file is added to what was read.
LEMMA ReadKeeps ==
  ASSUME SoundMount, FileInv, ReadCluster
  PROVE  FileInv'
<1> DEFINE s == Address(GetSector(cluster))
           take == Take(current.size, Len(out))
           size == Sector * vol.spc
<1>1. /\ pc = "data" /\ UNCHANGED <<vol, fs, dirVars, cluster>> /\ InFile
      /\ vol' = vol /\ fs' = fs /\ current' = current /\ path' = path /\ cluster' = cluster
  BY DEF ReadCluster, InFile, dirVars
<1>2. \/ /\ loc < current.size /\ ReadWorks(s)
         /\ out' = out \o SubSeq(BytesAt(vol, s, fs.spc), 1, take)
         /\ pc' = "next" /\ UNCHANGED <<loc, result>>
      \/ loc < current.size /\ ReadFails(s) /\ Return(Failed) /\ UNCHANGED <<loc, out>>
      \/ ~(loc < current.size) /\ pc' = "next" /\ UNCHANGED <<readVars, faults>>
  BY DEF ReadCluster
<1>3. faults' \in {faults, faults + 1} /\ pc' \in {"data", "next", "idle"}
  BY <1>2, FaultsTyped DEF Return, SoundMount
<1>4. /\ DirWalk' /\ PathWalk' /\ MissingFirst' /\ FileChosen'
      /\ current \in FileNodes(vol) /\ current \in Node
      /\ (faults' = 0 => faults = 0) /\ faults \in Nat /\ MaxSize \in Nat
      /\ current.size \in Nat /\ current.size <= MaxSize
  BY <1>1, <1>3, FileFrame
<1>5. /\ IsVolume(vol) /\ Sound(vol) /\ size \in Nat \ {0} /\ fs.spc = vol.spc
      /\ ClusterSize = size /\ vol.spc * Sector = size /\ vol.spc \in Nat
  BY MountedFields, VolumeFields DEF SoundMount
<1>6. ASSUME faults = 0 \/ ErrorsOffCard(vol)
      PROVE  \E k \in Nat : ReadsAt(k)
  BY <1>1, <1>6 DEF FileInv, FileWalk, ReadsAt
<1> HIDE DEF size
<1>7. ASSUME NEW k \in Nat, ReadsAt(k)
      PROVE  /\ loc < current.size <=> k * size < current.size
             /\ loc = Least(k * size, MaxSize) /\ k * size \in Nat
             /\ out = SubSeq(Contents(vol, current), 1, Least(k * size, current.size))
             /\ k * size < current.size =>
                  \/ cluster = ChainOf(vol, current.cluster)[k] /\ cluster \in Clusters(vol)
                  \/ faults > 0 /\ cluster = BadMark
  <2>1. k * size \in Nat
    BY <1>5
  <2>2. loc = Least(k * size, MaxSize)
    BY <1>7 DEF ReadsAt, size
  <2>3. loc < current.size <=> k * size < current.size
    BY <1>4, <2>1, <2>2 DEF Least
  <2>4. out = SubSeq(Contents(vol, current), 1, Least(k * size, current.size))
    BY <1>1, <1>7 DEF ReadsAt, size
  <2>5. k * size < current.size =>
          ChainOf(vol, current.cluster)[k] \in Clusters(vol)
    BY <1>4, <1>5, FileIsSound DEF size
  <2>6. k * size < current.size =>
          \/ cluster = ChainOf(vol, current.cluster)[k]
          \/ faults > 0 /\ cluster = BadMark
    BY <1>7 DEF ReadsAt, size
  <2> QED BY <2>1, <2>2, <2>3, <2>4, <2>5, <2>6
<1>8. ASSUME ErrorsOffCard(vol), cluster = BadMark PROVE ~OnCard(vol, s)
  <2>1. BadMark \in Nat
    BY SizesAssumption
  <2>2. GetSector(BadMark) = SectorOf(vol, BadMark)
    BY <2>1, GetsSector
  <2> QED BY <1>8, <2>2 DEF ErrorsOffCard, SectorOf
<1>9. CASE loc < current.size /\ ReadFails(s) /\ Return(Failed) /\ UNCHANGED <<loc, out>>
  <2>1. pc' = "idle" /\ result' = Failed /\ ~InFile'
    BY <1>9 DEF Return, InFile
  <2>2. ASSUME faults' = 0 PROVE FALSE
    <3>1. faults = 0
      BY <1>4, <2>2
    <3>2. PICK k \in Nat : ReadsAt(k)
      BY <1>6, <3>1
    <3>3. cluster \in Clusters(vol)
      BY <1>7, <1>9, <3>1, <3>2
    <3>4. OnCard(vol, s)
      BY <3>3, ClusterSector
    <3> QED BY <1>9, <2>2, <3>1, <3>4 DEF ReadFails
  <2>3. LoadsNamedFile'
    BY <2>2 DEF LoadsNamedFile
  <2>4. RootFileOrError' /\ FileWalk'
    BY <2>1 DEF RootFileOrError, FileWalk, Failed
  <2> QED BY <1>4, <2>3, <2>4 DEF FileInv
<1>10. ASSUME pc' = "next", faults' = faults,
              \A k \in Nat : ReadsAt(k) => ReadsAt(k)' \/ (faults > 0 /\ ~ErrorsOffCard(vol))
       PROVE  FileInv'
  <2>1. LoadsNamedFile' /\ RootFileOrError'
    BY <1>10 DEF LoadsNamedFile, RootFileOrError
  <2>2. FileWalk'
    <3>1. ASSUME faults' = 0 \/ ErrorsOffCard(vol) PROVE \E k \in Nat : ReadsAt(k)'
      <4>1. PICK k \in Nat : ReadsAt(k)
        BY <1>6, <1>10, <3>1
      <4> QED BY <1>4, <1>10, <3>1, <4>1
    <3> QED BY <1>1, <3>1 DEF FileWalk, ReadsAt
  <2> QED BY <1>4, <2>1, <2>2 DEF FileInv
<1>11. CASE ~(loc < current.size) /\ pc' = "next" /\ UNCHANGED <<readVars, faults>>
  <2>1. ASSUME NEW k \in Nat, ReadsAt(k) PROVE ReadsAt(k)'
    <3>1. ~(k * size < current.size) /\ k * size \in Nat /\ loc = Least(k * size, MaxSize)
          /\ out = SubSeq(Contents(vol, current), 1, Least(k * size, current.size))
      BY <1>7, <1>11, <2>1
    <3>2. (k + 1) * size = k * size + size
      BY <1>5
    <3>3. Least(k * size, current.size) = current.size
          /\ Least((k + 1) * size, current.size) = current.size
      BY <1>4, <1>5, <3>1, <3>2 DEF Least
    <3>4. loc' = loc /\ out' = out
      BY <1>11 DEF readVars
    <3> QED BY <1>1, <1>11, <3>1, <3>3, <3>4 DEF ReadsAt, size
  <2> QED BY <1>10, <1>11, <2>1
<1>12. CASE /\ loc < current.size /\ ReadWorks(s)
            /\ out' = out \o SubSeq(BytesAt(vol, s, fs.spc), 1, take)
            /\ pc' = "next" /\ UNCHANGED <<loc, result>>
  <2>1. faults' = faults /\ OnCard(vol, s)
    BY <1>12 DEF ReadWorks
  <2>2. ASSUME NEW k \in Nat, ReadsAt(k), faults = 0 \/ ErrorsOffCard(vol) PROVE ReadsAt(k)'
    <3> DEFINE c == Contents(vol, current)
               b == BytesAt(vol, s, fs.spc)
               m == k * size
    <3>1. m < current.size /\ m \in Nat /\ loc = Least(m, MaxSize)
          /\ out = SubSeq(c, 1, Least(m, current.size))
      BY <1>7, <1>12, <2>2
    <3>2. cluster = ChainOf(vol, current.cluster)[k] /\ cluster \in Clusters(vol)
      BY <1>7, <1>8, <2>1, <2>2, <3>1
    <3>3. s = SectorOf(vol, cluster) /\ s \in Nat
      BY <3>2, ClusterSector
    <3>4. b \in Seq(Int \X Int) /\ Len(b) = size
      BY <1>5, <3>3, BytesTyped
    <3>5. \A j \in 1 .. size : b[j] = <<cluster, j - 1>>
      BY <1>5, <3>2, <3>3, ClusterBytes
    <3>6. c \in Seq(Int \X Int) /\ Len(c) = current.size
      BY <1>4, <1>5, ContentsByCluster
    <3>7. \A j \in 1 .. size : m + j <= current.size => c[m + j] = <<cluster, j - 1>>
      BY <1>4, <1>5, <3>2, ContentsByCluster DEF size
    <3> HIDE DEF c, b, s
    <3>8. out = SubSeq(c, 1, m) /\ Len(out) = m
      <4>1. Least(m, current.size) = m /\ m \in 0 .. Len(c)
        BY <1>4, <3>1, <3>6 DEF Least
      <4> QED BY <3>1, <3>6, <4>1, BeginningOf
    <3>9. take = Least(current.size - m, size)
      BY <1>5, <3>8 DEF Take
    <3> HIDE DEF take
    <3>10. take \in 0 .. Len(b) /\ m + take <= Len(c) /\ m \in 0 .. Len(c)
           /\ m + take = Least(m + size, current.size)
      <4>1. size \in Nat
        BY <1>5
      <4> HIDE DEF m
      <4>2. take \in 0 .. size /\ m + take <= current.size
            /\ m + take = Least(m + size, current.size) /\ m \in 0 .. current.size
        BY <1>4, <3>1, <3>9, <4>1, TakeFits
      <4> QED BY <3>4, <3>6, <4>2
    <3>11. \A j \in 1 .. take : c[m + j] = b[j]
      <4>1. size \in Nat
        BY <1>5
      <4> HIDE DEF m
      <4>2. take \in 0 .. size /\ m + take <= current.size
        BY <1>4, <3>1, <3>9, <4>1, TakeFits
      <4>3. ASSUME NEW j \in 1 .. take PROVE j \in 1 .. size /\ m + j <= current.size
        BY <1>4, <3>1, <4>1, <4>2
      <4> QED BY <3>5, <3>7, <4>3
    <3>12. out' = SubSeq(c, 1, m + take)
      <4>1. SubSeq(c, 1, m) \o SubSeq(b, 1, take) = SubSeq(c, 1, m + take)
        <5> HIDE DEF m
        <5> QED BY <3>4, <3>6, <3>10, <3>11, BeginningGrows
      <4> QED BY <1>12, <3>8, <4>1 DEF b, s, take
    <3>13. (k + 1) * size = m + size
      BY <1>5
    <3>14. out' = SubSeq(c, 1, Least((k + 1) * size, current.size))
      BY <3>10, <3>12, <3>13
    <3>15. loc' = loc
      BY <1>12
    <3> QED BY <1>1, <1>12, <3>1, <3>2, <3>14, <3>15 DEF ReadsAt, size, c
  <2> QED BY <1>4, <1>10, <1>12, <2>1, <2>2
<1> QED BY <1>2, <1>9, <1>11, <1>12

\* The next cluster of the file is looked up, or the file is at its end.
LEMMA NextKeeps ==
  ASSUME SoundMount, FileInv, NextCluster
  PROVE  FileInv'
<1> DEFINE size == Sector * vol.spc
<1>1. /\ pc = "next" /\ UNCHANGED <<vol, fs, dirVars, out>> /\ InFile
      /\ vol' = vol /\ fs' = fs /\ current' = current /\ path' = path /\ out' = out
      /\ loc' = Least(loc + ClusterSize, MaxSize)
  BY DEF NextCluster, InFile, dirVars
<1>2. PICK n \in Entries :
        /\ NextEntry(cluster, n) /\ cluster' = n
        /\ IF n < EndMark THEN pc' = "data" /\ UNCHANGED result ELSE Return(Len(out))
  BY DEF NextCluster
<1>3. n \in Nat /\ faults' \in {faults, faults + 1} /\ pc' \in {"data", "next", "idle"}
  <2>1. n \in Nat
    BY <1>2, NextEntryTyped DEF SoundMount
  <2>2. faults' = faults \/ \E s : ReadWorks(s) \/ ReadFails(s)
    BY <1>2 DEF NextEntry
  <2>3. faults' \in {faults, faults + 1}
    BY <2>2, FaultsTyped DEF SoundMount
  <2> QED BY <1>2, <2>1, <2>3 DEF Return
<1>4. /\ DirWalk' /\ PathWalk' /\ MissingFirst' /\ FileChosen'
      /\ current \in FileNodes(vol) /\ current \in Node
      /\ (faults' = 0 => faults = 0) /\ faults \in Nat /\ MaxSize \in Nat
      /\ current.size \in Nat /\ current.size <= MaxSize
  BY <1>1, <1>3, FileFrame
<1>5. /\ IsVolume(vol) /\ Sound(vol) /\ size \in Nat \ {0} /\ ClusterSize = size
      /\ BadMark \in Nat /\ EndMark = BadMark + 1 /\ path # <<>>
  <2>1. path \in Paths
    BY <1>1 DEF SoundMount, TInv, VolumeTyped
  <2> QED BY <2>1, MountedFields, VolumeFields, SizesAssumption, PathsAssumption
          DEF SoundMount, EndMark
<1>6. ASSUME faults = 0 \/ ErrorsOffCard(vol)
      PROVE  \E k \in Nat : ReadsAt(k)
  BY <1>1, <1>6 DEF FileInv, FileWalk, ReadsAt
<1> HIDE DEF size
<1>7. ASSUME NEW k \in Nat, ReadsAt(k)
      PROVE  /\ k * size \in Nat /\ (k + 1) * size = k * size + size
             /\ loc = Least(k * size, MaxSize)
             /\ out = SubSeq(Contents(vol, current), 1, Least((k + 1) * size, current.size))
             /\ (k + 1) * size < current.size =>
                  \/ /\ n = ChainOf(vol, current.cluster)[k + 1] /\ faults' = faults
                     /\ n < BadMark
                  \/ n = BadMark /\ faults' = faults + 1
  <2>1. k * size \in Nat /\ (k + 1) * size = k * size + size
    BY <1>5
  <2>2. loc = Least(k * size, MaxSize)
    BY <1>7 DEF ReadsAt, size
  <2>3. out = SubSeq(Contents(vol, current), 1, Least((k + 1) * size, current.size))
    BY <1>1, <1>7 DEF ReadsAt, size
  <2>4. ASSUME (k + 1) * size < current.size
        PROVE  \/ /\ n = ChainOf(vol, current.cluster)[k + 1] /\ faults' = faults
                  /\ n < BadMark
               \/ n = BadMark /\ faults' = faults + 1
    <3> DEFINE at == ChainOf(vol, current.cluster)
               m == Cardinality(DOMAIN vol.fat)
    <3>1. k * size < current.size
      BY <1>4, <1>5, <2>1, <2>4
    <3>2. cluster = at[k]
      BY <1>1, <1>7, <3>1 DEF ReadsAt, size
    <3>3. /\ at[k] \in Clusters(vol) /\ at[k + 1] \in Clusters(vol)
          /\ k + 1 \in 0 .. m - 1 /\ current.cluster \in Nat
      <4>1. k + 1 \in Nat
        OBVIOUS
      <4> QED BY <1>4, <1>5, <2>4, <3>1, <4>1, FileIsSound DEF size
    <3>4. at[k] \in DOMAIN vol.fat /\ at[k + 1] < BadMark
      BY <1>5, <3>3, ClustersInTable
    <3>5. IsChain(at, vol, current.cluster, m) /\ m \in Nat
      BY <1>5, <3>3, ChainSteps, TableSize
    <3> HIDE DEF at, m
    <3>6. k + 1 \in 1 .. m /\ (k + 1) - 1 = k
      BY <3>3, <3>5
    <3>7. at[k + 1] = vol.fat[at[k]]
      BY <3>4, <3>5, <3>6 DEF IsChain
    <3>8. \/ n = vol.fat[at[k]] /\ faults' = faults
          \/ n = BadMark /\ faults' = faults + 1
      BY <1>2, <3>2, <3>4, NextInTable
    <3> QED BY <3>4, <3>7, <3>8 DEF at
  <2> QED BY <2>1, <2>2, <2>3, <2>4
<1>8. CASE n < EndMark
  <2>1. pc' = "data"
    BY <1>2, <1>8
  <2>2. LoadsNamedFile' /\ RootFileOrError'
    BY <2>1 DEF LoadsNamedFile, RootFileOrError
  <2>3. ASSUME NEW k \in Nat, ReadsAt(k) PROVE ReadsAt(k + 1)'
    <3>1. loc' = Least((k + 1) * size, MaxSize)
      <4> DEFINE m == k * size
      <4>1. loc = Least(m, MaxSize) /\ m \in Nat /\ (k + 1) * size = m + size
        BY <1>7, <2>3
      <4> HIDE DEF m
      <4> QED BY <1>1, <1>4, <1>5, <4>1 DEF Least
    <3>2. out' = SubSeq(Contents(vol, current), 1, Least((k + 1) * size, current.size))
      BY <1>1, <1>7, <2>3
    <3>3. (k + 1) * size < current.size =>
            \/ cluster' = ChainOf(vol, current.cluster)[k + 1]
            \/ faults' > 0 /\ cluster' = BadMark
      <4>1. faults + 1 > 0
        BY <1>4
      <4> QED BY <1>2, <1>7, <2>3, <4>1
    <3> QED BY <1>1, <2>1, <3>1, <3>2, <3>3 DEF ReadsAt, size
  <2>4. FileWalk'
    <3>1. ASSUME faults' = 0 \/ ErrorsOffCard(vol) PROVE \E k \in Nat : ReadsAt(k)'
      <4>1. PICK k \in Nat : ReadsAt(k)
        BY <1>4, <1>6, <3>1
      <4>2. ReadsAt(k + 1)' /\ k + 1 \in Nat
        BY <2>3, <4>1
      <4> QED BY <4>2 DEF ReadsAt
    <3> QED BY <1>1, <3>1 DEF FileWalk, ReadsAt
  <2> QED BY <1>4, <2>2, <2>4 DEF FileInv
<1>9. CASE ~(n < EndMark)
  <2>1. pc' = "idle" /\ result' = Len(out) /\ ~InFile'
    BY <1>2, <1>9 DEF Return, InFile
  <2>2. ASSUME faults = 0 \/ ErrorsOffCard(vol)
        PROVE  out = Contents(vol, current) /\ Len(out) = current.size
    <3> DEFINE c == Contents(vol, current)
    <3>1. PICK k \in Nat : ReadsAt(k)
      BY <1>6, <2>2
    <3>2. ~((k + 1) * size < current.size)
      BY <1>3, <1>5, <1>7, <1>9, <3>1
    <3>3. Least((k + 1) * size, current.size) = current.size
      BY <1>4, <1>5, <1>7, <3>1, <3>2 DEF Least
    <3>4. out = SubSeq(c, 1, current.size)
      BY <1>7, <3>1, <3>3
    <3>5. c \in Seq(Int \X Int) /\ Len(c) = current.size
      BY <1>4, <1>5, ContentsByCluster
    <3> HIDE DEF c
    <3>6. current.size \in 0 .. Len(c)
      BY <1>4, <3>5
    <3>7. /\ out \in Seq(Int \X Int) /\ Len(out) = Len(c)
          /\ \A i \in 1 .. Len(c) : out[i] = c[i]
      BY <3>4, <3>5, <3>6, BeginningOf
    <3>8. out = c
      BY <3>5, <3>7, SameSequence
    <3> QED BY <3>5, <3>8 DEF c
  <2>3. Len(path) = 1 \/ (faults = 0 /\ IsFile(vol, path)) =>
          current = NodeOf(vol, path) /\ IsFile(vol, path)
    <3>1. current # NoNode /\ ~current.isDir
      BY <1>4, <1>5, FileIsSound, NodesAreNamed
    <3> QED BY <1>1, <3>1 DEF FileInv, FileChosen, IsFile
  <2>4. ASSUME faults' = 0
        PROVE  /\ IsFile(vol, path) =>
                    result' = NodeOf(vol, path).size /\ out = Contents(vol, NodeOf(vol, path))
               /\ NodeAt(vol, path, 1) # NoNode
    <3>1. faults = 0
      BY <1>4, <2>4
    <3>2. NodeAt(vol, path, 1) # NoNode
      BY <1>1, <1>5, <3>1 DEF FileInv, MissingFirst
    <3> QED BY <2>1, <2>2, <2>3, <3>1, <3>2
  <2>5. LoadsNamedFile'
    BY <1>1, <2>4 DEF LoadsNamedFile
  <2>6. ErrorsOffCard(vol) => RootFileOrError'
    BY <1>1, <2>2, <2>3 DEF RootFileOrError
  <2>7. FileWalk'
    BY <2>1 DEF FileWalk
  <2> QED BY <1>1, <1>4, <2>5, <2>6, <2>7 DEF FileInv
<1> QED BY <1>8, <1>9

-----------------------------------------------------------------------------
(* Reading a directory, and the other steps.                                *)

\* What is in two sequences is in the one they make.
LEMMA RangeOfBoth ==
  ASSUME NEW S, NEW s \in Seq(S), NEW t \in Seq(S)
  PROVE  s \o t \in Seq(S) /\ Range(s \o t) = Range(s) \cup Range(t)
<1>1. /\ DOMAIN (s \o t) = 1 .. Len(s) + Len(t) /\ s \o t \in Seq(S)
      /\ DOMAIN s = 1 .. Len(s) /\ DOMAIN t = 1 .. Len(t)
      /\ Len(s) \in Nat /\ Len(t) \in Nat
  OBVIOUS
<1>2. \A i \in 1 .. Len(s) : (s \o t)[i] = s[i] /\ i \in 1 .. Len(s) + Len(t)
  OBVIOUS
<1>3. \A i \in 1 .. Len(t) : (s \o t)[Len(s) + i] = t[i] /\ Len(s) + i \in 1 .. Len(s) + Len(t)
  OBVIOUS
<1>4. ASSUME NEW x \in Range(s \o t) PROVE x \in Range(s) \cup Range(t)
  <2>1. PICK i \in 1 .. Len(s) + Len(t) : x = (s \o t)[i]
    BY <1>1 DEF Range
  <2>2. CASE i <= Len(s)
    <3>1. i \in 1 .. Len(s)
      BY <2>2
    <3> QED BY <1>1, <1>2, <2>1, <3>1 DEF Range
  <2>3. CASE ~(i <= Len(s))
    <3>1. i - Len(s) \in 1 .. Len(t) /\ Len(s) + (i - Len(s)) = i
      BY <1>1, <2>3
    <3>2. x = t[i - Len(s)]
      BY <1>3, <2>1, <3>1
    <3> QED BY <1>1, <3>1, <3>2 DEF Range
  <2> QED BY <2>2, <2>3
<1>5. ASSUME NEW x \in Range(s) PROVE x \in Range(s \o t)
  BY <1>1, <1>2 DEF Range
<1>6. ASSUME NEW x \in Range(t) PROVE x \in Range(s \o t)
  BY <1>1, <1>3 DEF Range
<1> QED BY <1>1, <1>4, <1>5, <1>6

\* The entries of one more cluster of a directory.
LEMMA EntriesGrow ==
  ASSUME NEW v, NEW c, NEW j \in Nat
  PROVE  EntriesIn(v, c, 0 .. j) =
           EntriesIn(v, c, 0 .. j - 1) \cup
             {Dirent(x) : x \in {y \in Range(v.dirs[ChainOf(v, c)[j]]) : IsEntry(y)}}
<1>1. 0 .. j = (0 .. j - 1) \cup {j}
  OBVIOUS
<1> QED BY <1>1 DEF EntriesIn

\* What the clusters of a directory hold are entries of it.
LEMMA EntriesAreAll ==
  ASSUME NEW v, IsVolume(v), Sound(v), NEW c \in Nat, NEW j \in Nat,
         j < Cardinality(DOMAIN v.fat), \A k \in 0 .. j : ChainOf(v, c)[k] \in DOMAIN v.dirs
  PROVE  EntriesIn(v, c, 0 .. j) \subseteq AllEntries(v, c)
<1> DEFINE at == ChainOf(v, c)
           n == Cardinality(DOMAIN v.fat)
<1>1. n \in Nat /\ IsChain(at, v, c, n)
  BY TableSize, ChainSteps
<1> HIDE DEF at, n
<1>2. \A k \in 0 .. j : at[k] \in Range(at)
  <2>1. \A k \in 0 .. j : k \in 0 .. n
    BY <1>1 DEF n
  <2> QED BY <1>1, <2>1 DEF IsChain, Range
<1>3. ASSUME NEW e \in EntriesIn(v, c, 0 .. j) PROVE e \in AllEntries(v, c)
  <2>1. PICK k \in 0 .. j : \E x \in Range(v.dirs[at[k]]) : IsEntry(x) /\ e = Dirent(x)
    BY DEF EntriesIn, at
  <2>2. PICK x \in Range(v.dirs[at[k]]) : IsEntry(x) /\ e = Dirent(x)
    BY <2>1
  <2>3. at[k] \in Range(at) \cap DOMAIN v.dirs
    BY <1>2 DEF at
  <2>4. x \in SlotsOf(v, c)
    BY <2>2, <2>3 DEF SlotsOf, at
  <2> QED BY <2>2, <2>4 DEF AllEntries
<1> QED BY <1>3

\* Where the reading of the directory is, after j clusters.
ListsAt(j) ==
  /\ \A k \in 0 .. j : ChainOf(vol, DirNode.cluster)[k] \in DOMAIN vol.dirs
  /\ cluster = ChainOf(vol, DirNode.cluster)[j]
  /\ Range(list) = EntriesIn(vol, DirNode.cluster, IF pc = "dir" THEN 0 .. j - 1 ELSE 0 .. j)

\* What is known while a directory is read.
LEMMA DirFrame ==
  ASSUME SoundMount, FileInv, InDir
  PROVE  /\ IsVolume(vol) /\ Sound(vol) /\ fs.spc = vol.spc /\ list \in Seq(Node)
         /\ faults \in Nat /\ Cardinality(DOMAIN vol.fat) \in Nat \ {0}
         /\ DirNode.cluster \in Nat /\ SoundDir(vol, DirNode.cluster)
         /\ \E j \in 0 .. Cardinality(DOMAIN vol.fat) - 1 : ListsAt(j)
<1>1. IsVolume(vol) /\ Sound(vol) /\ fs.spc = vol.spc /\ list \in Seq(Node) /\ faults \in Nat
  BY MountedFields DEF SoundMount, TInv, VolumeTyped, ReadTyped
<1>2. Cardinality(DOMAIN vol.fat) \in Nat \ {0}
  BY <1>1, TableSize
<1>3. DirNode \in DirNodes(vol) \cup {RootNode(vol)}
  BY DEF FileInv, DirWalk, DirNode
<1>4. DirNode.cluster \in Nat /\ SoundDir(vol, DirNode.cluster)
  BY <1>1, <1>3, DirIsSound, NodesAreNamed
<1>5. \E j \in 0 .. Cardinality(DOMAIN vol.fat) - 1 : ListsAt(j)
  BY DEF FileInv, DirWalk, ListsAt
<1> QED BY <1>1, <1>2, <1>4, <1>5

\* Going on in the directory keeps everything but the place in it.
LEMMA DirMoves ==
  ASSUME SoundMount, FileInv, InDir, UNCHANGED <<vol, fs, path, segment, current, result, faults>>,
         pc' \in {"dir", "dir_next"},
         \E j \in 0 .. Cardinality(DOMAIN vol.fat) - 1 : ListsAt(j)'
  PROVE  FileInv'
<1>1. DirNode' = DirNode /\ pc' # "idle" /\ InDir' /\ ~InFile'
  BY DEF DirNode, InDir, InFile, RootNode
<1>2. DirWalk'
  BY <1>1 DEF FileInv, DirWalk, ListsAt
<1>3. PathWalk'
  BY <1>1 DEF FileInv, PathWalk
<1>4. MissingFirst'
  BY <1>1 DEF FileInv, MissingFirst
<1>5. FileChosen' /\ FileWalk' /\ LoadsNamedFile' /\ RootFileOrError'
  BY <1>1 DEF FileChosen, FileWalk, LoadsNamedFile, RootFileOrError
<1> QED BY <1>2, <1>3, <1>4, <1>5 DEF FileInv

\* A cluster of the directory is read.
LEMMA DirReadKeeps ==
  ASSUME SoundMount, FileInv, ReadDirCluster
  PROVE  FileInv'
<1> DEFINE s == Address(GetSector(cluster))
           n == Cardinality(DOMAIN vol.fat)
<1>1. pc = "dir" /\ InDir /\ UNCHANGED <<vol, fs>> /\ vol' = vol
  BY DEF ReadDirCluster, InDir
<1>2. \/ /\ ReadWorks(s) /\ list' = list \o Dirents(SlotsAt(vol, s, fs.spc)) /\ pc' = "dir_next"
         /\ UNCHANGED <<path, segment, current, offset, cluster, readVars>>
      \/ ReadFails(s) /\ Search(<<>>)
  BY DEF ReadDirCluster
<1>3. /\ IsVolume(vol) /\ Sound(vol) /\ fs.spc = vol.spc /\ list \in Seq(Node)
      /\ faults \in Nat /\ n \in Nat \ {0}
      /\ DirNode.cluster \in Nat /\ SoundDir(vol, DirNode.cluster)
  BY <1>1, DirFrame
<1>4. PICK j \in 0 .. n - 1 : ListsAt(j)
  BY <1>1, DirFrame
<1> DEFINE at == ChainOf(vol, DirNode.cluster)
<1>5. cluster \in DOMAIN vol.dirs /\ cluster \in Clusters(vol) /\ cluster = at[j] /\ j \in Nat
  BY <1>3, <1>4 DEF ListsAt, Sound
<1>6. s = SectorOf(vol, cluster) /\ OnCard(vol, s)
  BY <1>5, ClusterSector
<1> HIDE DEF s, n
<1>7. CASE /\ ReadWorks(s) /\ list' = list \o Dirents(SlotsAt(vol, s, fs.spc))
           /\ pc' = "dir_next"
           /\ UNCHANGED <<path, segment, current, offset, cluster, readVars>>
  <2> DEFINE l == Dirents(SlotsAt(vol, s, vol.spc))
  <2>1. /\ l \in Seq(Node)
        /\ Range(l) = {Dirent(x) : x \in {y \in Range(vol.dirs[cluster]) : IsEntry(y)}}
    BY <1>5, <1>6, ClusterSlots
  <2>2. list' = list \o l
    BY <1>3, <1>7
  <2> HIDE DEF l
  <2>3. Range(list') = Range(list) \cup Range(l)
    BY <1>3, <2>1, <2>2, RangeOfBoth
  <2>4. Range(list) = EntriesIn(vol, DirNode.cluster, 0 .. j - 1)
    BY <1>1, <1>4 DEF ListsAt
  <2>5. Range(list') = EntriesIn(vol, DirNode.cluster, 0 .. j)
    BY <1>5, <2>1, <2>3, <2>4, EntriesGrow
  <2>6. /\ path' = path /\ segment' = segment /\ current' = current /\ cluster' = cluster
        /\ result' = result /\ faults' = faults
    BY <1>7 DEF readVars, ReadWorks
  <2>7. DirNode' = DirNode
    BY <1>1, <2>6 DEF DirNode, RootNode
  <2>8. ListsAt(j)'
    BY <1>1, <1>4, <1>7, <2>5, <2>6, <2>7 DEF ListsAt
  <2>9. \E k \in 0 .. n - 1 : ListsAt(k)'
    BY <2>8
  <2> QED BY <1>1, <1>7, <2>6, <2>9, DirMoves DEF n
<1>8. CASE ReadFails(s) /\ Search(<<>>)
  <2>1. faults' = faults + 1
    BY <1>6, <1>8 DEF ReadFails
  <2>2. <<>> \in Seq(Node) /\ Range(<<>>) = {}
    BY DEF Range
  <2>3. Range(<<>>) \subseteq AllEntries(vol, DirNode.cluster) /\ faults' # 0
    BY <1>3, <2>1, <2>2
  <2> QED BY <1>1, <1>8, <2>1, <2>2, <2>3, SearchKeeps
<1> QED BY <1>2, <1>7, <1>8

\* The next cluster of the directory is looked up, or the directory is at its end
\* and is searched.
LEMMA DirNextKeeps ==
  ASSUME SoundMount, FileInv, NextDirCluster
  PROVE  FileInv'
<1> DEFINE n == Cardinality(DOMAIN vol.fat)
           at == ChainOf(vol, DirNode.cluster)
<1>1. pc = "dir_next" /\ InDir /\ UNCHANGED <<vol, fs>> /\ vol' = vol /\ fs.type = "FAT32"
  BY DEF NextDirCluster, InDir, SoundMount
<1>2. PICK e \in Entries :
        /\ NextEntry(cluster, e)
        /\ IF e < BadMark THEN cluster' = e /\ pc' = "dir" /\ UNCHANGED <<dirVars, readVars>>
                          ELSE Search(list)
  BY <1>1 DEF NextDirCluster
<1>3. /\ IsVolume(vol) /\ Sound(vol) /\ list \in Seq(Node)
      /\ faults \in Nat /\ n \in Nat \ {0} /\ BadMark \in Nat /\ e \in Nat
      /\ DirNode.cluster \in Nat /\ SoundDir(vol, DirNode.cluster)
  BY <1>1, <1>2, DirFrame, SizesAssumption, NextEntryTyped DEF SoundMount
<1>4. PICK j \in 0 .. n - 1 : ListsAt(j)
  BY <1>1, DirFrame
<1>5. /\ \A k \in 0 .. j : at[k] \in DOMAIN vol.dirs
      /\ cluster = at[j] /\ Range(list) = EntriesIn(vol, DirNode.cluster, 0 .. j)
  BY <1>1, <1>4 DEF ListsAt
<1>6. /\ at[j] \in DOMAIN vol.fat /\ at[j + 1] = vol.fat[at[j]]
      /\ at[j + 1] < BadMark => j + 1 \in 0 .. n - 1 /\ at[j + 1] \in DOMAIN vol.dirs
      /\ at[j + 1] >= BadMark => EntriesIn(vol, DirNode.cluster, 0 .. j)
                                   = AllEntries(vol, DirNode.cluster)
  BY <1>3, <1>5, DirGoesOn
<1>7. \/ e = at[j + 1] /\ faults' = faults
      \/ e = BadMark /\ faults' = faults + 1
  BY <1>2, <1>5, <1>6, NextInTable
<1>8. EntriesIn(vol, DirNode.cluster, 0 .. j) \subseteq AllEntries(vol, DirNode.cluster)
  <2>1. j \in Nat /\ j < n
    BY <1>3
  <2> QED BY <1>3, <1>5, <2>1, EntriesAreAll
<1> HIDE DEF n, at
<1>9. CASE e < BadMark
  <2>1. e = at[j + 1] /\ faults' = faults
    BY <1>3, <1>7, <1>9
  <2>2. /\ path' = path /\ segment' = segment /\ current' = current /\ list' = list
        /\ result' = result /\ cluster' = e /\ pc' = "dir"
    BY <1>2, <1>9 DEF dirVars, readVars
  <2>3. DirNode' = DirNode
    BY <1>1, <2>2 DEF DirNode, RootNode
  <2>4. j + 1 \in 0 .. n - 1 /\ at[j + 1] \in DOMAIN vol.dirs /\ (j + 1) - 1 = j
    BY <1>3, <1>6, <1>9, <2>1
  <2>5. \A k \in 0 .. j + 1 : at[k] \in DOMAIN vol.dirs
    <3>1. \A k \in 0 .. j + 1 : k \in 0 .. j \/ k = j + 1
      BY <1>3
    <3> QED BY <1>5, <2>4, <3>1
  <2>6. ListsAt(j + 1)'
    BY <1>1, <1>5, <2>1, <2>2, <2>3, <2>4, <2>5 DEF ListsAt, at
  <2>7. \E k \in 0 .. n - 1 : ListsAt(k)'
    <3>1. PICK i \in 0 .. n - 1 : i = j + 1
      BY <2>4
    <3>2. ListsAt(i)'
      BY <2>6, <3>1
    <3> QED BY <3>2
  <2> QED BY <1>1, <2>1, <2>2, <2>7, DirMoves DEF n
<1>10. CASE ~(e < BadMark)
  <2>1. Search(list)
    BY <1>2, <1>10
  <2>2. faults' \in {faults, faults + 1}
    BY <1>7
  <2>3. ASSUME faults' = 0 PROVE Range(list) = AllEntries(vol, DirNode.cluster)
    <3>1. e = at[j + 1]
      BY <1>3, <1>7, <2>3
    <3> QED BY <1>3, <1>5, <1>6, <1>10, <3>1
  <2> QED BY <1>1, <1>3, <1>5, <1>8, <2>1, <2>2, <2>3, SearchKeeps
<1> QED BY <1>9, <1>10

\* A load begins in the root.
LEMMA LoadKeeps ==
  ASSUME SoundMount, FatLoad
  PROVE  FileInv'
<1>1. /\ OpenDir(NoNode) /\ segment' = 1 /\ UNCHANGED <<vol, fs>> /\ vol' = vol
      /\ path' \in Paths
  <2>1. fs # NotMounted
    BY MountedFields DEF SoundMount
  <2> QED BY <2>1 DEF FatLoad
<1>2. pc' = "dir" /\ ~InFile'
  BY <1>1 DEF OpenDir, InFile
<1>3. DirWalk'
  BY <1>1, DirOpened
<1>4. PathWalk'
  <2>1. path' \in Seq(STRING) /\ path' # <<>>
    BY <1>1, PathsAssumption
  <2>2. Len(path') \in Nat /\ 1 <= Len(path')
    BY <2>1
  <2>3. NodeAt(vol, path', 0) = RootNode(vol)
    BY <2>2, NodeSteps, MountedFields DEF SoundMount
  <2>4. DirNode' = RootNode(vol)
    BY <1>1 DEF DirNode, RootNode
  <2> QED BY <1>1, <2>2, <2>3, <2>4 DEF PathWalk
<1>5. MissingFirst'
  BY <1>1, <1>2 DEF MissingFirst
<1>6. FileChosen' /\ FileWalk' /\ LoadsNamedFile' /\ RootFileOrError'
  BY <1>2 DEF FileChosen, FileWalk, LoadsNamedFile, RootFileOrError
<1> QED BY <1>3, <1>4, <1>5, <1>6 DEF FileInv

\* A state in which no file was loaded yet.
LEMMA NothingLoaded ==
  ASSUME path' = <<>>, result' = NoResult, pc' \in {"boot", "idle"}
  PROVE  FileInv'
<1>1. ~InDir' /\ ~InFile'
  BY DEF InDir, InFile
<1>2. DirWalk' /\ PathWalk' /\ MissingFirst' /\ FileChosen' /\ FileWalk'
  BY <1>1 DEF DirWalk, PathWalk, MissingFirst, FileChosen, FileWalk
<1>3. LoadsNamedFile' /\ RootFileOrError'
  BY DEF LoadsNamedFile, RootFileOrError, NoResult
<1> QED BY <1>2, <1>3 DEF FileInv

\* Without a step the invariant stays.
LEMMA FileStays ==
  ASSUME FileInv, UNCHANGED vars
  PROVE  FileInv'
<1>1. /\ vol' = vol /\ fs' = fs /\ path' = path /\ segment' = segment /\ current' = current
      /\ list' = list /\ offset' = offset /\ cluster' = cluster /\ loc' = loc /\ out' = out
      /\ result' = result /\ faults' = faults /\ pc' = pc
  BY DEF vars
<1>2. DirNode' = DirNode /\ InDir' = InDir /\ InFile' = InFile
  BY <1>1 DEF DirNode, InDir, InFile, RootNode
<1>3. DirWalk'
  BY <1>1, <1>2 DEF FileInv, DirWalk
<1>4. PathWalk' /\ MissingFirst' /\ FileChosen'
  BY <1>1, <1>2 DEF FileInv, PathWalk, MissingFirst, FileChosen
<1>5. FileWalk'
  BY <1>1, <1>2 DEF FileInv, FileWalk
<1>6. LoadsNamedFile' /\ (ErrorsOffCard(vol') => RootFileOrError')
  BY <1>1 DEF FileInv, LoadsNamedFile, RootFileOrError
<1> QED BY <1>3, <1>4, <1>5, <1>6 DEF FileInv

\* Every step keeps the invariant.
LEMMA StepKeeps ==
  ASSUME TInv, FInv, [Next]_vars
  PROVE  FInv'
<1> SUFFICES ASSUME fs'.type = "FAT32", Sound(vol') PROVE FileInv'
  BY DEF FInv
<1>1. CASE ReadMbr
  BY <1>1, NothingLoaded DEF ReadMbr, TInv, VolumeTyped, ReadTyped, dirVars, readVars
<1>2. CASE ReadBootSector
  BY <1>2, NothingLoaded DEF ReadBootSector, TInv, VolumeTyped, ReadTyped, dirVars, readVars
<1>3. ASSUME UNCHANGED <<vol, fs>> PROVE SoundMount /\ FileInv
  <2>1. vol' = vol /\ fs' = fs
    BY <1>3
  <2>2. fs # NotMounted
    BY <2>1 DEF NotMounted
  <2>3. fs = Mounted(vol)
    BY <2>2 DEF TInv, VolumeTyped
  <2> QED BY <2>1, <2>3 DEF SoundMount, FInv
<1>4. CASE FatLoad
  BY <1>3, <1>4, LoadKeeps DEF FatLoad
<1>5. CASE ReadDirCluster
  BY <1>3, <1>5, DirReadKeeps DEF ReadDirCluster
<1>6. CASE NextDirCluster
  BY <1>3, <1>6, DirNextKeeps DEF NextDirCluster
<1>7. CASE ReadCluster
  BY <1>3, <1>7, ReadKeeps DEF ReadCluster
<1>8. CASE NextCluster
  BY <1>3, <1>8, NextKeeps DEF NextCluster
<1>9. CASE Undefined \/ UNCHANGED vars
  <2>1. UNCHANGED vars
    BY <1>9 DEF Undefined
  <2>2. UNCHANGED <<vol, fs>>
    BY <2>1 DEF vars
  <2> QED BY <1>3, <2>1, <2>2, FileStays
<1> QED BY <1>1, <1>2, <1>4, <1>5, <1>6, <1>7, <1>8, <1>9 DEF Next

\* The invariant, in every state.
LEMMA AlwaysFile == Spec => []FInv
<1>1. Init => FInv
  BY DEF Init, FInv, NotMounted
<1>2. TInv /\ FInv /\ [Next]_vars => FInv'
  BY StepKeeps
<1> QED BY <1>1, <1>2, AlwaysTyped, PTL DEF Spec

(***************************************************************************)
(* On a sound FAT32 volume of any size and layout, a path to a file that   *)
(* fits the buffer loads that file, however many clusters the file and the *)
(* directories on the way take and wherever these lie.                     *)
(***************************************************************************)
THEOREM LoadsTheFile == Spec => [](Sound(vol) => LoadsNamedFile)
<1>1. FInv => (Sound(vol) => LoadsNamedFile)
  BY DEF FInv, FileInv, LoadsNamedFile
<1> QED BY <1>1, AlwaysFile, PTL

(***************************************************************************)
(* Whichever reads of the card fail, a file of the root directory is read  *)
(* right or not at all, where the cluster that stands for a failed read of *)
(* the table is off the card.                                              *)
(***************************************************************************)
THEOREM LoadsOrFails == Spec => [](Sound(vol) /\ ErrorsOffCard(vol) => RootFileOrError)
<1>1. FInv => (Sound(vol) /\ ErrorsOffCard(vol) => RootFileOrError)
  BY DEF FInv, FileInv, RootFileOrError
<1> QED BY <1>1, AlwaysFile, PTL

=============================================================================
