-------------------------------- MODULE Fat --------------------------------
(***************************************************************************)
(* The file system (fs.c, fat.c): mounting the first partition of the card *)
(* and loading a file by its path.  A step is one sd_read and what is      *)
(* computed from it: the SD card answers each read at once, with the       *)
(* blocks asked for or with an error, as Emmc promises (BlockDevice).      *)
(*                                                                         *)
(* A volume is a record of the fields of its boot sector with its contents *)
(* by cluster: `fat' the allocation table, `dirs' the slots of clusters    *)
(* that belong to directories; the other clusters hold file data.          *)
(***************************************************************************)
EXTENDS Integers, Sequences, FiniteSets, FiniteSetsExt, Functions

CONSTANTS
  Volumes,    \* the volumes the card may hold
  Paths,      \* paths of fat_load, as sequences of segments
  Lower,      \* function: the name a directory entry's 8.3 name is read as
  Sector,     \* bytes_per_sector, 512 in the code
  EntrySize,  \* bytes of a directory entry, 32 in the code
  Limit12,    \* clusters from which a volume is not FAT12, 4085 in the code
  Limit16,    \* clusters from which a volume is not FAT16, 65525 in the code
  BadMark,    \* 0x0ffffff7, also what get_next_fat_entry returns for an error
  MaxSize,    \* size of the buffer, 0x20000 in process_load
  Wrap,       \* sectors after which addresses repeat: 2^32, or 2^23 on a card
              \* with byte addresses (block_no * 512 in emmc.c)
  MaxFaults   \* bound: reads that fail

EndMark == BadMark + 1
Least(a, b) == IF a < b THEN a ELSE b
CeilDiv(a, b) == (a + b - 1) \div b

ASSUME SizesAssumption ==
  /\ {Sector, EntrySize} \subseteq Nat \ {0} /\ Sector % EntrySize = 0
  /\ {Limit12, Limit16, BadMark, MaxSize, MaxFaults} \subseteq Nat
  /\ Wrap \in Nat \ {0}

\* No entry is read as an empty name: 8.3 names are not blank.
ASSUME NamesAssumption == \A n \in DOMAIN Lower : Lower[n] \in STRING \ {""}
ASSUME PathsAssumption == \A p \in Paths : p \in Seq(STRING) /\ p # <<>>

Slot == [kind : STRING, name : DOMAIN Lower, size : Nat, cluster : Nat]

\* fatSize is the size of a table, fatSize16 what table_size_16 says of it.
IsVolume(v) ==
  /\ {v.partition, v.reserved, v.tables, v.rootEntries, v.total, v.rootCluster} \subseteq Nat
  /\ {v.fatSize, v.spc} \subseteq Nat \ {0} /\ v.bootjmp \in BOOLEAN
  /\ v.fatSize16 \in {0, v.fatSize}
  /\ DOMAIN v.fat \subseteq Nat /\ v.fat \in [DOMAIN v.fat -> Nat]
  /\ DOMAIN v.dirs \subseteq Nat /\ v.dirs \in [DOMAIN v.dirs -> Seq(Slot)]
  /\ v.rootSlots \in Seq(Slot)

ASSUME VolumesAssumption == \A v \in Volumes : IsVolume(v)

VARIABLES
  vol,      \* external: the volume on the card
  fs,       \* osfs: what fat_init derived from the boot sector, or NotMounted
  path,     \* path being loaded
  segment,  \* which of its segments is looked up
  current,  \* current_node
  list,     \* entries fat_read_dir has found so far
  offset,   \* cur_root_cluster_offset
  cluster,  \* cur_cluster
  loc,      \* file_loc of fat_read
  out,      \* the caller's buffer
  result,   \* what the last fat_load returned
  faults,   \* reads that failed
  pc        \* next step

vars == <<vol, fs, path, segment, current, list, offset, cluster, loc, out,
          result, faults, pc>>
dirVars == <<path, segment, current, list, offset>>
readVars == <<loc, out, result>>

NotMounted == [type |-> "none"]
NoNode == [name |-> ""]
NoResult == -2
Failed == -1

TypeOK ==
  /\ vol \in Volumes
  /\ fs.type \in {"none", "FAT12", "FAT16", "FAT32"}
  /\ path \in Paths \cup {<<>>} /\ segment \in 1 .. Len(path) + 1
  /\ current.name = "" \/ current.cluster \in Nat
  /\ cluster \in Nat /\ loc \in Nat /\ offset \in Nat
  /\ Len(out) <= MaxSize
  /\ result = NoResult \/ result = Failed \/ result = Len(out)
  /\ faults \in 0 .. MaxFaults
  /\ pc \in {"mbr", "boot", "idle", "dir", "dir_next", "data", "next", "undefined"}

-----------------------------------------------------------------------------
(* The volume, by sectors.  Reads outside the card fail.                    *)

FatStart(v) == v.partition + v.reserved
RootStart(v) == FatStart(v) + v.tables * v.fatSize
DataStart(v) == RootStart(v) + CeilDiv(v.rootEntries * EntrySize, Sector)

IsFatSector(v, s) == s \in FatStart(v) .. RootStart(v) - 1
Address(s) == s % Wrap
OnCard(v, s) == s \in 0 .. v.partition + v.total - 1

\* Entry number k of the allocation table.
FatEntry(v, k) == IF k \in DOMAIN v.fat THEN v.fat[k] ELSE 0

\* Values of the table entry at byte i of sector s, in entries of `width'
\* bytes.  Past the sector and outside the table anything may be found.
WordsAt(v, s, i, width) ==
  IF i < Sector /\ IsFatSector(v, s)
  THEN {FatEntry(v, (((s - FatStart(v)) % v.fatSize) * Sector + i) \div width)}
  ELSE DOMAIN v.fat

\* The directory slots of `count' sectors from s on.
PerSector == Sector \div EntrySize
NoSlot == [kind |-> "free"]

SlotAt(v, k) ==
  LET first == DataStart(v) * PerSector
      inCluster == v.spc * PerSector
      c == (k - first) \div inCluster + 2
      slots == CASE k < first -> v.rootSlots
                 [] k >= first /\ c \in DOMAIN v.dirs -> v.dirs[c]
                 [] OTHER -> <<>>
      i == IF k < first THEN k - RootStart(v) * PerSector ELSE (k - first) % inCluster
  IN IF i + 1 \in DOMAIN slots THEN slots[i + 1] ELSE NoSlot

SlotsAt(v, s, count) ==
  [j \in 1 .. count * PerSector |-> SlotAt(v, s * PerSector + j - 1)]

\* The bytes of `count' sectors from s on: cluster and place in it.
BytesAt(v, s, count) ==
  [j \in 1 .. count * Sector |->
     LET byte == (s - DataStart(v)) * Sector + j - 1 IN
       IF s < DataStart(v) THEN <<-s, j>>
       ELSE <<byte \div (v.spc * Sector) + 2, byte % (v.spc * Sector)>>]

\* A read of sector s fails.
ReadFails(s) ==
  IF OnCard(vol, s) THEN faults < MaxFaults /\ faults' = faults + 1
                    ELSE UNCHANGED faults

ReadWorks(s) == OnCard(vol, s) /\ UNCHANGED faults

-----------------------------------------------------------------------------
(* fs_init and fat_init                                                     *)

\* What fat_init derives from the boot sector.
RootSectors(v) == CeilDiv(v.rootEntries * EntrySize, Sector)

TotalClusters(v) ==
  (v.total - (v.reserved + v.tables * v.fatSize + RootSectors(v))) \div v.spc

VolumeType(v) ==
  IF TotalClusters(v) < Limit12 THEN "FAT12"
  ELSE IF TotalClusters(v) < Limit16 THEN "FAT16" ELSE "FAT32"

(***************************************************************************)
(* The mounted file system.  first_non_root_sector is the same as          *)
(* first_data_sector, also where a root directory lies in between, and     *)
(* root_dir_cluster stays 0 unless the volume is FAT32.  If it is not,     *)
(* table_size_16 is used even where it is 0.                               *)
(***************************************************************************)
MountedTable(v) == IF VolumeType(v) = "FAT32" THEN v.fatSize ELSE v.fatSize16

Mounted(v) ==
  [type        |-> VolumeType(v),
   spc         |-> v.spc,
   fatStart    |-> v.partition + v.reserved,
   dataStart   |-> v.partition + v.reserved + v.tables * MountedTable(v),
   rootSectors |-> RootSectors(v),
   rootCluster |-> IF VolumeType(v) = "FAT32" THEN v.rootCluster ELSE 0]

\* The master boot record says where the partition begins.
ReadMbr ==
  /\ pc = "mbr"
  /\ \/ ReadWorks(0) /\ pc' = "boot"
     \/ ReadFails(0) /\ pc' = "idle"
  /\ UNCHANGED <<vol, fs, dirVars, cluster, readVars>>

ReadBootSector ==
  /\ pc = "boot"
  /\ \/ /\ ReadWorks(vol.partition)
        /\ fs' = IF vol.bootjmp THEN Mounted(vol) ELSE fs
     \/ ReadFails(vol.partition) /\ UNCHANGED fs
  /\ pc' = "idle"
  /\ UNCHANGED <<vol, dirVars, cluster, readVars>>

-----------------------------------------------------------------------------
(* Clusters                                                                 *)

ClusterSize == Sector * fs.spc

BadGetSector(c) == fs.dataStart + c * fs.spc
GetSector(c) == fs.dataStart + (c - 2) * fs.spc

\* x & y for y a power of two.
BitOf(x, y) == y * ((x \div y) % 2)

BadIndex32(c) == BitOf(4 * c, Sector)

\* Where the entry of c is in its sector of the table.
Index32(c) == (4 * c) % Sector
Index16(c) == BitOf(2 * c, Sector)

BadErrorEntry == EndMark

\* What an error looks like to the caller.
ErrorEntry == BadMark

(***************************************************************************)
(* get_next_fat_entry: the sector is read, or it fails and the cluster     *)
(* that is marked bad is returned.  Other types than FAT16 and FAT32 are   *)
(* not supported and get 0.                                                *)
(***************************************************************************)
NextEntry(c, n) ==
  LET width == IF fs.type = "FAT16" THEN 2 ELSE 4
      s == Address(fs.fatStart + (width * c) \div Sector)
      i == IF fs.type = "FAT16" THEN Index16(c) ELSE Index32(c) IN
    IF fs.type = "FAT12" THEN n = 0 /\ UNCHANGED faults
    ELSE \/ ReadWorks(s) /\ n \in WordsAt(vol, s, i, width)
         \/ ReadFails(s) /\ n = ErrorEntry

\* What get_next_fat_entry may return at all.
Entries == Range(vol.fat) \cup DOMAIN vol.fat \cup {0, BadMark}

-----------------------------------------------------------------------------
(* fat_load, with fat_read_dir                                              *)

Return(r) == result' = r /\ pc' = "idle"

\* The segment looked up; at the end of the path it is empty.
Segment == IF segment <= Len(path) THEN path[segment] ELSE ""

\* fat_read_dir begins, of the root if node is none.
OpenDir(node) ==
  /\ cluster' = IF node = NoNode THEN fs.rootCluster ELSE node.cluster
  /\ current' = node
  /\ list' = <<>>
  /\ offset' = 0
  /\ pc' = "dir"

FatLoad ==
  /\ pc = "idle"
  /\ \E p \in Paths : path' = p
  /\ segment' = 1
  /\ out' = <<>>
  /\ result' = NoResult
  /\ IF fs = NotMounted
     THEN /\ pc' = "undefined"   \* a call through a NULL pointer
          /\ UNCHANGED <<current, list, offset, cluster>>
     ELSE OpenDir(NoNode)
  /\ UNCHANGED <<vol, fs, loc, faults>>

\* Of several entries of the name the last one is taken.
LastOf(S) == Max(S)

\* current_node after the search of l; it keeps its value if nothing is found.
Match(l) ==
  LET found == {k \in DOMAIN l : l[k].name = Segment} IN
    IF found = {} THEN current ELSE l[LastOf(found)]

BadFits(node) == node.size <= MaxSize + 1
Fits(node) == node.size <= MaxSize

(***************************************************************************)
(* fat_load after fat_read_dir returned l: on to the next segment from a   *)
(* directory, or to fat_read of a file.                                    *)
(***************************************************************************)
Search(l) ==
  LET node == Match(l) IN
    /\ \/ /\ node = NoNode
          /\ Return(Failed)
          /\ UNCHANGED <<segment, current, list, offset, cluster, loc>>
       \/ /\ node # NoNode /\ node.isDir
          /\ OpenDir(node)
          /\ segment' = Least(segment, Len(path)) + 1
          /\ UNCHANGED <<loc, result>>
       \/ /\ node # NoNode /\ ~node.isDir
          /\ current' = node
          /\ cluster' = node.cluster
          /\ loc' = 0
          /\ \/ ~Fits(node) /\ Return(Failed)
             \/ Fits(node) /\ node.cluster < EndMark /\ pc' = "data" /\ UNCHANGED result
             \/ Fits(node) /\ node.cluster >= EndMark /\ Return(0)
          /\ UNCHANGED <<segment, list, offset>>
    /\ UNCHANGED <<path, out>>

\* Entries in use, but for "." and ".." and parts of long names.  The label of
\* the volume is not told from a file.
IsEntry(slot) == slot.kind \in {"file", "dir", "label"}

Dirent(slot) == [name |-> Lower[slot.name], size |-> slot.size,
                 isDir |-> slot.kind = "dir", cluster |-> slot.cluster]

\* The entries among the given slots, in their order.
Dirents(slots) ==
  LET read[k \in 0 .. Len(slots)] ==
        IF k = 0 THEN <<>>
        ELSE IF IsEntry(slots[k]) THEN Append(read[k - 1], Dirent(slots[k]))
                                  ELSE read[k - 1]
  IN read[Len(slots)]

\* An error drops what was found before.
ReadDirCluster ==
  /\ pc = "dir"
  /\ LET s == Address(GetSector(cluster)) IN
       \/ /\ ReadWorks(s)
          /\ list' = list \o Dirents(SlotsAt(vol, s, fs.spc))
          /\ pc' = "dir_next"
          /\ UNCHANGED <<path, segment, current, offset, cluster, readVars>>
       \/ ReadFails(s) /\ Search(<<>>)
  /\ UNCHANGED <<vol, fs>>

NextDirCluster ==
  /\ pc = "dir_next"
  /\ UNCHANGED <<vol, fs>>
  /\ IF current = NoNode /\ fs.type # "FAT32"
     THEN /\ UNCHANGED faults
          /\ IF offset + 1 < fs.rootSectors \div fs.spc
             THEN /\ offset' = offset + 1
                  /\ cluster' = cluster + 1
                  /\ pc' = "dir"
                  /\ UNCHANGED <<path, segment, current, list, readVars>>
             ELSE Search(list)
     ELSE \E n \in Entries :
            /\ NextEntry(cluster, n)
            /\ IF n < BadMark
               THEN /\ cluster' = n
                    /\ pc' = "dir"
                    /\ UNCHANGED <<dirVars, readVars>>
               ELSE Search(list)

-----------------------------------------------------------------------------
(* fat_read, from the beginning of the file                                 *)

\* How much of a cluster belongs to the file.
Take(size, got) == Least(size - got, ClusterSize)

ReadCluster ==
  /\ pc = "data"
  /\ LET s == Address(GetSector(cluster)) IN
       IF loc < current.size
       THEN \/ /\ ReadWorks(s)
               /\ out' = out \o SubSeq(BytesAt(vol, s, fs.spc), 1,
                                       Take(current.size, Len(out)))
               /\ pc' = "next"
               /\ UNCHANGED <<loc, result>>
            \/ ReadFails(s) /\ Return(Failed) /\ UNCHANGED <<loc, out>>
       ELSE /\ pc' = "next"
            /\ UNCHANGED <<readVars, faults>>
  /\ UNCHANGED <<vol, fs, dirVars, cluster>>

\* loc is capped: past the end of every file it makes no difference.
NextCluster ==
  /\ pc = "next"
  /\ \E n \in Entries :
       /\ NextEntry(cluster, n)
       /\ cluster' = n
       /\ IF n < EndMark THEN pc' = "data" /\ UNCHANGED result
                         ELSE Return(Len(out))
  /\ loc' = Least(loc + ClusterSize, MaxSize)
  /\ UNCHANGED <<vol, fs, dirVars, out>>

-----------------------------------------------------------------------------
Init ==
  /\ vol \in Volumes
  /\ fs = NotMounted
  /\ path = <<>> /\ segment = 1
  /\ current = NoNode
  /\ list = <<>> /\ offset = 0
  /\ cluster = 0 /\ loc = 0
  /\ out = <<>>
  /\ result = NoResult
  /\ faults = 0
  /\ pc = "mbr"

Undefined == pc = "undefined" /\ UNCHANGED vars

Next ==
  \/ ReadMbr \/ ReadBootSector \/ FatLoad
  \/ ReadDirCluster \/ NextDirCluster \/ ReadCluster \/ NextCluster
  \/ Undefined

Spec == Init /\ [][Next]_vars

\* fat_load runs on once it was called.
FairSpec ==
  Spec /\ WF_vars(ReadDirCluster \/ NextDirCluster \/ ReadCluster \/ NextCluster)

-----------------------------------------------------------------------------
(* Reference: what is on a volume of type FAT32.                            *)

\* Cluster number k of the chain from c, or a mark above the clusters.
ChainOf(v, c) ==
  LET at[k \in 0 .. Cardinality(DOMAIN v.fat)] ==
        IF k = 0 THEN c
        ELSE LET before == at[k - 1] IN
               IF before \in DOMAIN v.fat THEN v.fat[before] ELSE before
  IN at

SlotsOf(v, c) ==
  UNION {Range(v.dirs[d]) : d \in Range(ChainOf(v, c)) \cap DOMAIN v.dirs}

\* The entries of the given name in the directory at c.
Named(v, c, name) ==
  {Dirent(x) : x \in {y \in SlotsOf(v, c) : y.kind \in {"file", "dir"} /\ Lower[y.name] = name}}

RootNode(v) == [name |-> "/", size |-> 0, isDir |-> TRUE, cluster |-> v.rootCluster]

\* The node that a segment leads to from a node, NoNode if it leads nowhere.
NodeBelow(v, node, name) ==
  LET found == IF node = NoNode \/ ~node.isDir THEN {} ELSE Named(v, node.cluster, name)
  IN IF found = {} THEN NoNode ELSE CHOOSE e \in found : TRUE

\* The node that the first k segments of p lead to.
NodeAt(v, p, k) ==
  LET node[i \in 0 .. Len(p)] ==
        IF i = 0 THEN RootNode(v) ELSE NodeBelow(v, node[i - 1], p[i])
  IN node[k]

NodeOf(v, p) == NodeAt(v, p, Len(p))

IsFile(v, p) == NodeOf(v, p) # NoNode /\ ~NodeOf(v, p).isDir

Contents(v, node) ==
  LET size == Sector * v.spc IN
    [i \in 1 .. node.size |-> <<ChainOf(v, node.cluster)[(i - 1) \div size],
                                (i - 1) % size>>]

(***************************************************************************)
(* What makes a volume sound: the table has room for its entries, chains   *)
(* of directories end, those of files are long enough, and a directory has *)
(* no two entries of one name.                                             *)
(***************************************************************************)
Clusters(v) ==
  {c \in DOMAIN v.fat : c >= 2 /\ OnCard(v, DataStart(v) + (c - 2) * v.spc)}

SoundDir(v, c) ==
  /\ \E n \in 1 .. Cardinality(DOMAIN v.fat) :
       /\ \A k \in 0 .. n - 1 : ChainOf(v, c)[k] \in DOMAIN v.dirs
       /\ ChainOf(v, c)[n] >= BadMark
  /\ \A x, y \in SlotsOf(v, c) :
       IsEntry(x) /\ IsEntry(y) /\ Lower[x.name] = Lower[y.name] => x = y

SoundFile(v, x) ==
  LET clusters == CeilDiv(x.size, Sector * v.spc) IN
    /\ clusters <= Cardinality(DOMAIN v.fat)
    /\ \A k \in 0 .. clusters - 1 : ChainOf(v, x.cluster)[k] \in Clusters(v)

Sound(v) ==
  /\ v.rootEntries = 0 /\ v.tables >= 1
  /\ DOMAIN v.fat = 0 .. Cardinality(DOMAIN v.fat) - 1
  /\ Cardinality(DOMAIN v.fat) \in 1 .. BadMark
  /\ 4 * Cardinality(DOMAIN v.fat) <= v.fatSize * Sector
  /\ RootStart(v) <= v.partition + v.total /\ v.partition + v.total <= Wrap
  /\ DOMAIN v.dirs \subseteq Clusters(v)
  /\ SoundDir(v, v.rootCluster)
  /\ \A d \in DOMAIN v.dirs :
       /\ Len(v.dirs[d]) <= v.spc * PerSector
       /\ \A x \in Range(v.dirs[d]) :
            CASE x.kind = "dir"   -> SoundDir(v, x.cluster)
              [] x.kind = "file"  -> SoundFile(v, x)
              [] x.kind = "label" -> \A p \in Paths : Lower[x.name] \notin Range(p)
              [] OTHER -> TRUE

\* The cluster that stands for an error is not on the card.
ErrorsOffCard(v) == ~OnCard(v, Address(DataStart(v) + (BadMark - 2) * v.spc))

-----------------------------------------------------------------------------
(* Properties.                                                              *)

(***************************************************************************)
(* On a mounted FAT32 volume a path to a file that fits the buffer loads   *)
(* exactly that file's bytes, whatever chain of clusters they and the      *)
(* directories on the way lie in, and a name that the root does not have   *)
(* is an error.                                                            *)
(***************************************************************************)
LoadsNamedFile ==
  pc = "idle" /\ result # NoResult /\ faults = 0 /\ fs.type = "FAT32" =>
    /\ IsFile(vol, path) /\ NodeOf(vol, path).size <= MaxSize =>
         result = NodeOf(vol, path).size /\ out = Contents(vol, NodeOf(vol, path))
    /\ NodeAt(vol, path, 1) = NoNode => result = Failed

(***************************************************************************)
(* Whichever reads of the card fail, a file of the root directory, as the  *)
(* kernel loads them, is read as it is on the card, or fat_load fails.     *)
(***************************************************************************)
RootFileOrError ==
  pc = "idle" /\ result >= 0 /\ Len(path) = 1 /\ fs.type = "FAT32" =>
    IsFile(vol, path) /\ out = Contents(vol, NodeOf(vol, path))

(***************************************************************************)
(* fat_load returns when the path leads to a file or its first segment     *)
(* does not exist, if no read of the card fails.                           *)
(***************************************************************************)
LoadReturns ==
  (/\ pc = "dir" /\ fs.type = "FAT32"
   /\ IsFile(vol, path) \/ NodeAt(vol, path, 1) = NoNode)
  ~> (pc = "idle" \/ faults > 0)

-----------------------------------------------------------------------------
(* What the comments of the code say and the code does not do; see README.  *)

(***************************************************************************)
(* fat.c 536, "current_node now contains the dirent for the next path      *)
(* segment": when fat_load goes on after a search, it does so from the     *)
(* node of the segment it searched.                                        *)
(***************************************************************************)
NodeOfSegment ==
  [][(pc = "dir" \/ pc = "dir_next") /\ (segment' > segment \/ pc' = "data")
       => current'.name = Segment]_vars

=============================================================================
