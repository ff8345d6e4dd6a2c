------------------------------- MODULE MCFat -------------------------------
(***************************************************************************)
(* Small volumes for Fat: sectors of 8 bytes with two directory slots or   *)
(* two FAT32 entries, clusters of one or two sectors.                      *)
(***************************************************************************)
EXTENDS Fat

File(n, size, c) == [kind |-> "file", name |-> n, size |-> size, cluster |-> c]
Dir(n, c) == [kind |-> "dir", name |-> n, size |-> 0, cluster |-> c]
Label == [kind |-> "label", name |-> "V", size |-> 0, cluster |-> 0]
Other(k) == [kind |-> k, name |-> "A", size |-> 1, cluster |-> 2]

MCLower == [n \in {"A", "B", "D", "E", "V"} |->
  CASE n = "A" -> "a" [] n = "B" -> "b" [] n = "D" -> "d" [] n = "E" -> "e"
    [] n = "V" -> "v"]

(***************************************************************************)
(* A volume of two tables.  The root lies in clusters 2 and 5, a in 4, 9   *)
(* and 3, d in 6 and 10, d/b in 7, d/a empty, d/e in 8, d/e/b in 11, b in  *)
(* 12 and 13, larger than the buffer.                                      *)
(***************************************************************************)
Table == [c \in 0 .. 15 |->
  CASE c = 2 -> 5 [] c = 4 -> 9 [] c = 9 -> 3 [] c = 6 -> 10 [] c = 12 -> 13
    [] c \in {0, 1, 3, 5, 7, 8, 10, 11, 13} -> EndMark
    [] OTHER -> 0]

Fat32(spc) ==
  [partition |-> 1, bootjmp |-> TRUE, reserved |-> 2, tables |-> 2, fatSize |-> 8,
   fatSize16 |-> 0, rootEntries |-> 0, total |-> 2 + 16 + 14 * spc, spc |-> spc,
   rootCluster |-> 2,
   fat |-> Table, rootSlots |-> <<>>,
   dirs |-> [c \in {2, 5, 6, 8, 10} |->
     CASE c = 2  -> <<Label, Other("deleted")>>
                    \o (IF spc = 2 THEN <<Dir("D", 6), Other("free")>> ELSE <<>>)
       [] c = 5  -> IF spc = 2 THEN <<File("A", 19, 4), Other("lfn"), File("B", 21, 12)>>
                               ELSE <<Dir("D", 6), File("A", 19, 4)>>
       [] c = 6  -> <<Other("dot"), Other("dot")>>
       [] c = 8  -> <<Other("dot"), File("B", 8, 11)>>
       [] c = 10 -> <<File("B", 8, 7), Dir("E", 8)>> \o
                    (IF spc = 2 THEN <<File("A", 0, 0)>> ELSE <<>>)]]

(***************************************************************************)
(* A volume with 16-bit entries and a root directory of its own, before    *)
(* the clusters.                                                           *)
(***************************************************************************)
Fat16 ==
  [partition |-> 1, bootjmp |-> TRUE, reserved |-> 1, tables |-> 2, fatSize |-> 4,
   fatSize16 |-> 4, rootEntries |-> 8, total |-> 1 + 8 + 4 + 8, spc |-> 1,
   rootCluster |-> 0,
   fat |-> [c \in 0 .. 9 |-> CASE c = 2 -> 4 [] c \in {0, 1, 3, 4} -> EndMark
                               [] OTHER -> 0],
   rootSlots |-> <<File("A", 10, 2), Dir("D", 3), File("B", 0, EndMark)>>,
   dirs |-> [c \in {3} |-> <<Other("dot"), Other("dot")>>]]

\* Too small to be anything but FAT12, and with the size of the tables in the
\* field for FAT32.
Fat12 == [Fat16 EXCEPT !.total = 1 + 8 + 4 + 4, !.fatSize16 = 0]

NoFat == [Fat32(1) EXCEPT !.bootjmp = FALSE]

Volumes32 == {Fat32(1), Fat32(2)}
MCVolumes == Volumes32 \cup {Fat16, Fat12, NoFat}

KernelPaths == {<<"a">>, <<"b">>, <<"A">>, <<"e">>}
DeepPaths == {<<"d", "b">>, <<"d", "a">>, <<"d", "e", "b">>, <<"e", "b">>}
MCPaths == KernelPaths \cup DeepPaths
MissingPaths == {<<"d", "a", "b">>}

\* What the theorems about reading files assume of a FAT32 volume.
ASSUME InstanceIsSound == \A v \in Volumes32 : Sound(v) /\ ErrorsOffCard(v)

=============================================================================
