---------------------------- MODULE MCImageWriter ----------------------------
(***************************************************************************)
(* ImageWriter on every layout of MCBlocks blocks that gives block 0 to    *)
(* the superblock and each other block to a segment, an inode table, one   *)
(* of two files or nothing: segments and files that touch, gaps of every   *)
(* kind, a file with no runs, files in one run or in one run per block,    *)
(* and sizes that end inside or at the end of a block.                     *)
(***************************************************************************)
EXTENDS ImageWriter

CONSTANTS MCBlocks

Owners == {"bytes", "table", "f1", "f2", "free"}

Maps == {m \in [0 .. MCBlocks - 1 -> Owners] :
           /\ m[0] = "bytes"
           /\ \A b, c \in DOMAIN m : m[b] = "f1" /\ m[c] = "f2" => b < c}

Owned(m, o) == {b \in DOMAIN m : m[b] = o}

\* The maximal runs of a set of blocks, as <<first, length>>.
MaximalRuns(S) ==
  {r \in S \X (1 .. MCBlocks) :
     /\ \A b \in r[1] .. r[1] + r[2] - 1 : b \in S
     /\ r[1] - 1 \notin S
     /\ r[1] + r[2] \notin S}
RunsOf(S, split) == IF split THEN {<<b, 1>> : b \in S} ELSE MaximalRuns(S)

Sorted(R) ==
  [i \in 1 .. Cardinality(R) |-> CHOOSE r \in R : Cardinality({q \in R : q[1] < r[1]}) = i - 1]

AsRuns(R) ==
  LET sorted == Sorted(R)
  IN [i \in DOMAIN sorted |-> [start |-> sorted[i][1], len |-> sorted[i][2]]]

\* Inode tables hold as many used blocks as `used` says, if they are so long.
AsSegments(m, used) ==
  LET all == RunsOf(Owned(m, "bytes"), TRUE) \cup RunsOf(Owned(m, "table"), FALSE)
      sorted == Sorted(all)
  IN [i \in DOMAIN sorted |->
        LET table == m[sorted[i][1]] = "table"
        IN [block |-> sorted[i][1], len |-> sorted[i][2], itable |-> table,
            used |-> IF table THEN Least(used, sorted[i][2]) ELSE sorted[i][2]]]

FileOf(m, o, split, short) ==
  LET size == BlockUnits * Cardinality(Owned(m, o))
  IN [runs |-> AsRuns(RunsOf(Owned(m, o), split)), size |-> IF size = 0 THEN 0 ELSE size - short]

LayoutFor(m, used, split, short) ==
  LET files == <<FileOf(m, "f1", split, short), FileOf(m, "f2", FALSE, 0)>>
  IN [blocks |-> MCBlocks, segments |-> AsSegments(m, used), files |-> files,
      data_runs |-> files[1].runs \o files[2].runs]

MCLayouts ==
  {LayoutFor(m, used, split, short) :
     m \in Maps, used \in 0 .. 1, split \in BOOLEAN, short \in 0 .. 1}
==============================================================================
