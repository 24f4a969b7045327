---------------------------- MODULE SealedLayout ----------------------------
(***************************************************************************)
(* build::seal::Layout as it passes from seal() to ImageWriter: the runs   *)
(* of blocks that hold content, and what both sides rely on about them.    *)
(***************************************************************************)
EXTENDS Integers, Sequences, FiniteSets

CONSTANTS
  BlockUnits  \* BLOCK_SIZE, in the units file sizes are given in

ASSUME BlockUnitsAssumption == BlockUnits \in Nat \ {0}

Least(a, b) == IF a <= b THEN a ELSE b
\* The sum of g over S, counted out one by one.
SumOf(g, S) == Cardinality(UNION {{s} \X (1 .. g[s]) : s \in S})

\* The length of the items of s before the i-th, and of all.
Before(s, i) == SumOf([k \in DOMAIN s |-> s[k].len], 1 .. i - 1)
Lengths(s) == Before(s, Len(s) + 1)

RunEnd(r) == r.start + r.len
BlocksOf(r) == r.start .. RunEnd(r) - 1
Run == [start : Nat, len : Nat \ {0}]

\* A Bytes segment has content in every block, an Itable one in the `used`
\* first; a file has runs and the number of bytes fill() will supply.
Segment == [block : Nat, len : Nat \ {0}, used : Nat, itable : BOOLEAN]
File == [runs : Seq(Run), size : Nat]

SegBlocks(s) == s.block .. s.block + s.len - 1

SegEnd(s) == s.block + s.len
FileBlocksOf(f) == UNION {BlocksOf(f.runs[i]) : i \in DOMAIN f.runs}

-----------------------------------------------------------------------------
(* What seal() promises of a layout and ImageWriter counts on. *)

\* Used blocks come first, and only an inode table has others.
SegmentsHaveContent(l) ==
  \A i \in DOMAIN l.segments :
    LET s == l.segments[i] IN s.used <= s.len /\ (~s.itable => s.used = s.len)

\* segments and data_runs are sorted and do not overlap.
SegmentsAscend(l) ==
  \A i, j \in DOMAIN l.segments : i < j => SegEnd(l.segments[i]) <= l.segments[j].block
DataRunsAscend(l) ==
  \A i, j \in DOMAIN l.data_runs : i < j => RunEnd(l.data_runs[i]) <= l.data_runs[j].start
DataApartFromSegments(l) ==
  \A i \in DOMAIN l.data_runs, j \in DOMAIN l.segments :
    BlocksOf(l.data_runs[i]) \cap SegBlocks(l.segments[j]) = {}

\* Nothing lies past the end of the image.
InsideImage(l) ==
  /\ \A i \in DOMAIN l.segments : SegEnd(l.segments[i]) <= l.blocks
  /\ \A i \in DOMAIN l.data_runs : RunEnd(l.data_runs[i]) <= l.blocks

\* data_runs are the runs of the files, which are placed in slot order; the
\* bytes of a file end in its last block.
DataRunsAreFiles(l) ==
  {l.data_runs[i] : i \in DOMAIN l.data_runs}
    = UNION {{l.files[s].runs[i] : i \in DOMAIN l.files[s].runs} : s \in DOMAIN l.files}
FilesAscend(l) ==
  \A s, t \in DOMAIN l.files :
    \A i \in DOMAIN l.files[s].runs, j \in DOMAIN l.files[t].runs :
      s < t \/ (s = t /\ i < j) => RunEnd(l.files[s].runs[i]) <= l.files[t].runs[j].start
SizesFit(l) ==
  \A s \in DOMAIN l.files :
    LET n == Cardinality(FileBlocksOf(l.files[s]))
    IN BlockUnits * (n - 1) < l.files[s].size /\ l.files[s].size <= BlockUnits * n

LayoutOK(l) ==
  /\ l.blocks \in Nat
  /\ l.segments \in Seq(Segment)
  /\ l.data_runs \in Seq(Run)
  /\ l.files \in Seq(File)
  /\ SegmentsHaveContent(l)
  /\ SegmentsAscend(l)
  /\ DataRunsAscend(l)
  /\ DataApartFromSegments(l)
  /\ InsideImage(l)
  /\ DataRunsAreFiles(l)
  /\ FilesAscend(l)
  /\ SizesFit(l)
==============================================================================
