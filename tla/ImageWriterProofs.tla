-------------------------- MODULE ImageWriterProofs --------------------------
(***************************************************************************)
(* What ImageWriter promises, for layouts of every size, any number of     *)
(* writers made from one, and a sink that may fail at any call: every byte *)
(* arrives once and is the right one.                                      *)
(***************************************************************************)
EXTENDS ImageWriter, BasicFacts

Block(u) == u \div BlockUnits
DataBlocks == UNION {BlocksOf(layout.data_runs[i]) : i \in DOMAIN layout.data_runs}

TypeInv ==
  /\ layout \in Layouts
  /\ pc \in {"none", "gap", "segment", "open", "run", "chunk", "finished"}
  /\ fill_state \in [Files -> {"NotFillable", "Pending", "Done"}]
  /\ poisoned \in BOOLEAN

\* The sink has each unit at most once, and only units of the image.
OnceInv ==
  /\ arrivals \in [Addresses -> {0, 1}]
  /\ \A u \in Addresses : arrivals[u] = 1 => u < ImageLen

\* v is what the layout has at address u.
Right(u, v) == {c \in LayoutContent : c[1] = u} = IF v = Zero THEN {} ELSE {<<u, v>>}

\* What arrived is right; past the end there is nothing.
ContentInv ==
  /\ \A u \in Addresses : arrivals[u] = 1 => Right(u, image[u])
  /\ \A u \in Addresses : u >= ImageLen => image[u] = Zero

\* Block x lies between segments and between data runs: those before segment g
\* and data run n lie below, the others above.
Between(x, g, n) ==
  /\ x \in 0 .. layout.blocks
  /\ g \in 1 .. Len(layout.segments) + 1
  /\ n \in 1 .. Len(layout.data_runs) + 1
  /\ \A i \in DOMAIN layout.segments :
       /\ i < g => SegEnd(layout.segments[i]) <= x
       /\ i >= g => x <= layout.segments[i].block
  /\ \A i \in DOMAIN layout.data_runs :
       /\ i < n => RunEnd(layout.data_runs[i]) <= x
       /\ RunEnd(layout.data_runs[i]) <= x \/ x <= layout.data_runs[i].start

\* The metadata pass is between what it has emitted or left out and the rest,
\* or in a segment that it has begun.
PassInv ==
  pc \in {"gap", "segment"} =>
    /\ Between(at, seg, next_data)
    /\ pc = "segment" => MoreSegments /\ at = TheSegment.block /\ done \in 0 .. TheSegment.len

\* Between two runs of a file, `left` is what the runs from i on take.
AtRun(s, i, left) ==
  /\ s \in Files /\ i \in 1 .. Len(layout.files[s].runs) + 1 /\ left \in Nat
  /\ i \in DOMAIN layout.files[s].runs => left = layout.files[s].size - extents(s)[i].first

\* In run i, of which `bytes` are left, from address off on.
InRun(s, i, off, bytes, left) ==
  /\ s \in Files /\ i \in DOMAIN layout.files[s].runs
  /\ off \in Nat /\ bytes \in Nat /\ left \in Nat
  /\ extents(s)[i].offset <= off
  /\ off + bytes = extents(s)[i].offset + extents(s)[i].bytes
  /\ left - bytes = layout.files[s].size - extents(s)[i].first - extents(s)[i].bytes

RunInv ==
  /\ pc \in {"run", "chunk"} => fill_state[slot] = "Pending"
  /\ pc = "run" => AtRun(slot, run, remaining)
  /\ pc = "chunk" => InRun(slot, run, offset, run_bytes, remaining)

\* The files that are Pending or Done, and the counters.
OpenInv ==
  /\ pc \in {"gap", "segment"} => data_bytes = 0
  /\ pc \in {"open", "run", "chunk", "finished"} =>
       /\ \A s \in Files : fill_state[s] = "NotFillable" <=> layout.files[s].runs = <<>>
       /\ pending = Cardinality({s \in Files : fill_state[s] = "Pending"})
       /\ data_bytes = SumOf([s \in Files |-> layout.files[s].size],
                             {s \in Files : fill_state[s] = "Done"})
       /\ pc = "finished" => pending = 0

PoisonInv == poisoned => pc = "open"

\* The units of file s before run i, and those of run i below off.
PartOf(u, s, i, off) ==
  \E j \in DOMAIN layout.files[s].runs :
    Block(u) \in BlocksOf(layout.files[s].runs[j]) /\ (j < i \/ (j = i /\ u < off))

\* What has arrived after the metadata pass, when file s is being filled.
SentOpen(u, state, s, i, off) ==
  /\ u < ImageLen
  /\ \A f \in Files : InFile(u, f) => state[f] = "Done" \/ (f = s /\ PartOf(u, f, i, off))

Filling == IF pc \in {"run", "chunk"} THEN slot ELSE 0
Reached == IF pc = "chunk" THEN offset ELSE 0

\* What has arrived in all, of a writer that has not failed.
Sent(u) ==
  IF pc \in {"gap", "segment"}
  THEN Block(u) < (IF pc = "gap" THEN at ELSE at + done) /\ Block(u) \notin DataBlocks
  ELSE SentOpen(u, fill_state, Filling, run, Reached)

SentInv == pc # "none" /\ ~poisoned => \A u \in Addresses : arrivals[u] = 1 <=> Sent(u)

Missing ==
  \A u \in 0 .. ImageLen - 1 :
    arrivals[u] # 1 => \E s \in Files : InFile(u, s) /\ fill_state[s] = "Pending"
MissingInv == poisoned => Missing

IInv ==
  /\ TypeInv /\ OnceInv /\ ContentInv
  /\ PassInv /\ OpenInv /\ RunInv /\ PoisonInv
  /\ SentInv /\ MissingInv

-----------------------------------------------------------------------------
(* The layout. *)

LEMMA Shapes ==
  ASSUME TypeInv
  PROVE  /\ LayoutOK(layout) /\ layout.blocks \in Nat /\ BlockUnits \in Nat \ {0}
         /\ layout.segments \in Seq(Segment) /\ layout.data_runs \in Seq(Run)
         /\ \A i \in DOMAIN layout.segments : layout.segments[i] \in Segment
         /\ \A i \in DOMAIN layout.data_runs : layout.data_runs[i] \in Run
         /\ \A s \in Files : /\ layout.files[s] \in File
                             /\ layout.files[s].size \in Nat
                             /\ layout.files[s].runs \in Seq(Run)
                             /\ \A i \in DOMAIN layout.files[s].runs : layout.files[s].runs[i] \in Run
<1>1. LayoutOK(layout)
  BY WriterAssumption DEF TypeInv
<1>2. /\ layout.blocks \in Nat /\ layout.files \in Seq(File)
      /\ layout.segments \in Seq(Segment) /\ layout.data_runs \in Seq(Run)
  BY <1>1 DEF LayoutOK
<1>3. ASSUME NEW s \in Files
      PROVE  /\ layout.files[s] \in File
             /\ layout.files[s].size \in Nat
             /\ layout.files[s].runs \in Seq(Run)
  <2>1. layout.files[s] \in File
    BY <1>2 DEF Files
  <2>2. QED
    BY <2>1 DEF File
<1>4. QED
  BY <1>1, <1>2, <1>3, BlockUnitsAssumption

LEMMA RunShape ==
  ASSUME NEW r \in Run
  PROVE  /\ r.start \in Nat /\ r.len \in Nat \ {0} /\ RunEnd(r) \in Nat
         /\ RunEnd(r) = r.start + r.len
         /\ BlocksOf(r) = r.start .. RunEnd(r) - 1
BY DEF Run, RunEnd, BlocksOf

LEMMA SegmentShape ==
  ASSUME TypeInv, NEW i \in DOMAIN layout.segments, NEW s, s = layout.segments[i]
  PROVE  /\ s.block \in Nat /\ s.len \in Nat \ {0} /\ s.used \in Nat /\ s.itable \in BOOLEAN
         /\ s.used <= s.len /\ (~s.itable => s.used = s.len)
         /\ SegEnd(s) \in Nat /\ SegEnd(s) = s.block + s.len /\ SegEnd(s) <= layout.blocks
         /\ SegBlocks(s) = s.block .. SegEnd(s) - 1
<1>1. s \in Segment /\ LayoutOK(layout)
  BY Shapes
<1>2. /\ s.block \in Nat /\ s.len \in Nat \ {0} /\ s.used \in Nat /\ s.itable \in BOOLEAN
  BY <1>1 DEF Segment
<1>3. s.used <= s.len /\ (~s.itable => s.used = s.len) /\ SegEnd(s) <= layout.blocks
  BY <1>1 DEF LayoutOK, SegmentsHaveContent, InsideImage
<1>4. QED
  BY <1>2, <1>3 DEF SegEnd, SegBlocks

LEMMA DataRunShape ==
  ASSUME TypeInv, NEW i \in DOMAIN layout.data_runs, NEW r, r = layout.data_runs[i]
  PROVE  /\ r.start \in Nat /\ r.len \in Nat \ {0} /\ RunEnd(r) \in Nat
         /\ RunEnd(r) = r.start + r.len /\ RunEnd(r) <= layout.blocks
         /\ BlocksOf(r) = r.start .. RunEnd(r) - 1
         /\ BlocksOf(r) \subseteq DataBlocks
<1>1. r \in Run /\ LayoutOK(layout)
  BY Shapes
<1>2. RunEnd(r) <= layout.blocks
  BY <1>1 DEF LayoutOK, InsideImage
<1>3. BlocksOf(r) \subseteq DataBlocks
  BY DEF DataBlocks
<1>4. QED
  BY <1>1, <1>2, <1>3, RunShape

\* The runs of the files are the data runs, and so they lie in the image.
LEMMA FileRunShape ==
  ASSUME TypeInv, NEW s \in Files, NEW i \in DOMAIN layout.files[s].runs,
         NEW r, r = layout.files[s].runs[i]
  PROVE  /\ r.start \in Nat /\ r.len \in Nat \ {0} /\ RunEnd(r) \in Nat
         /\ RunEnd(r) = r.start + r.len /\ RunEnd(r) <= layout.blocks
         /\ BlocksOf(r) = r.start .. RunEnd(r) - 1
         /\ BlocksOf(r) \subseteq DataBlocks
<1>1. LayoutOK(layout)
  BY Shapes
<1>2. r \in UNION {{layout.files[t].runs[j] : j \in DOMAIN layout.files[t].runs} : t \in DOMAIN layout.files}
  BY DEF Files
<1>3. r \in {layout.data_runs[j] : j \in DOMAIN layout.data_runs}
  BY <1>1, <1>2 DEF LayoutOK, DataRunsAreFiles
<1>4. PICK j \in DOMAIN layout.data_runs : r = layout.data_runs[j]
  BY <1>3
<1>5. QED
  BY <1>4, DataRunShape

LEMMA DataIsInFiles ==
  ASSUME TypeInv, NEW b \in DataBlocks
  PROVE  \E s \in Files : b \in FileBlocksOf(layout.files[s])
<1>1. PICK j \in DOMAIN layout.data_runs : b \in BlocksOf(layout.data_runs[j])
  BY DEF DataBlocks
<1>2. layout.data_runs[j]
        \in UNION {{layout.files[t].runs[i] : i \in DOMAIN layout.files[t].runs} : t \in DOMAIN layout.files}
  BY Shapes DEF LayoutOK, DataRunsAreFiles
<1>3. PICK t \in DOMAIN layout.files :
        layout.data_runs[j] \in {layout.files[t].runs[i] : i \in DOMAIN layout.files[t].runs}
  BY <1>2
<1>4. PICK i \in DOMAIN layout.files[t].runs : layout.data_runs[j] = layout.files[t].runs[i]
  BY <1>3
<1>5. QED
  BY <1>1, <1>4 DEF Files, FileBlocksOf

LEMMA InFileIsData ==
  ASSUME TypeInv, NEW s \in Files, NEW b \in FileBlocksOf(layout.files[s])
  PROVE  b \in DataBlocks /\ b \in 0 .. layout.blocks - 1
<1>1. PICK i \in DOMAIN layout.files[s].runs : b \in BlocksOf(layout.files[s].runs[i])
  BY DEF FileBlocksOf
<1>2. /\ b \in DataBlocks /\ RunEnd(layout.files[s].runs[i]) <= layout.blocks
      /\ layout.files[s].runs[i].start \in Nat /\ RunEnd(layout.files[s].runs[i]) \in Nat
      /\ b \in layout.files[s].runs[i].start .. RunEnd(layout.files[s].runs[i]) - 1
  BY <1>1, FileRunShape
<1>3. layout.blocks \in Nat
  BY Shapes
<1>4. PICK a \in Nat, e \in Nat : a = layout.files[s].runs[i].start /\ e = RunEnd(layout.files[s].runs[i])
  BY <1>2
<1>5. b \in a .. e - 1 /\ e <= layout.blocks
  BY <1>2, <1>4
<1>6. b \in 0 .. layout.blocks - 1
  BY <1>3, <1>4, <1>5
<1>7. QED
  BY <1>2, <1>6

\* A block belongs to one run of one file at most.
LEMMA RunsApart ==
  ASSUME TypeInv, NEW s \in Files, NEW i \in DOMAIN layout.files[s].runs,
         NEW t \in Files, NEW j \in DOMAIN layout.files[t].runs,
         NEW b \in BlocksOf(layout.files[s].runs[i]), b \in BlocksOf(layout.files[t].runs[j])
  PROVE  s = t /\ i = j
<1> DEFINE q == layout.files[s].runs[i]
           r == layout.files[t].runs[j]
<1>1. /\ q.start \in Nat /\ RunEnd(q) \in Nat /\ b \in q.start .. RunEnd(q) - 1
      /\ r.start \in Nat /\ RunEnd(r) \in Nat /\ b \in r.start .. RunEnd(r) - 1
  BY FileRunShape
<1>2. FilesAscend(layout)
  BY Shapes DEF LayoutOK
<1>3. /\ s < t \/ (s = t /\ i < j) => RunEnd(q) <= r.start
      /\ t < s \/ (t = s /\ j < i) => RunEnd(r) <= q.start
  BY <1>2 DEF FilesAscend, Files
<1>4. s \in Nat /\ t \in Nat /\ i \in Nat /\ j \in Nat
  <2>1. layout.files \in Seq(File) /\ layout.files[s].runs \in Seq(Run) /\ layout.files[t].runs \in Seq(Run)
    BY Shapes DEF LayoutOK
  <2>2. QED
    BY <2>1 DEF Files
<1> HIDE DEF q, r
<1>5. ~ (RunEnd(q) <= r.start) /\ ~ (RunEnd(r) <= q.start)
  BY <1>1
<1>6. QED
  BY <1>3, <1>4, <1>5

LEMMA DataApart ==
  ASSUME TypeInv, NEW i \in DOMAIN layout.segments, NEW b \in SegBlocks(layout.segments[i])
  PROVE  b \notin DataBlocks
<1>1. DataApartFromSegments(layout)
  BY Shapes DEF LayoutOK
<1>2. QED
  BY <1>1 DEF DataApartFromSegments, DataBlocks

LEMMA SegmentsApart ==
  ASSUME TypeInv, NEW i \in DOMAIN layout.segments, NEW j \in DOMAIN layout.segments,
         NEW b \in SegBlocks(layout.segments[i]), b \in SegBlocks(layout.segments[j])
  PROVE  i = j
<1> DEFINE q == layout.segments[i]
           r == layout.segments[j]
<1>1. /\ q.block \in Nat /\ SegEnd(q) \in Nat /\ b \in q.block .. SegEnd(q) - 1
      /\ r.block \in Nat /\ SegEnd(r) \in Nat /\ b \in r.block .. SegEnd(r) - 1
  BY SegmentShape
<1>2. (i < j => SegEnd(q) <= r.block) /\ (j < i => SegEnd(r) <= q.block)
  BY Shapes DEF LayoutOK, SegmentsAscend
<1>3. i \in Nat /\ j \in Nat
  BY Shapes
<1> HIDE DEF q, r
<1>4. QED
  BY <1>1, <1>2, <1>3

LEMMA AddressFacts ==
  ASSUME TypeInv
  PROVE  /\ ImageLen \in Nat /\ Addresses \subseteq Nat
         /\ \A u \in Nat : /\ u < ImageLen <=> Block(u) < layout.blocks
                           /\ u < ImageLen => u \in Addresses
                           /\ Block(u) \in Nat
         /\ \A u \in Nat, x \in Nat : u < x * BlockUnits <=> Block(u) < x
         /\ \A x \in Nat : x * BlockUnits \in Nat
<1>1. layout.blocks \in Nat /\ BlockUnits \in Nat \ {0}
  BY Shapes
<1>2. ImageLen \in Nat
  BY <1>1 DEF ImageLen
<1>3. \A u \in Nat, x \in Nat : u < x * BlockUnits <=> Block(u) < x
  BY <1>1, BelowBlock DEF Block
<1>4. \A u \in Nat : Block(u) \in Nat
  BY <1>1, QuotientAndRest DEF Block
<1>5. \A u \in Nat : u < ImageLen => u \in Addresses
  BY <1>1, <1>2 DEF Addresses
<1>6. \A u \in Nat : u < ImageLen <=> Block(u) < layout.blocks
  BY <1>1, <1>3 DEF ImageLen
<1>7. \A x \in Nat : x * BlockUnits \in Nat
  BY <1>1
<1>8. Addresses \subseteq Nat
  BY DEF Addresses
<1>9. QED
  BY <1>2, <1>3, <1>4, <1>5, <1>6, <1>7, <1>8

-----------------------------------------------------------------------------
(* extents() *)

Lens(s) == [i \in DOMAIN layout.files[s].runs |-> layout.files[s].runs[i].len]

LEMMA BlocksInFull ==
  ASSUME NEW r, r.start \in Nat, r.len \in Nat
  PROVE  BlocksOf(r) = r.start .. r.start + r.len - 1
BY DEF BlocksOf, RunEnd

\* Equal blocks of one run are the same block of it.
LEMMA SameOffset ==
  ASSUME NEW x \in Nat, NEW a \in Nat, NEW b \in Nat, x + a - 1 = x + b - 1
  PROVE  a = b
OBVIOUS

LEMMA OffsetInRun ==
  ASSUME NEW r, r.start \in Nat, r.len \in Nat, RunEnd(r) = r.start + r.len,
         BlocksOf(r) = r.start .. RunEnd(r) - 1, NEW k \in 1 .. r.len
  PROVE  r.start + k - 1 \in BlocksOf(r)
OBVIOUS

\* The lengths of runs add up to the number of their blocks.
LEMMA LensAreBlocks ==
  ASSUME TypeInv, NEW s \in Files
  PROVE  SumOf(Lens(s), DOMAIN layout.files[s].runs) = Cardinality(FileBlocksOf(layout.files[s]))
<1> DEFINE runs == layout.files[s].runs
           units == Units(Lens(s), DOMAIN runs)
           f == [p \in units |-> runs[p[1]].start + p[2] - 1]
<1>f. DOMAIN f = units /\ \A p \in units : f[p] = runs[p[1]].start + p[2] - 1
  BY Zenon
<1>g. f = [p \in units |-> f[p]]
  BY Zenon
<1> HIDE DEF f
<1>1. ASSUME NEW p \in units
      PROVE  /\ p[1] \in DOMAIN runs /\ p[2] \in 1 .. runs[p[1]].len /\ p = <<p[1], p[2]>>
             /\ f[p] \in BlocksOf(runs[p[1]])
  <2>1. p[1] \in DOMAIN runs /\ p[2] \in 1 .. Lens(s)[p[1]] /\ p = <<p[1], p[2]>>
    BY <1>1, UnitMember
  <2>2. p[2] \in 1 .. runs[p[1]].len
    BY <2>1 DEF Lens
  <2>3. /\ runs[p[1]].start \in Nat /\ runs[p[1]].len \in Nat
        /\ BlocksOf(runs[p[1]]) = runs[p[1]].start .. RunEnd(runs[p[1]]) - 1
        /\ RunEnd(runs[p[1]]) = runs[p[1]].start + runs[p[1]].len
    BY <2>1, FileRunShape
  <2>4. runs[p[1]].start + p[2] - 1 \in BlocksOf(runs[p[1]])
    BY <2>2, <2>3, OffsetInRun
  <2>5. f[p] = runs[p[1]].start + p[2] - 1
    BY <1>f, Zenon
  <2>6. QED
    BY <2>1, <2>2, <2>4, <2>5, Zenon
<1>2. f \in [units -> FileBlocksOf(layout.files[s])]
  <2>1. \A p \in units : f[p] \in FileBlocksOf(layout.files[s])
    BY <1>1, Zenon DEF FileBlocksOf
  <2>2. QED
    BY <1>g, <2>1
<1>3. ASSUME NEW p \in units, NEW q \in units, f[p] = f[q] PROVE p = q
  <2>1. p[1] = q[1]
    BY <1>1, <1>3, RunsApart
  <2>2. runs[p[1]].start \in Nat /\ p[2] \in Nat /\ q[2] \in Nat
    <3>1. runs[p[1]].start \in Nat
      BY <1>1, FileRunShape, Zenon
    <3>2. p[2] \in Nat /\ q[2] \in Nat
      BY <1>1
    <3>3. QED
      BY <3>1, <3>2
  <2>3. p[2] = q[2]
    <3>1. f[p] = runs[p[1]].start + p[2] - 1
      BY <1>f, Zenon
    <3>2. f[q] = runs[p[1]].start + q[2] - 1
      BY <1>f, <2>1, Zenon
    <3>3. runs[p[1]].start + p[2] - 1 = runs[p[1]].start + q[2] - 1
      BY <1>3, <3>1, <3>2, Zenon
    <3>4. QED
      BY <2>2, <3>3, SameOffset
  <2>4. QED
    BY <1>1, <2>1, <2>3
<1>4. ASSUME NEW b \in FileBlocksOf(layout.files[s]) PROVE \E p \in units : f[p] = b
  <2>1. PICK i \in DOMAIN runs : b \in BlocksOf(runs[i])
    BY <1>4 DEF FileBlocksOf
  <2>2. /\ runs[i].start \in Nat /\ runs[i].len \in Nat
        /\ b \in runs[i].start .. runs[i].start + runs[i].len - 1
    <3>1. /\ runs[i].start \in Nat /\ runs[i].len \in Nat
          /\ RunEnd(runs[i]) = runs[i].start + runs[i].len
          /\ BlocksOf(runs[i]) = runs[i].start .. RunEnd(runs[i]) - 1
      BY <2>1, FileRunShape
    <3>2. BlocksOf(runs[i]) = runs[i].start .. runs[i].start + runs[i].len - 1
      BY <3>1, BlocksInFull, Zenon
    <3>3. QED
      BY <2>1, <3>1, <3>2, Zenon
  <2>3. b - runs[i].start + 1 \in 1 .. runs[i].len
    BY <2>2
  <2>4. <<i, b - runs[i].start + 1>> \in units
    BY <2>3, UnitMember DEF Lens
  <2>5. f[<<i, b - runs[i].start + 1>>] = b
    <3>1. f[<<i, b - runs[i].start + 1>>] = runs[i].start + (b - runs[i].start + 1) - 1
      BY <1>f, <2>4
    <3>2. runs[i].start + (b - runs[i].start + 1) - 1 = b
      BY <2>2
    <3>3. QED
      BY <3>1, <3>2, Zenon
  <2>6. QED
    BY <2>4, <2>5
<1>5. IsFiniteSet(units)
  <2>1. IsFiniteSet(DOMAIN runs)
    <3>1. runs \in Seq(Run)
      BY Shapes
    <3>2. PICK n \in Nat : DOMAIN runs = 1 .. n
      BY <3>1
    <3>3. IsFiniteSet(1 .. n)
      BY FS_Interval
    <3>4. QED
      BY <3>2, <3>3
  <2>2. \A i \in DOMAIN runs : Lens(s)[i] \in Nat
    BY FileRunShape DEF Lens
  <2>3. QED
    BY <2>1, <2>2, UnitsFinite
<1> HIDE DEF f, units
<1>6. Cardinality(FileBlocksOf(layout.files[s])) = Cardinality(units)
  BY <1>2, <1>3, <1>4, <1>5, SameSize
<1>7. QED
  BY <1>6 DEF units, SumOf, Units

\* Sums over the first runs of a file.
LEMMA FirstLens ==
  ASSUME TypeInv, NEW s \in Files, NEW n, n = Len(layout.files[s].runs)
  PROVE  /\ n \in Nat /\ DOMAIN layout.files[s].runs = 1 .. n
         /\ SumOf(Lens(s), 1 .. 0) = 0
         /\ \A i \in 0 .. n : SumOf(Lens(s), 1 .. i) \in Nat
         /\ \A i \in 1 .. n : SumOf(Lens(s), 1 .. i) = SumOf(Lens(s), 1 .. i - 1) + layout.files[s].runs[i].len
         /\ \A i \in 0 .. n - 1 : SumOf(Lens(s), 1 .. i) < SumOf(Lens(s), 1 .. n)
<1> DEFINE runs == layout.files[s].runs
           Sum(S) == Cardinality(Units(Lens(s), S))
<1>1. n \in Nat /\ DOMAIN runs = 1 .. n
  BY Shapes
<1>2. \A i \in 1 .. n : Lens(s)[i] = runs[i].len /\ Lens(s)[i] \in Nat \ {0}
  BY <1>1, FileRunShape DEF Lens
<1>3. ASSUME NEW i \in 0 .. n PROVE IsFiniteSet(1 .. i) /\ Sum(1 .. i) \in Nat
  <2>1. i \in Int /\ \A j \in 1 .. i : Lens(s)[j] \in Nat
    BY <1>1, <1>2
  <2>2. IsFiniteSet(1 .. i)
    BY <2>1, FS_Interval
  <2>3. QED
    BY <2>1, <2>2, UnitsFinite
<1>4. Sum(1 .. 0) = 0
  <2>1. Units(Lens(s), 1 .. 0) = {}
    BY UnitMember
  <2>2. QED
    BY <2>1, FS_EmptySet
<1>5. ASSUME NEW i \in 1 .. n PROVE Sum(1 .. i) = Sum(1 .. i - 1) + runs[i].len
  <2>1. 1 .. i = (1 .. i - 1) \cup {i} /\ i \notin 1 .. i - 1 /\ i - 1 \in 0 .. n
    BY <1>1
  <2>2. \A j \in (1 .. i - 1) \cup {i} : Lens(s)[j] \in Nat
    BY <1>1, <1>2, <2>1
  <2>3. IsFiniteSet(1 .. i - 1)
    BY <1>3, <2>1
  <2>4. PICK R : R = 1 .. i - 1
    OBVIOUS
  <2>5. PICK g : g = Lens(s)
    OBVIOUS
  <2>6. i \notin R /\ IsFiniteSet(R) /\ \A j \in R \cup {i} : g[j] \in Nat
    BY <2>1, <2>2, <2>3, <2>4, <2>5
  <2>7. Cardinality(Units(g, R \cup {i})) = Cardinality(Units(g, R)) + g[i]
    BY <2>6, UnitsOfOneMore
  <2>8. Sum((1 .. i - 1) \cup {i}) = Sum(1 .. i - 1) + Lens(s)[i]
    BY <2>4, <2>5, <2>7
  <2>9. QED
    BY <1>2, <2>1, <2>8
<1>6. ASSUME NEW i \in 0 .. n - 1 PROVE Sum(1 .. i) < Sum(1 .. n)
  <2>1. /\ 1 .. i \in SUBSET (1 .. n) /\ n \in (1 .. n) \ (1 .. i) /\ n \in 0 .. n /\ i \in 0 .. n
        /\ 1 \in 1 .. Lens(s)[n]
    BY <1>1, <1>2
  <2>2. Sum((1 .. n) \ (1 .. i)) = Sum(1 .. n) - Sum(1 .. i)
    BY <1>2, <1>3, <2>1, UnitsOfTheRest
  <2>3. <<n, 1>> \in Units(Lens(s), (1 .. n) \ (1 .. i))
    BY <2>1, UnitMember
  <2>4. IsFiniteSet((1 .. n) \ (1 .. i))
    BY <1>3, <2>1, FS_Subset
  <2>5. IsFiniteSet(Units(Lens(s), (1 .. n) \ (1 .. i)))
    BY <1>2, <2>4, UnitsFinite
  <2>6. Sum((1 .. n) \ (1 .. i)) \in Nat /\ Sum((1 .. n) \ (1 .. i)) > 0
    BY <2>3, <2>5, NonEmptyIsPositive
  <2>7. Sum(1 .. n) \in Nat /\ Sum(1 .. i) \in Nat
    BY <1>3, <2>1
  <2>8. QED
    BY <2>2, <2>6, <2>7
<1>7. \A S : Sum(S) = SumOf(Lens(s), S)
  BY DEF SumOf, Units
<1>8. QED
  BY <1>1, <1>3, <1>4, <1>5, <1>6, <1>7

\* A run of len blocks, behind `sum` of a file's `all` blocks.
LEMMA RunBeforeLast ==
  ASSUME NEW b \in Nat \ {0}, NEW sum \in Nat, NEW len \in Nat \ {0}, NEW all \in Nat, NEW size \in Nat,
         b * (all - 1) < size, sum + len < all
  PROVE  /\ b * sum \in Nat /\ len * b \in Nat /\ (len - 1) * b < len * b
         /\ b * (sum + len) = b * sum + len * b
         /\ len * b < size - b * sum
<1>1. (sum + len) * b <= (all - 1) * b
  BY TimesKeepsOrder
<1>2. (sum + len) * b = b * sum + len * b /\ (all - 1) * b = b * (all - 1)
  OBVIOUS
<1>3. b * sum \in Nat /\ len * b \in Nat /\ (len - 1) * b < len * b /\ b * (sum + len) = (sum + len) * b
  OBVIOUS
<1>4. b * (all - 1) \in Int
  OBVIOUS
<1>5. QED
  BY <1>1, <1>2, <1>3, <1>4

LEMMA LastRun ==
  ASSUME NEW b \in Nat \ {0}, NEW sum \in Nat, NEW len \in Nat \ {0}, NEW size \in Nat,
         b * (sum + len - 1) < size, size <= b * (sum + len)
  PROVE  /\ b * sum \in Nat /\ (len - 1) * b \in Nat
         /\ (len - 1) * b < size - b * sum
         /\ size - b * sum <= len * b
<1>1. b * (sum + len) = b * sum + len * b /\ b * (sum + len - 1) = b * sum + (len - 1) * b
  OBVIOUS
<1>2. b * sum \in Nat /\ (len - 1) * b \in Nat /\ len * b \in Nat
  OBVIOUS
<1>3. QED
  BY <1>1, <1>2

\* In all runs but the last, a file has all units; in the last it ends in the
\* last block.
LEMMA ExtentFacts ==
  ASSUME TypeInv, NEW s \in Files, NEW i \in DOMAIN layout.files[s].runs,
         NEW e, e = extents(s)[i], NEW r, r = layout.files[s].runs[i]
  PROVE  /\ e.offset = r.start * BlockUnits
         /\ e.first \in Nat /\ e.bytes \in Nat
         /\ e.bytes = Least(r.len * BlockUnits, layout.files[s].size - e.first)
         /\ e.first + e.bytes <= layout.files[s].size
         /\ (r.len - 1) * BlockUnits < e.bytes /\ e.bytes <= r.len * BlockUnits
         /\ i = 1 => e.first = 0
         /\ i + 1 \in DOMAIN layout.files[s].runs => extents(s)[i + 1].first = e.first + e.bytes
<1>1. PICK n : n = Len(layout.files[s].runs)
  OBVIOUS
<1>2. PICK size : size = layout.files[s].size
  OBVIOUS
<1> DEFINE before(j) == SumOf(Lens(s), 1 .. j - 1)
<1>3. /\ n \in Nat /\ DOMAIN layout.files[s].runs = 1 .. n
      /\ before(1) = 0
      /\ before(i) \in Nat /\ before(i + 1) \in Nat /\ before(n + 1) \in Nat
      /\ before(i + 1) = before(i) + r.len
      /\ i + 1 <= n => before(i + 1) < before(n + 1)
  <2>1. n \in Nat /\ DOMAIN layout.files[s].runs = 1 .. n
    BY <1>1, FirstLens
  <2>2. i - 1 \in 0 .. n /\ i \in 0 .. n /\ n \in 0 .. n /\ 1 - 1 = 0 /\ i + 1 - 1 = i /\ n + 1 - 1 = n
        /\ (i + 1 <= n => i \in 0 .. n - 1)
    BY <2>1
  <2>3. PICK g : g = Lens(s)
    OBVIOUS
  <2>4. /\ SumOf(g, 1 .. 0) = 0
        /\ \A j \in 0 .. n : SumOf(g, 1 .. j) \in Nat
    BY <1>1, <2>3, FirstLens
  <2>5. /\ \A j \in 1 .. n : SumOf(g, 1 .. j) = SumOf(g, 1 .. j - 1) + layout.files[s].runs[j].len
        /\ \A j \in 0 .. n - 1 : SumOf(g, 1 .. j) < SumOf(g, 1 .. n)
    BY <1>1, <2>3, FirstLens
  <2>6. before(1) = SumOf(g, 1 .. 0) /\ before(i) = SumOf(g, 1 .. i - 1)
        /\ before(i + 1) = SumOf(g, 1 .. i) /\ before(n + 1) = SumOf(g, 1 .. n)
    BY <2>2, <2>3
  <2>7. SumOf(g, 1 .. i - 1) \in Nat /\ SumOf(g, 1 .. i) \in Nat /\ SumOf(g, 1 .. n) \in Nat
    BY <2>2, <2>4
  <2>8. SumOf(g, 1 .. i) = SumOf(g, 1 .. i - 1) + r.len
    BY <2>1, <2>5
  <2>9. i + 1 <= n => SumOf(g, 1 .. i) < SumOf(g, 1 .. n)
    BY <2>2, <2>5
  <2>10. QED
    BY <2>1, <2>4, <2>6, <2>7, <2>8, <2>9
<1>4. BlockUnits * (before(n + 1) - 1) < size /\ size <= BlockUnits * before(n + 1)
  <2>1. before(n + 1) = Cardinality(FileBlocksOf(layout.files[s]))
    <3>1. n + 1 - 1 = n
      BY <1>3
    <3>2. QED
      BY <1>3, <3>1, LensAreBlocks
  <2>2. SizesFit(layout) /\ s \in DOMAIN layout.files
    BY Shapes DEF LayoutOK, Files
  <2>3. QED
    BY <1>2, <2>1, <2>2 DEF SizesFit
<1>5. \A j \in 1 .. n : extents(s)[j].first = BlockUnits * before(j)
  BY <1>3, SMTT(30) DEF extents, Lens
<1>6. /\ e.offset = r.start * BlockUnits
      /\ e.first = BlockUnits * before(i)
      /\ e.bytes = Least(r.len * BlockUnits, size - BlockUnits * before(i))
  BY <1>2, <1>3, <1>5 DEF extents, Lens
<1>7. BlockUnits \in Nat \ {0} /\ r.len \in Nat \ {0} /\ size \in Nat
  BY <1>2, Shapes, FileRunShape
<1>8. PICK sum \in Nat, all \in Nat :
        /\ sum = before(i) /\ all = before(n + 1) /\ before(i + 1) = sum + r.len
        /\ i + 1 <= n => sum + r.len < all
        /\ BlockUnits * (all - 1) < size /\ size <= BlockUnits * all
  BY <1>3, <1>4
<1>9. e.first = BlockUnits * sum /\ (i = 1 => sum = 0)
  BY <1>3, <1>6, <1>8
<1> HIDE DEF before
<1>10. CASE i + 1 <= n
  <2>1. /\ BlockUnits * sum \in Nat /\ r.len * BlockUnits \in Nat
        /\ (r.len - 1) * BlockUnits < r.len * BlockUnits
        /\ BlockUnits * (sum + r.len) = BlockUnits * sum + r.len * BlockUnits
        /\ r.len * BlockUnits < size - BlockUnits * sum
    BY <1>7, <1>8, <1>10, RunBeforeLast
  <2>2. e.bytes = r.len * BlockUnits
    BY <1>6, <1>7, <1>8, <2>1 DEF Least
  <2>3. extents(s)[i + 1].first = BlockUnits * (sum + r.len)
    BY <1>3, <1>5, <1>8, <1>10
  <2>4. e.first + e.bytes <= size
    BY <1>7, <1>9, <2>1, <2>2
  <2>5. extents(s)[i + 1].first = e.first + e.bytes
    BY <1>9, <2>1, <2>2, <2>3
  <2>6. e.bytes <= r.len * BlockUnits /\ (r.len - 1) * BlockUnits < e.bytes
    BY <2>1, <2>2
  <2>7. i = 1 => e.first = 0
    BY <1>7, <1>9
  <2>8. e.bytes = Least(r.len * BlockUnits, size - e.first)
    BY <1>6, <1>8, <1>9
  <2>9. QED
    BY <1>2, <1>6, <1>9, <2>1, <2>2, <2>4, <2>5, <2>6, <2>7, <2>8
<1>11. CASE ~ (i + 1 <= n)
  <2>1. n = i /\ i + 1 \notin DOMAIN layout.files[s].runs
    BY <1>3, <1>11
  <2>2. BlockUnits * (sum + r.len - 1) < size /\ size <= BlockUnits * (sum + r.len)
    <3>1. all = sum + r.len
      BY <1>8, <2>1
    <3>2. QED
      BY <1>7, <1>8, <3>1
  <2>3. /\ BlockUnits * sum \in Nat /\ (r.len - 1) * BlockUnits \in Nat
        /\ (r.len - 1) * BlockUnits < size - BlockUnits * sum
        /\ size - BlockUnits * sum <= r.len * BlockUnits
    BY <1>7, <2>2, LastRun
  <2>4. r.len * BlockUnits \in Nat
    BY <1>7
  <2>5. e.bytes = size - BlockUnits * sum
    BY <1>6, <1>7, <1>8, <2>3, <2>4 DEF Least
  <2>6. e.bytes \in Nat /\ e.first + e.bytes <= size
    BY <1>7, <1>9, <2>3, <2>5
  <2>7. i = 1 => e.first = 0
    BY <1>7, <1>9
  <2>8. e.bytes = Least(r.len * BlockUnits, size - e.first)
    BY <1>6, <1>8, <1>9
  <2>9. QED
    BY <1>2, <1>6, <1>9, <2>1, <2>3, <2>5, <2>6, <2>7, <2>8
<1>12. QED
  BY <1>10, <1>11

-----------------------------------------------------------------------------
(* What belongs where. *)

\* The units of n blocks from x on.
LEMMA UnitsOfBlocks ==
  ASSUME TypeInv, NEW x \in Nat, NEW n \in Nat
  PROVE  /\ x * BlockUnits \in Nat /\ n * BlockUnits \in Nat
         /\ \A u \in Nat : Block(u) \in x .. x + n - 1 <=> u \in x * BlockUnits .. x * BlockUnits + n * BlockUnits - 1
         /\ \A k \in 0 .. n * BlockUnits - 1 : /\ x * BlockUnits + k \in Nat
                                               /\ Block(x * BlockUnits + k) \in x .. x + n - 1
<1>1. x * BlockUnits \in Nat /\ n * BlockUnits \in Nat
  BY AddressFacts
<1>2. (x + n) * BlockUnits = x * BlockUnits + n * BlockUnits
  BY Shapes
<1>3. ASSUME NEW u \in Nat
      PROVE  Block(u) \in x .. x + n - 1 <=> u \in x * BlockUnits .. x * BlockUnits + n * BlockUnits - 1
  <2>1. /\ u < x * BlockUnits <=> Block(u) < x
        /\ u < (x + n) * BlockUnits <=> Block(u) < x + n
        /\ Block(u) \in Nat
    BY AddressFacts
  <2>2. QED
    BY <1>1, <1>2, <2>1
<1>4. ASSUME NEW k \in 0 .. n * BlockUnits - 1
      PROVE  x * BlockUnits + k \in Nat /\ Block(x * BlockUnits + k) \in x .. x + n - 1
  <2>1. /\ x * BlockUnits + k \in Nat
        /\ x * BlockUnits + k \in x * BlockUnits .. x * BlockUnits + n * BlockUnits - 1
    BY <1>1
  <2>2. QED
    BY <1>3, <2>1
<1>5. QED
  BY <1>1, <1>3, <1>4

\* The front of an interval stays inside it.
LEMMA FrontOfInterval ==
  ASSUME NEW x \in Nat, NEW n \in Nat, NEW len \in Nat, n <= len,
         NEW limit \in Nat, x + len <= limit, NEW b \in x .. x + n - 1
  PROVE  b \in x .. x + len - 1 /\ b < x + n /\ b < limit
OBVIOUS

LEMMA SegmentUnit ==
  ASSUME TypeInv, NEW i \in DOMAIN layout.segments, NEW g, g = layout.segments[i],
         NEW k \in 0 .. g.used * BlockUnits - 1, NEW u, u = g.block * BlockUnits + k
  PROVE  /\ u \in Nat /\ u < ImageLen
         /\ Block(u) \in SegBlocks(g) /\ Block(u) < g.block + g.used
         /\ <<u, MetaUnit(i, k)>> \in LayoutContent
<1>1. /\ g.block \in Nat /\ g.used \in Nat /\ g.used <= g.len /\ g.len \in Nat
      /\ SegEnd(g) = g.block + g.len /\ SegEnd(g) <= layout.blocks
      /\ SegBlocks(g) = g.block .. SegEnd(g) - 1
  BY SegmentShape
<1>2. u \in Nat /\ Block(u) \in g.block .. g.block + g.used - 1
  BY <1>1, UnitsOfBlocks
<1>3. Block(u) \in SegBlocks(g) /\ Block(u) < g.block + g.used /\ Block(u) < layout.blocks
  <2>1. layout.blocks \in Nat
    BY Shapes
  <2>2. g.block + g.len <= layout.blocks
    BY <1>1, Zenon
  <2>3. /\ Block(u) \in g.block .. g.block + g.len - 1
        /\ Block(u) < g.block + g.used /\ Block(u) < layout.blocks
    BY <1>1, <1>2, <2>1, <2>2, FrontOfInterval
  <2>4. SegBlocks(g) = g.block .. g.block + g.len - 1
    BY DEF SegBlocks, SegEnd
  <2>5. QED
    BY <2>3, <2>4, Zenon
<1>4. u < ImageLen
  BY <1>2, <1>3, AddressFacts
<1>5. <<u, MetaUnit(i, k)>> \in LayoutContent
  BY DEF LayoutContent, SegmentContent
<1>6. QED
  BY <1>2, <1>3, <1>4, <1>5

LEMMA BlockOfRun ==
  ASSUME NEW r \in Run, NEW limit \in Nat, RunEnd(r) <= limit, NEW b \in r.start .. r.start + r.len - 1
  PROVE  b \in BlocksOf(r) /\ b < limit
<1>1. r.start \in Nat /\ r.len \in Nat
  BY DEF Run
<1>2. QED
  BY <1>1 DEF RunEnd, BlocksOf

LEMMA FileRunUnit ==
  ASSUME TypeInv, NEW s \in Files, NEW i \in DOMAIN layout.files[s].runs,
         NEW r, r = layout.files[s].runs[i], NEW e, e = extents(s)[i],
         NEW k \in 0 .. r.len * BlockUnits - 1, NEW u, u = e.offset + k
  PROVE  /\ u \in Nat /\ u < ImageLen
         /\ Block(u) \in BlocksOf(r)
         /\ k < e.bytes => <<u, FileUnit(s, e.first + k)>> \in LayoutContent
<1>1. /\ r.start \in Nat /\ r.len \in Nat
      /\ RunEnd(r) = r.start + r.len /\ RunEnd(r) <= layout.blocks
      /\ BlocksOf(r) = r.start .. RunEnd(r) - 1
  BY FileRunShape
<1>2. e.offset = r.start * BlockUnits /\ e.bytes \in Nat
  BY ExtentFacts
<1>3. u \in Nat /\ Block(u) \in r.start .. r.start + r.len - 1
  BY <1>1, <1>2, UnitsOfBlocks
<1>4. Block(u) \in BlocksOf(r) /\ Block(u) < layout.blocks
  <2>1. layout.blocks \in Nat /\ r \in Run
    BY Shapes
  <2>2. QED
    BY <1>1, <1>3, <2>1, BlockOfRun
<1>5. u < ImageLen
  BY <1>3, <1>4, AddressFacts
<1>6. ASSUME k < e.bytes PROVE <<u, FileUnit(s, e.first + k)>> \in LayoutContent
  <2>1. k \in 0 .. e.bytes - 1
    BY <1>2, <1>6
  <2>2. <<u, FileUnit(s, e.first + k)>> \in ExtentContent(s, i)
    BY <2>1 DEF ExtentContent
  <2>3. QED
    BY <2>2 DEF LayoutContent
<1>7. QED
  BY <1>3, <1>4, <1>5, <1>6

\* Whatever belongs at u is a unit of a segment that has the block of u, or a
\* byte of a file that has it.
LEMMA ContentIs ==
  ASSUME TypeInv, NEW c \in LayoutContent
  PROVE  /\ c = <<c[1], c[2]>> /\ c[1] \in Nat /\ c[1] < ImageLen /\ c[2] # Zero
         /\ \/ \E i \in DOMAIN layout.segments :
                 \E k \in 0 .. layout.segments[i].used * BlockUnits - 1 :
                   /\ c = <<layout.segments[i].block * BlockUnits + k, MetaUnit(i, k)>>
                   /\ Block(c[1]) \in SegBlocks(layout.segments[i])
                   /\ Block(c[1]) < layout.segments[i].block + layout.segments[i].used
            \/ \E s \in Files : \E i \in DOMAIN layout.files[s].runs :
                 \E k \in 0 .. extents(s)[i].bytes - 1 :
                   /\ c = <<extents(s)[i].offset + k, FileUnit(s, extents(s)[i].first + k)>>
                   /\ Block(c[1]) \in BlocksOf(layout.files[s].runs[i])
<1>1. CASE c \in UNION {SegmentContent(i) : i \in DOMAIN layout.segments}
  <2>1. PICK i \in DOMAIN layout.segments : c \in SegmentContent(i)
    BY <1>1
  <2>2. PICK k \in 0 .. layout.segments[i].used * BlockUnits - 1 :
          c = <<layout.segments[i].block * BlockUnits + k, MetaUnit(i, k)>>
    BY <2>1 DEF SegmentContent
  <2>3. c[1] = layout.segments[i].block * BlockUnits + k /\ c[2] = MetaUnit(i, k)
    BY <2>2
  <2>4. MetaUnit(i, k) # Zero
    BY DEF MetaUnit, Zero
  <2>5. /\ c[1] \in Nat /\ c[1] < ImageLen
        /\ Block(c[1]) \in SegBlocks(layout.segments[i])
        /\ Block(c[1]) < layout.segments[i].block + layout.segments[i].used
    BY <2>3, SegmentUnit
  <2>6. QED
    BY <2>2, <2>3, <2>4, <2>5
<1>2. CASE c \in UNION {UNION {ExtentContent(s, i) : i \in DOMAIN layout.files[s].runs} : s \in Files}
  <2>1. PICK s \in Files : c \in UNION {ExtentContent(s, i) : i \in DOMAIN layout.files[s].runs}
    BY <1>2
  <2>2. PICK i \in DOMAIN layout.files[s].runs : c \in ExtentContent(s, i)
    BY <2>1
  <2>3. PICK k \in 0 .. extents(s)[i].bytes - 1 :
          c = <<extents(s)[i].offset + k, FileUnit(s, extents(s)[i].first + k)>>
    BY <2>2 DEF ExtentContent
  <2>4. c[1] = extents(s)[i].offset + k /\ c[2] = FileUnit(s, extents(s)[i].first + k)
    BY <2>3
  <2>5. FileUnit(s, extents(s)[i].first + k) # Zero
    BY DEF FileUnit, Zero
  <2>6. k \in 0 .. layout.files[s].runs[i].len * BlockUnits - 1
    <3>1. /\ extents(s)[i].bytes \in Nat
          /\ extents(s)[i].bytes <= layout.files[s].runs[i].len * BlockUnits
      BY ExtentFacts
    <3>2. layout.files[s].runs[i].len * BlockUnits \in Nat
      BY FileRunShape, AddressFacts
    <3>3. QED
      BY <3>1, <3>2
  <2>7. /\ c[1] \in Nat /\ c[1] < ImageLen
        /\ Block(c[1]) \in BlocksOf(layout.files[s].runs[i])
    BY <2>4, <2>6, FileRunUnit
  <2>8. QED
    BY <2>3, <2>4, <2>5, <2>7
<1>3. QED
  BY <1>1, <1>2 DEF LayoutContent

LEMMA RightNothing ==
  ASSUME TypeInv, NEW u \in Nat, Block(u) \notin DataBlocks,
         \A i \in DOMAIN layout.segments :
           \/ Block(u) \notin SegBlocks(layout.segments[i])
           \/ ~ (Block(u) < layout.segments[i].block + layout.segments[i].used)
  PROVE  Right(u, Zero)
<1>1. ASSUME NEW c \in LayoutContent, c[1] = u PROVE FALSE
  <2>1. \A s \in Files : \A i \in DOMAIN layout.files[s].runs :
          Block(u) \notin BlocksOf(layout.files[s].runs[i])
    BY FileRunShape
  <2>2. QED
    BY <1>1, <2>1, ContentIs
<1>2. {c \in LayoutContent : c[1] = u} = {}
  BY <1>1
<1>3. QED
  BY <1>2 DEF Right

LEMMA RightSegment ==
  ASSUME TypeInv, NEW i \in DOMAIN layout.segments,
         NEW k \in 0 .. layout.segments[i].used * BlockUnits - 1,
         NEW u, u = layout.segments[i].block * BlockUnits + k
  PROVE  Right(u, MetaUnit(i, k))
<1>1. /\ u \in Nat /\ Block(u) \in SegBlocks(layout.segments[i])
      /\ <<u, MetaUnit(i, k)>> \in LayoutContent
  BY SegmentUnit
<1>2. Block(u) \notin DataBlocks
  BY <1>1, DataApart
<1>3. ASSUME NEW c \in LayoutContent, c[1] = u PROVE c = <<u, MetaUnit(i, k)>>
  <2>1. CASE \E j \in DOMAIN layout.segments :
               \E m \in 0 .. layout.segments[j].used * BlockUnits - 1 :
                 /\ c = <<layout.segments[j].block * BlockUnits + m, MetaUnit(j, m)>>
                 /\ Block(c[1]) \in SegBlocks(layout.segments[j])
    <3>1. PICK j \in DOMAIN layout.segments :
               \E m \in 0 .. layout.segments[j].used * BlockUnits - 1 :
                 /\ c = <<layout.segments[j].block * BlockUnits + m, MetaUnit(j, m)>>
                 /\ Block(c[1]) \in SegBlocks(layout.segments[j])
      BY <2>1
    <3>2. j = i
      BY <1>1, <1>3, <3>1, SegmentsApart
    <3>3. PICK m \in Int : c = <<layout.segments[i].block * BlockUnits + m, MetaUnit(i, m)>>
      BY <3>1, <3>2
    <3>4. layout.segments[i].block * BlockUnits \in Nat
      BY SegmentShape, AddressFacts
    <3>5. layout.segments[i].block * BlockUnits + m = u
      BY <1>3, <3>3
    <3>6. m = k
      BY <3>4, <3>5
    <3>7. QED
      BY <3>3, <3>6
  <2>2. CASE \E s \in Files : \E j \in DOMAIN layout.files[s].runs :
                 Block(c[1]) \in BlocksOf(layout.files[s].runs[j])
    BY <1>2, <1>3, <2>2, FileRunShape
  <2>3. QED
    BY <1>3, <2>1, <2>2, ContentIs
<1>4. {c \in LayoutContent : c[1] = u} = {<<u, MetaUnit(i, k)>>}
  BY <1>1, <1>3
<1>5. MetaUnit(i, k) # Zero
  BY DEF MetaUnit, Zero
<1>6. QED
  BY <1>4, <1>5 DEF Right

LEMMA RightFile ==
  ASSUME TypeInv, NEW s \in Files, NEW i \in DOMAIN layout.files[s].runs,
         NEW k \in 0 .. layout.files[s].runs[i].len * BlockUnits - 1,
         NEW u, u = extents(s)[i].offset + k
  PROVE  /\ k < extents(s)[i].bytes => Right(u, FileUnit(s, extents(s)[i].first + k))
         /\ ~ (k < extents(s)[i].bytes) => Right(u, Zero)
<1> DEFINE e == extents(s)[i]
<1>1. /\ u \in Nat /\ Block(u) \in BlocksOf(layout.files[s].runs[i])
      /\ k < e.bytes => <<u, FileUnit(s, e.first + k)>> \in LayoutContent
  BY FileRunUnit
<1>2. Block(u) \in DataBlocks
  BY <1>1, FileRunShape
<1>3. ASSUME NEW c \in LayoutContent, c[1] = u
      PROVE  k < e.bytes /\ c = <<u, FileUnit(s, e.first + k)>>
  <2>1. CASE \E t \in Files : \E j \in DOMAIN layout.files[t].runs :
               \E m \in 0 .. extents(t)[j].bytes - 1 :
                 /\ c = <<extents(t)[j].offset + m, FileUnit(t, extents(t)[j].first + m)>>
                 /\ Block(c[1]) \in BlocksOf(layout.files[t].runs[j])
    <3>1. PICK t \in Files : \E j \in DOMAIN layout.files[t].runs :
               \E m \in 0 .. extents(t)[j].bytes - 1 :
                 /\ c = <<extents(t)[j].offset + m, FileUnit(t, extents(t)[j].first + m)>>
                 /\ Block(c[1]) \in BlocksOf(layout.files[t].runs[j])
      BY <2>1
    <3>2. PICK j \in DOMAIN layout.files[t].runs :
               \E m \in 0 .. extents(t)[j].bytes - 1 :
                 /\ c = <<extents(t)[j].offset + m, FileUnit(t, extents(t)[j].first + m)>>
                 /\ Block(c[1]) \in BlocksOf(layout.files[t].runs[j])
      BY <3>1
    <3>3. t = s /\ j = i
      BY <1>1, <1>3, <3>2, RunsApart
    <3>4. PICK m \in 0 .. e.bytes - 1 : c = <<e.offset + m, FileUnit(s, e.first + m)>>
      BY <3>2, <3>3
    <3>5. e.offset \in Nat /\ e.bytes \in Nat
      <4>1. e.offset = layout.files[s].runs[i].start * BlockUnits /\ e.bytes \in Nat
        BY ExtentFacts
      <4>2. QED
        BY <4>1, FileRunShape, AddressFacts
    <3> HIDE DEF e
    <3>6. e.offset + m = u /\ e.offset + k = u
      BY <1>3, <3>4 DEF e
    <3>7. m = k
      BY <3>5, <3>6
    <3>8. QED
      BY <3>4, <3>5, <3>6, <3>7
  <2>2. CASE \E j \in DOMAIN layout.segments : Block(c[1]) \in SegBlocks(layout.segments[j])
    BY <1>2, <1>3, <2>2, DataApart
  <2>3. QED
    BY <1>3, <2>1, <2>2, ContentIs
<1>4. FileUnit(s, e.first + k) # Zero
  BY DEF FileUnit, Zero
<1> HIDE DEF e
<1>5. CASE k < e.bytes
  <2>1. {c \in LayoutContent : c[1] = u} = {<<u, FileUnit(s, e.first + k)>>}
    BY <1>1, <1>3, <1>5
  <2>2. QED
    BY <1>4, <1>5, <2>1 DEF Right, e
<1>6. CASE ~ (k < e.bytes)
  <2>1. {c \in LayoutContent : c[1] = u} = {}
    BY <1>3, <1>6
  <2>2. QED
    BY <1>6, <2>1 DEF Right, e
<1>7. QED
  BY <1>5, <1>6

-----------------------------------------------------------------------------
(* Calls of the sink. *)

LEMMA SameLayout ==
  ASSUME layout' = layout
  PROVE  /\ LayoutContent' = LayoutContent /\ DataBlocks' = DataBlocks
         /\ ImageLen' = ImageLen /\ Addresses' = Addresses /\ Files' = Files
         /\ \A s : extents(s)' = extents(s)
         /\ \A u, s : InFile(u, s)' <=> InFile(u, s)
         /\ \A u, v : Right(u, v)' <=> Right(u, v)
BY DEF LayoutContent, SegmentContent, ExtentContent, DataBlocks, ImageLen, Addresses, Files,
       extents, InFile, Right, MetaUnit, FileUnit

LEMMA EmitLands ==
  ASSUME TypeInv, OnceInv, ContentInv, layout' = layout,
         NEW off \in Nat, NEW n \in Nat, NEW data, DOMAIN data = 0 .. n - 1, Emit(off, data),
         \A u \in off .. off + n - 1 :
           u < ImageLen /\ (u \in Addresses => arrivals[u] = 0) /\ Right(u, data[u - off])
  PROVE  /\ OnceInv' /\ ContentInv'
         /\ \A u \in Addresses : arrivals'[u] = 1 <=> arrivals[u] = 1 \/ u \in off .. off + n - 1
<1> DEFINE hit == {off + k : k \in DOMAIN data}
<1>1. /\ image' = [u \in Addresses |-> IF u \in hit THEN data[u - off] ELSE image[u]]
      /\ arrivals' = [u \in Addresses |-> arrivals[u] + IF u \in hit THEN 1 ELSE 0]
  BY DEF Emit
<1>2. \A u \in Nat : u \in hit <=> u \in off .. off + n - 1
  <2>1. ASSUME NEW u \in off .. off + n - 1 PROVE u \in hit
    <3>1. u - off \in DOMAIN data /\ off + (u - off) = u
      OBVIOUS
    <3>2. QED
      BY <3>1
  <2>2. ASSUME NEW u \in hit PROVE u \in off .. off + n - 1
    OBVIOUS
  <2>3. QED
    BY <2>1, <2>2
<1> HIDE DEF hit
<1>3. Addresses \subseteq Nat /\ ImageLen \in Nat
  BY AddressFacts
<1>4. ASSUME NEW u \in Addresses
      PROVE  /\ u \in Nat
             /\ u \in hit <=> u \in off .. off + n - 1
             /\ u \in hit => u < ImageLen /\ arrivals'[u] = 1 /\ Right(u, image'[u])
             /\ u \notin hit => arrivals'[u] = arrivals[u] /\ image'[u] = image[u]
  BY <1>1, <1>2, <1>3 DEF OnceInv
<1>5. arrivals' \in [Addresses -> {0, 1}]
  BY <1>1, <1>4 DEF OnceInv
<1>6. /\ Addresses' = Addresses /\ ImageLen' = ImageLen
      /\ \A u, v : Right(u, v)' <=> Right(u, v)
  BY SameLayout
<1>7. OnceInv'
  BY <1>4, <1>5, <1>6 DEF OnceInv
<1>8. ContentInv'
  <2>1. ASSUME NEW u \in Addresses, arrivals'[u] = 1 PROVE Right(u, image[u])'
    <3>1. Right(u, image'[u])
      BY <1>4, <2>1 DEF ContentInv
    <3>2. QED
      BY <1>6, <3>1
  <2>2. ASSUME NEW u \in Addresses, u >= ImageLen PROVE image'[u] = Zero
    BY <1>3, <1>4, <2>2 DEF ContentInv
  <2>3. Zero' = Zero
    BY DEF Zero
  <2>4. QED
    BY <1>6, <2>1, <2>2, <2>3 DEF ContentInv
<1>9. QED
  BY <1>4, <1>7, <1>8

\* Steps that do not call the sink.
LEMMA NoCallOfSink ==
  ASSUME TypeInv, OnceInv, ContentInv, UNCHANGED <<layout, image, arrivals>>
  PROVE  OnceInv' /\ ContentInv'
<1>1. /\ Addresses' = Addresses /\ ImageLen' = ImageLen
      /\ \A u, v : Right(u, v)' <=> Right(u, v)
  BY SameLayout
<1>2. OnceInv'
  BY <1>1 DEF OnceInv
<1>3. ContentInv'
  <2>1. ASSUME NEW u \in Addresses, arrivals'[u] = 1 PROVE Right(u, image[u])'
    <3>1. Right(u, image'[u])
      BY <2>1 DEF ContentInv
    <3>2. QED
      BY <1>1, <3>1
  <2>2. Zero' = Zero
    BY DEF Zero
  <2>3. QED
    BY <1>1, <2>1, <2>2 DEF ContentInv
<1>4. QED
  BY <1>2, <1>3

\* What had arrived has arrived.
Grows == \A u \in Addresses : arrivals[u] = 1 => arrivals'[u] = 1

-----------------------------------------------------------------------------
(* The metadata pass. *)

LEMMA DataRunAndSegment ==
  ASSUME TypeInv, NEW i \in DOMAIN layout.data_runs, NEW j \in DOMAIN layout.segments,
         NEW r, r = layout.data_runs[i], NEW g, g = layout.segments[j]
  PROVE  RunEnd(r) <= g.block \/ SegEnd(g) <= r.start
<1>1. /\ r.start \in Nat /\ RunEnd(r) \in Nat /\ r.start < RunEnd(r)
      /\ BlocksOf(r) = r.start .. RunEnd(r) - 1 /\ BlocksOf(r) \subseteq DataBlocks
  <2>1. r.start \in Nat /\ r.len \in Nat \ {0} /\ RunEnd(r) = r.start + r.len
    BY DataRunShape
  <2>2. QED
    BY <2>1, DataRunShape
<1>2. /\ g.block \in Nat /\ SegEnd(g) \in Nat /\ g.block < SegEnd(g)
      /\ SegBlocks(g) = g.block .. SegEnd(g) - 1
  <2>1. g.block \in Nat /\ g.len \in Nat \ {0} /\ SegEnd(g) = g.block + g.len
    BY SegmentShape
  <2>2. QED
    BY <2>1, SegmentShape
<1>3. \A b \in SegBlocks(g) : b \notin DataBlocks
  BY DataApart
<1>4. \A b \in r.start .. RunEnd(r) - 1 : b \notin g.block .. SegEnd(g) - 1
  BY <1>1, <1>2, <1>3
<1>5. \A x, y, v, w \in Nat :
        x < y /\ v < w /\ (\A b \in x .. y - 1 : b \notin v .. w - 1) => y <= v \/ w <= x
  <2>1. SUFFICES ASSUME NEW x \in Nat, NEW y \in Nat, NEW v \in Nat, NEW w \in Nat,
                        x < y, v < w, \A b \in x .. y - 1 : b \notin v .. w - 1,
                        v < y, x < w
                 PROVE  FALSE
    OBVIOUS
  <2>2. CASE v <= x
    <3>1. x \in x .. y - 1 /\ x \in v .. w - 1
      BY <2>1, <2>2
    <3>2. QED
      BY <2>1, <3>1
  <2>3. CASE x <= v
    <3>1. v \in x .. y - 1 /\ v \in v .. w - 1
      BY <2>1, <2>3
    <3>2. QED
      BY <2>1, <3>1
  <2>4. QED
    BY <2>2, <2>3
<1>6. QED
  BY <1>1, <1>2, <1>4, <1>5, Zenon

\* The gap ends in the image, below the segments to come, outside data runs.
LEMMA GapEnds ==
  ASSUME TypeInv, PassInv, pc = "gap"
  PROVE  /\ at \in Nat /\ GapEnd \in Nat /\ at <= GapEnd /\ GapEnd <= layout.blocks
         /\ \A i \in DOMAIN layout.data_runs :
              \/ RunEnd(layout.data_runs[i]) <= GapEnd
              \/ GapEnd <= layout.data_runs[i].start
         /\ \A i \in DOMAIN layout.segments :
              /\ i < seg => SegEnd(layout.segments[i]) <= at
              /\ i >= seg => GapEnd <= layout.segments[i].block
<1>1. /\ layout.blocks \in Nat /\ at \in Nat /\ at <= layout.blocks /\ seg \in Nat
      /\ DOMAIN layout.segments = 1 .. Len(layout.segments)
  BY Shapes DEF PassInv, Between
<1>2. \A i \in DOMAIN layout.segments :
        /\ i < seg => SegEnd(layout.segments[i]) <= at
        /\ i >= seg => at <= layout.segments[i].block
  BY DEF PassInv, Between
<1>3. CASE MoreSegments
  <2>1. seg \in DOMAIN layout.segments /\ GapEnd = layout.segments[seg].block
    BY <1>1, <1>3, Shapes DEF MoreSegments, GapEnd, TheSegment, PassInv, Between
  <2>2. /\ GapEnd \in Nat /\ SegEnd(layout.segments[seg]) \in Nat
        /\ GapEnd < SegEnd(layout.segments[seg]) /\ SegEnd(layout.segments[seg]) <= layout.blocks
    <3>1. /\ layout.segments[seg].block \in Nat /\ layout.segments[seg].len \in Nat \ {0}
          /\ SegEnd(layout.segments[seg]) = layout.segments[seg].block + layout.segments[seg].len
          /\ SegEnd(layout.segments[seg]) <= layout.blocks
      BY <2>1, SegmentShape
    <3>2. QED
      BY <2>1, <3>1
  <2>3. at <= GapEnd /\ GapEnd <= layout.blocks
    BY <1>1, <1>2, <2>1, <2>2
  <2>4. ASSUME NEW i \in DOMAIN layout.data_runs
        PROVE  RunEnd(layout.data_runs[i]) <= GapEnd \/ GapEnd <= layout.data_runs[i].start
    <3>1. \/ RunEnd(layout.data_runs[i]) <= layout.segments[seg].block
          \/ SegEnd(layout.segments[seg]) <= layout.data_runs[i].start
      BY <2>1, DataRunAndSegment
    <3>2. layout.data_runs[i].start \in Nat
      BY DataRunShape
    <3>3. QED
      BY <2>1, <2>2, <3>1, <3>2
  <2>5. ASSUME NEW i \in DOMAIN layout.segments, i >= seg PROVE GapEnd <= layout.segments[i].block
    <3>1. CASE i = seg
      BY <2>1, <2>2, <3>1
    <3>2. CASE i # seg
      <4>1. seg < i
        BY <1>1, <2>5, <3>2
      <4>2. SegEnd(layout.segments[seg]) <= layout.segments[i].block
        BY <2>1, <4>1, Shapes DEF LayoutOK, SegmentsAscend
      <4>3. layout.segments[i].block \in Nat
        BY SegmentShape
      <4>4. QED
        BY <2>2, <4>2, <4>3
    <3>3. QED
      BY <3>1, <3>2
  <2>6. QED
    BY <1>1, <1>2, <2>2, <2>3, <2>4, <2>5
<1>4. CASE ~ MoreSegments
  <2>1. GapEnd = layout.blocks /\ \A i \in DOMAIN layout.segments : ~ (i >= seg)
    BY <1>1, <1>4, Shapes DEF MoreSegments, GapEnd, PassInv, Between
  <2>2. \A i \in DOMAIN layout.data_runs : RunEnd(layout.data_runs[i]) <= layout.blocks
    BY DataRunShape
  <2>3. QED
    BY <1>1, <1>2, <2>1, <2>2
<1>5. QED
  BY <1>3, <1>4

\* The next call of emit_gap: zeros up to `to`, where nothing belongs.
LEMMA GapPart ==
  ASSUME TypeInv, PassInv, pc = "gap",
         NEW to, to = IF RunInGap THEN DataRun.start ELSE GapEnd
  PROVE  /\ to \in Nat /\ at <= to /\ to <= GapEnd
         /\ \A b \in at .. to - 1 : b \notin DataBlocks
         /\ RunInGap =>
              /\ NextData \in DOMAIN layout.data_runs /\ NextData >= next_data
              /\ DataRun = layout.data_runs[NextData]
              /\ RunEnd(DataRun) \in Nat /\ to < RunEnd(DataRun) /\ RunEnd(DataRun) <= GapEnd
<1>1. /\ at \in Nat /\ GapEnd \in Nat /\ at <= GapEnd
      /\ \A i \in DOMAIN layout.data_runs :
              \/ RunEnd(layout.data_runs[i]) <= GapEnd
              \/ GapEnd <= layout.data_runs[i].start
  BY GapEnds
<1>2. /\ next_data \in Nat \ {0} /\ DOMAIN layout.data_runs = 1 .. Len(layout.data_runs)
      /\ Len(layout.data_runs) \in Nat
  BY Shapes DEF PassInv, Between
<1>3. \A i \in DOMAIN layout.data_runs :
        /\ i \in Nat
        /\ i < next_data => RunEnd(layout.data_runs[i]) <= at
        /\ RunEnd(layout.data_runs[i]) <= at \/ at <= layout.data_runs[i].start
        /\ layout.data_runs[i].start \in Nat /\ RunEnd(layout.data_runs[i]) \in Nat
        /\ layout.data_runs[i].start < RunEnd(layout.data_runs[i])
        /\ BlocksOf(layout.data_runs[i]) = layout.data_runs[i].start .. RunEnd(layout.data_runs[i]) - 1
  <2>1. ASSUME NEW i \in DOMAIN layout.data_runs
        PROVE  /\ layout.data_runs[i].start \in Nat /\ RunEnd(layout.data_runs[i]) \in Nat
               /\ layout.data_runs[i].start < RunEnd(layout.data_runs[i])
    <3>1. /\ layout.data_runs[i].start \in Nat /\ layout.data_runs[i].len \in Nat \ {0}
          /\ RunEnd(layout.data_runs[i]) = layout.data_runs[i].start + layout.data_runs[i].len
      BY DataRunShape
    <3>2. QED
      BY <3>1
  <2>2. QED
    BY <1>2, <2>1, DataRunShape DEF PassInv, Between
<1>4. \A i \in DOMAIN layout.data_runs : i \in Ahead <=> ~ (RunEnd(layout.data_runs[i]) <= at)
  BY <1>1, <1>2, <1>3 DEF Ahead
<1>5. Ahead \subseteq DOMAIN layout.data_runs
  BY <1>2 DEF Ahead
<1>6. Ahead # {} => NextData \in Ahead /\ \A j \in Ahead : NextData <= j
  <2>1. Ahead \subseteq Nat
    BY <1>2, <1>5
  <2>2. Ahead # {} => \E i \in Ahead : \A j \in Ahead : i <= j
    BY <2>1, LeastNatural
  <2>3. QED
    BY <2>2 DEF NextData
<1>7. CASE RunInGap
  <2>1. /\ NextData \in Ahead /\ NextData \in DOMAIN layout.data_runs
        /\ DataRun = layout.data_runs[NextData] /\ DataRun.start < GapEnd
        /\ to = DataRun.start
    BY <1>5, <1>6, <1>7 DEF RunInGap, DataRun
  <2>2. /\ to \in Nat /\ RunEnd(DataRun) \in Nat /\ to < RunEnd(DataRun)
        /\ at <= to /\ to <= GapEnd /\ RunEnd(DataRun) <= GapEnd
    BY <1>1, <1>3, <1>4, <2>1
  <2>3. ASSUME NEW i \in DOMAIN layout.data_runs, NEW b \in at .. to - 1, b \in BlocksOf(layout.data_runs[i])
        PROVE  FALSE
    <3>1. b \in layout.data_runs[i].start .. RunEnd(layout.data_runs[i]) - 1
      BY <1>3, <2>3
    <3>2. i \in Ahead
      BY <1>1, <1>3, <1>4, <2>2, <3>1
    <3>3. NextData <= i
      BY <1>6, <3>2
    <3>4. layout.data_runs[NextData].start <= layout.data_runs[i].start
      <4>1. CASE NextData = i
        BY <1>3, <4>1
      <4>2. CASE NextData # i
        <5>1. NextData < i
          BY <1>3, <2>1, <3>3, <4>2
        <5>2. RunEnd(layout.data_runs[NextData]) <= layout.data_runs[i].start
          BY <2>1, <5>1, Shapes DEF LayoutOK, DataRunsAscend
        <5>3. QED
          BY <1>3, <2>1, <5>2
      <4>3. QED
        BY <4>1, <4>2
    <3>5. to <= layout.data_runs[i].start
      BY <2>1, <3>4
    <3>6. QED
      BY <1>1, <1>3, <2>2, <3>1, <3>5
  <2>4. NextData >= next_data
    BY <2>1 DEF Ahead
  <2>5. QED
    BY <1>7, <2>1, <2>2, <2>3, <2>4 DEF DataBlocks
<1>8. CASE ~ RunInGap
  <2>1. to = GapEnd
    BY <1>8
  <2>2. ASSUME NEW i \in DOMAIN layout.data_runs, NEW b \in at .. to - 1, b \in BlocksOf(layout.data_runs[i])
        PROVE  FALSE
    <3>1. b \in layout.data_runs[i].start .. RunEnd(layout.data_runs[i]) - 1
      BY <1>3, <2>2
    <3>2. i \in Ahead
      BY <1>1, <1>3, <1>4, <2>1, <3>1
    <3>3. NextData \in Ahead /\ NextData <= i /\ NextData \in DOMAIN layout.data_runs
      BY <1>5, <1>6, <3>2
    <3>4. ~ (layout.data_runs[NextData].start < GapEnd)
      BY <1>8, <3>2 DEF RunInGap, DataRun
    <3>5. layout.data_runs[NextData].start <= layout.data_runs[i].start
      <4>1. CASE NextData = i
        BY <1>3, <4>1
      <4>2. CASE NextData # i
        <5>1. NextData < i
          BY <1>3, <3>3, <4>2
        <5>2. RunEnd(layout.data_runs[NextData]) <= layout.data_runs[i].start
          BY <3>3, <5>1, Shapes DEF LayoutOK, DataRunsAscend
        <5>3. QED
          BY <1>3, <3>3, <5>2
      <4>3. QED
        BY <4>1, <4>2
    <3>6. GapEnd <= layout.data_runs[i].start
      BY <1>1, <1>3, <3>3, <3>4, <3>5
    <3>7. QED
      BY <1>1, <1>3, <2>1, <3>1, <3>6
  <2>3. QED
    BY <1>1, <1>8, <2>1, <2>2 DEF DataBlocks
<1>9. QED
  BY <1>7, <1>8

\* A call of emit_gap, whether or not it is reported to have failed.
LEMMA GapCall ==
  ASSUME IInv, pc = "gap", layout' = layout,
         NEW to, to = IF RunInGap THEN DataRun.start ELSE GapEnd,
         Emit(at * BlockUnits, ZeroUnits((to - at) * BlockUnits))
  PROVE  /\ OnceInv' /\ ContentInv' /\ Grows
         /\ \A u \in Addresses : arrivals'[u] = 1 <=> Block(u) < to /\ Block(u) \notin DataBlocks
<1>1. TypeInv /\ OnceInv /\ ContentInv /\ PassInv
  BY DEF IInv
<1>2. /\ at \in Nat /\ GapEnd \in Nat /\ GapEnd <= layout.blocks /\ layout.blocks \in Nat
      /\ \A i \in DOMAIN layout.segments :
              /\ i < seg => SegEnd(layout.segments[i]) <= at
              /\ i >= seg => GapEnd <= layout.segments[i].block
  BY <1>1, GapEnds, Shapes
<1>3. /\ to \in Nat /\ at <= to /\ to <= GapEnd
      /\ \A b \in at .. to - 1 : b \notin DataBlocks
  BY <1>1, GapPart
<1>4. PICK n \in Nat : n = to - at
  BY <1>2, <1>3
<1>5. PICK off \in Nat, len \in Nat : off = at * BlockUnits /\ len = n * BlockUnits
  BY <1>1, <1>2, UnitsOfBlocks
<1>6. \A u \in Nat : u \in off .. off + len - 1 <=> Block(u) \in at .. to - 1
  <2>1. at + n - 1 = to - 1
    BY <1>2, <1>3, <1>4
  <2>2. QED
    BY <1>1, <1>2, <1>5, <2>1, UnitsOfBlocks
<1>7. \A u \in Addresses : u \in Nat /\ (arrivals[u] = 1 <=> Block(u) < at /\ Block(u) \notin DataBlocks)
                           /\ arrivals[u] \in {0, 1}
  BY <1>1, AddressFacts DEF IInv, SentInv, Sent, PoisonInv, OnceInv
<1>8. ASSUME NEW u \in off .. off + len - 1
      PROVE  u < ImageLen /\ (u \in Addresses => arrivals[u] = 0) /\ Right(u, Zero)
  <2>1. u \in Nat /\ Block(u) \in at .. to - 1 /\ Block(u) \in Nat
    BY <1>2, <1>6
  <2>2. Block(u) < layout.blocks
    BY <1>2, <1>3, <2>1
  <2>3. u < ImageLen
    BY <1>1, <2>1, <2>2, AddressFacts
  <2>4. u \in Addresses => arrivals[u] = 0
    BY <1>2, <1>3, <1>7, <2>1
  <2>5. ASSUME NEW i \in DOMAIN layout.segments PROVE Block(u) \notin SegBlocks(layout.segments[i])
    <3>1. /\ layout.segments[i].block \in Nat /\ SegEnd(layout.segments[i]) \in Nat
          /\ SegBlocks(layout.segments[i]) = layout.segments[i].block .. SegEnd(layout.segments[i]) - 1
      BY <1>1, SegmentShape
    <3>2. i \in Int /\ seg \in Int
      BY <1>1, Shapes DEF PassInv, Between
    <3>3. SegEnd(layout.segments[i]) <= at \/ GapEnd <= layout.segments[i].block
      BY <1>2, <3>2
    <3>4. QED
      BY <1>2, <1>3, <2>1, <3>1, <3>3
  <2>6. Right(u, Zero)
    BY <1>1, <1>3, <2>1, <2>5, RightNothing
  <2>7. QED
    BY <2>3, <2>4, <2>6
<1>9. PICK data : data = ZeroUnits(len)
  OBVIOUS
<1>10. DOMAIN data = 0 .. len - 1 /\ \A u \in off .. off + len - 1 : data[u - off] = Zero
  BY <1>9 DEF ZeroUnits
<1>11. Emit(off, data)
  BY <1>4, <1>5, <1>9
<1>12. /\ OnceInv' /\ ContentInv'
       /\ \A u \in Addresses : arrivals'[u] = 1 <=> arrivals[u] = 1 \/ u \in off .. off + len - 1
  BY <1>1, <1>8, <1>10, <1>11, EmitLands
<1>13. ASSUME NEW u \in Addresses
       PROVE  arrivals'[u] = 1 <=> Block(u) < to /\ Block(u) \notin DataBlocks
  <2>1. u \in Nat /\ Block(u) \in Nat
    BY <1>1, <1>7, AddressFacts
  <2>2. Block(u) < to <=> Block(u) < at \/ Block(u) \in at .. to - 1
    BY <1>2, <1>3, <2>1
  <2>3. QED
    BY <1>3, <1>6, <1>7, <1>12, <2>1, <2>2
<1>14. QED
  BY <1>12, <1>13 DEF Grows

LEMMA SameBetween ==
  ASSUME layout' = layout
  PROVE  \A x, g, n : Between(x, g, n)' <=> Between(x, g, n)
BY DEF Between

\* A step from the pass into the pass.
LEMMA PassKeeps ==
  ASSUME IInv, pc \in {"gap", "segment"}, pc' \in {"gap", "segment"},
         UNCHANGED <<layout, fill_state, data_bytes, poisoned>>, OnceInv', ContentInv', PassInv',
         \A u \in Addresses :
           arrivals'[u] = 1 <=> /\ Block(u) < (IF pc' = "gap" THEN at' ELSE at' + done')
                                /\ Block(u) \notin DataBlocks
  PROVE  IInv'
<1>1. poisoned = FALSE
  BY DEF IInv, PoisonInv, TypeInv
<1>2. TypeInv'
  <2>1. Files' = Files
    BY DEF Files
  <2>2. QED
    BY <2>1 DEF IInv, TypeInv
<1>3. OpenInv' /\ RunInv' /\ MissingInv'
  BY <1>1 DEF IInv, OpenInv, RunInv, MissingInv
<1>4. PoisonInv'
  BY <1>1 DEF PoisonInv
<1>5. SentInv'
  <2>1. DataBlocks' = DataBlocks /\ Addresses' = Addresses
    BY SameLayout
  <2>2. \A u : Block(u)' = Block(u)
    BY DEF Block
  <2>3. QED
    BY <2>1, <2>2 DEF SentInv, Sent
<1>6. QED
  BY <1>2, <1>3, <1>4, <1>5 DEF IInv

LEMMA GapToRunStep ==
  ASSUME IInv, GapToRun
  PROVE  IInv' /\ Grows
<1>1. /\ pc = "gap" /\ at < GapEnd /\ RunInGap /\ layout' = layout
      /\ UNCHANGED <<pc, seg, done, fill_state, data_bytes, poisoned>>
      /\ Zeros(at * BlockUnits, (DataRun.start - at) * BlockUnits)
      /\ at' = Least(RunEnd(DataRun), GapEnd)
      /\ next_data' = IF RunEnd(DataRun) <= GapEnd THEN NextData + 1 ELSE NextData
  BY DEF GapToRun, openVars
<1>2. TypeInv /\ PassInv
  BY DEF IInv
<1>3. PICK to : to = IF RunInGap THEN DataRun.start ELSE GapEnd
  OBVIOUS
<1>4. to = DataRun.start
  BY <1>1, <1>3
<1>5. /\ OnceInv' /\ ContentInv' /\ Grows
      /\ \A u \in Addresses : arrivals'[u] = 1 <=> Block(u) < to /\ Block(u) \notin DataBlocks
  <2>1. Emit(at * BlockUnits, ZeroUnits((to - at) * BlockUnits))
    BY <1>1, <1>4 DEF Zeros
  <2>2. QED
    BY <1>1, <1>3, <2>1, GapCall
<1>6. /\ to \in Nat /\ at <= to /\ to <= GapEnd
      /\ NextData \in DOMAIN layout.data_runs /\ NextData >= next_data
      /\ DataRun = layout.data_runs[NextData]
      /\ RunEnd(DataRun) \in Nat /\ to < RunEnd(DataRun) /\ RunEnd(DataRun) <= GapEnd
  BY <1>1, <1>2, <1>3, GapPart
<1>7. /\ at \in Nat /\ GapEnd \in Nat /\ at <= GapEnd /\ GapEnd <= layout.blocks
      /\ \A i \in DOMAIN layout.segments :
           /\ i < seg => SegEnd(layout.segments[i]) <= at
           /\ i >= seg => GapEnd <= layout.segments[i].block
  BY <1>1, <1>2, GapEnds
<1>8. at' = RunEnd(DataRun) /\ next_data' = NextData + 1 /\ seg' = seg
  BY <1>1, <1>6, <1>7 DEF Least
<1>9. Between(RunEnd(DataRun), seg, NextData + 1)
  <2>1. layout.blocks \in Nat /\ RunEnd(DataRun) \in 0 .. layout.blocks
    <3>1. layout.blocks \in Nat
      BY <1>2, Shapes
    <3>2. QED
      BY <1>6, <1>7, <3>1
  <2>2. seg \in 1 .. Len(layout.segments) + 1
    BY <1>1, <1>2 DEF PassInv, Between
  <2>3. NextData + 1 \in 1 .. Len(layout.data_runs) + 1
    BY <1>2, <1>6, Shapes
  <2>4. ASSUME NEW i \in DOMAIN layout.segments
        PROVE  /\ i < seg => SegEnd(layout.segments[i]) <= RunEnd(DataRun)
               /\ i >= seg => RunEnd(DataRun) <= layout.segments[i].block
    <3>1. layout.segments[i].block \in Nat /\ SegEnd(layout.segments[i]) \in Nat
      BY <1>2, SegmentShape
    <3>2. QED
      BY <1>6, <1>7, <3>1
  <2>5. ASSUME NEW i \in DOMAIN layout.data_runs
        PROVE  /\ i < NextData + 1 => RunEnd(layout.data_runs[i]) <= RunEnd(DataRun)
               /\ \/ RunEnd(layout.data_runs[i]) <= RunEnd(DataRun)
                  \/ RunEnd(DataRun) <= layout.data_runs[i].start
    <3>1. RunEnd(layout.data_runs[i]) \in Nat /\ i \in Nat /\ NextData \in Nat
      BY <1>2, <1>6, DataRunShape, Shapes
    <3>2. CASE i = NextData
      BY <1>6, <3>1, <3>2
    <3>3. CASE i < NextData
      <4>1. RunEnd(layout.data_runs[i]) <= layout.data_runs[NextData].start
        BY <1>2, <1>6, <3>3, Shapes DEF LayoutOK, DataRunsAscend
      <4>2. RunEnd(layout.data_runs[i]) <= to
        BY <1>4, <1>6, <4>1
      <4>3. QED
        BY <1>6, <3>1, <4>2
    <3>4. CASE NextData < i
      <4>1. RunEnd(layout.data_runs[NextData]) <= layout.data_runs[i].start
        BY <1>2, <1>6, <3>4, Shapes DEF LayoutOK, DataRunsAscend
      <4>2. QED
        BY <1>6, <3>1, <3>4, <4>1
    <3>5. QED
      BY <3>1, <3>2, <3>3, <3>4
  <2>6. QED
    BY <2>1, <2>2, <2>3, <2>4, <2>5 DEF Between
<1>10. PassInv'
  <2>1. Between(at, seg, next_data)'
    BY <1>1, <1>8, <1>9 DEF Between
  <2>2. QED
    BY <1>1, <2>1 DEF PassInv
<1>11. ASSUME NEW u \in Addresses
       PROVE  arrivals'[u] = 1 <=> Block(u) < at' /\ Block(u) \notin DataBlocks
  <2>1. Block(u) \in Nat
    BY <1>2, AddressFacts
  <2>2. BlocksOf(DataRun) = to .. RunEnd(DataRun) - 1 /\ BlocksOf(DataRun) \subseteq DataBlocks
    BY <1>2, <1>4, <1>6, DataRunShape
  <2>3. Block(u) \notin DataBlocks => (Block(u) < to <=> Block(u) < RunEnd(DataRun))
    <3>1. ASSUME Block(u) < RunEnd(DataRun), ~ (Block(u) < to) PROVE Block(u) \in DataBlocks
      <4>1. Block(u) \in to .. RunEnd(DataRun) - 1
        BY <1>6, <2>1, <3>1
      <4>2. QED
        BY <2>2, <4>1
    <3>2. Block(u) < to => Block(u) < RunEnd(DataRun)
      BY <1>6, <2>1
    <3>3. QED
      BY <3>1, <3>2
  <2>4. QED
    BY <1>5, <1>8, <2>3
<1>12. QED
  BY <1>1, <1>5, <1>10, <1>11, PassKeeps

LEMMA GapToEndStep ==
  ASSUME IInv, GapToEnd
  PROVE  IInv' /\ Grows
<1>1. /\ pc = "gap" /\ at < GapEnd /\ ~RunInGap /\ layout' = layout
      /\ UNCHANGED <<pc, seg, done, next_data, fill_state, data_bytes, poisoned>>
      /\ Zeros(at * BlockUnits, (GapEnd - at) * BlockUnits)
      /\ at' = GapEnd
  BY DEF GapToEnd, openVars
<1>2. TypeInv /\ PassInv
  BY DEF IInv
<1>3. /\ OnceInv' /\ ContentInv' /\ Grows
      /\ \A u \in Addresses : arrivals'[u] = 1 <=> Block(u) < GapEnd /\ Block(u) \notin DataBlocks
  <2>1. PICK to : to = IF RunInGap THEN DataRun.start ELSE GapEnd
    OBVIOUS
  <2>2. to = GapEnd
    BY <1>1, <2>1
  <2>3. Emit(at * BlockUnits, ZeroUnits((to - at) * BlockUnits))
    BY <1>1, <2>2 DEF Zeros
  <2>4. QED
    BY <1>1, <2>1, <2>2, <2>3, GapCall
<1>4. /\ at \in Nat /\ GapEnd \in Nat /\ at <= GapEnd /\ GapEnd <= layout.blocks
      /\ \A i \in DOMAIN layout.data_runs :
              \/ RunEnd(layout.data_runs[i]) <= GapEnd
              \/ GapEnd <= layout.data_runs[i].start
      /\ \A i \in DOMAIN layout.segments :
           /\ i < seg => SegEnd(layout.segments[i]) <= at
           /\ i >= seg => GapEnd <= layout.segments[i].block
  BY <1>1, <1>2, GapEnds
<1>5. Between(GapEnd, seg, next_data)
  <2>1. layout.blocks \in Nat /\ GapEnd \in 0 .. layout.blocks
    BY <1>2, <1>4, Shapes
  <2>2. Between(at, seg, next_data)
    BY <1>1, <1>2 DEF PassInv
  <2>3. ASSUME NEW i \in DOMAIN layout.segments
        PROVE  /\ i < seg => SegEnd(layout.segments[i]) <= GapEnd
               /\ i >= seg => GapEnd <= layout.segments[i].block
    <3>1. SegEnd(layout.segments[i]) \in Nat
      BY <1>2, SegmentShape
    <3>2. QED
      BY <1>4, <3>1
  <2>4. ASSUME NEW i \in DOMAIN layout.data_runs, i < next_data
        PROVE  RunEnd(layout.data_runs[i]) <= GapEnd
    <3>1. RunEnd(layout.data_runs[i]) \in Nat
      BY <1>2, DataRunShape
    <3>2. RunEnd(layout.data_runs[i]) <= at
      BY <2>2, <2>4 DEF Between
    <3>3. QED
      BY <1>4, <3>1, <3>2
  <2>5. QED
    BY <1>4, <2>1, <2>2, <2>3, <2>4 DEF Between
<1>6. PassInv'
  <2>1. Between(at, seg, next_data)'
    BY <1>1, <1>5 DEF Between
  <2>2. QED
    BY <1>1, <2>1 DEF PassInv
<1>7. QED
  BY <1>1, <1>3, <1>6, PassKeeps

LEMMA GapDoneStep ==
  ASSUME IInv, GapDone
  PROVE  IInv' /\ Grows
<1>1. /\ pc = "gap" /\ at >= GapEnd /\ MoreSegments /\ layout' = layout
      /\ pc' = "segment" /\ done' = 0
      /\ UNCHANGED <<seg, at, next_data, fill_state, data_bytes, poisoned, image, arrivals>>
  BY DEF GapDone, openVars, sinkVars
<1>2. TypeInv /\ PassInv /\ OnceInv /\ ContentInv
  BY DEF IInv
<1>3. OnceInv' /\ ContentInv' /\ Grows
  BY <1>1, <1>2, NoCallOfSink DEF Grows
<1>4. at \in Nat /\ at = GapEnd /\ GapEnd = TheSegment.block
  BY <1>1, <1>2, GapEnds DEF GapEnd
<1>5. seg \in DOMAIN layout.segments
  BY <1>1, <1>2, Shapes DEF PassInv, Between, MoreSegments
<1>6. TheSegment.len \in Nat
  BY <1>2, <1>5, SegmentShape DEF TheSegment
<1>7. PassInv'
  <2>1. Between(at, seg, next_data)'
    BY <1>1, <1>2 DEF PassInv, Between
  <2>2. MoreSegments' /\ TheSegment' = TheSegment
    BY <1>1 DEF MoreSegments, TheSegment
  <2>3. 0 \in 0 .. TheSegment.len
    BY <1>6
  <2>4. QED
    BY <1>1, <1>4, <2>1, <2>2, <2>3 DEF PassInv
<1>8. \A u \in Addresses : arrivals'[u] = 1 <=> Block(u) < at' + done' /\ Block(u) \notin DataBlocks
  <2>1. at' + done' = at
    BY <1>1, <1>4
  <2>2. ~poisoned
    BY <1>1 DEF IInv, PoisonInv
  <2>3. QED
    BY <1>1, <2>1, <2>2 DEF IInv, SentInv, Sent
<1>9. QED
  BY <1>1, <1>3, <1>7, <1>8, PassKeeps

\* A call with a part of a segment.
LEMMA SegmentCall ==
  ASSUME IInv, pc = "segment", done < TheSegment.len, layout' = layout,
         Emit((TheSegment.block + done) * BlockUnits, PartContent)
  PROVE  /\ OnceInv' /\ ContentInv' /\ Grows
         /\ done + PartLen \in 0 .. TheSegment.len
         /\ \A u \in Addresses :
              arrivals'[u] = 1 <=> Block(u) < at + (done + PartLen) /\ Block(u) \notin DataBlocks
<1>1. TypeInv /\ OnceInv /\ ContentInv /\ PassInv
  BY DEF IInv
<1>2. /\ seg \in DOMAIN layout.segments /\ at = TheSegment.block
      /\ done \in 0 .. TheSegment.len /\ TheSegment = layout.segments[seg]
  BY <1>1, Shapes DEF PassInv, Between, MoreSegments, TheSegment
<1>3. PICK g : g = TheSegment
  OBVIOUS
<1>4. /\ g.block \in Nat /\ g.len \in Nat \ {0} /\ g.used \in Nat
      /\ g.used <= g.len /\ (~g.itable => g.used = g.len)
      /\ SegEnd(g) = g.block + g.len /\ SegEnd(g) <= layout.blocks
      /\ SegBlocks(g) = g.block .. SegEnd(g) - 1
  BY <1>1, <1>2, <1>3, SegmentShape
<1>5. PICK n : n = PartLen
  OBVIOUS
<1>6. /\ n \in Nat \ {0} /\ done + n <= g.len /\ done \in Nat
      /\ done < g.used => done + n <= g.used
  <2>1. done \in 0 .. g.len /\ done < g.len
    BY <1>2, <1>3
  <2>2. n = IF g.itable /\ done < g.used THEN 1 ELSE g.len - done
    BY <1>3, <1>5 DEF PartLen
  <2>3. QED
    BY <1>4, <2>1, <2>2
<1>7. PICK x \in Nat : x = g.block + done
  BY <1>4, <1>6
<1>8. PICK off \in Nat, len \in Nat : off = x * BlockUnits /\ len = n * BlockUnits
  BY <1>1, <1>6, <1>7, UnitsOfBlocks
<1>9. /\ \A u \in Nat : Block(u) \in x .. x + n - 1 <=> u \in off .. off + len - 1
      /\ \A u \in Nat : Block(u) \in Nat
  BY <1>1, <1>6, <1>7, <1>8, UnitsOfBlocks, AddressFacts
<1>10. \A b \in x .. x + n - 1 : b \in SegBlocks(g) /\ b < layout.blocks
  <2>1. layout.blocks \in Nat
    BY <1>1, Shapes
  <2>2. QED
    BY <1>4, <1>6, <1>7, <2>1
<1>11. \A b \in x .. x + n - 1 : b \notin DataBlocks
  BY <1>1, <1>2, <1>3, <1>10, DataApart
<1>12. PICK data : data = PartContent
  OBVIOUS
<1>13. data = [k \in 0 .. len - 1 |-> IF done < g.used THEN MetaUnit(seg, done * BlockUnits + k) ELSE Zero]
  BY <1>3, <1>5, <1>8, <1>12 DEF PartContent
<1>14. \A u \in Addresses : u \in Nat /\ (arrivals[u] = 1 <=> Block(u) < x /\ Block(u) \notin DataBlocks)
                            /\ arrivals[u] \in {0, 1}
  <2>1. ~poisoned /\ at + done = x
    BY <1>2, <1>3, <1>7 DEF IInv, PoisonInv
  <2>2. QED
    BY <1>1, <2>1, AddressFacts DEF IInv, SentInv, Sent, OnceInv
<1>15. ASSUME NEW u \in off .. off + len - 1
       PROVE  u < ImageLen /\ (u \in Addresses => arrivals[u] = 0) /\ Right(u, data[u - off])
  <2>1. u \in Nat /\ Block(u) \in x .. x + n - 1 /\ Block(u) \in Nat
    BY <1>9
  <2>2. u < ImageLen
    BY <1>1, <1>10, <2>1, AddressFacts
  <2>3. u \in Addresses => arrivals[u] = 0
    BY <1>7, <1>14, <2>1
  <2>4. u - off \in 0 .. len - 1
    OBVIOUS
  <2>5. CASE done < g.used
    <3>1. PICK k \in Nat : k = done * BlockUnits + (u - off)
      <4>1. done * BlockUnits \in Nat
        BY <1>1, <1>6, AddressFacts
      <4>2. QED
        BY <2>4, <4>1
    <3>2. u = g.block * BlockUnits + k
      <4>1. (g.block + done) * BlockUnits = g.block * BlockUnits + done * BlockUnits
        BY <1>1, <1>4, <1>6, Shapes
      <4>2. g.block * BlockUnits \in Nat /\ done * BlockUnits \in Nat
        BY <1>1, <1>4, <1>6, AddressFacts
      <4>3. QED
        BY <1>7, <1>8, <3>1, <4>1, <4>2
    <3>3. k \in 0 .. g.used * BlockUnits - 1
      <4>1. Block(u) < g.block + g.used
        BY <1>4, <1>6, <1>7, <2>1, <2>5
      <4>2. u < (g.block + g.used) * BlockUnits
        <5>1. PICK y \in Nat : y = g.block + g.used
          BY <1>4
        <5>2. u < y * BlockUnits
          BY <1>1, <2>1, <4>1, <5>1, AddressFacts
        <5>3. QED
          BY <5>1, <5>2
      <4>3. (g.block + g.used) * BlockUnits = g.block * BlockUnits + g.used * BlockUnits
        BY <1>1, <1>4, Shapes
      <4>4. g.block * BlockUnits \in Nat /\ g.used * BlockUnits \in Nat
        BY <1>1, <1>4, AddressFacts
      <4>5. QED
        BY <3>2, <4>2, <4>3, <4>4
    <3>4. Right(u, MetaUnit(seg, k))
      BY <1>1, <1>2, <1>3, <3>2, <3>3, RightSegment
    <3>5. data[u - off] = MetaUnit(seg, k)
      BY <1>13, <2>4, <2>5, <3>1
    <3>6. QED
      BY <2>2, <2>3, <3>4, <3>5
  <2>6. CASE ~ (done < g.used)
    <3>1. ~ (Block(u) < g.block + g.used)
      BY <1>4, <1>6, <1>7, <2>1, <2>6
    <3>2. ASSUME NEW i \in DOMAIN layout.segments
          PROVE  \/ Block(u) \notin SegBlocks(layout.segments[i])
                 \/ ~ (Block(u) < layout.segments[i].block + layout.segments[i].used)
      <4>1. CASE i = seg
        BY <1>2, <1>3, <3>1, <4>1
      <4>2. CASE i # seg
        BY <1>1, <1>2, <1>3, <1>10, <2>1, <4>2, SegmentsApart
      <4>3. QED
        BY <4>1, <4>2
    <3>3. Right(u, Zero)
      BY <1>1, <1>11, <2>1, <3>2, RightNothing
    <3>4. data[u - off] = Zero
      BY <1>13, <2>4, <2>6
    <3>5. QED
      BY <2>2, <2>3, <3>3, <3>4
  <2>7. QED
    BY <2>5, <2>6
<1>16. DOMAIN data = 0 .. len - 1 /\ Emit(off, data)
  BY <1>3, <1>7, <1>8, <1>12, <1>13
<1>17. /\ OnceInv' /\ ContentInv'
       /\ \A u \in Addresses : arrivals'[u] = 1 <=> arrivals[u] = 1 \/ u \in off .. off + len - 1
  BY <1>1, <1>15, <1>16, EmitLands
<1>18. ASSUME NEW u \in Addresses
       PROVE  arrivals'[u] = 1 <=> Block(u) < at + (done + n) /\ Block(u) \notin DataBlocks
  <2>1. u \in Nat /\ Block(u) \in Nat
    BY <1>9, <1>14
  <2>2. Block(u) < at + (done + n) <=> Block(u) < x \/ Block(u) \in x .. x + n - 1
    BY <1>2, <1>3, <1>4, <1>6, <1>7, <2>1
  <2>3. QED
    BY <1>9, <1>11, <1>14, <1>17, <2>1, <2>2
<1>19. done + n \in 0 .. g.len
  BY <1>4, <1>6
<1>20. QED
  BY <1>3, <1>5, <1>17, <1>18, <1>19 DEF Grows

LEMMA EmitPartStep ==
  ASSUME IInv, EmitPart
  PROVE  IInv' /\ Grows
<1>1. /\ pc = "segment" /\ done < TheSegment.len /\ layout' = layout
      /\ Emit((TheSegment.block + done) * BlockUnits, PartContent)
      /\ done' = done + PartLen
      /\ UNCHANGED <<pc, seg, at, next_data, fill_state, data_bytes, poisoned>>
  BY DEF EmitPart, openVars
<1>2. /\ OnceInv' /\ ContentInv' /\ Grows
      /\ done' \in 0 .. TheSegment.len
      /\ \A u \in Addresses : arrivals'[u] = 1 <=> Block(u) < at + done' /\ Block(u) \notin DataBlocks
  BY <1>1, SegmentCall
<1>3. PassInv'
  <2>1. PassInv
    BY DEF IInv
  <2>2. Between(at, seg, next_data)'
    BY <1>1, <2>1 DEF PassInv, Between
  <2>3. MoreSegments' /\ TheSegment' = TheSegment /\ at' = TheSegment.block
    BY <1>1, <2>1 DEF MoreSegments, TheSegment, PassInv
  <2>4. QED
    BY <1>1, <1>2, <2>2, <2>3 DEF PassInv
<1>4. QED
  BY <1>1, <1>2, <1>3, PassKeeps

LEMMA SegmentDoneStep ==
  ASSUME IInv, SegmentDone
  PROVE  IInv' /\ Grows
<1>1. /\ pc = "segment" /\ done = TheSegment.len /\ layout' = layout
      /\ at' = SegEnd(TheSegment) /\ seg' = seg + 1 /\ pc' = "gap"
      /\ UNCHANGED <<done, next_data, fill_state, data_bytes, poisoned, image, arrivals>>
  BY DEF SegmentDone, openVars, sinkVars
<1>2. TypeInv /\ PassInv /\ OnceInv /\ ContentInv
  BY DEF IInv
<1>3. OnceInv' /\ ContentInv' /\ Grows
  BY <1>1, <1>2, NoCallOfSink DEF Grows
<1>4. /\ seg \in DOMAIN layout.segments /\ at = TheSegment.block
      /\ TheSegment = layout.segments[seg] /\ Between(at, seg, next_data)
  BY <1>1, <1>2, Shapes DEF PassInv, Between, MoreSegments, TheSegment
<1>5. PICK g : g = TheSegment
  OBVIOUS
<1>6. /\ g.block \in Nat /\ g.len \in Nat \ {0}
      /\ SegEnd(g) \in Nat /\ SegEnd(g) = g.block + g.len /\ SegEnd(g) <= layout.blocks
  BY <1>2, <1>4, <1>5, SegmentShape
<1>7. Between(SegEnd(g), seg + 1, next_data)
  <2>1. layout.blocks \in Nat /\ SegEnd(g) \in 0 .. layout.blocks
    <3>1. layout.blocks \in Nat
      BY <1>2, Shapes
    <3>2. QED
      BY <1>6, <3>1
  <2>2. seg \in Nat /\ DOMAIN layout.segments = 1 .. Len(layout.segments) /\ Len(layout.segments) \in Nat
        /\ seg + 1 \in 1 .. Len(layout.segments) + 1
    BY <1>2, <1>4, Shapes
  <2>3. ASSUME NEW i \in DOMAIN layout.segments
        PROVE  /\ i < seg + 1 => SegEnd(layout.segments[i]) <= SegEnd(g)
               /\ i >= seg + 1 => SegEnd(g) <= layout.segments[i].block
    <3>1. SegEnd(layout.segments[i]) \in Nat /\ layout.segments[i].block \in Nat
      BY <1>2, SegmentShape
    <3>2. i \in Nat
      BY <2>2
    <3>3. CASE i = seg
      BY <1>4, <1>5, <1>6, <2>2, <3>3
    <3>4. CASE i < seg
      <4>1. SegEnd(layout.segments[i]) <= at
        BY <1>4, <3>4 DEF Between
      <4>2. QED
        BY <1>4, <1>5, <1>6, <2>2, <3>1, <3>2, <3>4, <4>1
    <3>5. CASE seg < i
      <4>1. SegEnd(layout.segments[seg]) <= layout.segments[i].block
        BY <1>2, <1>4, <3>5, Shapes DEF LayoutOK, SegmentsAscend
      <4>2. QED
        BY <1>4, <1>5, <2>2, <3>2, <3>5, <4>1
    <3>6. QED
      BY <2>2, <3>2, <3>3, <3>4, <3>5
  <2>4. ASSUME NEW i \in DOMAIN layout.data_runs
        PROVE  /\ i < next_data => RunEnd(layout.data_runs[i]) <= SegEnd(g)
               /\ \/ RunEnd(layout.data_runs[i]) <= SegEnd(g)
                  \/ SegEnd(g) <= layout.data_runs[i].start
    <3>1. RunEnd(layout.data_runs[i]) \in Nat /\ layout.data_runs[i].start \in Nat
      BY <1>2, DataRunShape
    <3>2. RunEnd(layout.data_runs[i]) <= g.block \/ SegEnd(g) <= layout.data_runs[i].start
      BY <1>2, <1>4, <1>5, DataRunAndSegment
    <3>3. i < next_data => RunEnd(layout.data_runs[i]) <= g.block
      BY <1>4, <1>5 DEF Between
    <3>4. QED
      BY <1>6, <3>1, <3>2, <3>3
  <2>5. next_data \in 1 .. Len(layout.data_runs) + 1
    BY <1>4 DEF Between
  <2>6. QED
    BY <2>1, <2>2, <2>3, <2>4, <2>5 DEF Between
<1>8. PassInv'
  <2>1. Between(at, seg, next_data)'
    BY <1>1, <1>5, <1>7 DEF Between
  <2>2. QED
    BY <1>1, <2>1 DEF PassInv
<1>9. \A u \in Addresses : arrivals'[u] = 1 <=> Block(u) < at' /\ Block(u) \notin DataBlocks
  <2>1. at + done = at'
    BY <1>1, <1>4, <1>5, <1>6
  <2>2. ~poisoned
    BY <1>1 DEF IInv, PoisonInv
  <2>3. QED
    BY <1>1, <2>1, <2>2 DEF IInv, SentInv, Sent
<1>10. QED
  BY <1>1, <1>3, <1>8, <1>9, PassKeeps

-----------------------------------------------------------------------------
(* Before and after the metadata pass. *)

LEMMA FilesFinite ==
  ASSUME TypeInv
  PROVE  /\ IsFiniteSet(Files) /\ 0 \notin Files
         /\ \A S \in SUBSET Files : IsFiniteSet(S)
         /\ \A s \in Files : layout.files[s].size \in Nat
<1>1. layout.files \in Seq(File)
  BY Shapes DEF LayoutOK
<1>2. PICK n \in Nat : Files = 1 .. n
  BY <1>1 DEF Files
<1>3. IsFiniteSet(Files)
  <2>1. IsFiniteSet(1 .. n)
    BY FS_Interval
  <2>2. QED
    BY <1>2, <2>1
<1>4. 0 \notin Files
  BY <1>2
<1>5. \A S \in SUBSET Files : IsFiniteSet(S)
  BY <1>3, FS_Subset
<1>6. \A s \in Files : layout.files[s].size \in Nat
  BY Shapes
<1>7. QED
  BY <1>3, <1>4, <1>5, <1>6

LEMMA SumOfNothing == \A g : SumOf(g, {}) = 0
<1>1. \A g : Units(g, {}) = {}
  BY UnitMember
<1>2. Cardinality({}) = 0
  BY FS_EmptySet
<1>3. \A g, S : SumOf(g, S) = Cardinality(Units(g, S))
  BY DEF SumOf, Units
<1>4. QED
  BY <1>1, <1>2, <1>3

LEMMA SameFill ==
  ASSUME layout' = layout
  PROVE  /\ \A s, i, left : AtRun(s, i, left)' <=> AtRun(s, i, left)
         /\ \A s, i, off, bytes, left : InRun(s, i, off, bytes, left)' <=> InRun(s, i, off, bytes, left)
         /\ \A u, state, s, i, off : SentOpen(u, state, s, i, off)' <=> SentOpen(u, state, s, i, off)
<1>1. /\ Files' = Files /\ ImageLen' = ImageLen
      /\ \A s : extents(s)' = extents(s)
      /\ \A u, s : InFile(u, s)' <=> InFile(u, s)
  BY SameLayout
<1>2. \A s, i, left : AtRun(s, i, left)' <=> AtRun(s, i, left)
  BY <1>1 DEF AtRun
<1>3. \A s, i, off, bytes, left : InRun(s, i, off, bytes, left)' <=> InRun(s, i, off, bytes, left)
  BY <1>1 DEF InRun
<1>4. \A u, s, i, off : PartOf(u, s, i, off)' <=> PartOf(u, s, i, off)
  BY DEF PartOf, Block
<1>5. \A u, state, s, i, off : SentOpen(u, state, s, i, off)' <=> SentOpen(u, state, s, i, off)
  BY <1>1, <1>4 DEF SentOpen
<1>6. QED
  BY <1>2, <1>3, <1>5

\* A step to a writer that is open.
LEMMA OpenKeeps ==
  ASSUME IInv, layout' = layout, pc' \in {"open", "run", "chunk", "finished"}, poisoned' = FALSE,
         fill_state' \in [Files -> {"NotFillable", "Pending", "Done"}],
         OnceInv', ContentInv', OpenInv', RunInv',
         \A u \in Addresses : arrivals'[u] = 1 <=> SentOpen(u, fill_state', Filling', run', Reached')
  PROVE  IInv'
<1>1. TypeInv'
  <2>1. Files' = Files
    BY DEF Files
  <2>2. QED
    BY <2>1 DEF IInv, TypeInv
<1>2. PassInv' /\ PoisonInv' /\ MissingInv'
  BY DEF PassInv, PoisonInv, MissingInv
<1>3. SentInv'
  <2>1. Addresses' = Addresses
    BY SameLayout
  <2>2. ASSUME NEW u \in Addresses PROVE arrivals'[u] = 1 <=> Sent(u)'
    <3>1. SentOpen(u, fill_state, Filling, run, Reached)'
            <=> SentOpen(u, fill_state', Filling', run', Reached')
      BY SameFill
    <3>2. Sent(u)' <=> SentOpen(u, fill_state, Filling, run, Reached)'
      BY DEF Sent
    <3>3. QED
      BY <2>2, <3>1, <3>2
  <2>3. QED
    BY <2>1, <2>2 DEF SentInv
<1>4. QED
  BY <1>1, <1>2, <1>3 DEF IInv

\* The writer is gone, after a call that left something or nothing.
LEMMA DroppedStep ==
  ASSUME IInv, Dropped, OnceInv', ContentInv'
  PROVE  IInv'
<1>1. /\ pc' = "none" /\ layout' = layout /\ fill_state' = NotFillable /\ poisoned' = FALSE
  BY DEF Dropped, ResetWriter
<1>2. TypeInv'
  <2>1. Files' = Files
    BY <1>1 DEF Files
  <2>2. NotFillable \in [Files -> {"NotFillable", "Pending", "Done"}]
    BY DEF NotFillable
  <2>3. QED
    BY <1>1, <2>1, <2>2 DEF IInv, TypeInv
<1>3. PassInv' /\ OpenInv' /\ RunInv' /\ PoisonInv' /\ SentInv' /\ MissingInv'
  BY <1>1 DEF PassInv, OpenInv, RunInv, PoisonInv, SentInv, MissingInv
<1>4. QED
  BY <1>2, <1>3 DEF IInv

LEMMA InitInv == Init => IInv
<1> SUFFICES ASSUME Init PROVE IInv
  OBVIOUS
<1>1. /\ layout \in Layouts /\ pc = "none" /\ fill_state = NotFillable /\ poisoned = FALSE
      /\ image = [u \in Addresses |-> Zero] /\ arrivals = [u \in Addresses |-> 0]
  BY DEF Init
<1>2. TypeInv /\ OnceInv
  <2>1. NotFillable \in [Files -> {"NotFillable", "Pending", "Done"}]
    BY DEF NotFillable
  <2>2. TypeInv
    BY <1>1, <2>1 DEF TypeInv
  <2>3. arrivals \in [Addresses -> {0, 1}] /\ \A u \in Addresses : arrivals[u] = 0
    BY <1>1
  <2>4. QED
    BY <2>2, <2>3 DEF OnceInv
<1>3. ContentInv
  BY <1>1 DEF ContentInv
<1>4. PassInv /\ OpenInv /\ RunInv /\ PoisonInv /\ SentInv /\ MissingInv
  BY <1>1 DEF PassInv, OpenInv, RunInv, PoisonInv, SentInv, MissingInv
<1>5. QED
  BY <1>2, <1>3, <1>4 DEF IInv

LEMMA NewWriterStep ==
  ASSUME IInv, NewWriter
  PROVE  IInv'
<1>1. /\ layout' = layout /\ image' = image /\ pc' = "gap" /\ pc \in {"none", "finished"}
      /\ seg' = 1 /\ done' = 0 /\ at' = 0 /\ next_data' = 1
      /\ fill_state' = NotFillable /\ data_bytes' = 0 /\ poisoned' = FALSE
      /\ arrivals' = [u \in Addresses |-> 0]
  BY DEF NewWriter, ResetWriter
<1>2. TypeInv
  BY DEF IInv
<1>3. TypeInv'
  <2>1. Files' = Files
    BY <1>1 DEF Files
  <2>2. NotFillable \in [Files -> {"NotFillable", "Pending", "Done"}]
    BY DEF NotFillable
  <2>3. QED
    BY <1>1, <2>1, <2>2 DEF IInv, TypeInv
<1>4. Addresses' = Addresses /\ ImageLen' = ImageLen /\ Zero' = Zero
  BY <1>1, SameLayout DEF Zero
<1>5. OnceInv'
  BY <1>1, <1>4 DEF OnceInv
<1>6. ContentInv'
  BY <1>1, <1>4 DEF IInv, ContentInv
<1>7. Between(0, 1, 1)
  <2>1. /\ layout.blocks \in Nat /\ Len(layout.segments) \in Nat /\ Len(layout.data_runs) \in Nat
        /\ DOMAIN layout.segments = 1 .. Len(layout.segments)
        /\ DOMAIN layout.data_runs = 1 .. Len(layout.data_runs)
    BY <1>2, Shapes
  <2>2. \A i \in DOMAIN layout.segments : layout.segments[i].block \in Nat
    BY <1>2, SegmentShape
  <2>3. \A i \in DOMAIN layout.data_runs : layout.data_runs[i].start \in Nat
    BY <1>2, DataRunShape
  <2>4. QED
    BY <2>1, <2>2, <2>3 DEF Between
<1>8. PassInv'
  <2>1. Between(at, seg, next_data)'
    BY <1>1, <1>7 DEF Between
  <2>2. QED
    BY <1>1, <2>1 DEF PassInv
<1>9. OpenInv' /\ RunInv' /\ PoisonInv' /\ MissingInv'
  BY <1>1 DEF OpenInv, RunInv, PoisonInv, MissingInv
<1>10. SentInv'
  <2>1. ASSUME NEW u \in Addresses PROVE arrivals'[u] = 1 <=> Sent(u)'
    <3>1. Block(u)' \in Nat
      <4>1. Block(u) \in Nat /\ Block(u)' = Block(u)
        BY <1>2, AddressFacts DEF Block
      <4>2. QED
        BY <4>1
    <3>2. ~ Sent(u)'
      BY <1>1, <3>1 DEF Sent
    <3>3. QED
      BY <1>1, <3>2
  <2>2. QED
    BY <1>4, <2>1 DEF SentInv
<1>11. QED
  BY <1>3, <1>5, <1>6, <1>8, <1>9, <1>10 DEF IInv

LEMMA OpenedStep ==
  ASSUME IInv, Opened
  PROVE  IInv' /\ Grows
<1>1. /\ pc = "gap" /\ ~MoreSegments /\ at >= GapEnd /\ pc' = "open"
      /\ fill_state' = [s \in Files |-> IF layout.files[s].runs = <<>> THEN "NotFillable" ELSE "Pending"]
      /\ pending' = Cardinality({s \in Files : layout.files[s].runs # <<>>})
      /\ UNCHANGED <<layout, data_bytes, poisoned, image, arrivals>>
  BY DEF Opened, sinkVars
<1>2. TypeInv /\ PassInv /\ OnceInv /\ ContentInv
  BY DEF IInv
<1>3. OnceInv' /\ ContentInv' /\ Grows
  BY <1>1, <1>2, NoCallOfSink DEF Grows
<1>4. poisoned' = FALSE /\ data_bytes' = 0
  BY <1>1 DEF IInv, PoisonInv, OpenInv, TypeInv
<1>5. at = layout.blocks
  BY <1>1, <1>2, GapEnds, Shapes DEF GapEnd
<1>6. Files' = Files
  BY <1>1 DEF Files
<1>7. OpenInv'
  <2>1. {s \in Files : fill_state'[s] = "Pending"} = {s \in Files : layout.files[s].runs # <<>>}
    BY <1>1
  <2>2. {s \in Files : fill_state'[s] = "Done"} = {}
    BY <1>1
  <2>3. \A s \in Files : fill_state'[s] = "NotFillable" <=> layout.files[s].runs = <<>>
    BY <1>1
  <2>4. SumOf([s \in Files |-> layout.files[s].size], {}) = 0
    BY SumOfNothing
  <2>5. data_bytes' = SumOf([s \in Files |-> layout.files[s].size], {s \in Files : fill_state'[s] = "Done"})
    BY <1>4, <2>2, <2>4
  <2>6. QED
    BY <1>1, <1>6, <2>1, <2>3, <2>5 DEF OpenInv, SumOf
<1>8. RunInv'
  BY <1>1 DEF RunInv
<1>9. ASSUME NEW u \in Addresses
      PROVE  arrivals'[u] = 1 <=> SentOpen(u, fill_state', Filling', run', Reached')
  <2>1. arrivals'[u] = 1 <=> Block(u) < layout.blocks /\ Block(u) \notin DataBlocks
    BY <1>1, <1>4, <1>5 DEF IInv, SentInv, Sent
  <2>2. u \in Nat /\ (u < ImageLen <=> Block(u) < layout.blocks)
    BY <1>2, AddressFacts
  <2>3. Block(u) \in DataBlocks <=> \E f \in Files : InFile(u, f)
    BY <1>2, DataIsInFiles, InFileIsData DEF InFile, Block
  <2>4. Filling' = 0 /\ 0 \notin Files /\ \A f \in Files : fill_state'[f] # "Done"
    BY <1>1, <1>2, FilesFinite DEF Filling
  <2>5. SentOpen(u, fill_state', Filling', run', Reached') <=> u < ImageLen /\ \A f \in Files : ~ InFile(u, f)
    BY <2>4 DEF SentOpen
  <2>6. QED
    BY <2>1, <2>2, <2>3, <2>5
<1>10. fill_state' \in [Files -> {"NotFillable", "Pending", "Done"}]
  BY <1>1
<1>11. QED
  BY <1>1, <1>3, <1>4, <1>7, <1>8, <1>9, <1>10, OpenKeeps

LEMMA MetadataFailsStep ==
  ASSUME IInv, MetadataFails
  PROVE  IInv' /\ Grows
<1>1. Dropped /\ layout' = layout
  BY DEF MetadataFails, Dropped
<1>2. TypeInv /\ OnceInv /\ ContentInv
  BY DEF IInv
<1>3. OnceInv' /\ ContentInv' /\ Grows
  <2>1. CASE UNCHANGED sinkVars
    BY <1>1, <1>2, <2>1, NoCallOfSink DEF sinkVars, Grows
  <2>2. CASE /\ pc = "gap"
             /\ LET to == IF RunInGap THEN DataRun.start ELSE GapEnd
                IN Emit(at * BlockUnits, ZeroUnits((to - at) * BlockUnits))
    BY <1>1, <2>2, GapCall
  <2>3. CASE /\ pc = "segment" /\ done < TheSegment.len
             /\ Emit((TheSegment.block + done) * BlockUnits, PartContent)
    BY <1>1, <2>3, SegmentCall
  <2>4. QED
    BY <2>1, <2>2, <2>3 DEF MetadataFails, EmitFails
<1>4. QED
  BY <1>1, <1>3, DroppedStep

LEMMA AbandonStep ==
  ASSUME IInv, Abandon
  PROVE  IInv' /\ UNCHANGED sinkVars
<1>1. Dropped /\ layout' = layout /\ UNCHANGED sinkVars
  BY DEF Abandon, Dropped
<1>2. OnceInv' /\ ContentInv'
  BY <1>1, NoCallOfSink DEF IInv, sinkVars
<1>3. QED
  BY <1>1, <1>2, DroppedStep

-----------------------------------------------------------------------------
(* fill() *)

\* Once the metadata pass is over, what is missing is due to files not filled.
LEMMA MissingFromSent ==
  ASSUME IInv, pc \in {"open", "run", "chunk", "finished"}
  PROVE  Missing
<1>1. TypeInv /\ OnceInv
  BY DEF IInv
<1>2. CASE poisoned
  BY <1>2 DEF IInv, MissingInv
<1>3. CASE ~poisoned
  <2>1. ASSUME NEW u \in 0 .. ImageLen - 1, arrivals[u] # 1
        PROVE  \E s \in Files : InFile(u, s) /\ fill_state[s] = "Pending"
    <3>1. u \in Addresses /\ u < ImageLen
      BY <1>1, AddressFacts
    <3>2. ~ SentOpen(u, fill_state, Filling, run, Reached)
      BY <1>3, <2>1, <3>1 DEF IInv, SentInv, Sent
    <3>3. PICK f \in Files : InFile(u, f) /\ fill_state[f] # "Done"
      BY <3>1, <3>2 DEF SentOpen
    <3>4. layout.files[f].runs # <<>>
      BY <3>3 DEF InFile, FileBlocksOf
    <3>5. fill_state[f] # "NotFillable" /\ fill_state[f] \in {"NotFillable", "Pending", "Done"}
      BY <1>1, <3>4 DEF IInv, OpenInv, TypeInv
    <3>6. QED
      BY <3>3, <3>5
  <2>2. QED
    BY <2>1 DEF Missing
<1>4. QED
  BY <1>2, <1>3

LEMMA NotPoisoned ==
  ASSUME IInv, pc \in {"run", "chunk"}
  PROVE  /\ poisoned = FALSE /\ slot \in Files /\ fill_state[slot] = "Pending"
         /\ \A u \in Addresses : arrivals[u] = 1 <=> SentOpen(u, fill_state, slot, run, Reached)
<1>1. poisoned = FALSE
  BY DEF IInv, PoisonInv, TypeInv
<1>2. slot \in Files /\ fill_state[slot] = "Pending"
  BY DEF IInv, RunInv, AtRun, InRun
<1>3. Filling = slot
  BY DEF Filling
<1>4. \A u \in Addresses : arrivals[u] = 1 <=> SentOpen(u, fill_state, slot, run, Reached)
  BY <1>1, <1>3 DEF IInv, SentInv, Sent
<1>5. QED
  BY <1>1, <1>2, <1>4

LEMMA RunNumber ==
  ASSUME TypeInv, NEW s \in Files, NEW i \in DOMAIN layout.files[s].runs
  PROVE  i \in Nat \ {0} /\ i <= Len(layout.files[s].runs) /\ Len(layout.files[s].runs) \in Nat
<1>1. layout.files[s].runs \in Seq(Run)
  BY Shapes
<1>2. QED
  BY <1>1

LEMMA BlocksAdd ==
  ASSUME NEW b \in Nat \ {0}, NEW x \in Nat, NEW y \in Nat
  PROVE  /\ (x + y) * b = x * b + y * b /\ (x + y - 1) * b = x * b + y * b - b
         /\ (y - 1) * b = y * b - b
OBVIOUS

\* n units more of the current run, at offset, if they are what belongs there.
LEMMA RunCall ==
  ASSUME IInv, pc = "chunk", layout' = layout,
         NEW n \in Nat, NEW data, DOMAIN data = 0 .. n - 1, Emit(offset, data),
         \A k \in 0 .. n - 1 :
           /\ offset + k < ImageLen /\ Block(offset + k) \in BlocksOf(layout.files[slot].runs[run])
           /\ Right(offset + k, data[k])
  PROVE  /\ OnceInv' /\ ContentInv' /\ Grows
         /\ \A u \in Addresses : arrivals'[u] = 1 <=> SentOpen(u, fill_state, slot, run, offset + n)
<1>1. TypeInv /\ OnceInv /\ ContentInv
  BY DEF IInv
<1>2. /\ slot \in Files /\ fill_state[slot] = "Pending"
      /\ \A u \in Addresses : arrivals[u] = 1 <=> SentOpen(u, fill_state, slot, run, offset)
  BY NotPoisoned DEF Reached
<1>3. run \in DOMAIN layout.files[slot].runs /\ offset \in Nat
  BY DEF IInv, RunInv, InRun
<1>4. PICK r : r = layout.files[slot].runs[run]
  OBVIOUS
<1>5. ASSUME NEW u \in offset .. offset + n - 1
      PROVE  u < ImageLen /\ Block(u) \in BlocksOf(r) /\ Right(u, data[u - offset])
  <2>1. u - offset \in 0 .. n - 1 /\ offset + (u - offset) = u
    BY <1>3
  <2>2. QED
    BY <1>4, <2>1
<1>6. ASSUME NEW u, Block(u) \in BlocksOf(r), NEW f \in Files, NEW j \in DOMAIN layout.files[f].runs,
             Block(u) \in BlocksOf(layout.files[f].runs[j])
      PROVE  f = slot /\ j = run
  BY <1>1, <1>2, <1>3, <1>4, <1>6, RunsApart
<1>7. ASSUME NEW u \in offset .. offset + n - 1, u \in Addresses
      PROVE  arrivals[u] = 0
  <2>1. InFile(u, slot) /\ Block(u) \in BlocksOf(r)
    BY <1>2, <1>3, <1>4, <1>5, <1>7 DEF InFile, FileBlocksOf, Block
  <2>2. ~ PartOf(u, slot, run, offset)
    <3>1. ASSUME NEW j \in DOMAIN layout.files[slot].runs,
                 Block(u) \in BlocksOf(layout.files[slot].runs[j]), j < run \/ (j = run /\ u < offset)
          PROVE  FALSE
      <4>1. j = run
        BY <1>2, <1>6, <2>1, <3>1
      <4>2. run \in Nat
        BY <1>1, <1>2, <1>3, RunNumber
      <4>3. QED
        BY <1>3, <3>1, <4>1, <4>2
    <3>2. QED
      BY <3>1 DEF PartOf
  <2>3. ~ SentOpen(u, fill_state, slot, run, offset)
    BY <1>2, <2>1, <2>2 DEF SentOpen
  <2>4. QED
    BY <1>1, <1>2, <1>7, <2>3 DEF OnceInv
<1>8. /\ OnceInv' /\ ContentInv'
      /\ \A u \in Addresses : arrivals'[u] = 1 <=> arrivals[u] = 1 \/ u \in offset .. offset + n - 1
  BY <1>1, <1>3, <1>5, <1>7, EmitLands
<1>9. ASSUME NEW u \in Addresses
       PROVE  SentOpen(u, fill_state, slot, run, offset + n)
                <=> SentOpen(u, fill_state, slot, run, offset) \/ u \in offset .. offset + n - 1
  <2>1. u \in Nat
    BY <1>1, AddressFacts
  <2>2. u < offset + n <=> u < offset \/ u \in offset .. offset + n - 1
    BY <1>3, <2>1
  <2>3. ASSUME u \in offset .. offset + n - 1 PROVE SentOpen(u, fill_state, slot, run, offset + n)
    <3>1. u < ImageLen /\ Block(u) \in BlocksOf(r)
      BY <1>5, <2>3
    <3>2. ASSUME NEW f \in Files, InFile(u, f) PROVE f = slot /\ PartOf(u, f, run, offset + n)
      <4>1. PICK j \in DOMAIN layout.files[f].runs : Block(u) \in BlocksOf(layout.files[f].runs[j])
        BY <3>2 DEF InFile, FileBlocksOf, Block
      <4>2. f = slot /\ j = run
        BY <1>6, <3>1, <4>1
      <4>3. QED
        BY <2>2, <2>3, <4>1, <4>2 DEF PartOf
    <3>3. QED
      BY <3>1, <3>2 DEF SentOpen
  <2>4. ASSUME u \notin offset .. offset + n - 1, NEW f
        PROVE  PartOf(u, f, run, offset + n) <=> PartOf(u, f, run, offset)
    BY <2>2, <2>4 DEF PartOf
  <2>5. ASSUME u \notin offset .. offset + n - 1
        PROVE  SentOpen(u, fill_state, slot, run, offset + n) <=> SentOpen(u, fill_state, slot, run, offset)
    BY <2>4, <2>5 DEF SentOpen
  <2>6. QED
    BY <2>3, <2>5
<1>10. QED
  BY <1>2, <1>8, <1>9 DEF Grows

\* A call with bytes of the file, whether or not it is reported to have failed.
LEMMA ChunkCall ==
  ASSUME IInv, pc = "chunk", run_bytes > 0, layout' = layout, Emit(offset, FileContent)
  PROVE  /\ Want \in Nat /\ Want <= run_bytes
         /\ OnceInv' /\ ContentInv' /\ Grows
         /\ \A u \in Addresses : arrivals'[u] = 1 <=> SentOpen(u, fill_state, slot, run, offset + Want)
<1>1. TypeInv
  BY DEF IInv
<1>2. InRun(slot, run, offset, run_bytes, remaining)
  BY DEF IInv, RunInv
<1>3. PICK e : e = extents(slot)[run]
  OBVIOUS
<1>4. PICK r : r = layout.files[slot].runs[run]
  OBVIOUS
<1>5. PICK all \in Nat : all = r.len * BlockUnits
  BY <1>1, <1>2, <1>4, FileRunShape, AddressFacts DEF InRun
<1>6. /\ slot \in Files /\ run \in DOMAIN layout.files[slot].runs
      /\ offset \in Nat /\ run_bytes \in Nat /\ remaining \in Nat
      /\ e.offset <= offset /\ offset + run_bytes = e.offset + e.bytes
      /\ remaining - run_bytes = layout.files[slot].size - e.first - e.bytes
  BY <1>2, <1>3 DEF InRun
<1>7. e.offset \in Nat /\ e.first \in Nat /\ e.bytes \in Nat /\ e.bytes <= all
  <2>1. e.offset = r.start * BlockUnits /\ e.first \in Nat /\ e.bytes \in Nat /\ e.bytes <= all
    BY <1>1, <1>3, <1>4, <1>5, <1>6, ExtentFacts
  <2>2. e.offset \in Nat
    BY <1>1, <1>4, <1>6, <2>1, FileRunShape, AddressFacts
  <2>3. QED
    BY <2>1, <2>2
<1>8. layout.files[slot].size \in Nat
  BY <1>1, <1>6, Shapes
<1>9. Want \in Nat /\ Want <= run_bytes
  BY <1>6, WriterAssumption DEF Want, Least
<1>10. ASSUME NEW k \in 0 .. Want - 1
       PROVE  /\ offset + k < ImageLen /\ Block(offset + k) \in BlocksOf(r)
              /\ Right(offset + k, FileContent[k])
  <2>1. PICK m \in Int : m = offset - e.offset + k
    BY <1>6, <1>7
  <2>2. /\ m \in 0 .. all - 1 /\ m < e.bytes /\ offset + k = e.offset + m
        /\ layout.files[slot].size - remaining + k = e.first + m
    BY <1>6, <1>7, <1>8, <1>9, <2>1
  <2>3. Right(offset + k, FileUnit(slot, e.first + m))
    BY <1>1, <1>3, <1>4, <1>5, <1>6, <2>2, RightFile
  <2>4. FileContent[k] = FileUnit(slot, e.first + m)
    BY <2>2 DEF FileContent, TheFile
  <2>5. offset + k < ImageLen /\ Block(offset + k) \in BlocksOf(r)
    BY <1>1, <1>3, <1>4, <1>5, <1>6, <2>2, FileRunUnit
  <2>6. QED
    BY <2>3, <2>4, <2>5
<1>11. DOMAIN FileContent = 0 .. Want - 1
  BY DEF FileContent
<1>12. QED
  BY <1>4, <1>6, <1>9, <1>10, <1>11, RunCall

\* The padding of the last block of a run, likewise.
LEMMA PadCall ==
  ASSUME IInv, pc = "chunk", run_bytes = 0, layout' = layout, Emit(offset, ZeroUnits(PadLen))
  PROVE  /\ OnceInv' /\ ContentInv' /\ Grows
         /\ \A u \in Addresses : arrivals'[u] = 1 <=> SentOpen(u, fill_state, slot, run + 1, 0)
<1>1. TypeInv
  BY DEF IInv
<1>2. PICK e : e = extents(slot)[run]
  OBVIOUS
<1>3. PICK r : r = layout.files[slot].runs[run]
  OBVIOUS
<1>4. /\ slot \in Files /\ run \in DOMAIN layout.files[slot].runs
      /\ offset \in Nat /\ offset + run_bytes = e.offset + e.bytes
  BY <1>2 DEF IInv, RunInv, InRun
<1>5. BlockUnits \in Nat \ {0}
  BY <1>1, Shapes
<1>6. /\ r.start \in Nat /\ r.len \in Nat \ {0} /\ RunEnd(r) \in Nat /\ RunEnd(r) = r.start + r.len
      /\ BlocksOf(r) = r.start .. RunEnd(r) - 1
  BY <1>1, <1>3, <1>4, FileRunShape
<1>7. /\ e.offset = r.start * BlockUnits /\ e.bytes \in Nat
      /\ (r.len - 1) * BlockUnits < e.bytes /\ e.bytes <= r.len * BlockUnits
  BY <1>1, <1>2, <1>3, <1>4, ExtentFacts
<1>8. PICK start \in Nat, all \in Nat : start = r.start * BlockUnits /\ all = r.len * BlockUnits
  BY <1>1, <1>6, UnitsOfBlocks
<1>9. PICK x \in Nat : x = RunEnd(r)
  BY <1>6
<1>10. /\ x * BlockUnits = start + all /\ (x - 1) * BlockUnits = start + all - BlockUnits
       /\ (r.len - 1) * BlockUnits = all - BlockUnits
  <2>1. /\ (r.start + r.len) * BlockUnits = r.start * BlockUnits + r.len * BlockUnits
        /\ (r.start + r.len - 1) * BlockUnits = r.start * BlockUnits + r.len * BlockUnits - BlockUnits
        /\ (r.len - 1) * BlockUnits = r.len * BlockUnits - BlockUnits
    BY <1>5, <1>6, BlocksAdd
  <2>2. QED
    BY <1>6, <1>8, <1>9, <2>1
<1>11. offset = start + e.bytes
  BY <1>4, <1>7, <1>8
<1>12. (x - 1) * BlockUnits < offset /\ offset <= x * BlockUnits
  BY <1>5, <1>7, <1>8, <1>10, <1>11
<1>13. PadLen = x * BlockUnits - offset
  BY <1>4, <1>5, <1>9, <1>12, PadToBlock DEF PadLen
<1>14. PICK n \in Nat : n = PadLen /\ offset + n = start + all
  BY <1>4, <1>8, <1>10, <1>12, <1>13
<1>15. ASSUME NEW k \in 0 .. n - 1
       PROVE  /\ offset + k < ImageLen /\ Block(offset + k) \in BlocksOf(r)
              /\ Right(offset + k, Zero)
  <2>1. PICK m \in Nat : m = e.bytes + k
    BY <1>7
  <2>2. m \in 0 .. all - 1 /\ ~ (m < e.bytes) /\ offset + k = start + m
    BY <1>7, <1>11, <1>14, <2>1
  <2>3. Right(offset + k, Zero)
    BY <1>1, <1>2, <1>3, <1>4, <1>7, <1>8, <2>2, RightFile
  <2>4. offset + k < ImageLen /\ Block(offset + k) \in BlocksOf(r)
    BY <1>1, <1>2, <1>3, <1>4, <1>7, <1>8, <2>2, FileRunUnit
  <2>5. QED
    BY <2>3, <2>4
<1>16. PICK data : data = ZeroUnits(n)
  OBVIOUS
<1>17. DOMAIN data = 0 .. n - 1 /\ (\A k \in 0 .. n - 1 : data[k] = Zero) /\ Emit(offset, data)
  BY <1>14, <1>16 DEF ZeroUnits
<1>18. /\ OnceInv' /\ ContentInv' /\ Grows
       /\ \A u \in Addresses : arrivals'[u] = 1 <=> SentOpen(u, fill_state, slot, run, offset + n)
  BY <1>3, <1>15, <1>17, RunCall
<1>19. ASSUME NEW u \in Addresses
       PROVE  SentOpen(u, fill_state, slot, run, offset + n) <=> SentOpen(u, fill_state, slot, run + 1, 0)
  <2>1. u \in Nat
    BY <1>1, AddressFacts
  <2>2. offset + n = x * BlockUnits /\ (u < x * BlockUnits <=> Block(u) < x)
    BY <1>1, <1>8, <1>10, <1>14, <2>1, AddressFacts
  <2>3. Block(u) \in BlocksOf(r) => u < offset + n
    BY <1>6, <1>9, <2>2
  <2>4. \A j \in DOMAIN layout.files[slot].runs : j \in Nat
    BY <1>1, <1>4, RunNumber
  <2>5. ASSUME NEW j \in DOMAIN layout.files[slot].runs, Block(u) \in BlocksOf(layout.files[slot].runs[j])
        PROVE  j < run \/ (j = run /\ u < offset + n) <=> j < run + 1 \/ (j = run + 1 /\ u < 0)
    <3>1. j \in Nat /\ run \in Nat
      BY <1>4, <2>4
    <3>2. j = run => u < offset + n
      BY <1>3, <2>3, <2>5
    <3>3. QED
      BY <2>1, <3>1, <3>2
  <2>6. PartOf(u, slot, run, offset + n) <=> PartOf(u, slot, run + 1, 0)
    BY <2>5 DEF PartOf
  <2>7. QED
    BY <2>6 DEF SentOpen
<1>20. QED
  BY <1>18, <1>19

\* Steps that leave the accounts of the files alone.
LEMMA AccountsKeep ==
  ASSUME IInv, pc \in {"open", "run", "chunk"}, pc' \in {"open", "run", "chunk"},
         UNCHANGED <<layout, fill_state, pending, data_bytes>>
  PROVE  OpenInv' /\ fill_state' \in [Files -> {"NotFillable", "Pending", "Done"}]
<1>1. Files' = Files
  BY DEF Files
<1>2. OpenInv'
  BY <1>1 DEF IInv, OpenInv, SumOf
<1>3. QED
  BY <1>2 DEF IInv, TypeInv

LEMMA FillBegins ==
  ASSUME IInv, NEW s \in Files, Fill(s)
  PROVE  IInv' /\ Grows
<1>1. /\ pc = "open" /\ poisoned = FALSE /\ poisoned' = FALSE /\ fill_state[s] = "Pending"
      /\ slot' = s /\ run' = 1 /\ remaining' = layout.files[s].size /\ pc' = "run"
      /\ UNCHANGED <<layout, fill_state, pending, data_bytes, image, arrivals>>
  BY DEF Fill, openVars, sinkVars, IInv, TypeInv
<1>2. TypeInv /\ OnceInv /\ ContentInv
  BY DEF IInv
<1>3. OnceInv' /\ ContentInv' /\ Grows
  BY <1>1, <1>2, NoCallOfSink DEF Grows
<1>4. OpenInv' /\ fill_state' \in [Files -> {"NotFillable", "Pending", "Done"}]
  BY <1>1, AccountsKeep
<1>5. AtRun(s, 1, layout.files[s].size)
  <2>1. layout.files[s].size \in Nat /\ layout.files[s].runs \in Seq(Run)
    BY <1>2, Shapes
  <2>2. 1 \in 1 .. Len(layout.files[s].runs) + 1
    BY <2>1
  <2>3. 1 \in DOMAIN layout.files[s].runs => extents(s)[1].first = 0
    BY <1>2, ExtentFacts
  <2>4. 1 \in DOMAIN layout.files[s].runs => layout.files[s].size = layout.files[s].size - extents(s)[1].first
    BY <2>1, <2>3
  <2>5. QED
    BY <2>1, <2>2, <2>4 DEF AtRun
<1>6. RunInv'
  <2>1. AtRun(s, 1, layout.files[s].size)'
    BY <1>1, <1>5, SameFill DEF AtRun
  <2>2. AtRun(slot, run, remaining)'
    BY <1>1, <2>1 DEF AtRun
  <2>3. QED
    BY <1>1, <2>2 DEF RunInv
<1>7. ASSUME NEW u \in Addresses
      PROVE  arrivals'[u] = 1 <=> SentOpen(u, fill_state', Filling', run', Reached')
  <2>1. Filling = 0 /\ Reached = 0 /\ Filling' = s /\ Reached' = 0
    BY <1>1 DEF Filling, Reached
  <2>2. arrivals'[u] = 1 <=> SentOpen(u, fill_state, 0, run, 0)
    BY <1>1, <2>1 DEF IInv, SentInv, Sent
  <2>3. ~ PartOf(u, s, 1, 0)
    <3>1. ASSUME NEW j \in DOMAIN layout.files[s].runs, j < 1 \/ (j = 1 /\ u < 0) PROVE FALSE
      <4>1. j \in Nat \ {0} /\ u \in Nat
        BY <1>2, AddressFacts, RunNumber
      <4>2. QED
        BY <3>1, <4>1
    <3>2. QED
      BY <3>1 DEF PartOf
  <2>4. 0 \notin Files
    BY <1>2, FilesFinite
  <2>5. SentOpen(u, fill_state, s, 1, 0) <=> SentOpen(u, fill_state, 0, run, 0)
    BY <2>3, <2>4 DEF SentOpen
  <2>6. QED
    BY <1>1, <2>1, <2>2, <2>5
<1>8. QED
  BY <1>1, <1>3, <1>4, <1>6, <1>7, OpenKeeps

LEMMA StartRunStep ==
  ASSUME IInv, StartRun
  PROVE  IInv' /\ Grows
<1>1. /\ pc = "run" /\ MoreRuns /\ pc' = "chunk"
      /\ offset' = TheRun.start * BlockUnits /\ run_bytes' = Least(TheRun.len * BlockUnits, remaining)
      /\ UNCHANGED <<layout, fill_state, pending, data_bytes, poisoned, slot, run, remaining, image, arrivals>>
  BY DEF StartRun, openVars, sinkVars
<1>2. TypeInv /\ OnceInv /\ ContentInv /\ AtRun(slot, run, remaining)
  BY <1>1 DEF IInv, RunInv
<1>3. OnceInv' /\ ContentInv' /\ Grows
  BY <1>1, <1>2, NoCallOfSink DEF Grows
<1>4. OpenInv' /\ fill_state' \in [Files -> {"NotFillable", "Pending", "Done"}]
  BY <1>1, AccountsKeep
<1>5. /\ poisoned = FALSE /\ slot \in Files /\ fill_state[slot] = "Pending"
      /\ \A u \in Addresses : arrivals[u] = 1 <=> SentOpen(u, fill_state, slot, run, 0)
  BY <1>1, NotPoisoned DEF Reached
<1>6. PICK e : e = extents(slot)[run]
  OBVIOUS
<1>7. PICK r : r = layout.files[slot].runs[run]
  OBVIOUS
<1>8. /\ run \in DOMAIN layout.files[slot].runs /\ TheRun = r /\ remaining \in Nat
      /\ remaining = layout.files[slot].size - e.first
  <2>1. layout.files[slot].runs \in Seq(Run)
    BY <1>2, <1>5, Shapes
  <2>2. run \in DOMAIN layout.files[slot].runs
    BY <1>1, <1>2, <2>1 DEF MoreRuns, TheFile, AtRun
  <2>3. QED
    BY <1>2, <1>6, <1>7, <2>2 DEF TheRun, TheFile, AtRun
<1>9. /\ e.offset = r.start * BlockUnits /\ e.first \in Nat /\ e.bytes \in Nat
      /\ e.bytes = Least(r.len * BlockUnits, layout.files[slot].size - e.first)
  BY <1>2, <1>5, <1>6, <1>7, <1>8, ExtentFacts
<1>10. offset' = e.offset /\ run_bytes' = e.bytes
  BY <1>1, <1>8, <1>9
<1>11. /\ r.start \in Nat /\ RunEnd(r) \in Nat /\ BlocksOf(r) = r.start .. RunEnd(r) - 1
       /\ e.offset \in Nat
  <2>1. r.start \in Nat /\ RunEnd(r) \in Nat /\ BlocksOf(r) = r.start .. RunEnd(r) - 1
    BY <1>2, <1>5, <1>7, <1>8, FileRunShape
  <2>2. QED
    BY <1>2, <1>9, <2>1, AddressFacts
<1>12. InRun(slot, run, e.offset, e.bytes, remaining)
  <2>1. layout.files[slot].size \in Nat
    BY <1>2, <1>5, Shapes
  <2>2. remaining - e.bytes = layout.files[slot].size - e.first - e.bytes
    BY <1>8, <1>9, <2>1
  <2>3. QED
    BY <1>5, <1>6, <1>8, <1>9, <1>11, <2>2 DEF InRun
<1>13. RunInv'
  <2>1. InRun(slot, run, offset, run_bytes, remaining)'
    BY <1>1, <1>10, <1>12, SameLayout DEF InRun
  <2>2. QED
    BY <1>1, <1>5, <2>1 DEF RunInv
<1>14. ASSUME NEW u \in Addresses
       PROVE  arrivals'[u] = 1 <=> SentOpen(u, fill_state', Filling', run', Reached')
  <2>1. Filling' = slot /\ Reached' = e.offset
    BY <1>1, <1>10 DEF Filling, Reached
  <2>2. u \in Nat
    BY <1>2, AddressFacts
  <2>3. u < e.offset <=> Block(u) < r.start
    BY <1>2, <1>9, <1>11, <2>2, AddressFacts
  <2>4. Block(u) \in BlocksOf(r) => ~ (u < e.offset)
    BY <1>11, <2>3
  <2>5. ASSUME NEW j \in DOMAIN layout.files[slot].runs, Block(u) \in BlocksOf(layout.files[slot].runs[j])
        PROVE  j < run \/ (j = run /\ u < 0) <=> j < run \/ (j = run /\ u < e.offset)
    <3>1. ~ (u < 0)
      BY <2>2
    <3>2. j = run => ~ (u < e.offset)
      BY <1>7, <2>4, <2>5
    <3>3. QED
      BY <3>1, <3>2
  <2>6. PartOf(u, slot, run, 0) <=> PartOf(u, slot, run, e.offset)
    BY <2>5 DEF PartOf
  <2>7. SentOpen(u, fill_state, slot, run, 0) <=> SentOpen(u, fill_state, slot, run, e.offset)
    BY <2>6 DEF SentOpen
  <2>8. QED
    BY <1>1, <1>5, <2>1, <2>7
<1>15. QED
  BY <1>1, <1>3, <1>4, <1>5, <1>13, <1>14, OpenKeeps

LEMMA ChunkStep ==
  ASSUME IInv, Chunk
  PROVE  IInv' /\ Grows
<1>1. /\ pc = "chunk" /\ run_bytes > 0 /\ pc' = "chunk" /\ Emit(offset, FileContent)
      /\ offset' = offset + Want /\ run_bytes' = run_bytes - Want /\ remaining' = remaining - Want
      /\ UNCHANGED <<layout, fill_state, pending, data_bytes, poisoned, slot, run>>
  BY DEF Chunk, openVars
<1>2. TypeInv /\ InRun(slot, run, offset, run_bytes, remaining)
  BY <1>1 DEF IInv, RunInv
<1>3. /\ Want \in Nat /\ Want <= run_bytes
      /\ OnceInv' /\ ContentInv' /\ Grows
      /\ \A u \in Addresses : arrivals'[u] = 1 <=> SentOpen(u, fill_state, slot, run, offset + Want)
  BY <1>1, ChunkCall
<1>4. OpenInv' /\ fill_state' \in [Files -> {"NotFillable", "Pending", "Done"}]
  BY <1>1, AccountsKeep
<1>5. poisoned = FALSE /\ fill_state[slot] = "Pending"
  BY <1>1, NotPoisoned
<1>6. InRun(slot, run, offset + Want, run_bytes - Want, remaining - Want)
  <2>1. PICK e : e = extents(slot)[run]
    OBVIOUS
  <2>2. /\ slot \in Files /\ run \in DOMAIN layout.files[slot].runs
        /\ offset \in Nat /\ run_bytes \in Nat /\ remaining \in Nat
        /\ e.offset <= offset /\ offset + run_bytes = e.offset + e.bytes
        /\ remaining - run_bytes = layout.files[slot].size - e.first - e.bytes
    BY <1>2, <2>1 DEF InRun
  <2>3. /\ e.offset \in Nat /\ e.first \in Nat /\ e.bytes \in Nat
        /\ e.first + e.bytes <= layout.files[slot].size /\ layout.files[slot].size \in Nat
    <3>1. /\ e.offset = layout.files[slot].runs[run].start * BlockUnits /\ e.first \in Nat /\ e.bytes \in Nat
          /\ e.first + e.bytes <= layout.files[slot].size
      BY <1>2, <2>1, <2>2, ExtentFacts
    <3>2. e.offset \in Nat
      BY <1>2, <2>2, <3>1, FileRunShape, AddressFacts
    <3>3. layout.files[slot].size \in Nat
      BY <1>2, <2>2, Shapes
    <3>4. QED
      BY <3>1, <3>2, <3>3
  <2>4. /\ offset + Want \in Nat /\ run_bytes - Want \in Nat /\ remaining - Want \in Nat
        /\ e.offset <= offset + Want
        /\ offset + Want + (run_bytes - Want) = e.offset + e.bytes
        /\ (remaining - Want) - (run_bytes - Want) = layout.files[slot].size - e.first - e.bytes
    BY <1>3, <2>2, <2>3
  <2>5. QED
    BY <2>1, <2>2, <2>4 DEF InRun
<1>7. RunInv'
  <2>1. InRun(slot, run, offset, run_bytes, remaining)'
    BY <1>1, <1>6, SameLayout DEF InRun
  <2>2. QED
    BY <1>1, <1>5, <2>1 DEF RunInv
<1>8. Filling' = slot /\ Reached' = offset + Want /\ run' = run /\ fill_state' = fill_state
  BY <1>1 DEF Filling, Reached
<1>9. QED
  BY <1>1, <1>3, <1>4, <1>5, <1>7, <1>8, OpenKeeps

LEMMA RunDoneStep ==
  ASSUME IInv, RunDone
  PROVE  IInv' /\ Grows
<1>1. /\ pc = "chunk" /\ run_bytes = 0 /\ pc' = "run" /\ Emit(offset, ZeroUnits(PadLen)) /\ run' = run + 1
      /\ UNCHANGED <<layout, fill_state, pending, data_bytes, poisoned, slot, remaining>>
  BY DEF RunDone, openVars, Zeros
<1>2. TypeInv /\ InRun(slot, run, offset, run_bytes, remaining)
  BY <1>1 DEF IInv, RunInv
<1>3. /\ OnceInv' /\ ContentInv' /\ Grows
      /\ \A u \in Addresses : arrivals'[u] = 1 <=> SentOpen(u, fill_state, slot, run + 1, 0)
  BY <1>1, PadCall
<1>4. OpenInv' /\ fill_state' \in [Files -> {"NotFillable", "Pending", "Done"}]
  BY <1>1, AccountsKeep
<1>5. poisoned = FALSE /\ fill_state[slot] = "Pending"
  BY <1>1, NotPoisoned
<1>6. AtRun(slot, run + 1, remaining)
  <2>1. PICK e : e = extents(slot)[run]
    OBVIOUS
  <2>2. /\ slot \in Files /\ run \in DOMAIN layout.files[slot].runs /\ remaining \in Nat
        /\ remaining - run_bytes = layout.files[slot].size - e.first - e.bytes
    BY <1>2, <2>1 DEF InRun
  <2>3. run + 1 \in 1 .. Len(layout.files[slot].runs) + 1
    <3>1. run \in Nat \ {0} /\ run <= Len(layout.files[slot].runs) /\ Len(layout.files[slot].runs) \in Nat
      BY <1>2, <2>2, RunNumber
    <3>2. QED
      BY <3>1
  <2>4. ASSUME run + 1 \in DOMAIN layout.files[slot].runs
        PROVE  remaining = layout.files[slot].size - extents(slot)[run + 1].first
    <3>1. e.first \in Nat /\ e.bytes \in Nat /\ extents(slot)[run + 1].first = e.first + e.bytes
      BY <1>2, <2>1, <2>2, <2>4, ExtentFacts
    <3>2. layout.files[slot].size \in Nat
      BY <1>2, <2>2, Shapes
    <3>3. QED
      BY <1>1, <2>2, <3>1, <3>2
  <2>5. QED
    BY <2>2, <2>3, <2>4 DEF AtRun
<1>7. RunInv'
  <2>1. AtRun(slot, run, remaining)'
    BY <1>1, <1>6, SameLayout DEF AtRun
  <2>2. QED
    BY <1>1, <1>5, <2>1 DEF RunInv
<1>8. Filling' = slot /\ Reached' = 0 /\ run' = run + 1 /\ fill_state' = fill_state
  BY <1>1 DEF Filling, Reached
<1>9. QED
  BY <1>1, <1>3, <1>4, <1>5, <1>7, <1>8, OpenKeeps

LEMMA FillDoneStep ==
  ASSUME IInv, FillDone
  PROVE  IInv' /\ Grows
<1>1. /\ pc = "run" /\ ~MoreRuns /\ pc' = "open" /\ slot' = 0 /\ run' = 1
      /\ fill_state' = [fill_state EXCEPT ![slot] = "Done"]
      /\ pending' = pending - 1 /\ data_bytes' = data_bytes + layout.files[slot].size
      /\ UNCHANGED <<layout, poisoned, image, arrivals>>
  BY DEF FillDone, sinkVars, ResetFill, TheFile
<1>2. TypeInv /\ OnceInv /\ ContentInv /\ AtRun(slot, run, remaining)
  BY <1>1 DEF IInv, RunInv
<1>3. OnceInv' /\ ContentInv' /\ Grows
  BY <1>1, <1>2, NoCallOfSink DEF Grows
<1>4. /\ poisoned = FALSE /\ slot \in Files /\ fill_state[slot] = "Pending"
      /\ \A u \in Addresses : arrivals[u] = 1 <=> SentOpen(u, fill_state, slot, run, 0)
  BY <1>1, NotPoisoned DEF Reached
<1>5. fill_state \in [Files -> {"NotFillable", "Pending", "Done"}]
  BY <1>2 DEF TypeInv
<1>6. /\ fill_state' \in [Files -> {"NotFillable", "Pending", "Done"}]
      /\ fill_state'[slot] = "Done"
      /\ \A f \in Files : f # slot => fill_state'[f] = fill_state[f]
  BY <1>1, <1>4, <1>5
<1>7. /\ \A s \in Files : fill_state[s] = "NotFillable" <=> layout.files[s].runs = <<>>
      /\ pending = Cardinality({s \in Files : fill_state[s] = "Pending"})
      /\ data_bytes = SumOf([s \in Files |-> layout.files[s].size],
                            {s \in Files : fill_state[s] = "Done"})
  BY <1>1 DEF IInv, OpenInv
<1>8. \A s \in Files : fill_state'[s] = "NotFillable" <=> layout.files[s].runs = <<>>
  BY <1>4, <1>6, <1>7
<1>9. pending' = Cardinality({s \in Files : fill_state'[s] = "Pending"})
  <2> DEFINE S == {s \in Files : fill_state[s] = "Pending"}
  <2>1. {s \in Files : fill_state'[s] = "Pending"} = S \ {slot}
    BY <1>4, <1>6
  <2>2. IsFiniteSet(S) /\ slot \in S
    BY <1>2, <1>4, FilesFinite
  <2> HIDE DEF S
  <2>3. Cardinality(S \ {slot}) = Cardinality(S) - 1
    BY <2>2, FS_RemoveElement
  <2>4. QED
    BY <1>1, <1>7, <2>1, <2>3 DEF S
<1>10. data_bytes' = SumOf([s \in Files |-> layout.files[s].size], {s \in Files : fill_state'[s] = "Done"})
  <2> DEFINE S == {s \in Files : fill_state[s] = "Done"}
             g == [s \in Files |-> layout.files[s].size]
  <2>1. {s \in Files : fill_state'[s] = "Done"} = S \cup {slot}
    BY <1>4, <1>6
  <2>2. IsFiniteSet(S) /\ slot \notin S /\ \A s \in S \cup {slot} : g[s] \in Nat
    BY <1>2, <1>4, FilesFinite
  <2>3. g[slot] = layout.files[slot].size
    BY <1>4
  <2> HIDE DEF S, g
  <2>4. Cardinality(Units(g, S \cup {slot})) = Cardinality(Units(g, S)) + g[slot]
    BY <2>2, UnitsOfOneMore
  <2>5. SumOf(g, S \cup {slot}) = SumOf(g, S) + g[slot]
    BY <2>4 DEF SumOf, Units
  <2>6. QED
    BY <1>1, <1>7, <2>1, <2>3, <2>5 DEF S, g
<1>11. OpenInv'
  <2>1. Files' = Files
    BY <1>1 DEF Files
  <2>2. QED
    BY <1>1, <1>8, <1>9, <1>10, <2>1 DEF OpenInv, SumOf
<1>12. RunInv'
  BY <1>1 DEF RunInv
<1>13. ASSUME NEW u \in Addresses
       PROVE  arrivals'[u] = 1 <=> SentOpen(u, fill_state', Filling', run', Reached')
  <2>1. Filling' = 0 /\ Reached' = 0 /\ 0 \notin Files
    BY <1>1, <1>2, FilesFinite DEF Filling, Reached
  <2>2. ASSUME InFile(u, slot) PROVE PartOf(u, slot, run, 0)
    <3>1. PICK j \in DOMAIN layout.files[slot].runs : Block(u) \in BlocksOf(layout.files[slot].runs[j])
      BY <2>2 DEF InFile, FileBlocksOf, Block
    <3>2. j \in Nat /\ j <= Len(layout.files[slot].runs) /\ Len(layout.files[slot].runs) \in Nat
      BY <1>2, <1>4, RunNumber
    <3>3. run \in Nat /\ ~ (run <= Len(layout.files[slot].runs))
      BY <1>1, <1>2, <3>2 DEF AtRun, MoreRuns, TheFile
    <3>4. j < run
      BY <3>2, <3>3
    <3>5. QED
      BY <3>1, <3>4 DEF PartOf
  <2>3. ASSUME NEW f \in Files, InFile(u, f)
        PROVE  fill_state'[f] = "Done" <=> fill_state[f] = "Done" \/ (f = slot /\ PartOf(u, f, run, 0))
    BY <1>4, <1>6, <2>2, <2>3
  <2>4. SentOpen(u, fill_state', 0, 1, 0) <=> SentOpen(u, fill_state, slot, run, 0)
    BY <2>1, <2>3 DEF SentOpen
  <2>5. QED
    BY <1>1, <1>4, <2>1, <2>4
<1>14. QED
  BY <1>1, <1>3, <1>4, <1>6, <1>11, <1>12, <1>13, OpenKeeps

LEMMA FillFailsStep ==
  ASSUME IInv, FillFails
  PROVE  IInv' /\ Grows
<1>1. /\ pc = "chunk" /\ pc' = "open" /\ poisoned' = TRUE
      /\ UNCHANGED <<layout, fill_state, pending, data_bytes>>
  BY DEF FillFails
<1>2. OnceInv' /\ ContentInv' /\ Grows
  <2>1. CASE UNCHANGED sinkVars
    BY <1>1, <2>1, NoCallOfSink DEF sinkVars, Grows, IInv
  <2>2. CASE run_bytes > 0 /\ Emit(offset, FileContent)
    BY <1>1, <2>2, ChunkCall
  <2>3. CASE run_bytes = 0 /\ Emit(offset, ZeroUnits(PadLen))
    BY <1>1, <2>3, PadCall
  <2>4. QED
    BY <2>1, <2>2, <2>3 DEF FillFails, EmitFails
<1>3. OpenInv' /\ fill_state' \in [Files -> {"NotFillable", "Pending", "Done"}]
  BY <1>1, AccountsKeep
<1>4. TypeInv'
  <2>1. Files' = Files
    BY <1>1 DEF Files
  <2>2. QED
    BY <1>1, <1>3, <2>1 DEF IInv, TypeInv
<1>5. Missing'
  <2>1. Missing /\ TypeInv /\ OnceInv
    BY <1>1, MissingFromSent DEF IInv
  <2>2. ASSUME NEW u \in 0 .. ImageLen - 1, arrivals'[u] # 1
        PROVE  \E s \in Files : InFile(u, s) /\ fill_state'[s] = "Pending"
    <3>1. u \in Addresses
      BY <2>1, AddressFacts
    <3>2. arrivals[u] # 1
      BY <1>2, <2>2, <3>1 DEF Grows
    <3>3. QED
      BY <1>1, <2>1, <3>2 DEF Missing
  <2>3. /\ ImageLen' = ImageLen /\ Files' = Files
        /\ \A u, s : InFile(u, s)' <=> InFile(u, s)
    BY <1>1, SameLayout
  <2>4. QED
    BY <2>2, <2>3 DEF Missing
<1>6. PassInv' /\ RunInv' /\ PoisonInv' /\ SentInv' /\ MissingInv'
  BY <1>1, <1>5 DEF PassInv, RunInv, PoisonInv, SentInv, MissingInv
<1>7. QED
  BY <1>2, <1>3, <1>4, <1>6 DEF IInv

LEMMA FinishStep ==
  ASSUME IInv, Finish
  PROVE  IInv' /\ Grows
<1>1. /\ pc = "open" /\ poisoned = FALSE /\ pending = 0 /\ pc' = "finished"
      /\ UNCHANGED <<layout, fill_state, pending, data_bytes, poisoned, slot, run, offset, image, arrivals>>
  BY DEF Finish, openVars, fillVars, sinkVars, IInv, TypeInv
<1>2. TypeInv /\ OnceInv /\ ContentInv
  BY DEF IInv
<1>3. OnceInv' /\ ContentInv' /\ Grows
  BY <1>1, <1>2, NoCallOfSink DEF Grows
<1>4. OpenInv'
  <2>1. Files' = Files
    BY <1>1 DEF Files
  <2>2. QED
    BY <1>1, <2>1 DEF IInv, OpenInv, SumOf
<1>5. RunInv' /\ Filling' = Filling /\ Reached' = Reached
  BY <1>1 DEF RunInv, Filling, Reached
<1>6. \A u \in Addresses : arrivals'[u] = 1 <=> SentOpen(u, fill_state', Filling', run', Reached')
  BY <1>1, <1>5 DEF IInv, SentInv, Sent
<1>7. fill_state' \in [Files -> {"NotFillable", "Pending", "Done"}]
  BY <1>1, <1>2 DEF TypeInv
<1>8. QED
  BY <1>1, <1>3, <1>4, <1>5, <1>6, <1>7, OpenKeeps

LEMMA NothingHappens ==
  ASSUME IInv, UNCHANGED vars
  PROVE  IInv'
<1>1. UNCHANGED <<layout, pc, seg, done, at, next_data, fill_state, pending, data_bytes, poisoned,
                  slot, run, offset, run_bytes, remaining, image, arrivals>>
  BY DEF vars, metaVars, openVars, fillVars, sinkVars
<1>2. OnceInv' /\ ContentInv'
  BY <1>1, NoCallOfSink DEF IInv
<1>3. Files' = Files /\ DataBlocks' = DataBlocks /\ Addresses' = Addresses /\ ImageLen' = ImageLen
  BY <1>1, SameLayout
<1>4. TypeInv' /\ OpenInv' /\ PoisonInv'
  BY <1>1, <1>3 DEF IInv, TypeInv, OpenInv, PoisonInv, SumOf
<1>5. PassInv'
  <2>1. Between(at, seg, next_data)' <=> Between(at, seg, next_data)
    BY <1>1 DEF Between
  <2>2. MoreSegments' = MoreSegments /\ TheSegment' = TheSegment
    BY <1>1 DEF MoreSegments, TheSegment
  <2>3. QED
    BY <1>1, <2>1, <2>2 DEF IInv, PassInv
<1>6. RunInv'
  <2>1. /\ AtRun(slot, run, remaining)' <=> AtRun(slot, run, remaining)
        /\ InRun(slot, run, offset, run_bytes, remaining)' <=> InRun(slot, run, offset, run_bytes, remaining)
    BY <1>1, SameLayout DEF AtRun, InRun
  <2>2. QED
    BY <1>1, <2>1 DEF IInv, RunInv
<1>7. SentInv'
  <2>1. Filling' = Filling /\ Reached' = Reached /\ \A u : Block(u)' = Block(u)
    BY <1>1 DEF Filling, Reached, Block
  <2>3. ASSUME NEW u \in Addresses PROVE Sent(u)' <=> Sent(u)
    <3>1. SentOpen(u, fill_state, Filling, run, Reached)' <=> SentOpen(u, fill_state, Filling, run, Reached)
      BY <1>1, <2>1, SameLayout DEF SentOpen, PartOf, Block
    <3>2. QED
      BY <1>1, <1>3, <2>1, <3>1 DEF Sent
  <2>4. QED
    BY <1>1, <1>3, <2>3 DEF IInv, SentInv
<1>8. MissingInv'
  <2>1. \A u, s : InFile(u, s)' <=> InFile(u, s)
    BY <1>1, SameLayout
  <2>2. Missing' <=> Missing
    BY <1>1, <1>3, <2>1 DEF Missing
  <2>3. QED
    BY <1>1, <2>2 DEF IInv, MissingInv
<1>9. QED
  BY <1>2, <1>4, <1>5, <1>6, <1>7, <1>8 DEF IInv

-----------------------------------------------------------------------------
(* Every step. *)

LEMMA StepKeeps ==
  ASSUME IInv, Next
  PROVE  IInv' /\ (NewWriter \/ Grows)
<1>1. CASE NewWriter
  BY <1>1, NewWriterStep
<1>2. CASE \E s \in Files : Fill(s)
  BY <1>2, FillBegins
<1>3. CASE Finish
  BY <1>3, FinishStep
<1>4. CASE Abandon
  <2>1. IInv' /\ UNCHANGED sinkVars
    BY <1>4, AbandonStep
  <2>2. QED
    BY <2>1 DEF sinkVars, Grows
<1>5. CASE MetadataStep
  BY <1>5, GapToRunStep, GapToEndStep, GapDoneStep, EmitPartStep, SegmentDoneStep, OpenedStep
     DEF MetadataStep
<1>6. CASE MetadataFails
  BY <1>6, MetadataFailsStep
<1>7. CASE FillStep
  BY <1>7, StartRunStep, ChunkStep, RunDoneStep, FillDoneStep DEF FillStep
<1>8. CASE FillFails
  BY <1>8, FillFailsStep
<1>9. QED
  BY <1>1, <1>2, <1>3, <1>4, <1>5, <1>6, <1>7, <1>8 DEF Next, Call, Step

\* The writer knows at every step what it has emitted, and what it emits is new
\* and right.
THEOREM Invariance == Spec => []IInv
<1>1. IInv /\ [Next]_vars => IInv'
  BY StepKeeps, NothingHappens
<1>2. QED
  BY InitInv, <1>1, PTL DEF Spec

-----------------------------------------------------------------------------
\* Once new() has returned, the sink lacks nothing but data of files that are
\* not filled, also when a fill fails half way; the counters agree with it.
THEOREM OnlyFilesAreMissing == Spec => []OnlyFileDataMissing
<1>1. IInv => OnlyFileDataMissing
  <2> SUFFICES ASSUME IInv, pc \in {"open", "run", "chunk", "finished"} PROVE OnlyFileDataMissing
    BY DEF OnlyFileDataMissing
  <2>1. Missing
    BY MissingFromSent
  <2>2. QED
    BY <2>1 DEF IInv, OpenInv, Missing, OnlyFileDataMissing
<1>2. QED
  BY <1>1, Invariance, PTL

LEMMA AllHaveCome ==
  ASSUME IInv, pc \in {"open", "finished"}, pending = 0
  PROVE  \A u \in Addresses : u < ImageLen => arrivals[u] = 1
<1> DEFINE S == {s \in Files : fill_state[s] = "Pending"}
<1>1. TypeInv
  BY DEF IInv
<1>2. IsFiniteSet(S) /\ Cardinality(S) = 0
  BY <1>1, FilesFinite DEF IInv, OpenInv
<1>3. S = {}
  BY <1>2, FS_EmptySet
<1>4. Missing
  BY MissingFromSent
<1>5. ASSUME NEW u \in Addresses, u < ImageLen PROVE arrivals[u] = 1
  <2>1. u \in 0 .. ImageLen - 1
    BY <1>1, <1>5, AddressFacts
  <2>2. QED
    BY <1>3, <1>4, <2>1 DEF Missing
<1>6. QED
  BY <1>5

\* What finish() vouches for is what the layout says, byte by byte, whatever
\* abandoned writers have left in the sink before.
THEOREM FinishedIsExact == Spec => []FinishedImageIsExact
<1>1. IInv => FinishedImageIsExact
  <2> SUFFICES ASSUME IInv, pc = "finished" PROVE FinishedImageIsExact
    BY DEF FinishedImageIsExact
  <2>1. TypeInv
    BY DEF IInv
  <2>2. \A u \in Addresses : u < ImageLen => Right(u, image[u])
    <3>1. pending = 0
      BY DEF IInv, OpenInv
    <3>2. QED
      BY <3>1, AllHaveCome DEF IInv, ContentInv
  <2>3. \A u \in Addresses : u \in Nat /\ (~ (u < ImageLen) => image[u] = Zero)
    <3>1. Addresses \subseteq Nat /\ ImageLen \in Nat
      BY <2>1, AddressFacts
    <3>2. QED
      BY <3>1 DEF IInv, ContentInv
  <2>4. ASSUME NEW c \in LayoutContent
        PROVE  c \in {<<u, image[u]>> : u \in {v \in Addresses : image[v] # Zero}}
    <3>1. c[1] \in Nat /\ c[1] < ImageLen
      BY <2>1, ContentIs
    <3>2. c[1] \in Addresses
      BY <2>1, <3>1, AddressFacts
    <3>3. Right(c[1], image[c[1]])
      BY <2>2, <3>1, <3>2
    <3>4. image[c[1]] # Zero /\ c = <<c[1], image[c[1]]>>
      BY <3>3 DEF Right
    <3>5. QED
      BY <3>2, <3>4
  <2>5. ASSUME NEW v \in Addresses, image[v] # Zero
        PROVE  <<v, image[v]>> \in LayoutContent
    <3>1. Right(v, image[v])
      BY <2>2, <2>3, <2>5
    <3>2. QED
      BY <2>5, <3>1 DEF Right
  <2>6. QED
    BY <2>4, <2>5 DEF FinishedImageIsExact
<1>2. QED
  BY <1>1, Invariance, PTL

\* Files filled in their order are written from low addresses to high ones.
THEOREM OrderIsKept == Spec => []FillsAscend
<1>1. IInv => FillsAscend
  <2> SUFFICES ASSUME IInv, pc = "chunk", \A s \in Files : fill_state[s] = "Done" => s < slot,
                      NEW u \in 0 .. ImageLen - 1, arrivals[u] > 0,
                      NEW s \in Files, InFile(u, s)
               PROVE  u < offset
    BY DEF FillsAscend
  <2>1. TypeInv /\ OnceInv /\ InRun(slot, run, offset, run_bytes, remaining)
    BY DEF IInv, RunInv
  <2>2. u \in Nat /\ u \in Addresses
    BY <2>1, AddressFacts
  <2>3. arrivals[u] = 1
    BY <2>1, <2>2 DEF OnceInv
  <2>4. fill_state[s] = "Done" \/ (s = slot /\ PartOf(u, s, run, offset))
    BY <2>2, <2>3, NotPoisoned DEF SentOpen, Reached
  <2>5. slot \in Files /\ run \in DOMAIN layout.files[slot].runs /\ offset \in Nat
    BY <2>1 DEF InRun
  <2>6. PICK r : r = layout.files[slot].runs[run]
    OBVIOUS
  <2>7. r.start \in Nat /\ r.start * BlockUnits \in Nat /\ r.start * BlockUnits <= offset
    <3>1. r.start \in Nat
      BY <2>1, <2>5, <2>6, FileRunShape
    <3>2. extents(slot)[run].offset = r.start * BlockUnits
      BY <2>1, <2>5, <2>6, ExtentFacts
    <3>3. QED
      BY <2>1, <3>1, <3>2, AddressFacts DEF InRun
  <2>8. ASSUME NEW j \in DOMAIN layout.files[s].runs, Block(u) \in BlocksOf(layout.files[s].runs[j]),
               s < slot \/ (s = slot /\ j < run)
        PROVE  u < offset
    <3>1. RunEnd(layout.files[s].runs[j]) <= r.start
      BY <2>1, <2>5, <2>6, <2>8, Shapes DEF LayoutOK, FilesAscend, Files
    <3>2. /\ layout.files[s].runs[j].start \in Nat /\ RunEnd(layout.files[s].runs[j]) \in Nat
          /\ Block(u) \in layout.files[s].runs[j].start .. RunEnd(layout.files[s].runs[j]) - 1
      BY <2>1, <2>8, FileRunShape
    <3>3. Block(u) < r.start
      BY <2>7, <3>1, <3>2
    <3>4. u < r.start * BlockUnits
      BY <2>1, <2>2, <2>7, <3>3, AddressFacts
    <3>5. QED
      BY <2>2, <2>5, <2>7, <3>4
  <2>9. CASE fill_state[s] = "Done"
    <3>1. PICK j \in DOMAIN layout.files[s].runs : Block(u) \in BlocksOf(layout.files[s].runs[j])
      BY DEF InFile, FileBlocksOf, Block
    <3>2. QED
      BY <2>8, <2>9, <3>1
  <2>10. CASE s = slot /\ PartOf(u, s, run, offset)
    BY <2>8, <2>10 DEF PartOf
  <2>11. QED
    BY <2>4, <2>9, <2>10
<1>2. QED
  BY <1>1, Invariance, PTL

\* A poisoned writer is only dropped: no call of the sink, no completion.
THEOREM PoisonLasts == Spec => PoisonIsFinal
<1>1. IInv /\ [Next]_vars => [poisoned => pc' \in {"open", "none"} /\ UNCHANGED sinkVars]_vars
  <2> SUFFICES ASSUME IInv, Next, poisoned PROVE pc' \in {"open", "none"} /\ UNCHANGED sinkVars
    OBVIOUS
  <2>1. pc = "open"
    BY DEF IInv, PoisonInv
  <2>2. Abandon
    BY <2>1 DEF Next, Call, Step, MetadataStep, FillStep, NewWriter, Fill, Finish, GapToRun, GapToEnd,
       GapDone, EmitPart, SegmentDone, Opened, MetadataFails, StartRun, Chunk, RunDone, FillDone, FillFails
  <2>3. QED
    BY <2>2 DEF Abandon, Dropped
<1>2. QED
  BY <1>1, Invariance, PTL DEF Spec, PoisonIsFinal

-----------------------------------------------------------------------------
(* The contract of the sink. *)

\* A writer that calls the sink adds bytes that had not come; one that finishes
\* has sent them all; a new one begins a new account.
LEMMA KeepsContract ==
  ASSUME IInv, Next
  PROVE  Contract!ContractNext
<1>1. IInv' /\ (NewWriter \/ Grows)
  BY StepKeeps
<1>2. OnceInv /\ OnceInv' /\ TypeInv
  BY <1>1 DEF IInv
<1>3. layout' = layout
  BY DEF Next, Call, Step, MetadataStep, FillStep, NewWriter, Fill, Finish, GapToRun, GapToEnd,
     GapDone, EmitPart, SegmentDone, Opened, MetadataFails, StartRun, Chunk, RunDone, FillDone, FillFails,
     Abandon, Dropped
<1>4. /\ ImageLen' = ImageLen /\ Addresses' = Addresses /\ ImageLen \in Nat /\ Addresses \subseteq Nat
      /\ DOMAIN arrivals = Addresses
  BY <1>2, <1>3, SameLayout, AddressFacts DEF OnceInv
<1>5. CASE NewWriter
  <2>1. pc' = "gap" /\ arrivals' = [u \in Addresses |-> 0]
    BY <1>5 DEF NewWriter
  <2>2. QED
    BY <1>4, <2>1 DEF Contract!ContractNext, Contract!Restart, Contract!Nothing, Contract!Addresses
<1>6. CASE Finish
  <2>1. pc = "open" /\ pending = 0 /\ pc' = "finished" /\ arrivals' = arrivals
    BY <1>6 DEF Finish, sinkVars
  <2>2. \A u \in Addresses : u < ImageLen => arrivals[u] = 1
    BY <2>1, AllHaveCome
  <2>3. QED
    BY <1>4, <2>1, <2>2 DEF Contract!ContractNext, Contract!Complete, Contract!InImage, Contract!Addresses
<1>7. CASE Grows /\ ~Finish /\ ~NewWriter
  <2>1. pc # "finished" /\ pc' # "finished"
    BY <1>7 DEF Next, Call, Step, MetadataStep, FillStep, Fill, GapToRun, GapToEnd,
       GapDone, EmitPart, SegmentDone, Opened, MetadataFails, StartRun, Chunk, RunDone, FillDone,
       FillFails, Abandon, Dropped
  <2>2. arrivals' \in [Addresses -> {0, 1}]
    BY <1>2, <1>4 DEF OnceInv
  <2>3. ASSUME NEW u \in Addresses, arrivals'[u] # arrivals[u]
        PROVE  u < ImageLen /\ arrivals[u] = 0
    <3>1. arrivals[u] \in {0, 1} /\ arrivals'[u] \in {0, 1}
      BY <1>2, <2>2 DEF OnceInv
    <3>2. arrivals[u] = 0 /\ arrivals'[u] = 1
      BY <1>7, <2>3, <3>1 DEF Grows
    <3>3. QED
      BY <1>2, <1>4, <3>2 DEF OnceInv
  <2>4. QED
    BY <1>4, <2>1, <2>2, <2>3 DEF Contract!ContractNext, Contract!Arrive, Contract!InImage, Contract!Addresses
<1>8. QED
  BY <1>1, <1>5, <1>6, <1>7

\* The writer implements the contract of RegionSink: every byte of the image
\* comes once, none outside it, and all have come when it reports completion.
THEOREM WriterKeepsContract == Spec => ImplementsContract
<1>1. Init => Contract!ContractInit
  <2> SUFFICES ASSUME Init PROVE Contract!ContractInit
    OBVIOUS
  <2>1. TypeInv
    BY InitInv DEF IInv
  <2>2. ImageLen \in Nat
    BY <2>1, AddressFacts
  <2>3. pc = "none" /\ arrivals = [u \in Addresses |-> 0]
    BY DEF Init
  <2>4. QED
    BY <2>2, <2>3 DEF Contract!ContractInit, Contract!Addresses
<1>2. IInv /\ [Next]_vars => [Contract!ContractNext]_(Contract!contractVars)
  <2>1. ASSUME UNCHANGED vars PROVE UNCHANGED Contract!contractVars
    BY <2>1 DEF vars, sinkVars, ImageLen, Contract!contractVars
  <2>2. QED
    BY <2>1, KeepsContract
<1>3. QED
  BY <1>1, <1>2, Invariance, PTL DEF Spec, ImplementsContract, Contract!ContractSpec
==============================================================================
