----------------------------- MODULE ImageWriter -----------------------------
(***************************************************************************)
(* build::writer::ImageWriter: emission of a sealed layout to a sink.      *)
(*                                                                         *)
(*          NewWriter                 Fill                                 *)
(*   none ------------> gap <-> segment --...--> open <-----> run <-> chunk *)
(*    ^                                           |  \                      *)
(*    \---- a sink error in the metadata pass     |   Finish: finished or   *)
(*                                                |   (incomplete) none     *)
(*                           a failed fill poisons the open writer          *)
(*                                                                         *)
(* One step is one iteration of a loop of the code, with at most one call  *)
(* of the sink.  The sink is the caller's: any call may fail, before or    *)
(* after its bytes have landed.  It is also the same one for every writer  *)
(* made from the layout (a FileSink, say, whose file was created full of   *)
(* zeros), so that what an abandoned writer left behind is still there.    *)
(* Addresses count units; a block has BlockUnits of them.                  *)
(***************************************************************************)
EXTENDS SealedLayout

CONSTANTS
  Layouts,     \* sealed layouts to write: records as in LayoutOK
  ScratchLen,  \* length of the scratch buffer, in units
  MaxWriters   \* bound: writers made from one layout

ASSUME WriterAssumption ==
  /\ ScratchLen \in Nat \ {0}
  /\ ScratchLen % BlockUnits = 0
  /\ MaxWriters \in Nat
  /\ \A l \in Layouts : LayoutOK(l)

VARIABLES
  layout,      \* the sealed layout; never changes
  pc,          \* where the writer is: see the diagram above
  seg,         \* metadata pass: segment to emit next
  done,        \* metadata pass: blocks of that segment emitted
  at,          \* metadata pass: next block (`cursor`, and `at` of emit_gap)
  next_data,   \* metadata pass: data_iter
  fill_state,  \* slot -> NotFillable, Pending or Done
  pending,     \* files still Pending
  data_bytes,  \* file bytes streamed
  poisoned,    \* a fill has failed
  slot,        \* fill: the file
  run,         \* fill: its run
  offset,      \* fill: next unit of the image
  run_bytes,   \* fill: units to go in this run
  remaining,   \* fill: units to go in this file
  image,       \* address -> what the sink holds there
  arrivals,    \* observer: address -> times this writer emitted it
  writers      \* writers made, for the bound

metaVars == <<seg, done, at, next_data>>
openVars == <<fill_state, pending, data_bytes, poisoned>>
fillVars == <<slot, run, offset, run_bytes, remaining>>
sinkVars == <<image, arrivals>>
vars == <<layout, pc, metaVars, openVars, fillVars, sinkVars, writers>>

Files == DOMAIN layout.files
TheFile == layout.files[slot]
ImageLen == layout.blocks * BlockUnits

\* One block more than the image has, to see what would land outside it.
Addresses == 0 .. ImageLen + BlockUnits - 1

Zero == <<"zero">>
MetaUnit(i, k) == <<"meta", i, k>>   \* k-th unit of segment i
FileUnit(s, k) == <<"file", s, k>>   \* k-th byte of file s
Contents == {Zero} \cup ({"meta", "file"} \X Nat \X Nat)

-----------------------------------------------------------------------------
\* The sink is called at off with `data`, a function over 0 .. its length - 1.
Emit(off, data) ==
  LET hit == {off + k : k \in DOMAIN data}
  IN /\ image' = [u \in Addresses |-> IF u \in hit THEN data[u - off] ELSE image[u]]
     /\ arrivals' = [u \in Addresses |-> arrivals[u] + IF u \in hit THEN 1 ELSE 0]
ZeroUnits(len) == [k \in 0 .. len - 1 |-> Zero]
Zeros(off, len) == Emit(off, ZeroUnits(len))

\* What a failed call leaves: all or nothing of its bytes.
EmitFails(off, data) == UNCHANGED sinkVars \/ Emit(off, data)
-----------------------------------------------------------------------------
NotFillable == [s \in Files |-> "NotFillable"]

Init ==
  /\ layout \in Layouts
  /\ pc = "none"
  /\ seg = 1 /\ done = 0 /\ at = 0 /\ next_data = 1
  /\ fill_state = NotFillable /\ pending = 0 /\ data_bytes = 0 /\ poisoned = FALSE
  /\ slot = 0 /\ run = 1 /\ offset = 0 /\ run_bytes = 0 /\ remaining = 0
  /\ image = [u \in Addresses |-> Zero]
  /\ arrivals = [u \in Addresses |-> 0]
  /\ writers = 0

\* No writer, and no fill, until the next NewWriter or Fill.
ResetWriter ==
  /\ seg' = 1 /\ done' = 0 /\ at' = 0 /\ next_data' = 1
  /\ fill_state' = NotFillable /\ pending' = 0 /\ data_bytes' = 0 /\ poisoned' = FALSE
ResetFill == slot' = 0 /\ run' = 1 /\ offset' = 0 /\ run_bytes' = 0 /\ remaining' = 0

\* Layout::writer(): a fresh writer starts its metadata pass.
NewWriter ==
  /\ pc \in {"none", "finished"}
  /\ writers < MaxWriters
  /\ writers' = writers + 1
  /\ pc' = "gap"
  /\ ResetWriter
  /\ ResetFill
  /\ arrivals' = [u \in Addresses |-> 0]
  /\ UNCHANGED <<layout, image>>

\* The writer is gone; what the sink holds stays.
Dropped ==
  /\ pc' = "none"
  /\ ResetWriter
  /\ ResetFill
  /\ UNCHANGED <<layout, writers>>

-----------------------------------------------------------------------------
(* emit_metadata(): gaps between the segments, then each segment.          *)

MoreSegments == seg <= Len(layout.segments)
TheSegment == layout.segments[seg]
GapEnd == IF MoreSegments THEN TheSegment.block ELSE layout.blocks

\* emit_gap drops the data runs that lie behind and looks at the next.
Ahead == {i \in next_data .. Len(layout.data_runs) : RunEnd(layout.data_runs[i]) > at}
NextData == CHOOSE i \in Ahead : \A j \in Ahead : i <= j
DataRun == layout.data_runs[NextData]
RunInGap == Ahead # {} /\ DataRun.start < GapEnd

\* emit_gap: zeros up to the next data run, which is left out.
GapToRun ==
  /\ pc = "gap"
  /\ at < GapEnd
  /\ RunInGap
  /\ Zeros(at * BlockUnits, (DataRun.start - at) * BlockUnits)
  /\ at' = Least(RunEnd(DataRun), GapEnd)
  /\ next_data' = IF RunEnd(DataRun) <= GapEnd THEN NextData + 1 ELSE NextData
  /\ UNCHANGED <<layout, pc, seg, done, openVars, fillVars, writers>>

\* emit_gap: zeros to the end of the gap.
GapToEnd ==
  /\ pc = "gap"
  /\ at < GapEnd
  /\ ~RunInGap
  /\ Zeros(at * BlockUnits, (GapEnd - at) * BlockUnits)
  /\ at' = GapEnd
  /\ UNCHANGED <<layout, pc, seg, done, next_data, openVars, fillVars, writers>>

\* The gap is done, or there was none.
GapDone ==
  /\ pc = "gap"
  /\ at >= GapEnd
  /\ MoreSegments
  /\ pc' = "segment"
  /\ done' = 0
  /\ UNCHANGED <<layout, seg, at, next_data, openVars, fillVars, sinkVars, writers>>

\* What comes next of a segment: the whole of a Bytes one, one used block of
\* an inode table, then the zeros of the rest of that.
PartLen == IF TheSegment.itable /\ done < TheSegment.used THEN 1 ELSE TheSegment.len - done
PartContent ==
  [k \in 0 .. PartLen * BlockUnits - 1 |->
     IF done < TheSegment.used THEN MetaUnit(seg, done * BlockUnits + k) ELSE Zero]

EmitPart ==
  /\ pc = "segment"
  /\ done < TheSegment.len
  /\ Emit((TheSegment.block + done) * BlockUnits, PartContent)
  /\ done' = done + PartLen
  /\ UNCHANGED <<layout, pc, seg, at, next_data, openVars, fillVars, writers>>

SegmentDone ==
  /\ pc = "segment"
  /\ done = TheSegment.len
  /\ at' = SegEnd(TheSegment)
  /\ seg' = seg + 1
  /\ pc' = "gap"
  /\ UNCHANGED <<layout, done, next_data, openVars, fillVars, sinkVars, writers>>

\* Fault: what follows the last segment is not emitted.
OpenedAfterSegments ==
  /\ pc = "gap"
  /\ ~MoreSegments
  /\ fill_state' = [s \in Files |-> IF layout.files[s].runs = <<>> THEN "NotFillable"
                                    ELSE "Pending"]
  /\ pending' = Cardinality({s \in Files : layout.files[s].runs # <<>>})
  /\ pc' = "open"
  /\ UNCHANGED <<layout, metaVars, data_bytes, poisoned, fillVars, sinkVars, writers>>

\* ImageWriter::new: the pass is over; the files with runs are to be filled.
Opened ==
  /\ pc = "gap"
  /\ ~MoreSegments
  /\ at >= GapEnd
  /\ fill_state' = [s \in Files |-> IF layout.files[s].runs = <<>> THEN "NotFillable"
                                    ELSE "Pending"]
  /\ pending' = Cardinality({s \in Files : layout.files[s].runs # <<>>})
  /\ pc' = "open"
  /\ UNCHANGED <<layout, metaVars, data_bytes, poisoned, fillVars, sinkVars, writers>>

\* A sink error in the metadata pass: new() returns it and there is no writer.
MetadataFails ==
  /\ \/ /\ pc = "gap"
        /\ at < GapEnd
        /\ LET to == IF RunInGap THEN DataRun.start ELSE GapEnd
           IN at < to /\ EmitFails(at * BlockUnits, ZeroUnits((to - at) * BlockUnits))
     \/ /\ pc = "segment"
        /\ done < TheSegment.len
        /\ EmitFails((TheSegment.block + done) * BlockUnits, PartContent)
  /\ Dropped

-----------------------------------------------------------------------------
(* fill() and finish(). *)

\* Fault: fill() does not look at `poisoned`.
FillAnyway(s) ==
  /\ pc = "open"
  /\ fill_state[s] = "Pending"
  /\ slot' = s
  /\ run' = 1
  /\ remaining' = layout.files[s].size
  /\ pc' = "run"
  /\ UNCHANGED <<layout, metaVars, openVars, offset, run_bytes, sinkVars, writers>>

\* fill(): the file is there, not filled yet, and the writer not poisoned.
Fill(s) ==
  /\ pc = "open"
  /\ ~poisoned
  /\ fill_state[s] = "Pending"
  /\ slot' = s
  /\ run' = 1
  /\ remaining' = layout.files[s].size
  /\ pc' = "run"
  /\ UNCHANGED <<layout, metaVars, openVars, offset, run_bytes, sinkVars, writers>>

MoreRuns == run <= Len(TheFile.runs)

\* Fault: the runs are popped from the back.
LastRunFirst == TheFile.runs[Len(TheFile.runs) + 1 - run]
TheRun == TheFile.runs[run]

StartRun ==
  /\ pc = "run"
  /\ MoreRuns
  /\ offset' = TheRun.start * BlockUnits
  /\ run_bytes' = Least(TheRun.len * BlockUnits, remaining)
  /\ pc' = "chunk"
  /\ UNCHANGED <<layout, metaVars, openVars, slot, run, remaining, sinkVars, writers>>

\* The next bytes of the file, as many as the scratch buffer takes.
Want == Least(run_bytes, ScratchLen)
FileContent == [k \in 0 .. Want - 1 |-> FileUnit(slot, TheFile.size - remaining + k)]

\* Fault: a read of nothing counts as progress.
ChunkOfNothing == pc = "chunk" /\ run_bytes > 0 /\ UNCHANGED vars

Chunk ==
  /\ pc = "chunk"
  /\ run_bytes > 0
  /\ Emit(offset, FileContent)
  /\ offset' = offset + Want
  /\ run_bytes' = run_bytes - Want
  /\ remaining' = remaining - Want
  /\ UNCHANGED <<layout, pc, metaVars, openVars, slot, run, writers>>

\* Fault: a run that ends with its block is padded by a block.
PadAlways == BlockUnits - (offset % BlockUnits)

\* The run is written; its last block is padded with zeros.
PadLen == (BlockUnits - (offset % BlockUnits)) % BlockUnits

RunDone ==
  /\ pc = "chunk"
  /\ run_bytes = 0
  /\ Zeros(offset, PadLen)
  /\ run' = run + 1
  /\ pc' = "run"
  /\ UNCHANGED <<layout, metaVars, openVars, slot, offset, run_bytes, remaining, writers>>

FillDone ==
  /\ pc = "run"
  /\ ~MoreRuns
  /\ fill_state' = [fill_state EXCEPT ![slot] = "Done"]
  /\ pending' = pending - 1
  /\ data_bytes' = data_bytes + TheFile.size
  /\ pc' = "open"
  /\ ResetFill
  /\ UNCHANGED <<layout, metaVars, poisoned, sinkVars, writers>>

\* The reader runs short, or the sink fails: the writer is poisoned.
FillFails ==
  /\ pc = "chunk"
  /\ \/ run_bytes > 0 /\ UNCHANGED sinkVars
     \/ run_bytes > 0 /\ EmitFails(offset, FileContent)
     \/ run_bytes = 0 /\ PadLen > 0 /\ EmitFails(offset, ZeroUnits(PadLen))
  /\ poisoned' = TRUE
  /\ pc' = "open"
  /\ ResetFill
  /\ UNCHANGED <<layout, metaVars, fill_state, pending, data_bytes, writers>>

\* Fault: finish() does not look at `pending`.
FinishIncomplete ==
  /\ pc = "open"
  /\ ~poisoned
  /\ pc' = "finished"
  /\ UNCHANGED <<layout, metaVars, openVars, fillVars, sinkVars, writers>>

Finish ==
  /\ pc = "open"
  /\ ~poisoned
  /\ pending = 0
  /\ pc' = "finished"
  /\ UNCHANGED <<layout, metaVars, openVars, fillVars, sinkVars, writers>>

\* The caller drops the writer, by a finish() that fails or otherwise.
Abandon ==
  /\ pc = "open"
  /\ UNCHANGED sinkVars
  /\ Dropped

-----------------------------------------------------------------------------
MetadataStep == GapToRun \/ GapToEnd \/ GapDone \/ EmitPart \/ SegmentDone \/ Opened
FillStep == StartRun \/ Chunk \/ RunDone \/ FillDone
Step == MetadataStep \/ MetadataFails \/ FillStep \/ FillFails
Call == NewWriter \/ (\E s \in Files : Fill(s)) \/ Finish \/ Abandon
Next == Call \/ Step

\* A call runs on the caller's thread and keeps stepping: reader and sink
\* answer, one way or the other.
Spec == Init /\ [][Next]_vars /\ WF_vars(MetadataStep \/ FillStep)
-----------------------------------------------------------------------------
(***************************************************************************)
(* Properties.                                                             *)
(***************************************************************************)

InFile(u, s) == u \div BlockUnits \in FileBlocksOf(layout.files[s])

\* Layout::extents(): where each run of a file starts, in the image and in
\* the file, and how many of the file's bytes it holds.
extents(s) ==
  LET runs == layout.files[s].runs
      lens == [i \in DOMAIN runs |-> runs[i].len]
      before(i) == BlockUnits * SumOf(lens, 1 .. i - 1)
  IN [i \in DOMAIN runs |->
        [offset |-> runs[i].start * BlockUnits,
         first  |-> before(i),
         bytes  |-> Least(runs[i].len * BlockUnits, layout.files[s].size - before(i))]]

\* What belongs into the image, as <<address, unit>>: the used blocks of each
\* segment, and each file where extents() says.
SegmentContent(i) ==
  {<<layout.segments[i].block * BlockUnits + k, MetaUnit(i, k)>> :
     k \in 0 .. layout.segments[i].used * BlockUnits - 1}
ExtentContent(s, i) ==
  {<<extents(s)[i].offset + k, FileUnit(s, extents(s)[i].first + k)>> :
     k \in 0 .. extents(s)[i].bytes - 1}
LayoutContent ==
  (UNION {SegmentContent(i) : i \in DOMAIN layout.segments})
    \cup (UNION {UNION {ExtentContent(s, i) : i \in DOMAIN layout.files[s].runs} : s \in Files})

\* "All metadata and free-space zeros are emitted to sink before writer()
\* returns": from then on what the sink lacks is file data, of files that are
\* not filled; the two counters agree with what is filled.
OnlyFileDataMissing ==
  pc \in {"open", "run", "chunk", "finished"} =>
    /\ pending = Cardinality({s \in Files : fill_state[s] = "Pending"})
    /\ data_bytes = SumOf([s \in Files |-> layout.files[s].size],
                          {s \in Files : fill_state[s] = "Done"})
    /\ \A u \in 0 .. ImageLen - 1 :
         arrivals[u] # 1 => \E s \in Files : InFile(u, s) /\ fill_state[s] = "Pending"

\* What finish() vouches for: every segment and every file, read back through
\* extents(), is in the image byte by byte, and zeros everywhere else - also
\* when earlier writers failed half way into the same sink.
FinishedImageIsExact ==
  pc = "finished" =>
    LayoutContent = {<<u, image[u]>> : u \in {v \in Addresses : image[v] # Zero}}

\* "Ascending when files are filled in declaration order": as long as no
\* later file is filled, each write lies above all file data written so far.
FillsAscend ==
  pc = "chunk" /\ (\A s \in Files : fill_state[s] = "Done" => s < slot) =>
    \A u \in 0 .. ImageLen - 1 :
      arrivals[u] > 0 /\ (\E s \in Files : InFile(u, s)) => u < offset

\* "There is no partial recovery": a poisoned writer neither calls the sink
\* again nor finishes.
PoisonIsFinal == [][poisoned => pc' \in {"open", "none"} /\ UNCHANGED sinkVars]_vars

\* The writer keeps the contract of its sink: every byte of the image once,
\* none outside it, whatever fails and however often it starts again.
Contract == INSTANCE SinkContract WITH
  image_len <- ImageLen,
  complete  <- pc = "finished"

ImplementsContract == Contract!ContractSpec

\* Every call returns: the metadata pass and each fill end.
Idle == pc \in {"none", "open", "finished"}
CallsReturn == ~Idle ~> Idle
==============================================================================
