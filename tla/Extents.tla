------------------------------- MODULE Extents -------------------------------
(***************************************************************************)
(* One file, from its declaration to what a reader gets back.              *)
(*                                                                         *)
(* file_sparse() merges the declared segments into data segments; seal()   *)
(* places these and gives every run its logical block; plan_extents()      *)
(* builds the extent tree bottom-up; fill() streams the data bytes through *)
(* the runs.  The reader walks the tree from the inode and reads the file  *)
(* by the extents found.  The writer may have stopped before all tree      *)
(* blocks were emitted; the image is then read as it is.                   *)
(*                                                                         *)
(* A File is the special case of one Data segment.  Bytes are units, of    *)
(* which a block has BlockUnits, as in SealedLayout.                       *)
(***************************************************************************)
EXTENDS SealedLayout, Grants, SequencesExt, FiniteSetsExt

CONSTANTS
  MaxExtent,      \* MAX_EXTENT, 32768
  RootCapacity,   \* entries of the root in the inode, 4
  NodeCapacity,   \* ExtentIdx::node_capacity, 340
  LogicalSpan,    \* 2^32: logical block numbers are u32
  Blocks,         \* size of the image in blocks
  ReservedSets,   \* blocks that hold something else: see Init
  Declarations    \* the segment maps passed to file_sparse

MaxDepth == 5     \* the deepest tree the reader accepts

Seg == [data : BOOLEAN, len : Nat]

ASSUME ExtentsAssumption ==
  /\ {MaxExtent, RootCapacity, NodeCapacity, LogicalSpan, Blocks} \subseteq Nat \ {0}
  /\ ReservedSets \subseteq SUBSET (0 .. Blocks - 1)
  /\ Declarations \subseteq Seq(Seg)

VARIABLES
  declared,    \* the argument of file_sparse
  reserved,    \* blocks the allocator jumps over
  pc,          \* what comes next
  data_segs,   \* NodeKind::Sparse: data segments, as offset and length
  size,        \* NodeKind::Sparse: size of the file
  cursor,      \* the allocator's
  placed,      \* data segments placed
  extents,     \* pairs, then plan.extents: logical block, physical block, length
  level,       \* the nodes of the level built last, as index entries
  disk,        \* tree block -> node
  root,        \* the node in the inode
  stack,       \* walk_extent_node: the nodes on the way, the next entry of each
  found        \* the extents the reader found

declVars == <<declared, reserved, data_segs, size>>
treeVars == <<cursor, placed, extents, level, disk, root>>
readVars == <<stack, found>>
vars == <<declVars, pc, treeVars, readVars>>

CeilDiv(a, b) == (a + b - 1) \div b

-----------------------------------------------------------------------------
(* file_sparse() *)

Accepted(segs) ==
  \A i \in DOMAIN segs :
    /\ segs[i].len > 0
    /\ i < Len(segs) => segs[i].len % BlockUnits = 0

MergeData(acc, seg) ==
  LET k       == Len(acc.segs)
      touches == k > 0 /\ acc.segs[k].offset + acc.segs[k].len = acc.offset
  IN [segs   |-> CASE ~seg.data -> acc.segs
                   [] seg.data /\ touches -> [acc.segs EXCEPT ![k].len = @ + seg.len]
                   [] OTHER -> Append(acc.segs, [offset |-> acc.offset, len |-> seg.len]),
      offset |-> acc.offset + seg.len]

\* data_segs and offset after each round of the loop.
Rounds(segs) ==
  LET round[k \in 0 .. Len(segs)] ==
        IF k = 0 THEN [segs |-> <<>>, offset |-> 0] ELSE MergeData(round[k - 1], segs[k])
  IN round

DeclareFile ==
  /\ pc = "declare"
  /\ \E segs \in Declarations :
       /\ Accepted(segs)
       /\ declared' = segs
       /\ data_segs' = Rounds(segs)[Len(segs)].segs
       /\ size' = Rounds(segs)[Len(segs)].offset
  /\ pc' = "place"
  /\ UNCHANGED <<reserved, treeVars, readVars>>

-----------------------------------------------------------------------------
(* seal(): the data of the file. *)

Free == {b \in cursor .. Blocks - 1 : b \notin reserved}
\* Fault: the cursor stays at the last block handed out.
CursorAt(S) == IF S = {} THEN cursor ELSE Max(S)

CursorPast(S) == IF S = {} THEN cursor ELSE Max(S) + 1

WithLogical(first, runs) ==
  [i \in DOMAIN runs |->
     [logical |-> (first + Before(runs, i)) % LogicalSpan,
      start |-> runs[i].start, len |-> runs[i].len]]

SegmentsLeft == placed < Len(data_segs)

PlaceSegment ==
  /\ pc = "place" /\ SegmentsLeft
  /\ LET seg     == data_segs[placed + 1]
         nblocks == CeilDiv(seg.len, BlockUnits)
         taken   == Lowest(nblocks, Free)
     IN /\ Cardinality(taken) = nblocks
        /\ extents' = extents \o WithLogical(seg.offset \div BlockUnits,
                                             RunsOf(taken, {}, MaxExtent))
        /\ cursor' = CursorPast(taken)
  /\ placed' = placed + 1
  /\ UNCHANGED <<declVars, pc, level, disk, root, readVars>>

-----------------------------------------------------------------------------
(* plan_extents() *)

Node(entries, max, depth) == [magic |-> TRUE, entries |-> entries, max |-> max, depth |-> depth]

\* A block nothing was written to.
Blank == [magic |-> FALSE, entries |-> <<>>, max |-> 0, depth |-> 0]

\* Extent::encode(): the length is a u16.
Encoded(e) == [logical |-> e.logical, raw_len |-> e.len % (2 * MaxExtent), start |-> e.start]
LeafEntries == [i \in DOMAIN extents |-> Encoded(extents[i])]

Chunks(s) ==
  [i \in 1 .. CeilDiv(Len(s), NodeCapacity) |->
     SubSeq(s, (i - 1) * NodeCapacity + 1, Min({i * NodeCapacity, Len(s)}))]

\* Fault: an index entry takes its key from the end of the node below it.
LastKeys(parts, blocks) ==
  [i \in DOMAIN parts |->
     [logical |-> parts[i][Len(parts[i])].logical, leaf |-> blocks[i].start]]

Keys(parts, blocks) ==
  [i \in DOMAIN parts |-> [logical |-> parts[i][1].logical, leaf |-> blocks[i].start]]

\* Nodes of one level, in blocks of their own, as the entries of the next.
BuildLevel(entries, depth) ==
  LET parts   == Chunks(entries)
      blocks  == Singles(Lowest(Len(parts), Free))
      taken   == {blocks[i].start : i \in DOMAIN blocks}
      part(b) == parts[CHOOSE i \in DOMAIN blocks : blocks[i].start = b]
  IN /\ Len(blocks) = Len(parts)
     /\ disk' = [b \in DOMAIN disk \cup taken |->
                   IF b \in taken THEN Node(part(b), NodeCapacity, depth) ELSE disk[b]]
     /\ level' = Keys(parts, blocks)
     /\ cursor' = CursorPast(taken)

PlanInline ==
  /\ pc = "place" /\ ~SegmentsLeft
  /\ Len(extents) <= RootCapacity
  /\ root' = Node(LeafEntries, RootCapacity, 0)
  /\ pc' = "sealed"
  /\ UNCHANGED <<declVars, cursor, placed, extents, level, disk, readVars>>

PlanLeaves ==
  /\ pc = "place" /\ ~SegmentsLeft
  /\ Len(extents) > RootCapacity
  /\ BuildLevel(LeafEntries, 0)
  /\ pc' = "leaves"
  /\ UNCHANGED <<declVars, placed, extents, root, readVars>>

PlanIndex ==
  /\ pc = "leaves"
  /\ Len(level) > RootCapacity
  /\ CeilDiv(Len(level), NodeCapacity) <= RootCapacity
  /\ BuildLevel(level, 1)
  /\ pc' = "index"
  /\ UNCHANGED <<declVars, placed, extents, root, readVars>>

PlanRoot ==
  /\ \/ pc = "leaves" /\ Len(level) <= RootCapacity
     \/ pc = "index"
  /\ root' = Node(level, RootCapacity, IF pc = "leaves" THEN 1 ELSE 2)
  /\ pc' = "sealed"
  /\ UNCHANGED <<declVars, cursor, placed, extents, level, disk, readVars>>

\* Error::Unsupported: a third level would be needed.
TooDeep ==
  /\ pc = "leaves"
  /\ CeilDiv(Len(level), NodeCapacity) > RootCapacity
  /\ pc' = "too deep"
  /\ UNCHANGED <<declVars, treeVars, readVars>>

\* Blocks the next take() asks for.
Needed ==
  CASE pc = "place" /\ SegmentsLeft -> CeilDiv(data_segs[placed + 1].len, BlockUnits)
    [] pc = "place" /\ ~SegmentsLeft /\ Len(extents) > RootCapacity ->
         CeilDiv(Len(extents), NodeCapacity)
    [] pc = "leaves" /\ Len(level) > RootCapacity -> CeilDiv(Len(level), NodeCapacity)
    [] OTHER -> 0

ImageFull ==
  /\ pc \in {"place", "leaves"}
  /\ Cardinality(Free) < Needed
  /\ pc = "leaves" => Needed <= RootCapacity
  /\ pc' = "image full"
  /\ UNCHANGED <<declVars, treeVars, readVars>>

-----------------------------------------------------------------------------
(* The reader: walk_extent_node(). *)

\* A child fails its checksum when it was not written; the root is in the
\* inode.
Sound(node, cap) ==
  /\ node.magic
  /\ node.depth <= MaxDepth
  /\ Len(node.entries) <= node.max
  /\ node.max <= cap

Top == stack[Len(stack)]
TopEntry == Top.node.entries[Top.next]
EntriesLeft == Top.next <= Len(Top.node.entries)
Advanced == [stack EXCEPT ![Len(stack)].next = @ + 1]

\* Emission ended with finish(), or before the block `end`: what lies at or
\* after it holds nothing.
Emitted ==
  /\ pc = "sealed"
  /\ \/ UNCHANGED disk
     \/ \E end \in DOMAIN disk :
          disk' = [b \in DOMAIN disk |-> IF b < end THEN disk[b] ELSE Blank]
  /\ IF Sound(root, RootCapacity)
     THEN pc' = "walk" /\ stack' = <<[node |-> root, next |-> 1]>>
     ELSE pc' = "corrupt" /\ UNCHANGED stack
  /\ UNCHANGED <<declVars, cursor, placed, extents, level, root, found>>

\* Fault: the longest initialized extent is taken for an unwritten one.
MaxIsUnwritten(e) ==
  [logical |-> e.logical, start |-> e.start, unwritten |-> e.raw_len >= MaxExtent,
   len |-> IF e.raw_len > MaxExtent THEN e.raw_len - MaxExtent ELSE e.raw_len]

Decoded(e) ==
  [logical |-> e.logical, start |-> e.start, unwritten |-> e.raw_len > MaxExtent,
   len |-> IF e.raw_len > MaxExtent THEN e.raw_len - MaxExtent ELSE e.raw_len]

\* Fault: the checks of a child are left out.
ChildUnchecked(child) == TRUE

ChildOK(child) ==
  /\ Sound(child, NodeCapacity)
  /\ child.depth = Top.node.depth - 1

VisitExtent ==
  /\ pc = "walk" /\ EntriesLeft
  /\ Top.node.depth = 0
  /\ Decoded(TopEntry).len > 0
  /\ found' = Append(found, Decoded(TopEntry))
  /\ stack' = Advanced
  /\ UNCHANGED <<declVars, pc, treeVars>>

Descend ==
  /\ pc = "walk" /\ EntriesLeft
  /\ Top.node.depth > 0
  /\ LET child == disk[TopEntry.leaf]
     IN /\ ChildOK(child)
        /\ stack' = Append(Advanced, [node |-> child, next |-> 1])
  /\ UNCHANGED <<declVars, pc, treeVars, found>>

Corrupt ==
  /\ pc = "walk" /\ EntriesLeft
  /\ IF Top.node.depth = 0 THEN Decoded(TopEntry).len = 0
                           ELSE ~ChildOK(disk[TopEntry.leaf])
  /\ pc' = "corrupt"
  /\ UNCHANGED <<declVars, treeVars, readVars>>

Return ==
  /\ pc = "walk" /\ ~EntriesLeft
  /\ stack' = Front(stack)
  /\ pc' = IF Len(stack) = 1 THEN "walked" ELSE "walk"
  /\ UNCHANGED <<declVars, treeVars, found>>

-----------------------------------------------------------------------------
Init ==
  /\ reserved \in ReservedSets
  /\ pc = "declare"
  /\ declared = <<>> /\ data_segs = <<>> /\ size = 0
  /\ cursor = 0 /\ placed = 0 /\ extents = <<>> /\ level = <<>>
  /\ disk = <<>> /\ root = Blank
  /\ stack = <<>> /\ found = <<>>

Next ==
  \/ DeclareFile \/ PlaceSegment
  \/ PlanInline \/ PlanLeaves \/ PlanIndex \/ PlanRoot \/ TooDeep \/ ImageFull
  \/ Emitted \/ VisitExtent \/ Descend \/ Corrupt \/ Return

Spec == Init /\ [][Next]_vars

-----------------------------------------------------------------------------
(* What fill() leaves in the image and read_file_at() gets out of it.  A   *)
(* unit of content is its number in the stream passed to fill(); 0 is the  *)
(* padding of the last block, a hole, or anything else that reads as zero. *)

\* fill_inner(): the stream goes through the runs, and ends with the last
\* data byte.
Filled(block, unit) ==
  LET i == CHOOSE i \in DOMAIN extents :
             block \in BlocksOf(extents[i])
      k == (Before(extents, i) + (block - extents[i].start)) * BlockUnits + unit
  IN IF k < Lengths(data_segs) THEN k + 1 ELSE 0

\* read_file_at(): extents are read in order, so the last one wins.
Read(u) ==
  LET hits == {i \in DOMAIN found :
                 /\ ~found[i].unwritten
                 /\ found[i].logical * BlockUnits <= u
                 /\ u < (found[i].logical + found[i].len) * BlockUnits}
      e    == found[Max(hits)]
  IN IF hits = {} THEN 0 ELSE Filled(e.start + (u \div BlockUnits - e.logical), u % BlockUnits)

-----------------------------------------------------------------------------
\* The tree blocks that were not emitted.
Lost == {b \in DOMAIN disk : ~disk[b].magic}

\* The units of the file that hold data, and what unit u holds: its number
\* among these, or a hole.
DataUnits ==
  UNION {Before(declared, i) .. Before(declared, i + 1) - 1 :
           i \in {k \in DOMAIN declared : declared[k].data}}
Declared(u) == IF u \in DataUnits THEN Cardinality({v \in DataUnits : v <= u}) ELSE 0

\* A file reads back as it was declared: every data byte, at the place its
\* segment has in the file, and zeros in the holes, across the merging of
\* segments, the split into extents, the tree and the order of fill().
ReadsBack ==
  pc = "walked" /\ Lost = {} =>
    /\ size = Lengths(declared)
    /\ \A u \in 0 .. size - 1 : Read(u) = Declared(u)

\* The reader either reports a corrupt tree, which it does only if a tree
\* block is missing, or has found the planned extents, all and in order.
WalkIsFaithful ==
  /\ pc = "corrupt" => Lost # {}
  /\ pc = "walked" =>
       /\ Lost = {}
       /\ Len(found) = Len(extents)
       /\ \A i \in DOMAIN found :
            /\ ~found[i].unwritten
            /\ extents[i] = [logical |-> found[i].logical, start |-> found[i].start,
                             len |-> found[i].len]

\* A search by key, as the kernel does it, ends at the extent of each mapped
\* block: in every node it follows the last entry that is not beyond the
\* block, or else the first.
Hit(node, l) ==
  node.entries[Max({1} \cup {i \in DOMAIN node.entries : node.entries[i].logical <= l})]
LeafFor(l) ==
  LET down(node) == IF node.depth = 0 THEN node ELSE disk[Hit(node, l).leaf]
  IN down(down(root))
SearchFindsExtents ==
  pc = "sealed" =>
    \A i \in DOMAIN extents : \A l \in extents[i].logical .. extents[i].logical + extents[i].len - 1 :
      Hit(LeafFor(l), l) = Encoded(extents[i])

\* The tree has no level more than its extents need, each of its blocks has
\* one parent and holds no data, and a third level is refused only when the
\* extents do not fit below two.
Holds(depth) ==
  LET below == <<1, NodeCapacity, NodeCapacity * NodeCapacity>> IN RootCapacity * below[depth + 1]
Parents(b) ==
  {p \in ({root} \cup {disk[c] : c \in DOMAIN disk}) \X (1 .. NodeCapacity + RootCapacity) :
     p[1].depth > 0 /\ p[2] \in DOMAIN p[1].entries /\ p[1].entries[p[2]].leaf = b}
TreeIsMinimal ==
  /\ pc = "sealed" =>
       /\ Len(extents) <= Holds(root.depth)
       /\ root.depth > 0 => Len(extents) > Holds(root.depth - 1)
       /\ \A b \in DOMAIN disk :
            /\ Cardinality(Parents(b)) = 1
            /\ b \notin reserved
            /\ \A i \in DOMAIN extents : b \notin BlocksOf(extents[i])
  /\ pc = "too deep" => Len(extents) > Holds(2)

\* The verifier's "Extents must be sorted, non-overlapping" of a file that
\* was sealed and read without an error.
ExtentsAscend ==
  pc = "walked" =>
    \A i \in 1 .. Len(found) - 1 : found[i].logical + found[i].len <= found[i + 1].logical
==============================================================================
