--------------------------------- MODULE Seal --------------------------------
(***************************************************************************)
(* build::seal::seal(): where every block of the image goes.               *)
(*                                                                         *)
(* The blocks of the superblock copies are fixed.  Each flex span packs    *)
(* its bitmaps and inode tables from the start of its leader group with an *)
(* allocator of its own.  One more allocator then jumps over all of these  *)
(* and serves, in this order, the journal, lost+found, the metadata of     *)
(* each inode and the data of each file, extent tree blocks after what     *)
(* they map.                                                               *)
(*                                                                         *)
(* An allocator is used here by what it promises, proved in Allocator: it  *)
(* answers with the lowest free blocks ahead of its cursor, in runs that   *)
(* break only at reserved blocks and at the longest length asked for.      *)
(***************************************************************************)
EXTENDS SealedLayout, Grants, FiniteSetsExt

CONSTANTS
  GroupBlocks,      \* BLOCKS_PER_GROUP
  GroupsPerFlex,    \* groups_per_flex
  GdtBlocks,        \* gdt_blocks
  InodesPerBlock,   \* INODES_PER_BLOCK
  LostFoundIno,     \* LOST_FOUND_INO, the last reserved inode
  LostFoundBlocks,  \* LOST_FOUND_BLOCKS
  InlineExtents,    \* extents that fit an inode, 4
  PerLeaf,          \* extents, or index entries, per tree block
  MaxExtent,        \* MAX_EXTENT: longest extent
  Inputs            \* what seal() is called with: see Input

(***************************************************************************)
(* An input: size of the image in blocks, inode table and journal sizes,   *)
(* and what the inodes in the namespace need, in slot order from the root. *)
(* `acl` says whether the attributes overflow into a block; a directory or *)
(* slow symlink has `content` blocks; a file has data segments, of `data`  *)
(* units each from the blocks in `offset` on, with holes between them, and *)
(* `size` units with its holes.  The size of a symlink is that of its      *)
(* target.                                                                 *)
(***************************************************************************)
Inode == [kind : {"dir", "symlink", "file"}, acl : BOOLEAN, content : Nat,
          data : Seq(Nat \ {0}), offset : Seq(Nat), size : Nat]
Input == [blocks : Nat \ {0}, itable : Nat \ {0}, journal : Nat \ {0}, inodes : Seq(Inode)]

CeilDiv(a, b) == (a + b - 1) \div b

ASSUME SealAssumption ==
  /\ {GroupBlocks, GroupsPerFlex, GdtBlocks, InodesPerBlock, LostFoundIno,
      LostFoundBlocks, InlineExtents, PerLeaf, MaxExtent} \subseteq Nat \ {0}
  /\ Inputs \subseteq Input
  \* At most 1024 descriptor and 2048 inode table blocks in groups of 32768.
  /\ \A in \in Inputs : 3 + GdtBlocks + 2 * in.itable < GroupBlocks
  /\ \A in \in Inputs :
       /\ in.inodes # <<>>
       /\ in.inodes[1].kind = "dir"
       /\ \A s \in DOMAIN in.inodes :
            /\ in.inodes[s].kind = "file" => in.inodes[s].content = 0
            /\ in.inodes[s].kind # "file" => in.inodes[s].content > 0 /\ in.inodes[s].data = <<>>
            /\ in.inodes[s].kind = "symlink" => in.inodes[s].content = 1
            /\ in.inodes[s].kind = "symlink" => in.inodes[s].size \in 1 .. BlockUnits - 1
            /\ \A k \in 1 .. Len(in.inodes[s].data) - 1 : in.inodes[s].data[k] % BlockUnits = 0
            /\ DOMAIN in.inodes[s].offset = DOMAIN in.inodes[s].data
            /\ \A k, m \in DOMAIN in.inodes[s].data :
                 k < m => in.inodes[s].offset[k] + CeilDiv(in.inodes[s].data[k], BlockUnits)
                            <= in.inodes[s].offset[m]
            /\ \A k \in DOMAIN in.inodes[s].data :
                 in.inodes[s].offset[k] * BlockUnits + in.inodes[s].data[k] <= in.inodes[s].size

VARIABLES
  input,         \* the arguments; never change
  pc,            \* what is placed next
  span,          \* flex spans placed
  slot,          \* inodes placed in the current phase
  cursor,        \* the cursor of the allocator in use
  group_meta,    \* group -> its bitmaps and inode table, in placement order
  flex_runs,     \* per span: its metadata, from first block to last
  journal_runs,
  lf_runs,       \* lost+found
  dir_runs,      \* directory contents
  segments,      \* one-block segments: attributes, slow symlinks, tree blocks
  data_runs,     \* file data
  file_runs,     \* slot -> runs of the file
  blocks512,     \* slot -> i_blocks, in blocks; slot 0 for lost+found
  plans          \* slot -> attribute block if any, runs and tree blocks of
                 \* the inode; 0 for lost+found, -1 for the journal

inVars == <<group_meta, flex_runs>>
outVars == <<journal_runs, lf_runs, dir_runs, segments, data_runs, file_runs, blocks512,
             plans>>
vars == <<input, pc, span, slot, cursor, inVars, outVars>>

Slots == DOMAIN input.inodes

-----------------------------------------------------------------------------
(* layout::geometry *)

groups == CeilDiv(input.blocks, GroupBlocks)
group_start(g) == g * GroupBlocks
blocks_in_group(g) == Least(input.blocks - group_start(g), GroupBlocks)

\* sparse_super: group 1 and the powers of 3, 5 and 7.
has_backup(g) == g > 0 /\ \E base \in {3, 5, 7}, e \in 0 .. g : base ^ e = g
backup_groups == {g \in 0 .. groups - 1 : has_backup(g)}

inodes_count == input.itable * InodesPerBlock * groups

overhead ==
  1 + GdtBlocks + Cardinality(backup_groups) * (1 + GdtBlocks)
    + 2 * groups + groups * input.itable + input.journal

\* Superblock and group descriptors: the primary and the backups.
SuperRuns == {[start |-> group_start(g), len |-> 1 + GdtBlocks] : g \in {0} \cup backup_groups}

-----------------------------------------------------------------------------
(* What the allocators answer. *)

\* Blocks at or after `from` that no run of R covers.
FreeFrom(from, R) ==
  {b \in from .. input.blocks - 1 : \A r \in R : b \notin BlocksOf(r)}

\* plan_extents(): tree blocks for n extents, and the depth they may have.
Leaves(n) == IF n <= InlineExtents THEN 0 ELSE CeilDiv(n, PerLeaf)
IndexBlocks(n) == IF Leaves(n) <= InlineExtents THEN 0 ELSE CeilDiv(Leaves(n), PerLeaf)
TreeBlocks(n) == Leaves(n) + IndexBlocks(n)
TreeFits(n) == IndexBlocks(n) <= InlineExtents

\* Fault: the list of the second allocator lacks the superblock copies.
ReservedForFlex == {flex_runs[i] : i \in DOMAIN flex_runs}
AllReserved == SuperRuns \cup {flex_runs[i] : i \in DOMAIN flex_runs}

Total(sizes) == SumOf(sizes, DOMAIN sizes)

(***************************************************************************)
(* What one inode gets: a block for its attributes if `acl`, the runs of   *)
(* its content, one or more per request, and the tree blocks these need.   *)
(***************************************************************************)
Place(acl, sizes) ==
  LET free   == FreeFrom(cursor, AllReserved)
      front  == Lowest(IF acl THEN 1 ELSE 0, free)
      body   == Lowest(Total(sizes), free \ front)
      firsts == {Nth(body, 1 + SumOf(sizes, 1 .. k - 1)) : k \in DOMAIN sizes}
      room   == Cardinality(free) - Cardinality(front)
      runs   == IF Total(sizes) <= room THEN RunsOf(body, firsts, MaxExtent) ELSE <<>>
      tree   == Lowest(TreeBlocks(Len(runs)), free \ (front \cup body))
      taken  == front \cup body \cup tree
  IN [fits   |-> /\ Cardinality(front) = IF acl THEN 1 ELSE 0
                 /\ Total(sizes) + TreeBlocks(Len(runs)) <= room
                 /\ TreeFits(Len(runs)),
      front  |-> front,
      runs   |-> runs,
      tree   |-> tree,
      cursor |-> IF taken = {} THEN cursor ELSE Max(taken) + 1]

\* The plan of an inode once `p` has been placed for it.
NoPlan == [acl |-> {}, runs |-> <<>>, tree |-> {}]
Planned(plan, p) == [acl |-> plan.acl \cup p.front, runs |-> plan.runs \o p.runs,
                     tree |-> plan.tree \cup p.tree]

-----------------------------------------------------------------------------
Init ==
  /\ input \in Inputs
  /\ pc = "geometry"
  /\ span = 0 /\ slot = 0 /\ cursor = 0
  /\ group_meta = <<>> /\ flex_runs = <<>>
  /\ journal_runs = <<>> /\ lf_runs = <<>> /\ dir_runs = <<>>
  /\ segments = <<>> /\ data_runs = <<>>
  /\ file_runs = [s \in Slots |-> <<>>]
  /\ blocks512 = [s \in Slots \cup {0} |-> 0]
  /\ plans = [s \in Slots \cup {0, -1} |-> NoPlan]

\* Geometry::new() and the inode count.
max_ino == LostFoundIno + Len(input.inodes) - 1
GeometryOK == input.journal * 4 <= input.blocks /\ max_ino <= inodes_count

CheckGeometry ==
  /\ pc = "geometry"
  /\ GeometryOK
  /\ pc' = "bitmaps"
  /\ UNCHANGED <<input, span, slot, cursor, inVars, outVars>>

\* The bitmaps of a span's groups, from the start of the leader.
leader == span * GroupsPerFlex
Members == Least(GroupsPerFlex, groups - leader)
SpanRoom == FreeFrom(group_start(leader), SuperRuns)

PlaceBitmaps ==
  /\ pc = "bitmaps"
  /\ leader < groups
  /\ 2 * Members <= Cardinality(SpanRoom)
  /\ LET taken == Lowest(2 * Members, SpanRoom)
     IN /\ group_meta' = group_meta \o
             [i \in 1 .. Members |-> [bb |-> Nth(taken, i), ib |-> Nth(taken, Members + i), it |-> 0]]
        /\ cursor' = Max(taken) + 1
  /\ slot' = 1
  /\ pc' = "itables"
  /\ UNCHANGED <<input, span, flex_runs, outVars>>

\* The inode table of the span's next group: one run, the second one offered
\* if a reserved run breaks the first.
OneRun(S) == Max(S) - Min(S) + 1 = Cardinality(S)
TableOffers ==
  LET room   == FreeFrom(cursor, SuperRuns)
      first  == Lowest(input.itable, room)
      second == Lowest(input.itable, room \ first)
  IN IF Cardinality(room) < input.itable THEN {}
     ELSE IF OneRun(first) THEN first
     ELSE IF Cardinality(room) >= 2 * input.itable /\ OneRun(second) THEN second
     ELSE {}

PlaceTable ==
  /\ pc = "itables"
  /\ TableOffers # {}
  /\ group_meta' = [group_meta EXCEPT ![leader + slot].it = Min(TableOffers)]
  /\ cursor' = Max(TableOffers) + 1
  /\ slot' = slot + 1
  /\ IF slot < Members
       THEN UNCHANGED <<pc, span, flex_runs>>
       ELSE /\ flex_runs' = Append(flex_runs, [start |-> group_meta[leader + 1].bb,
                                               len |-> cursor' - group_meta[leader + 1].bb])
            /\ span' = span + 1
            /\ pc' = "bitmaps"
  /\ UNCHANGED <<input, outVars>>

\* The allocator of everything else starts at block 0.
SpansDone ==
  /\ pc = "bitmaps"
  /\ leader >= groups
  /\ cursor' = 0
  /\ pc' = "journal"
  /\ UNCHANGED <<input, span, slot, inVars, outVars>>

PlaceJournal ==
  /\ pc = "journal"
  /\ LET p == Place(FALSE, <<input.journal>>)
     IN /\ p.fits
        /\ journal_runs' = p.runs
        /\ segments' = segments \o Singles(p.tree)
        /\ plans' = [plans EXCEPT ![-1] = Planned(@, p)]
        /\ cursor' = p.cursor
  /\ pc' = "lost_found"
  /\ UNCHANGED <<input, span, slot, inVars, lf_runs, dir_runs, data_runs, file_runs, blocks512>>

PlaceLostFound ==
  /\ pc = "lost_found"
  /\ LET p == Place(FALSE, <<LostFoundBlocks>>)
     IN /\ p.fits
        /\ lf_runs' = p.runs
        /\ segments' = segments \o Singles(p.tree)
        /\ plans' = [plans EXCEPT ![0] = Planned(@, p)]
        /\ blocks512' = [blocks512 EXCEPT ![0] = LostFoundBlocks + TreeBlocks(Len(p.runs))]
        /\ cursor' = p.cursor
  /\ slot' = 1
  /\ pc' = "metadata"
  /\ UNCHANGED <<input, span, inVars, journal_runs, dir_runs, data_runs, file_runs>>

\* The attribute block of an inode, then what a directory or slow symlink
\* has for content.
TheInode == input.inodes[slot]

\* Fault: the attribute block is not charged.
NoAcl(ino) == 0
Acl(ino) == IF ino.acl THEN 1 ELSE 0
ContentOf(ino) == IF ino.content = 0 THEN <<>> ELSE <<ino.content>>
PlaceOfMetadata == Place(TheInode.acl, ContentOf(TheInode))

PlaceMetadata ==
  /\ pc = "metadata"
  /\ slot \in Slots
  /\ LET p == PlaceOfMetadata
         own == Singles(p.front) \o (IF TheInode.kind = "symlink" THEN p.runs ELSE <<>>)
     IN /\ p.fits
        /\ segments' = segments \o own \o Singles(p.tree)
        /\ dir_runs' = dir_runs \o IF TheInode.kind = "dir" THEN p.runs ELSE <<>>
        /\ plans' = [plans EXCEPT ![slot] = Planned(@, p)]
        /\ blocks512' = [blocks512 EXCEPT ![slot] =
                           Acl(TheInode) + TheInode.content + TreeBlocks(Len(p.runs))]
        /\ cursor' = p.cursor
  /\ slot' = slot + 1
  /\ UNCHANGED <<input, pc, span, inVars, journal_runs, lf_runs, data_runs, file_runs>>

MetadataDone ==
  /\ pc = "metadata"
  /\ slot \notin Slots
  /\ slot' = 1
  /\ pc' = "data"
  /\ UNCHANGED <<input, span, cursor, inVars, outVars>>

\* The data of a file; other inodes and empty files are passed over.

\* Fault: a partial last block is not counted.
WholeDataBlocks(ino) == [k \in DOMAIN ino.data |-> ino.data[k] \div BlockUnits]
DataBlocks(ino) == [k \in DOMAIN ino.data |-> CeilDiv(ino.data[k], BlockUnits)]
PlaceOfData == Place(FALSE, DataBlocks(TheInode))

PlaceData ==
  /\ pc = "data"
  /\ slot \in Slots
  /\ LET p == PlaceOfData
     IN /\ p.fits
        /\ segments' = segments \o Singles(p.tree)
        /\ data_runs' = data_runs \o p.runs
        /\ file_runs' = [file_runs EXCEPT ![slot] = p.runs]
        /\ plans' = [plans EXCEPT ![slot] = Planned(@, p)]
        /\ blocks512' = [blocks512 EXCEPT ![slot] =
                           @ + Total(DataBlocks(TheInode)) + TreeBlocks(Len(p.runs))]
        /\ cursor' = p.cursor
  /\ slot' = slot + 1
  /\ UNCHANGED <<input, pc, span, inVars, journal_runs, lf_runs, dir_runs>>

Sealed ==
  /\ pc = "data"
  /\ slot \notin Slots
  /\ pc' = "sealed"
  /\ UNCHANGED <<input, span, slot, cursor, inVars, outVars>>

\* The early returns of seal() with an error.
Refused ==
  /\ \/ pc = "geometry" /\ ~GeometryOK
     \/ pc = "bitmaps" /\ leader < groups /\ 2 * Members > Cardinality(SpanRoom)
     \/ pc = "itables" /\ TableOffers = {}
     \/ pc = "journal" /\ ~Place(FALSE, <<input.journal>>).fits
     \/ pc = "lost_found" /\ ~Place(FALSE, <<LostFoundBlocks>>).fits
     \/ pc = "metadata" /\ slot \in Slots /\ ~PlaceOfMetadata.fits
     \/ pc = "data" /\ slot \in Slots /\ ~PlaceOfData.fits
  /\ pc' = "refused"
  /\ UNCHANGED <<input, span, slot, cursor, inVars, outVars>>

Next ==
  \/ CheckGeometry \/ PlaceBitmaps \/ PlaceTable \/ SpansDone \/ PlaceJournal
  \/ PlaceLostFound \/ PlaceMetadata \/ MetadataDone \/ PlaceData \/ Sealed \/ Refused

Spec == Init /\ [][Next]_vars
-----------------------------------------------------------------------------
(* What is made of the placement. *)

One(b) == [start |-> b, len |-> 1]
Listed(what, runs) == {<<what, i, runs[i]>> : i \in DOMAIN runs}

\* Every call of mark(), that is, each run set in the block bitmap; runs that
\* are equal are told apart by where they come from.
Marked ==
  {<<"super", r.start, r>> : r \in SuperRuns}
    \cup Listed("bb", [g \in DOMAIN group_meta |-> One(group_meta[g].bb)])
    \cup Listed("ib", [g \in DOMAIN group_meta |-> One(group_meta[g].ib)])
    \cup Listed("it", [g \in DOMAIN group_meta |->
                         [start |-> group_meta[g].it, len |-> input.itable]])
    \cup Listed("journal", journal_runs)
    \cup Listed("lost+found", lf_runs)
    \cup Listed("dir", dir_runs)
    \cup Listed("data", data_runs)
    \cup Listed("segment", segments)

\* Fault: the one-block segments are not set.
BitmapWithoutSegments == UNION {BlocksOf(m[3]) : m \in {n \in Marked : n[1] # "segment"}}
bitmap == UNION {BlocksOf(m[3]) : m \in Marked}
used_blocks == SumOf([m \in Marked |-> m[3].len], Marked)

\* Group descriptors.
free_blocks_count(g) ==
  Cardinality({i \in 0 .. blocks_in_group(g) - 1 : group_start(g) + i \notin bitmap})
inodes_per_group == input.itable * InodesPerBlock
used_inodes_in_group(g) == Least(Max({max_ino - g * inodes_per_group, 0}), inodes_per_group)

\* Blocks of a group's inode table emit_itable() has inodes for.
used_itable(g) == CeilDiv(used_inodes_in_group(g), InodesPerBlock)

Bytes(b, n) == [block |-> b, len |-> n, used |-> n, itable |-> FALSE]

\* Layout.segments; the journal superblock is the first journal block.
LayoutSegments ==
  {Bytes(r.start, 1) : r \in SuperRuns}
    \cup {Bytes(r.start + 1, GdtBlocks) : r \in SuperRuns}
    \cup (UNION {{Bytes(group_meta[g].bb, 1), Bytes(group_meta[g].ib, 1),
                  [block |-> group_meta[g].it, len |-> input.itable,
                   used |-> used_itable(g - 1), itable |-> TRUE]} : g \in DOMAIN group_meta})
    \cup {Bytes(journal_runs[1].start, 1)}
    \cup {Bytes(b, 1) : b \in UNION {BlocksOf(r) : r \in {lf_runs[i] : i \in DOMAIN lf_runs}
                                                    \cup {dir_runs[i] : i \in DOMAIN dir_runs}}}
    \cup {Bytes(segments[i].start, 1) : i \in DOMAIN segments}

\* sort_by_key(); of two segments at one block either may come first.
Sorted(S, key) ==
  LET before(x) == Cardinality({y \in S : y[key] < x[key]})
      Ties(x) == {y \in S : y[key] = x[key]}
  IN [i \in 1 .. Cardinality(S) |->
        CHOOSE x \in S : before(x) < i /\ i <= before(x) + Cardinality(Ties(x))]

TheLayout ==
  [blocks    |-> input.blocks,
   segments  |-> Sorted(LayoutSegments, "block"),
   data_runs |-> Sorted({data_runs[i] : i \in DOMAIN data_runs}, "start"),
   files     |-> [s \in Slots |-> [runs |-> file_runs[s],
                                   size |-> Total(input.inodes[s].data)]]]

-----------------------------------------------------------------------------
(***************************************************************************)
(* Properties.                                                             *)
(***************************************************************************)

\* "double-alloc": the bitmap never has a bit set twice, whatever groups the
\* flex metadata runs into and wherever backups interrupt the allocators.
MarkedOnce ==
  pc \in {"journal", "lost_found", "metadata", "data", "sealed"} =>
    \A m, n \in Marked : m # n => BlocksOf(m[3]) \cap BlocksOf(n[3]) = {}

\* A sealed layout is one ImageWriter can emit exactly once and in order.
LayoutIsWritable == pc = "sealed" => LayoutOK(TheLayout)

\* "The bitmap contents must equal the allocator's final map exactly": a
\* block is in use if a segment, a file or the journal has it, and the free
\* counts of the groups add up to what is left.
BitmapIsFinalMap ==
  pc = "sealed" =>
    /\ bitmap = (UNION {SegBlocks(s) : s \in LayoutSegments})
                  \cup (UNION {BlocksOf(data_runs[i]) : i \in DOMAIN data_runs})
                  \cup (UNION {BlocksOf(journal_runs[i]) : i \in DOMAIN journal_runs})
    /\ SumOf([g \in 0 .. groups - 1 |-> free_blocks_count(g)], 0 .. groups - 1)
         = input.blocks - used_blocks

\* Every used block is accounted for once: by the overhead formula, or in
\* i_blocks of the inode it belongs to (the journal's tree blocks, which
\* neither counts, aside).
AccountsBalance ==
  pc = "sealed" =>
    used_blocks = overhead + TreeBlocks(Len(journal_runs))
                    + SumOf(blocks512, DOMAIN blocks512)

\* "Every byte of [0, image_len)": nothing is emitted past the image, "any
\* length of the last group" being valid.
NothingPastEnd == pc = "sealed" => InsideImage(TheLayout)
==============================================================================
