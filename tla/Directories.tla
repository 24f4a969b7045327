------------------------------ MODULE Directories ----------------------------
(***************************************************************************)
(* The blocks of one directory, as seal() renders them: a list of dirents  *)
(* in declaration order, or, from a certain size on, a hash tree whose     *)
(* leaves are packed to the last record (build::htree).                    *)
(*                                                                         *)
(* Lengths are in units of 4 bytes.  A dirent is named by its place in the *)
(* declaration order; its name matters by its hash and by its length only. *)
(* Every block carries the checksum of its content; block numbers are      *)
(* logical, and `blocks` has what is mapped.                               *)
(*                                                                         *)
(* The image a reader is given need not be the one that was rendered: the  *)
(* last actions change it in one place, by losing blocks or as a builder   *)
(* with a bug in it would.                                                 *)
(***************************************************************************)
EXTENDS Integers, Sequences, FiniteSets, SequencesExt

CONSTANTS
  BlockLen,         \* BLOCK_SIZE
  RootLimit,        \* htree::root_limit
  NodeLimit,        \* htree::node_limit
  HashSpan,         \* 2^32: hashes are u32
  LostFoundBlocks   \* LOST_FOUND_BLOCKS

Unused == 0         \* inode 0
Dot == -1
DotDot == -2
DotLen == 3         \* rec_len_for 1 or 2 bytes: 12
TailLen == 3        \* the checksum tail, a dirent of 12 bytes
Usable == BlockLen - TailLen

\* The hash is even, its low bit marks continuations in the index.
Entry == [hash : {h \in 0 .. HashSpan - 2 : h % 2 = 0}, minor : Nat, len : DotLen .. Usable]

ASSUME DirectoriesAssumption ==
  /\ {BlockLen, RootLimit, NodeLimit, LostFoundBlocks} \subseteq Nat \ {0}
  /\ BlockLen > 2 * DotLen + TailLen

VARIABLES
  entries,   \* in declaration order; never changes
  step,      \* what comes next
  leaves,    \* htree: the names of each leaf
  leaf_dx,   \* htree: the index entries of the leaf level
  blocks,    \* logical block -> content
  size,      \* i_size, in blocks
  indexed    \* the INDEX flag of the inode

dirVars == <<entries, step, leaves, leaf_dx, blocks, size, indexed>>

Names == DOMAIN entries
\* rec_len_for(): what a record needs.
rec_len(name) == IF name \in Names THEN entries[name].len ELSE DotLen
\* hash & !1
Major(h) == h - (h % 2)
Lengths(recs) == FoldLeft(LAMBDA sum, r : sum + r.len, 0, recs)

-----------------------------------------------------------------------------
(* Blocks *)

\* Fault: a record may run into the tail.
PackedIntoTail(names) ==
  LET Place(acc, n) ==
        IF acc.used + rec_len(n) > BlockLen
        THEN [groups |-> Append(acc.groups, <<n>>), used |-> rec_len(n)]
        ELSE [groups |-> [acc.groups EXCEPT ![Len(acc.groups)] = Append(@, n)],
              used |-> acc.used + rec_len(n)]
  IN FoldLeft(Place, [groups |-> << <<>> >>, used |-> 0], names).groups

\* The names by block: a block is left when the next record does not fit.
Packed(names) ==
  LET Place(acc, n) ==
        IF acc.used + rec_len(n) > Usable
        THEN [groups |-> Append(acc.groups, <<n>>), used |-> rec_len(n)]
        ELSE [groups |-> [acc.groups EXCEPT ![Len(acc.groups)] = Append(@, n)],
              used |-> acc.used + rec_len(n)]
  IN FoldLeft(Place, [groups |-> << <<>> >>, used |-> 0], names).groups

ChecksumTail == [name |-> Unused, len |-> TailLen]

\* Records, of which the last is stretched to the tail; an empty block is
\* one unused record.
DirentBlock(group) ==
  LET plain == [i \in DOMAIN group |-> [name |-> group[i], len |-> rec_len(group[i])]]
      recs  == IF group = <<>> THEN << [name |-> Unused, len |-> Usable] >>
               ELSE [plain EXCEPT ![Len(group)].len = @ + Usable - Lengths(plain)]
  IN [recs |-> Append(recs, ChecksumTail), levels |-> 0, dx |-> <<>>]

\* The hash of the first index entry is not stored.
Stored(dx) == [dx EXCEPT ![1].hash = 0]

RootBlock(levels, dx) ==
  [recs |-> << [name |-> Dot, len |-> DotLen], [name |-> DotDot, len |-> BlockLen - DotLen] >>,
   levels |-> levels, dx |-> Stored(dx)]

NodeBlock(dx) ==
  [recs |-> << [name |-> Unused, len |-> BlockLen] >>, levels |-> 0, dx |-> Stored(dx)]

Zeros == [recs |-> << [name |-> Unused, len |-> 0] >>, levels |-> 0, dx |-> <<>>]

-----------------------------------------------------------------------------
(* seal() *)

needs_htree == Lengths(entries) >= BlockLen - 2 * DotLen

DirInit(list) ==
  /\ entries = list
  /\ step = "render"
  /\ leaves = <<>> /\ leaf_dx = <<>>
  /\ blocks = <<>> /\ size = 0 /\ indexed = FALSE

\* The blocks of `contents`, from logical block 0.
Render(contents, index) ==
  /\ blocks' = [l \in 0 .. Len(contents) - 1 |-> contents[l + 1]]
  /\ size' = Len(contents)
  /\ indexed' = index
  /\ step' = "rendered"

RenderLinear ==
  /\ step = "render" /\ ~needs_htree
  /\ LET groups == Packed(<<Dot, DotDot>> \o [n \in Names |-> n])
     IN Render([k \in DOMAIN groups |-> DirentBlock(groups[k])], FALSE)
  /\ UNCHANGED <<entries, leaves, leaf_dx>>

\* lost+found: no entries, but all of its blocks.
RenderLostFound ==
  /\ step = "render" /\ entries = <<>>
  /\ LET groups == Packed(<<Dot, DotDot>>)
     IN Render([k \in 1 .. LostFoundBlocks |->
                  DirentBlock(IF k \in DOMAIN groups THEN groups[k] ELSE <<>>)], FALSE)
  /\ UNCHANGED <<entries, leaves, leaf_dx>>

-----------------------------------------------------------------------------
(* build::htree *)

Before(i, j) ==
  LET a == entries[i]
      b == entries[j]
  IN \/ a.hash < b.hash
     \/ a.hash = b.hash /\ a.minor < b.minor
     \/ a.hash = b.hash /\ a.minor = b.minor /\ i < j

hashed == [k \in Names |-> CHOOSE i \in Names : Cardinality({j \in Names : Before(j, i)}) = k - 1]

\* Fault: no entry is marked as the continuation of the leaf before.
PlainHashes(packed) ==
  [k \in DOMAIN packed |-> [hash |-> entries[Head(packed[k])].hash, block |-> k]]

\* Each leaf under its first hash, marked when the leaf before ends with it.
LeafEntries(packed) ==
  LET first(k) == entries[Head(packed[k])].hash
      last(k)  == entries[Last(packed[k])].hash
  IN [k \in DOMAIN packed |->
        [hash |-> IF k > 1 /\ last(k - 1) = first(k) THEN first(k) + 1 ELSE first(k),
         block |-> k]]

PackLeaves ==
  /\ step = "render" /\ needs_htree
  /\ leaves' = Packed(hashed)
  /\ leaf_dx' = LeafEntries(leaves')
  /\ step' = "index"
  /\ UNCHANGED <<entries, blocks, size, indexed>>

LeafBlocks == [k \in DOMAIN leaves |-> DirentBlock(leaves[k])]
CeilDiv(a, b) == (a + b - 1) \div b
NodeGroups ==
  [g \in 1 .. CeilDiv(Len(leaf_dx), NodeLimit) |->
     SubSeq(leaf_dx, (g - 1) * NodeLimit + 1,
            IF g * NodeLimit < Len(leaf_dx) THEN g * NodeLimit ELSE Len(leaf_dx))]

RenderFlat ==
  /\ step = "index" /\ Len(leaf_dx) <= RootLimit
  /\ Render(<<RootBlock(0, leaf_dx)>> \o LeafBlocks, TRUE)
  /\ UNCHANGED <<entries, leaves, leaf_dx>>

\* Fault: the root's entries lose the mark of the node's first leaf.
UnmarkedRootEntry(g) ==
  [hash |-> Major(NodeGroups[g][1].hash), block |-> Len(leaves) + g]

\* The root's entry for a node keeps the hash, mark included, that the node
\* does not store.
RootEntry(g) == [hash |-> NodeGroups[g][1].hash, block |-> Len(leaves) + g]

RenderNodes ==
  /\ step = "index" /\ Len(leaf_dx) > RootLimit
  /\ Len(NodeGroups) <= RootLimit
  /\ Render(<<RootBlock(1, [g \in DOMAIN NodeGroups |-> RootEntry(g)])>>
              \o LeafBlocks \o [g \in DOMAIN NodeGroups |-> NodeBlock(NodeGroups[g])], TRUE)
  /\ UNCHANGED <<entries, leaves, leaf_dx>>

\* More than two levels.
Unsupported ==
  /\ step = "index" /\ Len(leaf_dx) > RootLimit
  /\ Len(NodeGroups) > RootLimit
  /\ step' = "refused"
  /\ UNCHANGED <<entries, leaves, leaf_dx, blocks, size, indexed>>

-----------------------------------------------------------------------------
(* Images that are not what was rendered. *)

Damage(image) ==
  /\ step = "rendered"
  /\ image # blocks
  /\ blocks' = image
  /\ step' = "damaged"
  /\ UNCHANGED <<entries, leaves, leaf_dx, size, indexed>>

\* A block that was never written, or never mapped.
LoseBlock == \E b \in DOMAIN blocks : Damage([blocks EXCEPT ![b] = Zeros])
UnmapBlock == \E b \in DOMAIN blocks : Damage([c \in DOMAIN blocks \ {b} |-> blocks[c]])

ExchangeBlocks ==
  \E b, c \in DOMAIN blocks : Damage([blocks EXCEPT ![b] = blocks[c], ![c] = blocks[b]])

\* An index entry with another hash or block, or one entry too few.
RekeyEntry ==
  \E b \in DOMAIN blocks :
    \E k \in 2 .. Len(blocks[b].dx), h \in 0 .. HashSpan - 1 :
      Damage([blocks EXCEPT ![b].dx[k].hash = h])
RepointEntry ==
  \E b \in DOMAIN blocks :
    \E k \in DOMAIN blocks[b].dx, c \in 0 .. size : Damage([blocks EXCEPT ![b].dx[k].block = c])
DropEntry ==
  \E b \in DOMAIN blocks :
    /\ Len(blocks[b].dx) > 1
    /\ Damage([blocks EXCEPT ![b].dx = Front(@)])

-----------------------------------------------------------------------------
DirNext ==
  \/ RenderLinear \/ RenderLostFound
  \/ PackLeaves \/ RenderFlat \/ RenderNodes \/ Unsupported
  \/ LoseBlock \/ UnmapBlock \/ ExchangeBlocks
  \/ RekeyEntry \/ RepointEntry \/ DropEntry
==============================================================================
