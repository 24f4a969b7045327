----------------------------- MODULE SealedVolume ----------------------------
(***************************************************************************)
(* The image that a sealed layout becomes, and what the reader and the     *)
(* verifier find in it: when all of it was written, and when a block or    *)
(* everything from some block on was not.                                  *)
(*                                                                         *)
(* A block is what it was written with, or Zeros.  A checksum is good      *)
(* exactly for the content it was computed for, so a block whose checksum  *)
(* covers its owner names its owner, and a group descriptor has the bits   *)
(* of its bitmaps for their checksums.                                     *)
(***************************************************************************)
EXTENDS Seal

CONSTANTS
  RootIno,        \* ROOT_INO
  JournalIno,     \* JOURNAL_INO
  DescsPerBlock,  \* group descriptors in a block
  LogicalSpan,    \* 2^32: logical block numbers are u32
  LossSizes       \* bound: the image sizes on which blocks are lost

ASSUME VolumeAssumption ==
  /\ {RootIno, JournalIno} \subseteq 1 .. LostFoundIno - 1 /\ RootIno # JournalIno
  /\ {DescsPerBlock, LogicalSpan} \subseteq Nat \ {0}
  \* Geometry::new() refuses images of u32::MAX blocks and more.
  /\ \A in \in Inputs : in.blocks < LogicalSpan
  /\ \A in \in Inputs : GdtBlocks = CeilDiv(CeilDiv(in.blocks, GroupBlocks), DescsPerBlock)

VARIABLES
  image,  \* the blocks; <<>> until they are written
  lost    \* the blocks that should hold something and do not

volumeVars == <<vars, image, lost>>

-----------------------------------------------------------------------------
(* seal(): what the blocks hold. *)

Zeros == [what |-> "zeros"]
ino_of(s) ==
  CASE s = -1 -> JournalIno [] s = 0 -> LostFoundIno [] s = 1 -> RootIno [] OTHER -> LostFoundIno + s - 1
Owners == Slots \cup {0, -1}
KindOf(s) ==
  CASE s = -1 -> "file" [] s = 0 -> "dir" [] OTHER -> input.inodes[s].kind

\* What an inode has blocks for, in blocks of the file: all but a sparse file
\* are one segment.
SegsOf(s) ==
  CASE s = -1 -> <<[offset |-> 0, len |-> input.journal]>>
    [] s = 0 -> <<[offset |-> 0, len |-> LostFoundBlocks]>>
    [] s \in Slots /\ KindOf(s) = "file" ->
         [k \in DOMAIN input.inodes[s].data |->
            [offset |-> input.inodes[s].offset[k], len |-> DataBlocks(input.inodes[s])[k]]]
    [] OTHER -> <<[offset |-> 0, len |-> input.inodes[s].content]>>

\* i_size, holes included.
SizeOf(s) ==
  CASE s = -1 -> input.journal * BlockUnits
    [] s = 0 -> LostFoundBlocks * BlockUnits
    [] s \in Slots /\ KindOf(s) = "dir" -> input.inodes[s].content * BlockUnits
    [] OTHER -> input.inodes[s].size

\* Fault: holes are not skipped.
WithoutHoles(segs, n) == n % LogicalSpan

\* The logical block, as a u32, of the block placed after n others: as far
\* behind the offset of its segment as behind the first block of it.
LogicalOf(segs, n) ==
  LET k == CHOOSE i \in DOMAIN segs : n \in Before(segs, i) .. Before(segs, i) + segs[i].len - 1
  IN (segs[k].offset + (n - Before(segs, k))) % LogicalSpan

\* render_inode(): the extents of a plan, and where its other blocks are.
Extents(runs, segs) ==
  [i \in DOMAIN runs |->
     [logical |-> LogicalOf(segs, Before(runs, i)), start |-> runs[i].start, len |-> runs[i].len]]
InodeOf(s) ==
  [ino |-> ino_of(s), kind |-> KindOf(s), size |-> SizeOf(s),
   extents |-> Extents(plans[s].runs, SegsOf(s)), tree |-> plans[s].tree, acl |-> plans[s].acl]
ReservedInode(ino) ==
  [ino |-> ino, kind |-> "none", size |-> 0, extents |-> <<>>, tree |-> {}, acl |-> {}]

\* The inode table slot of an inode number; unused ones are zeros.
InodeSlot(ino) ==
  IF \E s \in Owners : ino_of(s) = ino THEN InodeOf(CHOOSE s \in Owners : ino_of(s) = ino)
  ELSE IF ino \in 1 .. LostFoundIno - 1 THEN ReservedInode(ino)
  ELSE ReservedInode(0)

\* A bitmap block has a bit for each block a group can have.
Padding(n) == n .. GroupBlocks - 1
block_bits(g) ==
  LET marked == bitmap
  IN {i \in 0 .. blocks_in_group(g) - 1 : group_start(g) + i \in marked} \cup Padding(blocks_in_group(g))
IsUninit(g) == used_inodes_in_group(g) = 0
inode_bits(g) ==
  IF IsUninit(g) THEN {} ELSE (0 .. used_inodes_in_group(g) - 1) \cup Padding(inodes_per_group)

\* Fault: the checksum of an unused inode bitmap is stored as well.
AlwaysSummed(g) == <<inode_bits(g)>>

\* 0 for a group without inodes.
inode_bitmap_csum(g) == IF IsUninit(g) THEN <<>> ELSE <<inode_bits(g)>>

Descriptor(g) ==
  [block_bitmap |-> group_meta[g + 1].bb, inode_bitmap |-> group_meta[g + 1].ib,
   inode_table |-> group_meta[g + 1].it, uninit |-> IsUninit(g),
   block_bitmap_csum |-> <<block_bits(g)>>, inode_bitmap_csum |-> inode_bitmap_csum(g)]

Bits(S) == IF S = {} THEN Zeros ELSE [what |-> "bits", bits |-> S]
At(b, content) == [block |-> b, content |-> content]

GdtBlock(k) ==
  [what  |-> "gdt",
   descs |-> [g \in {h \in 0 .. groups - 1 : h \div DescsPerBlock = k} |-> Descriptor(g)]]
SuperPieces ==
  {At(r.start, [what |-> "super"]) : r \in SuperRuns}
    \cup UNION {LET table == GdtBlock(k)
                IN {At(r.start + 1 + k, table) : r \in SuperRuns} : k \in 0 .. GdtBlocks - 1}

\* emit_itable(): the blocks behind the last used inode are zeros.
TableBlock(g, k) ==
  [what   |-> "inodes",
   inodes |-> [i \in 0 .. InodesPerBlock - 1 |->
                 InodeSlot(g * inodes_per_group + k * InodesPerBlock + i + 1)]]
GroupPieces ==
  UNION {{At(group_meta[g + 1].bb, Bits(block_bits(g))), At(group_meta[g + 1].ib, Bits(inode_bits(g)))}
           \cup {At(group_meta[g + 1].it + k, TableBlock(g, k)) : k \in 0 .. used_itable(g) - 1} :
         g \in 0 .. groups - 1}

\* What the block of an inode is that is placed after n others.  Of the
\* journal the first has content.
ContentKind(s, n) ==
  CASE s = -1 /\ n = 0 -> "journal superblock"
    [] s = -1 /\ n > 0 -> "zeros"
    [] OTHER -> IF KindOf(s) = "dir" THEN "dirents" ELSE "bytes"
Owned(s, what) == [what |-> what, ino |-> ino_of(s)]
ContentAt(s, n) == IF ContentKind(s, n) = "zeros" THEN Zeros ELSE Owned(s, ContentKind(s, n))
RunPieces(s, i) ==
  LET run == plans[s].runs[i]
  IN {At(run.start + k, ContentAt(s, Before(plans[s].runs, i) + k)) : k \in 0 .. run.len - 1}

\* The checksum of an attribute block covers its own number.
AttributeBlock(b) == [what |-> "attributes", block |-> b]
OwnerPieces(s) ==
  {At(b, AttributeBlock(b)) : b \in plans[s].acl}
    \cup {At(b, Owned(s, "tree")) : b \in plans[s].tree}
    \cup UNION {RunPieces(s, i) : i \in DOMAIN plans[s].runs}

Pieces == SuperPieces \cup GroupPieces \cup UNION {OwnerPieces(s) : s \in Owners}

TheImage ==
  LET pieces == Pieces
      places == {p.block : p \in pieces}
  IN [b \in 0 .. input.blocks - 1 |->
        IF b \in places THEN (CHOOSE p \in pieces : p.block = b).content ELSE Zeros]

-----------------------------------------------------------------------------
(* The reader.  An operator named ...OK says that the call is no error. *)

OpenOK == image[0].what = "super"

\* The descriptor table follows the superblock; a lost block of it decodes to
\* a descriptor of zeros.
ZeroDesc == [block_bitmap |-> 0, inode_bitmap |-> 0, inode_table |-> 0, uninit |-> FALSE,
             block_bitmap_csum |-> <<>>, inode_bitmap_csum |-> <<>>]
group_desc(g) ==
  LET b == image[1 + g \div DescsPerBlock]
  IN IF b.what = "gdt" THEN b.descs[g] ELSE ZeroDesc

\* The bits of a block that is a bitmap, or of zeros.
BitsAt(b) == IF image[b].what = "bits" THEN image[b].bits ELSE {}

PlaceOf(ino) == [group |-> (ino - 1) \div inodes_per_group, index |-> (ino - 1) % inodes_per_group]

inode_raw(ino) ==
  LET at == PlaceOf(ino)
      b  == image[group_desc(at.group).inode_table + at.index \div InodesPerBlock]
  IN IF b.what = "inodes" THEN b.inodes[at.index % InodesPerBlock] ELSE ReservedInode(0)

\* The checksum of an inode covers its number.
InodeOK(ino) == inode_raw(ino).ino = ino

inode_in_use(ino) ==
  LET d == group_desc(PlaceOf(ino).group)
  IN ~d.uninit /\ PlaceOf(ino).index \in BitsAt(d.inode_bitmap)

\* Every block that the checksum of `what` ties to this inode.
HoldsFor(b, what, ino) == image[b].what = what /\ image[b].ino = ino

\* walk_extent_node() reads the whole tree.
ExtentsOK(inode) == \A b \in inode.tree : HoldsFor(b, "tree", inode.ino)

\* file_block(): where the first extent that has a logical block has it;
\* nowhere if the block is in a hole.
file_block(inode, l) ==
  LET hits == {k \in DOMAIN inode.extents :
                 l \in inode.extents[k].logical
                         .. inode.extents[k].logical + inode.extents[k].len - 1}
  IN {inode.extents[i].start + (l - inode.extents[i].logical) :
        i \in {k \in hits : \A m \in hits : k <= m}}

-----------------------------------------------------------------------------
(* The verifier.  An operator named ...Clean says that no issue is added. *)

GroupClean(g) ==
  LET d == group_desc(g)
  IN /\ d # ZeroDesc
     /\ <<BitsAt(d.block_bitmap)>> = d.block_bitmap_csum
     /\ Padding(blocks_in_group(g)) \subseteq BitsAt(d.block_bitmap)
     /\ IF d.uninit THEN d.inode_bitmap_csum = <<>>
        ELSE /\ <<BitsAt(d.inode_bitmap)>> = d.inode_bitmap_csum
             /\ Padding(inodes_per_group) \subseteq BitsAt(d.inode_bitmap)

\* The extents are sorted, do not overlap, and end in the image.
ExtentsClean(inode) ==
  \A i \in DOMAIN inode.extents :
    LET e == inode.extents[i]
    IN /\ e.start + e.len <= input.blocks
       /\ i < Len(inode.extents) => e.logical + e.len <= inode.extents[i + 1].logical

\* Every block of a directory is there and its checksum is good.
DirBlocksClean(inode) ==
  \A l \in 0 .. inode.size \div BlockUnits - 1 :
    \E b \in file_block(inode, l) : HoldsFor(b, "dirents", inode.ino)

\* Fault: attributes are not looked at.
WithoutAttributes(inode) ==
  /\ ExtentsOK(inode)
  /\ ExtentsClean(inode)
  /\ inode.kind = "dir" => DirBlocksClean(inode)

\* Trees, directory blocks and attributes; what directory blocks have to say
\* to each other is in DirectoryReader.
ContentClean(inode) ==
  /\ ExtentsOK(inode)
  /\ ExtentsClean(inode)
  /\ inode.kind = "dir" => DirBlocksClean(inode)
  /\ inode.kind = "symlink" => inode.size \in 1 .. BlockUnits - 1
  /\ \A b \in inode.acl : image[b] = AttributeBlock(b)

\* Of the reserved inodes only the root and the journal have content.
InodeClean(ino) ==
  /\ InodeOK(ino)
  /\ ino \notin 1 .. LostFoundIno - 1 \ {RootIno, JournalIno} => ContentClean(inode_raw(ino))

InUse == {ino \in 1 .. inodes_per_group * groups : inode_in_use(ino)}

JournalClean ==
  /\ InodeOK(JournalIno) /\ ExtentsOK(inode_raw(JournalIno))
  /\ \E b \in file_block(inode_raw(JournalIno), 0) : HoldsFor(b, "journal superblock", JournalIno)

\* The image opens, and Fs::verify() returns no issue and no error.
VerifyClean ==
  /\ OpenOK
  /\ \A g \in 0 .. groups - 1 : GroupClean(g)
  /\ \A ino \in 1 .. LostFoundIno - 1 : inode_in_use(ino)
  /\ \A ino \in InUse : InodeClean(ino)
  /\ JournalClean

-----------------------------------------------------------------------------
\* All of the image is written.
Write ==
  /\ pc = "sealed"
  /\ image' = TheImage
  /\ pc' = "written"
  /\ UNCHANGED <<input, span, slot, cursor, inVars, outVars, lost>>

\* Blocks that never arrived read as zeros.
Held == {b \in DOMAIN image : image[b] # Zeros}
Lose(S) ==
  /\ pc = "written"
  /\ input.blocks \in LossSizes
  /\ image' = [b \in DOMAIN image |-> IF b \in S THEN Zeros ELSE image[b]]
  /\ lost' = S \cap Held
  /\ pc' = "torn"
  /\ UNCHANGED <<input, span, slot, cursor, inVars, outVars>>

LoseOne == \E b \in Held : Lose({b})

\* The writer goes through the image in ascending order and stops.
Tear == \E b \in Held \ {0} : Lose(b .. input.blocks - 1)

VolumeInit == Init /\ image = <<>> /\ lost = {}

VolumeNext == (Next /\ UNCHANGED <<image, lost>>) \/ Write \/ LoseOne \/ Tear

VolumeSpec == VolumeInit /\ [][VolumeNext]_volumeVars

-----------------------------------------------------------------------------
\* The logical blocks of an inode, or of all, are numbers that a u32 can hold.
NumbersFit(s) ==
  \A k \in DOMAIN SegsOf(s) : SegsOf(s)[k].offset + SegsOf(s)[k].len <= LogicalSpan
NumbersSuffice == \A s \in Owners : NumbersFit(s)

\* The verifier accepts every image that was written to the end, on all
\* geometries: groups without inodes, short last groups, moved tables.  Where
\* logical blocks do not suffice it finds extents that overlap.
VerifierAcceptsImage == pc = "written" /\ NumbersSuffice => VerifyClean

\* An image that lacks a block is reported, by open() or by verify(), unless
\* all it lacks is data, targets of symlinks, backups, or blocks of zeros;
\* and of such a loss nothing is reported.
Unread ==
  (UNION {BlocksOf(r) : r \in SuperRuns \ {[start |-> 0, len |-> 1 + GdtBlocks]}})
    \cup (UNION {BlocksOf(r) : r \in UNION {{plans[s].runs[i] : i \in DOMAIN plans[s].runs} :
                                              s \in {t \in Slots : KindOf(t) # "dir"}}})
LossIsReported ==
  pc = "torn" =>
    /\ VerifyClean => lost \subseteq Unread
    /\ NumbersSuffice /\ lost \subseteq Unread => VerifyClean

\* The inodes in use are those that were numbered.  Each has its size, holes
\* included, and as many blocks as its segments need, and leads the reader from
\* each block of a segment to the block that seal() placed for it, the n-th of
\* the inode to the n-th placed, and from a block of a hole to none.  The last
\* of this takes logical block numbers that fit.
BlocksPlaced(s) == UNION {BlocksOf(plans[s].runs[i]) : i \in DOMAIN plans[s].runs}
InSegment(segs, l) ==
  \E k \in DOMAIN segs : l \in segs[k].offset .. segs[k].offset + segs[k].len - 1
SegmentsAreFound(s) ==
  \A k \in DOMAIN SegsOf(s) : \A j \in 0 .. SegsOf(s)[k].len - 1 :
    file_block(inode_raw(ino_of(s)), SegsOf(s)[k].offset + j)
      = {Nth(BlocksPlaced(s), Before(SegsOf(s), k) + j + 1)}
HolesAreEmpty(s) ==
  \A l \in 0 .. CeilDiv(SizeOf(s), BlockUnits) - 1 :
    ~InSegment(SegsOf(s), l) => file_block(inode_raw(ino_of(s)), l) = {}
InodesAreFound ==
  pc = "written" =>
    /\ InUse = 1 .. max_ino
    /\ \A s \in Owners :
         /\ InodeOK(ino_of(s))
         /\ inode_raw(ino_of(s)).size = SizeOf(s)
         /\ Cardinality(BlocksPlaced(s)) = Lengths(SegsOf(s))
         /\ NumbersFit(s) => SegmentsAreFound(s) /\ HolesAreEmpty(s)
==============================================================================
