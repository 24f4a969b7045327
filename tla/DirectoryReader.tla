---------------------------- MODULE DirectoryReader --------------------------
(***************************************************************************)
(* Three readers of the blocks of a directory: the reader of this crate,   *)
(* which lists all blocks in order; the kernel, which follows the index to *)
(* the leaf of a hash; and the verifier, which walks the index and asks    *)
(* whether the kernel would find what is there.                            *)
(***************************************************************************)
EXTENDS Directories

\* DirentIter: the records tile the block, and names fit their records.
TilesBlock(b) ==
  /\ Lengths(b.recs) = BlockLen
  /\ \A i \in DOMAIN b.recs :
       LET r == b.recs[i] IN r.len >= 2 /\ (r.name # Unused => rec_len(r.name) <= r.len)
NamesIn(b) ==
  LET used == SelectSeq(b.recs, LAMBDA r : r.name # Unused)
  IN [i \in DOMAIN used |-> used[i].name]

\* tail_checksum() finds a tail.
HasTail(b) == Last(b.recs) = ChecksumTail

\* DxRootView::parse and DxNodeView::parse accept the block.
ParsesAsRoot(b) == Head(b.recs).name = Dot /\ b.dx # <<>>
ParsesAsNode(b) == Head(b.recs) = [name |-> Unused, len |-> BlockLen] /\ b.dx # <<>>

Mapped(l) == l \in DOMAIN blocks

-----------------------------------------------------------------------------
(* Fs::read_dir *)

\* Index nodes are told from leaves by the record that spans the block.
IsSkipped(l) == indexed /\ l > 0 /\ Head(blocks[l].recs) = [name |-> Unused, len |-> BlockLen]

Readable(l) ==
  /\ Mapped(l)
  /\ IF indexed /\ l = 0 THEN ParsesAsRoot(blocks[l])
     ELSE IsSkipped(l) \/ TilesBlock(blocks[l])
ReadsDir == \A l \in 0 .. size - 1 : Readable(l)

\* What read_dir() returns if it does.
read_dir ==
  FlattenSeq([k \in 1 .. size |->
     IF indexed /\ k = 1 THEN <<Dot, DotDot>>
     ELSE IF IsSkipped(k - 1) THEN <<>> ELSE NamesIn(blocks[k - 1])])

-----------------------------------------------------------------------------
(* The kernel: dx_probe() and ext4_htree_next_block(). *)

\* The place of the last entry, from the second on, whose hash is not above
\* h; the first entry if there is none.
dx_probe(dx, h) ==
  LET search[p \in 2 .. Len(dx) + 1, q \in 1 .. Len(dx)] ==
        IF p > q THEN p - 1
        ELSE LET mid == p + (q - p) \div 2
             IN IF dx[mid].hash > h THEN search[p, mid - 1] ELSE search[mid + 1, q]
  IN search[2, Len(dx)]

IndexRoot == blocks[0]
NodeOf(i) == blocks[IndexRoot.dx[i].block]

\* All entries for leaves, in order; a node's first has the hash of the
\* root's entry for it.
LeafIndex ==
  IF IndexRoot.levels = 0 THEN IndexRoot.dx
  ELSE FlattenSeq([i \in DOMAIN IndexRoot.dx |->
                     [NodeOf(i).dx EXCEPT ![1].hash = IndexRoot.dx[i].hash]])

FirstProbed(h) ==
  LET i == dx_probe(IndexRoot.dx, h)
  IN IF IndexRoot.levels = 0 THEN i
     ELSE FoldLeft(LAMBDA sum, j : sum + Len(NodeOf(j).dx), 0, [j \in 1 .. i - 1 |-> j])
            + dx_probe(NodeOf(i).dx, h)

\* The leaf found, and those after it while the index repeats the hash.
LeavesProbed(h) ==
  LET first == FirstProbed(h)
  IN {LeafIndex[j].block : j \in {k \in first .. Len(LeafIndex) :
        \A x \in first + 1 .. k : Major(LeafIndex[x].hash) = h}}

FoundByHash(name) ==
  \E l \in LeavesProbed(entries[name].hash) : Contains(NamesIn(blocks[l]), name)

-----------------------------------------------------------------------------
(* verify_dir() *)

\* Each child with the hashes it may hold: from lo up to, but without, hi.
Ranges(dx) ==
  LET upper(h) == IF h % 2 = 1 THEN Major(h) + 1 ELSE Major(h)
  IN [i \in DOMAIN dx |->
        [block |-> dx[i].block,
         lo    |-> Major(dx[i].hash),
         hi    |-> IF i = Len(dx) THEN HashSpan ELSE upper(dx[i + 1].hash)]]

RootRanges == Ranges(IndexRoot.dx)
IsNode(r) == Mapped(r.block) /\ ParsesAsNode(blocks[r.block])

\* The ends of a node's ranges come from its own range in the root.
NodeRanges(r) ==
  LET inner == Ranges(blocks[r.block].dx)
  IN [i \in DOMAIN inner |->
        [block |-> inner[i].block,
         lo    |-> IF i = 1 THEN r.lo ELSE inner[i].lo,
         hi    |-> IF i = Len(inner) /\ inner[i].hi > r.hi THEN r.hi ELSE inner[i].hi]]
Nested(r) == \A i \in DOMAIN NodeRanges(r) : NodeRanges(r)[i].lo >= r.lo /\ NodeRanges(r)[i].hi <= r.hi

LeafRanges ==
  IF IndexRoot.levels = 0 THEN RootRanges
  ELSE FlattenSeq([i \in DOMAIN RootRanges |->
                     IF IsNode(RootRanges[i]) THEN NodeRanges(RootRanges[i]) ELSE <<>>])

\* verify_dirent_block()
DirentBlockClean(b) == TilesBlock(b) /\ HasTail(b)

\* Fault: only the lower end of the range is looked at.
AboveLow(name, r) == name \in {Dot, DotDot} \/ r.lo <= entries[name].hash

InRange(name, r) ==
  name \in {Dot, DotDot} \/ (r.lo <= entries[name].hash /\ entries[name].hash < r.hi)

LeafClean(i) ==
  LET r == LeafRanges[i]
  IN /\ \A j \in 1 .. i - 1 : LeafRanges[j].block # r.block
     /\ Mapped(r.block)
     /\ DirentBlockClean(blocks[r.block])
     /\ \A k \in DOMAIN NamesIn(blocks[r.block]) : InRange(NamesIn(blocks[r.block])[k], r)

LinearClean == \A l \in 0 .. size - 1 : Mapped(l) /\ DirentBlockClean(blocks[l])

\* Block 0 of the image, read when the root is not mapped, is no root.
IndexClean ==
  /\ Mapped(0) /\ ParsesAsRoot(IndexRoot)
  /\ IndexRoot.levels = 1 =>
       \A i \in DOMAIN RootRanges : IsNode(RootRanges[i]) /\ Nested(RootRanges[i])
  /\ \A i \in DOMAIN LeafRanges : LeafClean(i)

\* verify_dir() adds no issue.
DirClean == IF indexed THEN IndexClean ELSE LinearClean

-----------------------------------------------------------------------------
\* A rendered directory lists "." and ".." and every entry once; without an
\* index, in the order of declaration.
ListingIsExact ==
  step = "rendered" =>
    /\ ReadsDir
    /\ Len(read_dir) = Len(entries) + 2
    /\ ToSet(read_dir) = Names \cup {Dot, DotDot}
    /\ ~indexed => read_dir = <<Dot, DotDot>> \o [n \in Names |-> n]

\* The kernel finds every entry by its hash, also where names of one hash
\* go on in the next leaf or in the first leaf of the next node.
EveryNameIsFound ==
  step = "rendered" /\ indexed => \A n \in Names : FoundByHash(n)

\* The verifier has nothing to say about what was rendered.
VerifierAcceptsDirectory == step = "rendered" => DirClean

\* A changed directory on which the verifier finds nothing still lists every
\* entry, and the kernel finds all but those in leaves that no index entry
\* names, which the verifier does not look for.
VerdictIsSound ==
  step = "damaged" /\ DirClean =>
    /\ ReadsDir
    /\ Names \subseteq ToSet(read_dir)
    /\ indexed => \A n \in Names :
         FoundByHash(n)
           \/ \A i \in DOMAIN LeafIndex : ~Contains(NamesIn(blocks[LeafIndex[i].block]), n)
==============================================================================
