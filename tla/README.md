# A TLA+ model of mkext4

mkext4 writes deterministic ext4 images. A caller declares a namespace with
`FsBuilder`, seals it into a `Layout` (every block placed, every structure
rendered), gets an `ImageWriter` from it, and streams file contents to a
`RegionSink`. A small reader and verifier read images back.

The modules here model that pipeline as its code has it: what the builder's
bookkeeping guarantees, where blocks go, and what reaches the sink in which
order, also when the reader of a file or the sink fails; and what the reader
and the verifier make of the image, also when parts of it are missing or wrong.
TLC checks them on small instances; TLAPS proves the safety of the allocator, the
builder, the names in the image, the writer and the checking sink, that
placement uses no block twice, that the verifier accepts the sealed image (if
logical block numbers fit 32 bits) and reports what is missing from one, and that
files read back through their extent trees, for every instance. Paths below are relative to the repository (`src/` is
its crate, `DESIGN.md` its design document); in `PROJECT.json` they carry the
checkout's `src/` in front.

Run `tlc -config X.cfg M` and `tlapm M.tla` in this directory.

## The system

| Component | State | Operations | What makes it correct | Here |
|---|---|---|---|---|
| Namespace builder (`build/mod.rs`) | node table, per directory an append-only entry list with tombstones and a name index, per node a link count, `declared_bytes` | `mkdir`, `file`, `file_sparse`, `symlink`, `mknod`, `hardlink`, `set_meta`, `set_xattr`, `remove` | index, entries and link counts agree after any sequence of calls; directories form a tree; bytes are counted once | `Namespace`, `NamespaceProofs`; `set_xattr` in `Attributes` |
| Names in the image (`build/seal.rs`) | none: derived from the builder at `seal()` | reachability, inode numbers, listings, `..`, link counts | the passes agree with each other, with the builder's counters and with what e2fsck recomputes | `SealedNames`, `NamespaceProofs` |
| Block allocator (`layout/alloc.rs`) | cursor, index into the reserved list | `take`, `take_one` | lowest free blocks, ascending, complete, never reserved, split only where it must be | `Allocator`, `BlockSupply`, `AllocatorProofs` |
| Geometry (`layout/geometry.rs`) | none | groups, backups, overhead, inode and journal sizes | agrees with the allocators and the group descriptors at every tail length | operators of `Seal` |
| Placement (`build/seal.rs`) | one allocator per flex span, one for the rest; bitmap; segment and run lists | `seal()` | no block twice; bitmap, free counts, i_blocks and overhead balance; the layout can be emitted in one pass | `Seal`, `SealedLayout`, `SealProofs`; block contents in `SealedVolume`, `VolumeProofs` |
| Image writer (`build/writer.rs`) | fill state per file, pending count, poison flag, scratch buffer | `Layout::writer`, `fill`, `finish` | each byte once, nothing outside, content exact, no completion after a failure | `ImageWriter`, `ImageWriterProofs` |
| Sinks (`sink.rs`) | caller's; `CheckingSink` keeps covered intervals, `VecSink` bytes, `FileSink` a file | `data`, `zeros`, `finish` | see the contract; the interval list is exact, overlaps and nothing else are refused | `SinkContract`, `CheckingSink`, `CheckingSinkProofs` |
| Extent trees (`plan_extents`, `spec/extent.rs`) | none | build, walk | a file reads back as declared; the walk returns what was built or fails | `Extents`, `ExtentsProofs`; block counts in `Seal` |
| Directory blocks, htree (`pack_dirents`, `build/htree.rs`, `spec/dirent.rs`, `spec/htree.rs`) | none | pack, index, iterate, look up | records tile blocks; every name is listed once and found by hash | `Directories`, `DirectoryReader` |
| Attributes (`set_xattr`, `build/xattr_build.rs`, `spec/xattr.rs`) | per-node list | set, split into body and block, parse | last value set is read back, in canonical order; nothing is refused that fits | `Attributes` |
| Reader, verifier (`reader/`) | cached superblock and group table | open, walk, read, verify | reads back what was sealed; the verifier accepts it and nothing that lacks a piece of it | `SealedVolume`, `VolumeProofs`, `DirectoryReader`, `Attributes`, `Extents` |
| Codecs, checksums, hash (`spec/`, `csum.rs`, `dirhash.rs`, `le.rs`) | none | encode, decode | fixed-offset fields and byte arithmetic, pinned by known-answer tests | not modelled |

Parts interact by plain calls on one thread: `seal()` consumes the builder and
drives the allocators; `Layout::writer()` emits all metadata before it returns;
`fill()` calls back into the caller's `Read` and `RegionSink`. There is no
concurrency. What is hard is **long sequences of legal calls** (stale handles,
remove and re-add, hardlinks across removed subtrees), **failure half way** (a
short read, a sink error, a second writer over a half-written image),
**boundaries** (tail groups, touching or overlapping reserved runs, backups in
the way of flex metadata, the last partial block) and **agreement** between
quantities that separate passes compute or that one part writes and another
reads. `hazards` in `PROJECT.json` lists each
at its line.

## Modules and code

**`Namespace`** is `FsBuilder`. The fields of `Node` are one sequence each over
slots; a handle is a slot number (ROOT is 1 here, 0 in the code). Kinds, sizes
and metadata are small sets; names are model values. An action is a whole call:
`Declare` is `dir_mut`, `check_duplicate`, the index insert, the push of the
entry and the push of the node. `remove` tombstones one entry and, for a
directory, everything below it; the worklist of `remove_subtree` is abstracted
to the set it reaches (`Subtree`), the repeated `unlink`s to the number of
tombstones per node. Rejected calls change nothing and are not actions.
`StaleHandles` says whether the caller passes handles of nodes that are no
longer linked, which the code does not check.

**`SealedNames`** extends it with what `seal()` derives: `mark_reachable`,
`slot_ino`, the listings, `parent_map`, the subdirectory and link counts.
`seal()` can be called at any moment, so its properties are invariants of
`Namespace`: they hold of the image that sealing right now would give.

**`Allocator`** follows `take()` loop by loop: `Take` is the call,
`SkipBehind`/`SkipOver`/`SkipDone` are the iterations and the exit of
`skip_reserved`, `CarveMore`/`CarveLast` push one run, `Exhausted` is the
`return None`. `take_one` is `Take(1, 1)`. Observers
remember what was handed out or carved, where the cursor began and whether it
ran dry. **`BlockSupply`** says what callers may
rely on: the lowest free blocks, exactly as many as asked for, or a refusal
when too few are left, after which there are none. `Allocator` implements it
under the mapping of `Supply` at its end.

**`Seal`** is `seal()` from the geometry check to the layout, one action per
placed thing: the bitmaps of a span, each inode table, the journal, lost+found,
each inode's metadata, each file's data. It uses the allocators by what
`BlockSupply` promises (`FreeFrom`, `Lowest`) and by where runs break
(`RunsOf`), which is what `Allocator` is shown to do. Block contents do not
appear; what appears is everything that decides where blocks go and how they
are counted. `Refused` collects the early returns. **`Grants`** holds the
operators for the allocator's answers.

**`Extents`** follows one file all the way: `DeclareFile` is `file_sparse` with
its checks and merging, `PlaceSegment` one `take` of the data phase with its
logical blocks, `PlanInline`, `PlanLeaves`, `PlanIndex`, `PlanRoot` the levels of
`plan_extents`, `TooDeep` and `ImageFull` its errors. `Emitted` hands the image to the
reader, complete or with every tree block from some point on missing, and
`VisitExtent`, `Descend`, `Return`, `Corrupt` are `walk_extent_node` with its
recursion as a stack. `Filled` is the block content `fill_inner` leaves, `Read`
what `read_file_at` takes from it. `Seal` needs only how many blocks a tree
takes; here the nodes have entries.

**`SealedVolume`** extends `Seal` with what the blocks hold. A block is what it
was written with or `Zeros`. A checksum is good exactly for what it was computed
over: a block whose checksum covers its owner's number names its owner, and a
descriptor has the very bits of its bitmaps. `TheImage` puts
together the superblock copies, descriptors, bitmaps, inode tables and each
inode's attributes, tree and contents, an attribute block with its own number under
its checksum. `SegsOf` are the parts of a file that have blocks: a sparse file
has its data segments, each at its offset, everything else is one segment
from 0. `LogicalOf` is the loop of the data phase: the offset of the segment in
blocks plus what was placed for it before, as a `u32`, so the number of a segment
behind 2^32 blocks wraps around; `SizeOf` is `i_size`, with holes. `Write` emits the
image; `LoseOne` and `Tear`
leave out one block, or everything from some block on. `OpenOK`, `group_desc`,
`inode_raw`, `inode_in_use`, `file_block` are the calls of `Fs` by name, and
`GroupClean`, `InodeClean`, `ExtentsClean`, `DirBlocksClean`, `ContentClean`,
`JournalClean` the passes of `verify()`. `NumbersSuffice` says that the logical
blocks of all inodes are below 2^32.
`VolumeAssumption` says how many blocks the descriptors take, as
`Geometry::new()` computes it (`Seal` needs only that they leave room in a group),
and that the image has fewer than 2^32 blocks, which it checks.

**`Directories`** renders one directory: `RenderLinear` and `RenderLostFound` are
`seal()` with `pack_dirents`, `PackLeaves`, `RenderFlat`, `RenderNodes` and
`Unsupported` are `htree::build`. An entry is its hash, minor hash and record
length; hashes are inputs, because what matters is which of them collide. The
actions after `Damage` change the rendered blocks in one place, as a lost write
or a builder with a bug would. **`DirectoryReader`** reads such blocks three ways:
`read_dir` is the reader's listing, `LeavesProbed` the kernel's descent by hash
(external: `dx_probe` and the continuation rule of `ext4_htree_next_block`), and
`DirClean` is `verify_dir` with its ranges.

**`Attributes`** takes one inode from `set_xattr` calls through `Plan` or `Refuse`
(`xattr_build::plan`) and `RenderAttrs` to two regions of 4-byte units, and back
through `parse_entries`; a unit remembers what was last written to it, so an
entry that a value overwrites does not parse. **`InodeContents`** composes the
two in the order of `seal()`: attributes first, then directory blocks.

**`CheckingSink`** is `record`, `finish` and the two inner sinks under any caller,
also one that goes on after an error. `IsPoint` is the `partition_point`,
`Overlaps` the two comparisons, `Coalesced` the four ways of joining; `Forward`
is the inner call, which may fail after the range has been recorded.

**`SealedLayout`** is the interface between the two halves. `LayoutOK` is what
the writer counts on; `Seal` is shown to deliver it (`LayoutIsWritable`) and
`ImageWriter` assumes it of its constant `Layouts`.

**`ImageWriter`** has one step per loop iteration with at most one sink call.
`GapToRun`, `GapToEnd`, `GapDone` are `emit_gap`; `EmitPart`, `SegmentDone` are
the segment loop with `emit_itable`; `Opened` is the end of
`ImageWriter::new`. `Fill`, `StartRun`, `Chunk`, `RunDone`, `FillDone` are
`fill` and `fill_inner`. `MetadataFails` and `FillFails` are every `?` on a sink
or reader; the failed call's bytes may have landed or not. `image` is what the
sink holds and survives writers; `arrivals` counts what one writer emitted.

**`SinkContract`** states the contract of `RegionSink` from the sink's side;
`ImplementsContract` instantiates it with `arrivals` and "finished".

## Runs

| Run | Instance | Checks |
|---|---|---|
| `allocator` | devices of up to 6 blocks, starts 0 and 2, every sorted list of up to two reserved runs of length up to 3 (disjoint, touching, nested, equal, past the end), requests of 1, 2, 4 blocks, caps 1, 2, 9 | grants are free, ascend, leave nothing behind, split only at reserved blocks or the cap; refinement of `BlockSupply`; `take` returns |
| `namespace_live` | 4 slots, 2 names, 2 entries per directory, `LINK_MAX` 4, live handles | nothing linked hangs off a removed directory; `declared_bytes`; image link counts, `..` and unique names |
| `namespace_stale` | 3 slots, 3 entries, 2 metadata values, any handle | index against entries, link counts against names, forest, no listed name dropped |
| `writer` | every assignment of 5 blocks to two byte segments or tables, two files or nothing; files in one run or one per block; sizes ending inside or at a block; scratch of 2 blocks; 2 writers | see `ImageWriter` |
| `seal` | devices of 20 to 60 blocks of 12-block groups, flex spans of 4 groups, inode tables of 1 to 3 blocks, journals of 1, 6, 9 blocks, 6 namespaces with dense and sparse files, 64 logical block numbers, which one sparse file exceeds; every single block lost and every prefix kept | no block marked twice, writable layout, bitmap and counts balance; every inode in use is found, with its size, its blocks and its holes; the verifier accepts the whole image if block numbers suffice, and rejects one that lacks anything but what it never reads |
| `extents` | every segment map of up to 3 segments of 0, 1, 2 or 6 units, 3 to 20 data segments apart by holes, single segments of 11 to 130 units; 60 blocks with five patterns of blocks in the way | the file reads back as declared; the walk is exact or fails; search by key; minimal tree |
| `inode_contents` | blocks of 80 bytes, two index entries per node, hashes 0, 2, 4; up to 4 entries of six kinds and 5 of three; every change of one block or index entry; up to 4 of nine `set_xattr` calls, 48 bytes of inode body, 100 of block | listing, lookup by hash and verifier agree on rendered directories; on changed ones a clean verdict means that nothing is lost; attributes read back or could not fit |
| `checking_sink` | images of 0, 4, 5 bytes, four calls on six bytes in any order | the list is exact, refusals are exact, a whole image is whole in both sinks |
| `namespace_stale_links`, `namespace_lost_found`, `seal_tail`, `extents_wrap` | small instances of the same modules | violations, see Findings |

Why the bounds are enough. *Namespace*: the cheapest interference needs a
directory in a directory and a file with names in both (3 slots and the root);
three entries allow remove, re-add and a tombstone between. *Allocator*: a
request meets at most the next two reserved runs at once, and two runs already
touch, nest and stick out of the device; requests that break at none, one and
two reserved runs all occur. *Writer*: five blocks hold two segments, two runs
and gaps in every order; a run of four blocks takes two chunks of the scratch
buffer. *Seal*: lengths are scaled so that each special case of the real
constants occurs within some hundred blocks: with 32768-block groups and 16
groups a span, the bitmaps and the largest inode tables of a span exceed its
leader group and run into the backup in group 1, as 2 x 4 bitmaps and 4 tables
of 3 blocks do in groups of 12; the extent limits 4 and 340 become 2 and 2, so
files need leaves and index nodes; groups 1 and 3 (backups), 2 and 4 (none)
exist, with every tail length from 1 to 12. *Extents*: capacities 4 and 340
become 2 and 3, so that 2, 6 and 18 extents fill a depth, and every count from
1 to 20 occurs; a block has 2 units, so segments end inside blocks and at them;
an extent has at most 2 blocks, so runs of exactly the longest length occur.
*Volume*: five descriptors fill a descriptor block, so
the table is one block; groups with all, some and no inodes in use occur, and
every kind of block is lost once on every device. Files have up to nine data
segments, holes before the first and behind the last, and segments longer than an
extent; 64 block numbers are more than any of the devices has blocks, as 2^32 are,
and one file has a segment that reaches past them and wraps onto its first
(without `NumbersSuffice` the run finds `VerifierAcceptsImage` violated there). *Directories*: the record
lengths 3 to 9 in blocks of 17 usable units let records end at the tail, one unit
before it and just past it; five entries give up to five leaves, hence flat
indexes, one and two nodes, and a refusal; three hashes and equal minors put
equal hashes on both sides of leaves and of nodes. *Attributes*: the body takes
no, one or two of the attributes, the block one or several; values of no length
and of the longest that fits occur, and names are set again before the split is
known. *Checking sink*: ranges join on neither, either and both sides only from
three calls on, and a fourth can then hit any of them.
`seal` leaves out devices whose
last group is a backup shorter than its superblock copy; they are the subject
of `seal_tail`.

Deadlock is not checked where stopping is legal: a builder at its bounds, a
caller that stops calling its writer, a finished placement, a file that has been
read, a rendered directory, a finished sink. The allocator can always be called again and is checked for deadlock.

Fairness. All code runs on the caller's thread, so a call that has begun keeps
stepping: `Allocator` has weak fairness on the steps within a call,
`ImageWriter` on the steps of the metadata pass and of a fill, which also says
that reader and sink answer, with or without an error. No call is ever forced:
nothing says that the caller fills, finishes or asks again.

## Findings

* **Stale handles** (`namespace_stale_links`). `hardlink` and `add_entry` look
  whether a handle exists and not whether it is linked. Link a file into a
  removed directory and the image stores a link count that counts a name no
  directory lists; e2fsck would reject it.
* **lost+found** (`namespace_lost_found`). `seal()` adds its own `lost+found` to
  the root without a look at the declared names, and the image lists two.
* **Short tail group** (`seal_tail`). A last group that is a backup gets its
  superblock and descriptors even if it ends before them; a test calls a
  one-block last group valid.
* **Sparse files past 2^32 blocks** (`extents_wrap`). The logical block of a
  segment is cut to 32 bits and no call limits the offset, so two extents claim
  the same logical block and the verifier's own check of the sealed image fails.
  This is why the properties of `SealedVolume` about the order of extents have
  the hypothesis `NumbersSuffice`.

Besides these, things worth knowing that break no property:

* `declared_bytes` is exact for live handles only. `unlink` (`build/mod.rs:584`)
  takes the bytes of a file off with its last name, and a `hardlink` through a
  handle of the removed file does not add them again: the counter, "total declared
  file bytes of all currently-linked files" by its comment, is then too low, and
  removing the new name subtracts them a second time, below zero if nothing else is
  declared, which panics in builds with overflow checks. No run of this
  project has this as its subject: `namespace_live` checks `DeclaredBytesExact`, and
  `BytesAreCounted` proves it, for `~StaleHandles`; set `StaleHandles` to TRUE there
  and TLC finds it violated by file, remove, hardlink. Nothing reads the
  counter, so images are not affected.
* When flex metadata runs into a backup group, `all_reserved` holds overlapping
  runs, against the precondition stated at `Allocator::new` (a `debug_assert`). In
  builds without the assertion the result is still right: `MarkedOnce` holds, and
  `NeverGrantsReserved` is proved of overlapping lists.
* `verify()` walks the leaves that the index names. A leaf that no index entry
  names (say, behind a count that is one too small) is not noticed, although lookups miss its
  names; `VerdictIsSound` says so and that this is the only case.
* `verify()` does not read file data, symlink targets and backups: `Unread` in
  `SealedVolume` lists all that can be missing from an image it accepts.
* `CheckingSink` keeps a range as covered when the inner sink fails, so repeating
  the failed call is an overlap, and `finish()` may accept an image whose file
  lacks the bytes; the error has been reported by then.
* A call of no bytes behind the end lets `VecSink` grow.
* `DESIGN.md` (565-567) says that entries of equal hash are split between two leaves
  only when one hash exceeds a leaf. `htree::build` cuts leaves by size alone, so a
  run of equal hashes can be split although it would have fit a leaf of its own. The
  continuation bit is set for any such split, and `EveryNameIsFound` shows that
  lookups succeed; the model cuts as the code does.
* `DESIGN.md` (597) orders attributes by `(e_name_index, name)`. The code, its
  comment and test, and the format have the length before the name, and so has
  `AttributesReadBack`.

## Proofs

`AllocatorProofs` proves, for every device, every list of reserved runs sorted
by start (overlapping ones included), every request and every cap, all four
invariants of the run `allocator`, that `take()` splits only where it must
(`SplitsAreForced`), and that `Allocator` implements `BlockSupply`.

The four invariants are not inductive: that the block carved next is free
depends on where the loops are. `IInv` adds that the reserved runs passed lie
behind the cursor (`PassedRunsBehind`), that at the carving point the next one
lies strictly ahead (`NextRunAhead`), that nothing is half carved between calls
(`IdleIsClean`), and that the cursor never falls behind its start. `CarvedRunFits`
and `CarvedRunIsFree` say what one iteration pushes; `CarvingKeepsGrants` is
the step of all three grant invariants; `StepInv` goes through the actions. For
the splits, `LastSplit` adds what is known of the last run carved while the loop has
not yet looked at the next place: it ends before the cursor unless `max_run` cut
it, the device ends there, or a reserved run starts there. For the refinement, `OutBlocks` counts the blocks of an answer by its run lengths,
`CarvingCounts` relates it to what is still wanted, and `StepRefines` maps each
step to a `BlockSupply` step or a stutter. The proofs use the module's
assumption (constants are sets of naturals of the right kind) and nothing else.

`NamespaceProofs` proves of the builder, for every number of slots, names and
entries per directory and every `LINK_MAX`: the index of each directory agrees
with its entries, each link count is the number of entries that name the node,
the directories form a forest, and, for callers that pass live handles, nothing
linked hangs off a removed directory. The first three hold with stale handles
too; the fourth is the one that needs the caller's discipline, and
`RemovalIsComplete` assumes `~StaleHandles`.

No one of them is inductive alone, so `IInv` takes the first three with
`TableOK` together. The link count of a removed node drops by the number of
tombstones, which is right because live entries and the index agree
(`RemovedRef`). `remove` of a directory must take the one name of each directory
inside it, and it does because each directory has one name, in a directory made
earlier (`SubtreeFacts`). Then the names that go are exactly those held by the directories
that go, and the name removed (`BuriedRefs`, `GoneIsKilled`), and the counts
follow (`UnlinkedCounts`). `AddsEntry` with `AddedRefs` and `AddedIndex` is the
step shared by all declaring calls and `hardlink`; `DeclareKeeps`,
`HardlinkKeeps`, `RemoveKeeps` and `SameTableKeeps` are one lemma per action.

`BytesAreCounted` adds the bytes, for callers with live handles: what `remove`
subtracts is the bytes of the files that lose their last link. Sums are
cardinalities here and in the writer, of the set that has one pair
`<<member, k>>` for each k up to the member's size (`BytesOf`, `SumOf`);
`BasicFacts` has what the proofs need of them (`UnitsOfOneMore`,
`UnitsOfTheRest`), by the library's theorems on finite sets and without
induction. It also proves that a set of naturals has a least member
(`LeastNatural`, from the library's minimal elements of a well-founded order),
and some arithmetic of blocks.

The same module proves what `seal()` derives from any reachable state of the
builder: every name linked below the root is listed (`NamesAreListed`, with stale
handles as well), `..` leads back to the directory that lists one
(`DotDotLeadsBack`), no directory lists a name twice (`NamesDiffer`), and the
link counts written are those recomputed from the listings (`LinkCountsAgree`).
The last two have a hypothesis each, and for each there is a run that shows it to
be needed: `LostFound \notin Names` (`namespace_lost_found`) and `~StaleHandles`
(`namespace_stale_links`). Reachability is a least set closed under listing, so
membership is shown by contradiction: the linked nodes that are not reached have
a least slot, its directory has a smaller one, and so is reached.

`CheckingSinkProofs` proves of `CheckingSink`, for all image lengths, addresses
and numbers of calls, that the interval list is exactly what has been recorded in
the fewest ranges (`ListIsExact`), that a call is refused exactly when it has a
byte that an earlier call had (`OverlapsAreRefused`), and that an image `finish()`
accepts was covered by one call per byte and is what `VecSink` holds, and
`FileSink` if its file had no errors (`WholeIsWhole`). `IInv` is the type
of the state, the exact list, that no byte is recorded both as data and as zeros,
and that the list does not change after `finish()`. Two lemmas carry it: if
neither neighbour of the insertion point overlaps, none does, because the ranges
ascend with gaps; and joining at the point, in each of its four cases, keeps them
so. The gaps are stated for all pairs of ranges and not only for neighbours,
which makes the invariant usable without induction over the list. `BufHolds` and
`FileHolds` are added for `WholeIsWhole`: the buffer, and the file, hold what has
been recorded as data, up to a length that they also give.

`ImageWriterProofs` proves of `ImageWriter`, for every set of layouts that
`LayoutOK` allows, every scratch length and any number of writers, all properties
of the run `writer` except `CallsReturn`. Its invariant says what a position in
the code means: in the metadata pass, that the segments and data runs before the
cursors lie below the block `at` and the rest above it (`Between`); in a fill,
how much of the run and of the file is left (`AtRun`, `InRun`). From that, `Sent`
says for each address whether it has arrived: before the pass is over, that it
lies below the position and not in a data run; after it, that it is in no file, or
in one that is done or in the part done of the one being filled. `SentInv` states
this as an equivalence, so that "not yet" is known as well as "already";
`ContentInv` says that what has arrived is what belongs there (`Right`). A call of
the sink then preserves the invariant if its addresses are new and its bytes
right (`EmitLands`), which `GapCall`, `SegmentCall`, `ChunkCall` and `PadCall`
show of the four calls there are; a failing call is the same call or none.
`RunsApart`, `SegmentsApart` and `DataApart` give each block one owner, and
`ExtentFacts` has the arithmetic of `extents()`: all runs of a file but the last
are full, the last is not empty. A poisoned writer keeps only that what is missing
is due to files not filled (`MissingInv`), since part of a chunk may have
arrived. For the refinement of `SinkContract` (`KeepsContract`), each step adds
addresses that had not arrived, starts a new account, or completes when all have.
The assumptions are the module's: what `seal()` promises of a layout, which
`SealedLayoutIsWritable` shows it to keep, and a scratch buffer of whole blocks.

`BasicFacts` also proves what the operators of `Grants` give, by counting: the blocks
below one are its rank, the ranks of a finite set are 0 up to its size
(`RankIsTaken`, by the pigeonhole principle of the library and without
induction), so `Lowest(n, S)` has n members, all before the others, and `Nth`
numbers a set in order. `RunsTile` is what the proofs about placement use: the
runs of a set are in it, ascending, apart, and leave nothing out. `RunsAreShort`
adds that no run is longer than the longest extent, because `Nth` of a stretch
that long is a head again. `SizeOfParts`, `SumOfSame` and `SumOfOneChanged` are
what the proofs about counts use: a set in parts that are apart has the sum of
their sizes, and a sum in which one term changes, changes by as much.

`SealProofs` proves `MarkedOnce` of `Seal` (`NoBlockMarkedTwice`), for every size
of groups, spans, tables and extents and all inputs. The hard part is the flex
spans. Each has an allocator of its own that knows of no other, so they are
apart only if each ends before the next leader group, and a table is given up
for a second one when a superblock copy breaks it. `IInv` counts: an open span has
taken at most two blocks per group and twice the length of a table per table
placed (`SpanIsShort`), and its groups hold more free blocks than that before the
next leader (`BodiesOfSpan`), so it cannot reach it (`SpanEnds`). This is what
the third conjunct of `SealAssumption` is for: three blocks, the descriptors and twice
the inode table of a group are less than the group. `Geometry::new()` makes it
true, with at most 1024 blocks of descriptors (fewer than 2^32 blocks in all) and
2048 of a table (32768 inodes) in groups of 32768. The rest of `IInv` says that no
metadata block has two uses (`MetaApart`), that all lie in the runs kept for the second
allocator (`MetaCovered`), and that what that one has given out is free of these
and behind its cursor, in lists that are apart (`OutInv`); `PlaceFacts` is its
step. There is one lemma per action (`PlaceBitmapsKeeps`, `PlaceTableKeeps`, ...),
and `ApartWhenInvariant` takes the marks in three sorts.

Three more properties of a sealed image follow from it in the same module, with an
invariant each for what `IInv` does not remember. `FileInv` says of the files
placed so far that each has as many blocks as its bytes need, ascending and before
those of the files after it, and that together they are the data runs. With it the
layout is one the writer can emit (`SealedLayoutIsWritable`): the segments are single blocks, group descriptors or
inode tables (`SegmentShape`), these are apart from one another
(`SegmentsApart`) and from the data, and a sorted set of things that are apart
ascends (`SortedLists`). `CountInv` says that `i_blocks` of all inodes and the
journal's share add up to the blocks the second allocator has given out; a step
adds the same three sets to both sides, an attribute block, contents and tree
blocks, which are new and apart (`Fresh`, `CountOfMore`); one-block segments have
one block by `RunsAreShort`. The superblock copies
and the metadata of the groups are counted by the geometry alone
(`SizeOfSupers`, `SizeOfMeta`), so the accounts balance (`AccountsAreBalanced`).
And the bitmap, taken block by block (`BitmapIs`), has what the segments, the files
and the journal have (`BitmapIsLayout`), and the groups cut up what is left of the
image (`GroupOf`, `GroupBodiesApart`), so that their free counts add up to it
(`BitmapMatchesLayout`).

The first and the last of the three have the hypothesis `CopiesFit`: if the last group
holds a superblock copy, the image reaches to the end of it. The code does not
see to that, and without it they are false: the copy is emitted, and set in the
bitmap, past the end of the image, which is what `seal_tail` shows. The second, and `MarkedOnce`,
hold without it. `CopiesFit` speaks of the arguments of `seal()` only, and an image
whose last group is full, or is no backup group, satisfies it.

`VolumeProofs` proves the three properties of `SealedVolume`. The verifier
accepts the image that was written to the end if `NumbersSuffice`
(`WrittenImagesAreClean`). An image that lacks a block that is read is reported,
for every input, and one that lacks no such block is not, again if
`NumbersSuffice` (`LostBlocksAreReported`). The inodes in use are those that were numbered,
each with its size and the blocks its segments need, for every input; and one
whose numbers fit leads the reader from each block of a segment to the block
placed for it, and from a block of a hole to none (`WrittenInodesAreFound`). The
hypothesis is about the arguments of `seal()` only. It is needed: a sparse file can
be declared past 2^32 blocks whatever the size of the image, and the last
namespace of the run `seal`, or `extents_wrap`, shows what happens then. Inodes
that are not sparse satisfy it by themselves, since an image has fewer than 2^32
blocks (`DenseFits`).

Three invariants join `IInv`. `PlanInv` says of the plans of inodes what `OutInv` says
of the lists: that the blocks of one inode ascend, and that no two inodes share
one; it rests on `Place` answering behind its cursor (`PlansGrow`, `PlanAppended`).
`RunInv` says that the runs of an inode follow its segments (`Follows`): each
segment starts a run, because each is a request of its own, and the runs have as
many blocks as the segments. So a run lies in one segment, its logical block is
as far from the start of the segment as its blocks from the first that were placed for
it, and extents are in the order of the offsets wherever these do not wrap.
`ImageInv` says that the image is the one that was sealed but for the lost blocks, which
had content.

With these, each block of the image has one content (`OneContent`), and
a reader who looks where a descriptor, a table slot or an extent points meets that or `Zeros`
(`Reads`, `FixedAreRead`, `GroupIsRead`, `OwnerIsRead`). What is left is to compare
two computations of the same thing: the inode's number to a group, a block of its table and a slot
(`PlaceOfInode`, `InodeAtPlace`, `BlockOfInode`) against the writer's numbering of the
slots, a logical block to an extent (`ExtentFound`) against the rank of a block
among those placed (`NthOfRuns`), and a group to its descriptor block
(`DescriptorBlocks`), which is where the number of descriptor blocks matters. Each
pass of the verifier then comes to a set of blocks that must be there and, for
inodes, to extents in order (`GroupCleanIs`, `InodesCleanIs`, `ContentCleanIs`,
`JournalCleanIs`); the blocks together are
`Needed` (`VerdictIs`), and what has content is either needed or one of `Unread`
and never both (`HeldIsKnown`, `NeededIsRead`). None of this depends on how many
blocks are lost or which: the bounds `LossSizes`, and that a loss is of one block or of all behind
one, are the model's and not used. Nor is the hypothesis `CopiesFit` needed: a superblock
copy past the end of the image is missed by no pass of the verifier.

`ExtentsProofs` proves all five properties of `Extents`, for every set of segment
maps and reserved blocks and all capacities. The invariant has three parts.

`DataInv` is about the data. Its first half is what the loop of `file_sparse` does
(`RoundsOK`): after each round the data segments are the data units of the
segments seen, start at whole blocks, keep apart, and end at whole blocks or at the
end of the file. Its second half says that extents lie apart, behind the cursor and
off the reserved blocks.

`TreeInv` says that there is a map from tree blocks to the stretch of extents below
each, which every node fits (`TreeOK`), the level built last (`LevelOK`) and the
root (`RootOK`); and that the nodes on the reader's stack fit it too, with the extents found so far
those before the position of the node on top (`Walking`, `FoundSoFar`). The
map is quantified in the invariant, so no step has to compute it: a step that builds a level
extends it (`LeavesStep`, `IndexStep`). `WalkIsAlwaysFaithful` and
`TreeIsAlwaysMinimal` follow from these two: a walk that ended has used every block
of the tree, and two entries that name a block would have the same extents below them.

`LogicalInv` is about logical blocks (`Mapped`): each extent lies inside one data
segment, as far from its start as the extents before it reach beyond the segments
before that one (`Belongs`), every block of a segment is in an extent, and the
extents ascend. It has a hypothesis, `NumbersSuffice`: the file has no more blocks than
logical block numbers can tell apart, 2^32. The code does not see to it, and
`extents_wrap` shows what lies beyond. From it follow that the extents found ascend
(`ExtentsAlwaysAscend`), that the search by key ends at the extent
(`SearchAlwaysEnds`: in each node the last key not beyond a block is that of the
stretch with its extent, `HitInIndex`), and that the file reads back (`FilesReadBack`).
For the last, `NumberOfUnit` counts the data units up to one, `FilledAsDeclared` shows that
`fill()` puts just that unit where the extent has it, and `DataIsHeld` that no
data unit lacks an extent.

Two recursions are in the way of these proofs, the rounds of `file_sparse` and the
running sum of lengths. The first is a recursive function on `0 .. n`; that such
a function exists (`RecursionExists` in `BasicFacts`), and that what the first round has
and each passes on all have (`StepByStep`), is shown by contradiction from the least
number where it fails. The second is the size of a
set (`BeforeGrows` in `BasicFacts`), as elsewhere.

Only model-checked: liveness (`TakeReturns`, `CallsReturn`), since the prover does
not treat fairness; directory packing and the attribute regions (what a fold or a
recursive definition computes for every input needs induction over data, with an
operator as a parameter, which the prover does not reach), and with it what the
reader and the verifier make of the records inside a directory block.

## Not modelled

Rejected calls and their messages; name and path syntax; timestamps, modes and
device numbers; field encodings (`spec/`, `le.rs`), which have no state; the
arithmetic of checksums and hashes (`csum.rs`, `dirhash.rs`), which known-answer
tests pin: here a checksum ties content to its owner, and two different contents
never have the same one; entry hashes of attributes; checks of the reader for
field values that nothing here produces; `read_file`, `symlink_target`, `lookup`
and `resolve`, which only combine modelled calls; the copy of the journal inode in
the superblock; 32-bit widths of inode counts; memory use; `examples/mkfs.rs` and
the exports of `lib.rs`. In `Extents` the blocks of other inodes are `reserved`, a
missing tree block is blank (a stale block whose checksum still fits is not
considered), and the panic that debug builds raise where the logical block
overflows inside a segment is left out. In `Directories` the owner of a block is
left to `SealedVolume`, and the checksum of a changed block is good, as a builder
with a bug would store it. `remaining()` of the allocator is compiled for tests
only.

## Plan

1. Allocator with its abstract supply; proved. *Done.*
2. Namespace builder and the names in the image; the builder's inductive
   invariant and what is derived from it proved. *Done.*
3. Sealed layout, sink contract, writer. *Done and proved.*
4. Placement. *Done and proved*; then the tail refusal of a short flex leader.
5. Extent trees: `plan_extents` nodes against the reader's `walk_extent_node`,
   sparse logical blocks and their width. *Done and proved.*
6. Directory blocks and htree: packing against iteration, the index against
   lookup by hash and the verifier, splits inside equal hashes. *Done*; then the
   theorem that `LeafEntries` sends a lookup to a leaf not behind the first name
   of its hash.
7. `CheckingSink`'s interval list. *Done and proved*; then as an implementation of
   `SinkContract` when driven by `ImageWriter`.
8. `set_xattr` and the split of attributes between inode body and block. *Done.*
9. What the blocks of a sealed image hold, and the reader's and verifier's passes
   over them. *Done and proved.*
10. The refusals: a short last flex leader, `fill()` of a file without data, a
    journal of no blocks.
