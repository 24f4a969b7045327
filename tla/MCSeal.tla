-------------------------------- MODULE MCSeal -------------------------------
(***************************************************************************)
(* Seal on scaled geometries.  A group has 12 blocks and a flex span up to *)
(* 4 groups, so that, as with the largest inode tables in the code, the    *)
(* metadata of a span runs into the backup superblock of the next group.   *)
(***************************************************************************)
EXTENDS SealedVolume

CONSTANTS MCFrom, MCTo, MCItables, MCJournals

\* Sizes are in units of which a block has 2, offsets in blocks.
Dir(acl, n) ==
  [kind |-> "dir", acl |-> acl, content |-> n, data |-> <<>>, offset |-> <<>>, size |-> 0]
Symlink(acl) ==
  [kind |-> "symlink", acl |-> acl, content |-> 1, data |-> <<>>, offset |-> <<>>, size |-> 1]
Sparse(acl, at, d, n) ==
  [kind |-> "file", acl |-> acl, content |-> 0, data |-> d, offset |-> at, size |-> n]
Data(acl, n) == IF n = 0 THEN Sparse(acl, <<>>, <<>>, 0) ELSE Sparse(acl, <<0>>, <<n>>, n)

\* The last namespace has a file with data behind the last logical block number.
MCNamespaces ==
  {<<Dir(FALSE, 1)>>,
   <<Dir(TRUE, 7), Data(FALSE, 1)>>,
   <<Dir(FALSE, 1), Data(TRUE, 13), Symlink(TRUE), Data(FALSE, 0)>>,
   <<Dir(FALSE, 2), Sparse(FALSE, <<1, 4, 6>>, <<4, 2, 3>>, 15), Data(FALSE, 16)>>,
   <<Dir(TRUE, 1), Symlink(FALSE), Dir(FALSE, 3),
     Sparse(FALSE, [k \in 1 .. 9 |-> 2 * k - 2], <<2, 2, 2, 2, 2, 2, 2, 2, 1>>, 33)>>,
   <<Dir(FALSE, 1), Sparse(FALSE, <<0, 65>>, <<4, 2>>, 134)>>}

\* The devices whose last group holds all of its superblock copy, if any.
WholeBackups(devices) ==
  {n \in devices :
     LET last == CeilDiv(n, GroupBlocks) - 1
     IN has_backup(last) => n - last * GroupBlocks >= 1 + GdtBlocks}

InputsOn(devices) ==
  [blocks : devices, itable : MCItables, journal : MCJournals, inodes : MCNamespaces]

MCInputs == InputsOn(WholeBackups(MCFrom .. MCTo))
MCLossSizes == MCFrom .. MCTo
MCAllInputs == InputsOn(MCFrom .. MCTo)
==============================================================================
