--------------------------- MODULE MCInodeContents ---------------------------
(***************************************************************************)
(* Directories with few attributes, and all short lists of set_xattr calls *)
(* on an empty directory.  A block of 80 bytes holds one to five records,  *)
(* so that up to five entries reach every form of directory, two blocks    *)
(* without an index and too large an index included.                       *)
(***************************************************************************)
EXTENDS InodeContents

CONSTANTS MCEntries, MCCalls

E(hash, minor, len) == [hash |-> hash, minor |-> minor, len |-> len]
MCEntry == {E(0, 0, 9), E(2, 0, 9), E(2, 1, 3), E(2, 0, 3), E(4, 0, 9), E(4, 1, 4)}
\* One more of these: leaves of two, or an index that is too large.
MCEvenEntry == {E(2, 0, 6), E(2, 0, 5), E(4, 0, 9)}

C(index, nlen, ntext, vlen, vtext) ==
  [name  |-> [index |-> index, len |-> nlen, text |-> ntext],
   value |-> [len |-> vlen, text |-> vtext]]
MCCall == {C(2, 0, 0, 0, 0), C(2, 0, 0, 11, 1), C(1, 1, 1, 1, 1), C(1, 1, 1, 3, 2),
           C(1, 1, 2, 1, 1), C(1, 1, 2, 1, 2), C(1, 2, 1, 2, 1), C(6, 1, 3, 5, 1),
           C(6, 1, 3, 12, 1)}

MCInodes ==
  [entries : SeqOf(MCEntry, MCEntries) \cup [1 .. MCEntries + 1 -> MCEvenEntry],
   calls : {<<>>}]
  \cup [entries : {<<>>}, calls : SeqOf(MCCall, MCCalls)]
  \cup [entries : {<<E(2, 0, 9), E(2, 0, 9)>>}, calls : {<<C(1, 1, 1, 1, 1)>>}]
==============================================================================
