----------------------------- MODULE SealedNames -----------------------------
(***************************************************************************)
(* What seal() makes of the declared namespace: which slots get an inode   *)
(* number, what each directory lists, each ".." and each link count.       *)
(* seal() may be called in any state of the builder, so the properties     *)
(* below are invariants of Namespace: they hold of the image that sealing  *)
(* right now would give.                                                   *)
(***************************************************************************)
EXTENDS Namespace

CONSTANTS
  LostFound   \* the name "lost+found"

ROOT_INO == 2
LOST_FOUND_INO == 11
FIRST_DYN_INO == 12

-----------------------------------------------------------------------------
\* Fault: only the directories the worklist pops are marked.
ReachableDirs == Subtree(ROOT)

\* mark_reachable(): everything below ROOT through live entries.
Reachable ==
  LET dirs == Subtree(ROOT)
  IN dirs \cup {Target(r) : r \in {q \in LiveRefs : q[1] \in dirs}}

\* Inode numbers: reachable linked slots in declaration order; 0 for none.
slot_ino ==
  LET numbered == {s \in Reachable \ {ROOT} : nlink[s] > 0}
  IN [s \in Slots |-> IF s = ROOT THEN ROOT_INO
                      ELSE IF s \notin numbered THEN 0
                      ELSE FIRST_DYN_INO + Cardinality({t \in numbered : t < s})]

\* From here on `ino` is slot_ino.
Numbered(ino) == {s \in Slots : ino[s] # 0}
NumberedDirs(ino) == {s \in Slots : ino[s] # 0 /\ IsDir(s)}

\* The entries a directory's blocks list (without "." and ".."), told apart
\* by position; the root's begin with its implicit lost+found.
Dirents(ino, d) ==
  {[pos |-> i, name |-> children[d][i].name, ino |-> ino[children[d][i].child]] :
     i \in {j \in DOMAIN children[d] : ~children[d][j].dead /\ ino[children[d][j].child] # 0}}
  \cup IF d = ROOT THEN {[pos |-> 0, name |-> LostFound, ino |-> LOST_FOUND_INO]} ELSE {}

\* Fault: ".." falls back to the root below the first level.
RootForParent(ino, s) == ROOT_INO

\* parent_map(): the last numbered directory with a live entry for the slot;
\* the root is its own parent.
parent_ino(ino, s) ==
  IF s = ROOT THEN ROOT_INO
  ELSE LET ps == {r[1] : r \in RefsTo(s)} \cap NumberedDirs(ino)
       IN IF ps = {} THEN 0 ELSE ino[CHOOSE p \in ps : \A q \in ps : q <= p]

\* i_links_count as render_inode() stores it.

\* Fault: all entries are counted, not only directories.
EntriesForSubdirs(ino, d) ==
  Cardinality({i \in DOMAIN children[d] :
                 ~children[d][i].dead /\ ino[children[d][i].child] # 0})
subdirs(ino, d) ==
  Cardinality({i \in DOMAIN children[d] :
                 /\ ~children[d][i].dead
                 /\ ino[children[d][i].child] # 0
                 /\ IsDir(children[d][i].child)})
Overflowed(n) == IF n > LinkMax THEN 1 ELSE n
links_count(ino, s) ==
  IF IsDir(s) THEN Overflowed(2 + subdirs(ino, s) + (IF s = ROOT THEN 1 ELSE 0))
  ELSE nlink[s]

-----------------------------------------------------------------------------
\* Every live entry of a directory in the image is listed there: the filter
\* `slot_ino[child] == 0` of seal() never drops a declared name.
EveryNameIsListed ==
  LET ino == slot_ino
  IN \A r \in LiveRefs : ino[r[1]] # 0 => ino[Target(r)] # 0

\* The names in the image that lead to slot s: the dirents of `listed`, and
\* for a directory its own "." and the ".." of every directory, lost+found's
\* included, that takes it for its parent.
Listings(ino) ==
  UNION {{<<d, e>> : e \in Dirents(ino, d)} : d \in NumberedDirs(ino)}
NamesOf(listed, ino, s) == {n \in listed : n[2].ino = ino[s]}
DotDotsOf(ino, s) ==
  Cardinality({d \in NumberedDirs(ino) : parent_ino(ino, d) = ino[s]})
    + IF s = ROOT THEN 1 ELSE 0

\* "Every image passes e2fsck -fn": each inode's link count is the number of
\* names leading to it, or 1 for a directory with too many subdirectories.
LinkCountsMatch ==
  LET ino == slot_ino
      listed == Listings(ino)
  IN \A s \in Numbered(ino) :
       LET names == Cardinality(NamesOf(listed, ino, s))
       IN links_count(ino, s) = IF IsDir(s) THEN Overflowed(names + 1 + DotDotsOf(ino, s))
                                ELSE names

\* ".." and the dirent agree: a directory's parent is in the image and lists
\* it, and no other directory does.
DotDotIsInverse ==
  LET ino == slot_ino
      listed == Listings(ino)
  IN \A s \in NumberedDirs(ino) \ {ROOT} :
       \E d \in NumberedDirs(ino) :
         /\ parent_ino(ino, s) = ino[d]
         /\ {n[1] : n \in NamesOf(listed, ino, s)} = {d}

\* No directory of the image lists a name twice.
NamesAreUnique ==
  LET ino == slot_ino
  IN \A d \in NumberedDirs(ino) :
       \A e, f \in Dirents(ino, d) : e.name = f.name => e = f
==============================================================================
