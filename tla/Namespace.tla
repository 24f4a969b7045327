------------------------------ MODULE Namespace ------------------------------
(***************************************************************************)
(* build::FsBuilder: the namespace declaration phase.                      *)
(*                                                                         *)
(* The builder is a table of node slots; a handle is a slot number and is  *)
(* never reused.  A directory holds an append-only list of entries, in     *)
(* which removal leaves a tombstone, and an index from live names to       *)
(* positions in that list.  The fields of `Node` are one sequence each,    *)
(* indexed by slot; ROOT is slot 1 here and slot 0 in the code.  An        *)
(* operation the code rejects changes nothing and is not an action.        *)
(*                                                                         *)
(* The builder checks that a handle exists, not that it is still linked:   *)
(* add_entry() takes a removed directory and hardlink() a removed file.    *)
(* StaleHandles says whether the modelled caller makes use of that.        *)
(***************************************************************************)
EXTENDS Integers, Sequences, FiniteSets

CONSTANTS
  Names,         \* valid entry names
  Sizes,         \* file sizes in bytes
  Metas,         \* values of Meta
  LinkMax,       \* LINK_MAX: most names a file may have
  MaxSlots,      \* bound: most slots in the table
  MaxEntries,    \* bound: most entries, live or dead, in one directory
  StaleHandles   \* the caller may pass handles of removed nodes

ASSUME NamespaceAssumption ==
  /\ Sizes \subseteq Nat
  /\ Metas # {}
  /\ LinkMax \in Nat \ {0}
  /\ MaxSlots \in Nat
  /\ MaxEntries \in Nat
  /\ StaleHandles \in BOOLEAN

Kinds == {"Dir", "File", "Sparse", "Symlink", "Special"}
ROOT == 1

VARIABLES
  kind,           \* slot -> node kind
  size,           \* slot -> declared bytes; 0 for what is not a regular file
  meta,           \* slot -> metadata
  nlink,          \* slot -> names pointing at this node
  children,       \* slot -> entry list, empty for what is not a directory
  index,          \* slot -> function from names to positions in the list
  declared_bytes  \* bytes of the linked files

vars == <<kind, size, meta, nlink, children, index, declared_bytes>>

Slots == 1 .. Len(kind)
IsDir(s) == kind[s] = "Dir"
IsFile(s) == kind[s] \in {"File", "Sparse"}

Entry == [name : Names, child : Nat \ {0}, dead : BOOLEAN]
NoNames == [n \in {} |-> 0]

-----------------------------------------------------------------------------
\* Entries are named by their directory and position.
LiveRefs == UNION {{<<s, i>> : i \in {j \in DOMAIN children[s] : ~children[s][j].dead}} :
                     s \in Slots}
Target(r) == children[r[1]][r[2]].child
RefsTo(s) == {r \in LiveRefs : Target(r) = s}

\* The directories remove_subtree(d) visits: everything its worklist reaches
\* from d through live entries, that is, the least set with d in it that is
\* closed under subdirectories.
Dirs == {s \in Slots : IsDir(s)}
SubdirRefs == {r \in LiveRefs : IsDir(Target(r))}
Closed(T, refs) == \A r \in refs : r[1] \in T => Target(r) \in T
Subtree(d) ==
  LET refs == SubdirRefs
  IN {s \in Dirs : \A T \in SUBSET Dirs : d \in T /\ Closed(T, refs) => s \in T}

-----------------------------------------------------------------------------
Usable(h) == h \in Slots /\ (StaleHandles \/ nlink[h] > 0)

\* Fault: check_duplicate() is not called.
CanAddTwice(dir, name) ==
  /\ IsDir(dir)
  /\ Len(children[dir]) < MaxEntries

\* dir_mut() and check_duplicate() let the entry in; the last conjunct is
\* this model's bound.
CanAdd(dir, name) ==
  /\ IsDir(dir)
  /\ name \notin DOMAIN index[dir]
  /\ Len(children[dir]) < MaxEntries

\* add_entry(): the new last entry and its index position.
WithEntry(dir, name, child) ==
  [children EXCEPT ![dir] = Append(@, [name |-> name, child |-> child, dead |-> FALSE])]

WithIndex(dir, name) ==
  [index EXCEPT ![dir] = [n \in DOMAIN @ \cup {name} |->
                            IF n = name THEN Len(children[dir]) + 1 ELSE @[n]]]

\* What the five declaring calls have in common: an entry for the slot about
\* to be made, then the slot.
Declare(k, dir, name, m, bytes) ==
  /\ Len(kind) < MaxSlots
  /\ CanAdd(dir, name)
  /\ kind' = Append(kind, k)
  /\ size' = Append(size, bytes)
  /\ meta' = Append(meta, m)
  /\ nlink' = Append(nlink, 1)
  /\ children' = Append(WithEntry(dir, name, Len(kind) + 1), <<>>)
  /\ index' = Append(WithIndex(dir, name), NoNames)
  /\ declared_bytes' = declared_bytes + bytes

mkdir(dir, name, m) == Declare("Dir", dir, name, m, 0)
file(dir, name, m, bytes) == Declare("File", dir, name, m, bytes)
file_sparse(dir, name, m, bytes) == Declare("Sparse", dir, name, m, bytes)
symlink(dir, name, m) == Declare("Symlink", dir, name, m, 0)
mknod(dir, name, m) == Declare("Special", dir, name, m, 0)

\* Fault: a directory can be given a second name.
HardlinkAnything(dir, name, target) ==
  /\ nlink[target] < LinkMax
  /\ CanAdd(dir, name)
  /\ children' = WithEntry(dir, name, target)
  /\ index' = WithIndex(dir, name)
  /\ nlink' = [nlink EXCEPT ![target] = @ + 1]
  /\ UNCHANGED <<kind, size, meta, declared_bytes>>

hardlink(dir, name, target) ==
  /\ ~IsDir(target)
  /\ nlink[target] < LinkMax
  /\ CanAdd(dir, name)
  /\ children' = WithEntry(dir, name, target)
  /\ index' = WithIndex(dir, name)
  /\ nlink' = [nlink EXCEPT ![target] = @ + 1]
  /\ UNCHANGED <<kind, size, meta, declared_bytes>>

set_meta(handle, m) ==
  /\ meta' = [meta EXCEPT ![handle] = m]
  /\ UNCHANGED <<kind, size, nlink, children, index, declared_bytes>>

\* The directories that go with a removed node.
\* Fault: the worklist of remove_subtree() is not fed.
GoneUndescended(child) == IF IsDir(child) THEN {child} ELSE {}
Gone(child) == IF IsDir(child) THEN Subtree(child) ELSE {}

\* `killed` below are the entries a removal tombstones.
Buried(killed) ==
  [s \in Slots |-> [i \in DOMAIN children[s] |->
     IF <<s, i>> \in killed THEN [children[s][i] EXCEPT !.dead = TRUE] ELSE children[s][i]]]

\* Fault: remove_subtree() does not clear the index.
IndexKept(dir, name, gone) ==
  [index EXCEPT ![dir] = [n \in DOMAIN @ \ {name} |-> @[n]]]
IndexWithout(dir, name, gone) ==
  [s \in Slots |-> IF s \in gone THEN NoNames
                   ELSE IF s = dir THEN [n \in DOMAIN index[s] \ {name} |-> index[s][n]]
                   ELSE index[s]]

\* unlink() once per tombstone, where remove_subtree() sets directories to 0.
LostBy(s, killed) == {r \in killed : Target(r) = s}

\* Fault: a node with several names in the subtree is unlinked once.
UnlinkedOnce(killed, gone) ==
  [s \in Slots |-> IF s \in gone THEN 0
                   ELSE IF LostBy(s, killed) # {} THEN nlink[s] - 1 ELSE nlink[s]]
Unlinked(killed, gone) ==
  [s \in Slots |-> IF s \in gone THEN 0 ELSE nlink[s] - Cardinality(LostBy(s, killed))]

\* The nodes whose bytes a removal takes off declared_bytes.
\* Fault: unlink() takes them off with every name.
ShrunkByAnyName(killed, links) == {s \in Slots : LostBy(s, killed) # {} /\ ~IsDir(s)}
ShrunkBy(killed, links) ==
  {s \in Slots : LostBy(s, killed) # {} /\ ~IsDir(s) /\ links[s] = 0}

\* The bytes that the slots of S declare, counted one by one.
BytesOf(S) == Cardinality(UNION {{s} \X (1 .. size[s]) : s \in S})

\* remove(): tombstones one entry and, below a directory, its whole subtree;
\* a node other than a directory loses its bytes with its last link.
remove(dir, name) ==
  /\ IsDir(dir)
  /\ name \in DOMAIN index[dir]
  /\ LET removed == <<dir, index[dir][name]>>
         gone    == Gone(Target(removed))
         killed  == {removed} \cup {r \in LiveRefs : r[1] \in gone}
     IN /\ children' = Buried(killed)
        /\ index' = IndexWithout(dir, name, gone)
        /\ nlink' = Unlinked(killed, gone)
        /\ declared_bytes' = declared_bytes - BytesOf(ShrunkBy(killed, nlink'))
  /\ UNCHANGED <<kind, size, meta>>

-----------------------------------------------------------------------------
\* FsBuilder::new(): the root directory alone.
Init ==
  /\ kind = <<"Dir">>
  /\ size = <<0>>
  /\ meta \in {<<m>> : m \in Metas}
  /\ nlink = <<1>>
  /\ children = <<<<>>>>
  /\ index = <<NoNames>>
  /\ declared_bytes = 0

Next ==
  \/ \E dir \in Slots, name \in Names :
       /\ Usable(dir)
       /\ \/ \E m \in Metas : mkdir(dir, name, m)
          \/ \E m \in Metas, bytes \in Sizes : file(dir, name, m, bytes)
          \/ \E m \in Metas, bytes \in Sizes : file_sparse(dir, name, m, bytes)
          \/ \E m \in Metas : symlink(dir, name, m)
          \/ \E m \in Metas : mknod(dir, name, m)
          \/ \E target \in Slots : Usable(target) /\ hardlink(dir, name, target)
          \/ remove(dir, name)
  \/ \E handle \in Slots, m \in Metas : Usable(handle) /\ set_meta(handle, m)

Spec == Init /\ [][Next]_vars

-----------------------------------------------------------------------------
(***************************************************************************)
(* Properties.                                                             *)
(***************************************************************************)

\* The node table: one node, one entry list and one index per slot; only
\* directories have entries, and every entry points at a slot that exists.
TableOK ==
  /\ kind \in Seq(Kinds)
  /\ Slots # {}
  /\ kind[ROOT] = "Dir"
  /\ size \in [Slots -> Sizes \cup {0}]
  /\ meta \in [Slots -> Metas]
  /\ nlink \in [Slots -> Nat]
  /\ children \in [Slots -> Seq(Entry)]
  /\ DOMAIN index = Slots
  /\ \A s \in Slots :
       /\ Len(children[s]) <= MaxEntries
       /\ ~IsDir(s) => children[s] = <<>>
       /\ \A i \in DOMAIN children[s] : children[s][i].child \in Slots
       /\ index[s] \in [DOMAIN index[s] -> DOMAIN children[s]]
       /\ DOMAIN index[s] \subseteq Names

\* The index of a directory, also of a removed one, names exactly its live
\* entries: remove() + re-add under the same name, tombstones and subtree
\* removal never leave it pointing at a dead or different entry, and no two
\* live entries share a name.
IndexMatches ==
  \A d \in Slots, n \in Names, i \in 1 .. MaxEntries :
    n \in DOMAIN index[d] /\ index[d][n] = i
      <=> <<d, i>> \in LiveRefs /\ children[d][i].name = n

\* "Dirent names pointing at this node": nlink counts the live entries that
\* point at a node, however they were added, moved out or tombstoned; so the
\* `nlink -= 1` of unlink() never underflows.
NlinkIsRefCount ==
  /\ nlink[ROOT] = 1
  /\ RefsTo(ROOT) = {}
  /\ \A s \in Slots \ {ROOT} : nlink[s] = Cardinality(RefsTo(s))

\* Directories form a forest that declaration order sorts: one name at most,
\* in a directory declared earlier.  remove_subtree() and mark_reachable()
\* therefore visit a directory once and end.
DirsFormForest ==
  \A r \in LiveRefs : IsDir(Target(r)) =>
    r[1] < Target(r) /\ RefsTo(Target(r)) = {r}

\* A caller that passes live handles only never names a node from a removed
\* directory: the whole subtree goes with its root.
LinkedFromLinked == \A r \in LiveRefs : nlink[r[1]] > 0

\* "Total declared file bytes of all currently-linked files".
DeclaredBytesExact == declared_bytes = BytesOf({s \in Slots : IsFile(s) /\ nlink[s] > 0})
==============================================================================
