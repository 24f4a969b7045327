--------------------------- MODULE NamespaceProofs ---------------------------
(***************************************************************************)
(* Proofs about Namespace, for every set of names, sizes and metadata and  *)
(* every bound: the bookkeeping of the builder stays consistent over all   *)
(* sequences of calls, also with handles of removed nodes.                 *)
(*                                                                         *)
(* Then about SealedNames: in whatever state seal() finds the builder,     *)
(* inode numbers, dirents, ".." and link counts of the image agree.  That  *)
(* rests on the inductive invariant of the builder and on one fact about   *)
(* graphs: in a forest that declaration order sorts, every linked          *)
(* directory is below the root.                                            *)
(***************************************************************************)
EXTENDS SealedNames, BasicFacts, SequenceTheorems, FiniteSetTheorems, TLAPS

\* The inductive invariant.  The forest is what lets remove() count: the only
\* name of a directory inside a removed subtree is one that goes as well.
IInv == TableOK /\ IndexMatches /\ NlinkIsRefCount /\ DirsFormForest

-----------------------------------------------------------------------------
(* Sequences indexed by slot. *)

LEMMA TupleIsSeq ==
  ASSUME NEW S, NEW n \in Nat, NEW f \in [1 .. n -> S]
  PROVE  /\ f \in Seq(S)
         /\ Len(f) = n
  OBVIOUS

LEMMA AppendIsFunction ==
  ASSUME NEW S, NEW n \in Nat, NEW f \in [1 .. n -> S], NEW x \in S
  PROVE  /\ Append(f, x) \in [1 .. n + 1 -> S]
         /\ \A i \in 1 .. n + 1 : Append(f, x)[i] = IF i = n + 1 THEN x ELSE f[i]
<1>1. f \in Seq(S) /\ Len(f) = n
  BY TupleIsSeq
<1>2. /\ Append(f, x) \in Seq(S)
      /\ Len(Append(f, x)) = n + 1
      /\ \A i \in 1 .. n + 1 : Append(f, x)[i] = IF i = n + 1 THEN x ELSE f[i]
  BY <1>1
<1>3. Append(f, x) \in [1 .. n + 1 -> S]
  BY <1>2, LenProperties
<1>4. QED
  BY <1>2, <1>3

LEMMA AppendToFunction ==
  ASSUME NEW n \in Nat, NEW f, f = [i \in 1 .. n |-> f[i]], NEW x
  PROVE  /\ DOMAIN Append(f, x) = 1 .. n + 1
         /\ \A i \in 1 .. n + 1 : Append(f, x)[i] = IF i = n + 1 THEN x ELSE f[i]
<1> DEFINE S == {f[i] : i \in 1 .. n} \cup {x}
<1>1. f \in [1 .. n -> S] /\ x \in S
  OBVIOUS
<1> HIDE DEF S
<1>2. QED
  BY <1>1, AppendIsFunction

-----------------------------------------------------------------------------
(* Entries. *)

LEMMA LiveRefMember ==
  /\ \A s, i : <<s, i>> \in LiveRefs <=>
       s \in Slots /\ i \in DOMAIN children[s] /\ ~children[s][i].dead
  /\ \A r \in LiveRefs : r = <<r[1], r[2]>>
  BY DEF LiveRefs

\* There are finitely many entries.
LEMMA RefsFinite ==
  ASSUME TableOK
  PROVE  /\ IsFiniteSet(LiveRefs)
         /\ \A T \in SUBSET LiveRefs : IsFiniteSet(T)
<1>1. MaxEntries \in Nat /\ Len(kind) \in Nat
  BY NamespaceAssumption DEF TableOK
<1>2. IsFiniteSet(1 .. Len(kind)) /\ IsFiniteSet(1 .. MaxEntries)
  BY <1>1, FS_Interval
<1>3. IsFiniteSet((1 .. Len(kind)) \X (1 .. MaxEntries))
  BY <1>2, FS_Product
<1>4. LiveRefs \subseteq (1 .. Len(kind)) \X (1 .. MaxEntries)
  <2> SUFFICES ASSUME NEW r \in LiveRefs
               PROVE  r \in (1 .. Len(kind)) \X (1 .. MaxEntries)
    OBVIOUS
  <2>1. r = <<r[1], r[2]>> /\ r[1] \in Slots /\ r[2] \in DOMAIN children[r[1]]
    BY LiveRefMember
  <2>2. children[r[1]] \in Seq(Entry) /\ Len(children[r[1]]) <= MaxEntries
    BY <2>1 DEF TableOK
  <2>3. r[2] \in 1 .. MaxEntries
    BY <2>1, <2>2, <1>1
  <2>4. QED
    BY <2>1, <2>3 DEF Slots
<1>5. QED
  BY <1>3, <1>4, FS_Subset

-----------------------------------------------------------------------------
(* Adding an entry: mkdir() and the other declaring calls, and hardlink(). *)

NewEntry(name, child) == [name |-> name, child |-> child, dead |-> FALSE]

\* What these calls have in common.  A slot that is new has no entries.
AddsEntry(dir, name, child) ==
  /\ Slots \subseteq Slots'
  /\ \A s \in Slots' :
       /\ s \notin Slots => children'[s] = <<>> /\ index'[s] = NoNames
       /\ s \in Slots \ {dir} => children'[s] = children[s] /\ index'[s] = index[s]
  /\ children'[dir] = Append(children[dir], NewEntry(name, child))
  /\ index'[dir] = [n \in DOMAIN index[dir] \cup {name} |->
                      IF n = name THEN Len(children[dir]) + 1 ELSE index[dir][n]]

LEMMA AppendedEntry ==
  ASSUME TableOK, NEW dir \in Slots, NEW name \in Names, NEW child \in Nat \ {0},
         AddsEntry(dir, name, child)
  PROVE  /\ Len(children[dir]) \in Nat
         /\ DOMAIN children[dir] = 1 .. Len(children[dir])
         /\ DOMAIN children'[dir] = 1 .. Len(children[dir]) + 1
         /\ \A i \in 1 .. Len(children[dir]) : children'[dir][i] = children[dir][i]
         /\ children'[dir][Len(children[dir]) + 1] = NewEntry(name, child)
<1>1. children[dir] \in Seq(Entry)
  BY DEF TableOK
<1>2. NewEntry(name, child) \in Entry
  BY DEF NewEntry, Entry
<1>3. children'[dir] = Append(children[dir], NewEntry(name, child))
  BY DEF AddsEntry
<1> QED
  BY <1>1, <1>2, <1>3

LEMMA AddedRefs ==
  ASSUME TableOK, NEW dir \in Slots, NEW name \in Names, NEW child \in Nat \ {0},
         AddsEntry(dir, name, child)
  PROVE  \E new :
           /\ new = <<dir, Len(children[dir]) + 1>>
           /\ new \notin LiveRefs
           /\ LiveRefs' = LiveRefs \cup {new}
           /\ Target(new)' = child
           /\ \A r \in LiveRefs : Target(r)' = Target(r)
           /\ \A s : RefsTo(s)' = IF s = child THEN RefsTo(s) \cup {new} ELSE RefsTo(s)
<1>1. PICK new : new = <<dir, Len(children[dir]) + 1>>
  OBVIOUS
<1>2. \A s, i : <<s, i>> \in LiveRefs' <=>
        s \in Slots' /\ i \in DOMAIN children'[s] /\ ~children'[s][i].dead
  BY DEF LiveRefs
<1>3. \A r \in LiveRefs' : r = <<r[1], r[2]>>
  BY DEF LiveRefs
<1>4. new \notin LiveRefs
  BY <1>1, AppendedEntry, LiveRefMember
<1>5. ASSUME NEW s, NEW i
      PROVE  <<s, i>> \in LiveRefs' <=> <<s, i>> \in LiveRefs \/ <<s, i>> = new
  <2>1. CASE s \notin Slots
    BY <2>1, <1>1, <1>2, LiveRefMember DEF AddsEntry
  <2>2. CASE s \in Slots \ {dir}
    BY <2>2, <1>1, <1>2, LiveRefMember DEF AddsEntry
  <2>3. CASE s = dir
    <3>1. dir \in Slots'
      BY DEF AddsEntry
    <3>2. <<dir, i>> \in LiveRefs' <=>
            i \in 1 .. Len(children[dir]) + 1 /\ ~children'[dir][i].dead
      BY <3>1, <1>2, AppendedEntry
    <3>3. <<dir, i>> \in LiveRefs <=>
            i \in 1 .. Len(children[dir]) /\ ~children[dir][i].dead
      BY LiveRefMember, AppendedEntry
    <3>4. ~NewEntry(name, child).dead
      BY DEF NewEntry
    <3>5. CASE i = Len(children[dir]) + 1
      BY <3>2, <3>4, <3>5, <2>3, <1>1, AppendedEntry
    <3>6. CASE i # Len(children[dir]) + 1
      <4>1. i \in 1 .. Len(children[dir]) + 1 <=> i \in 1 .. Len(children[dir])
        BY <3>6, AppendedEntry
      <4>2. <<dir, i>> # new
        BY <3>6, <1>1
      <4>3. QED
        BY <3>2, <3>3, <4>1, <4>2, <2>3, AppendedEntry
    <3>7. QED
      BY <3>5, <3>6
  <2>4. QED
    BY <2>1, <2>2, <2>3
<1>6. LiveRefs' = LiveRefs \cup {new}
  <2>1. ASSUME NEW r \in LiveRefs' PROVE r \in LiveRefs \cup {new}
    BY <1>3, <1>5
  <2>2. ASSUME NEW r \in LiveRefs \cup {new} PROVE r \in LiveRefs'
    BY <1>1, <1>5, LiveRefMember
  <2>3. QED
    BY <2>1, <2>2
<1>7. Target(new)' = child
  <2>1. new[1] = dir /\ new[2] = Len(children[dir]) + 1
    BY <1>1
  <2>2. Target(new)' = children'[new[1]][new[2]].child
    BY DEF Target
  <2>3. children'[dir][Len(children[dir]) + 1] = NewEntry(name, child)
    BY AppendedEntry
  <2>4. NewEntry(name, child).child = child
    BY DEF NewEntry
  <2>5. QED
    BY <2>1, <2>2, <2>3, <2>4
<1>8. ASSUME NEW r \in LiveRefs PROVE Target(r)' = Target(r)
  <2>1. r[1] \in Slots /\ r[2] \in DOMAIN children[r[1]]
    BY LiveRefMember
  <2>2. CASE r[1] = dir
    BY <2>1, <2>2, AppendedEntry DEF Target
  <2>3. CASE r[1] # dir
    BY <2>1, <2>3 DEF Target, AddsEntry
  <2>4. QED
    BY <2>2, <2>3
<1>9. \A s : RefsTo(s)' = IF s = child THEN RefsTo(s) \cup {new} ELSE RefsTo(s)
  BY <1>6, <1>7, <1>8 DEF RefsTo
<1>10. QED
  BY <1>1, <1>4, <1>6, <1>7, <1>8, <1>9

LEMMA AddedIndex ==
  ASSUME TableOK, IndexMatches, NEW dir \in Slots, NEW name \in Names, NEW child \in Nat \ {0},
         CanAdd(dir, name), AddsEntry(dir, name, child)
  PROVE  IndexMatches'
<1> DEFINE len == Len(children[dir])
<1> SUFFICES ASSUME NEW d \in Slots', NEW n \in Names, NEW i \in 1 .. MaxEntries
             PROVE  n \in DOMAIN index'[d] /\ index'[d][n] = i
                      <=> <<d, i>> \in LiveRefs' /\ children'[d][i].name = n
  BY DEF IndexMatches
<1>1. \A s, j : <<s, j>> \in LiveRefs' <=>
        s \in Slots' /\ j \in DOMAIN children'[s] /\ ~children'[s][j].dead
  BY DEF LiveRefs
<1>2. CASE d \notin Slots
  BY <1>1, <1>2 DEF AddsEntry, NoNames
<1>3. CASE d \in Slots \ {dir}
  <2>1. children'[d] = children[d] /\ index'[d] = index[d]
    BY <1>3 DEF AddsEntry
  <2>2. n \in DOMAIN index[d] /\ index[d][n] = i <=> <<d, i>> \in LiveRefs /\ children[d][i].name = n
    BY <1>3 DEF IndexMatches
  <2>3. <<d, i>> \in LiveRefs' <=> <<d, i>> \in LiveRefs
    BY <1>1, <1>3, <2>1, LiveRefMember
  <2>4. QED
    BY <2>1, <2>2, <2>3
<1>4. CASE d = dir
  <2>1. /\ index'[dir] = [m \in DOMAIN index[dir] \cup {name} |->
                            IF m = name THEN len + 1 ELSE index[dir][m]]
        /\ name \notin DOMAIN index[dir]
    BY DEF AddsEntry, CanAdd
  <2>2. \A m \in DOMAIN index[dir] : index[dir][m] \in 1 .. len
    BY AppendedEntry DEF TableOK
  <2>3. <<dir, i>> \in LiveRefs' <=> i \in 1 .. len + 1 /\ ~children'[dir][i].dead
    BY <1>1, <1>4, AppendedEntry
  <2>4. <<dir, i>> \in LiveRefs <=> i \in 1 .. len /\ ~children[dir][i].dead
    BY LiveRefMember, AppendedEntry
  <2>5. n \in DOMAIN index[dir] /\ index[dir][n] = i
          <=> <<dir, i>> \in LiveRefs /\ children[dir][i].name = n
    BY DEF IndexMatches
  <2>6. name \in DOMAIN index[dir] /\ index[dir][name] = i
          <=> <<dir, i>> \in LiveRefs /\ children[dir][i].name = name
    BY DEF IndexMatches
  <2>7. len \in Nat
    BY AppendedEntry
  <2>8. CASE i = len + 1
    <3>1. children'[dir][i] = NewEntry(name, child)
      BY <2>8, AppendedEntry
    <3>2. ~NewEntry(name, child).dead /\ NewEntry(name, child).name = name
      BY DEF NewEntry
    <3>3. <<dir, i>> \in LiveRefs' /\ (children'[dir][i].name = n <=> n = name)
      BY <2>3, <2>7, <2>8, <3>1, <3>2
    <3>4. n \in DOMAIN index'[dir] /\ index'[dir][n] = i <=> n = name
      BY <2>1, <2>2, <2>7, <2>8
    <3>5. QED
      BY <1>4, <3>3, <3>4
  <2>9. CASE i # len + 1
    <3>1. i \in 1 .. len => children'[dir][i] = children[dir][i]
      BY AppendedEntry
    <3>2. <<dir, i>> \in LiveRefs' <=> <<dir, i>> \in LiveRefs
      BY <2>3, <2>4, <2>7, <2>9, <3>1
    <3>3. CASE n = name
      BY <1>4, <2>1, <2>4, <2>6, <2>9, <3>1, <3>2, <3>3
    <3>4. CASE n # name
      BY <1>4, <2>1, <2>4, <2>5, <3>1, <3>2, <3>4
    <3>5. QED
      BY <3>3, <3>4
  <2>10. QED
    BY <2>8, <2>9
<1>5. QED
  BY <1>2, <1>3, <1>4

LEMMA WithEntryType ==
  ASSUME TableOK, NEW dir \in Slots, NEW name \in Names, NEW child \in Nat \ {0}
  PROVE  /\ WithEntry(dir, name, child) \in [Slots -> Seq(Entry)]
         /\ WithEntry(dir, name, child)[dir] = Append(children[dir], NewEntry(name, child))
         /\ \A s \in Slots \ {dir} : WithEntry(dir, name, child)[s] = children[s]
<1>1. children \in [Slots -> Seq(Entry)]
  BY DEF TableOK
<1>2. NewEntry(name, child) \in Entry
  BY DEF NewEntry, Entry
<1>3. Append(children[dir], NewEntry(name, child)) \in Seq(Entry)
  BY <1>1, <1>2
<1>4. QED
  BY <1>1, <1>3 DEF WithEntry, NewEntry

LEMMA WithIndexType ==
  ASSUME TableOK, NEW dir \in Slots, NEW name \in Names
  PROVE  /\ WithIndex(dir, name) = [s \in Slots |-> WithIndex(dir, name)[s]]
         /\ WithIndex(dir, name)[dir] = [n \in DOMAIN index[dir] \cup {name} |->
                                          IF n = name THEN Len(children[dir]) + 1 ELSE index[dir][n]]
         /\ \A s \in Slots \ {dir} : WithIndex(dir, name)[s] = index[s]
  BY DEF TableOK, WithIndex

\* What TableOK says of the entries and the index of one slot.
SlotOK(s) ==
  /\ Len(children[s]) <= MaxEntries
  /\ ~IsDir(s) => children[s] = <<>>
  /\ \A i \in DOMAIN children[s] : children[s][i].child \in Slots
  /\ index[s] \in [DOMAIN index[s] -> DOMAIN children[s]]
  /\ DOMAIN index[s] \subseteq Names

LEMMA AddedSlotsOK ==
  ASSUME TableOK, NEW dir \in Slots, NEW name \in Names, NEW child \in Slots',
         CanAdd(dir, name), AddsEntry(dir, name, child), Slots' \subseteq Nat \ {0},
         \A s \in Slots : IsDir(s)' <=> IsDir(s)
  PROVE  \A s \in Slots' : SlotOK(s)'
<1> SUFFICES ASSUME NEW s \in Slots' PROVE SlotOK(s)'
  OBVIOUS
<1>1. MaxEntries \in Nat
  BY NamespaceAssumption
<1>2. CASE s \notin Slots
  <2>1. children'[s] = <<>> /\ index'[s] = NoNames
    BY <1>2 DEF AddsEntry
  <2>2. Len(<<>>) = 0 /\ DOMAIN <<>> = {}
    OBVIOUS
  <2>3. DOMAIN NoNames = {} /\ NoNames \in [DOMAIN NoNames -> DOMAIN <<>>]
    BY DEF NoNames
  <2>4. QED
    BY <1>1, <2>1, <2>2, <2>3 DEF SlotOK
<1>3. CASE s \in Slots \ {dir}
  <2>1. children'[s] = children[s] /\ index'[s] = index[s]
    BY <1>3 DEF AddsEntry
  <2>2. SlotOK(s)
    BY <1>3 DEF TableOK, SlotOK
  <2>3. Slots \subseteq Slots'
    BY DEF AddsEntry
  <2>4. QED
    BY <1>3, <2>1, <2>2, <2>3 DEF SlotOK
<1>4. CASE s = dir
  <2> DEFINE len == Len(children[dir])
  <2>1. /\ len \in Nat
        /\ DOMAIN children[dir] = 1 .. len
        /\ DOMAIN children'[dir] = 1 .. len + 1
        /\ \A i \in 1 .. len : children'[dir][i] = children[dir][i]
        /\ children'[dir][len + 1] = NewEntry(name, child)
    BY AppendedEntry
  <2>2. len + 1 <= MaxEntries /\ IsDir(dir)' /\ Slots \subseteq Slots'
    BY <1>1, <2>1 DEF CanAdd, AddsEntry
  <2>3. Len(children'[dir]) = len + 1
    BY <1>4, <2>1 DEF TableOK, AddsEntry
  <2>4. \A i \in 1 .. len : children[dir][i].child \in Slots
    BY <2>1 DEF TableOK
  <2>5. NewEntry(name, child).child \in Slots'
    BY DEF NewEntry
  <2>6. \A i \in 1 .. len + 1 : children'[dir][i].child \in Slots'
    <3> SUFFICES ASSUME NEW i \in 1 .. len + 1 PROVE children'[dir][i].child \in Slots'
      OBVIOUS
    <3>1. CASE i = len + 1
      BY <2>1, <2>5, <3>1
    <3>2. CASE i \in 1 .. len
      BY <2>1, <2>2, <2>4, <3>2
    <3>3. QED
      BY <2>1, <3>1, <3>2
  <2>7. index[dir] \in [DOMAIN index[dir] -> 1 .. len] /\ DOMAIN index[dir] \subseteq Names
    BY <2>1 DEF TableOK
  <2>8. index'[dir] = [n \in DOMAIN index[dir] \cup {name} |->
                         IF n = name THEN len + 1 ELSE index[dir][n]]
    BY DEF AddsEntry
  <2>9. /\ DOMAIN index'[dir] \subseteq Names
        /\ index'[dir] \in [DOMAIN index'[dir] -> 1 .. len + 1]
    BY <2>1, <2>7, <2>8
  <2>10. QED
    BY <1>4, <2>1, <2>2, <2>3, <2>6, <2>9 DEF SlotOK
<1>5. QED
  BY <1>2, <1>3, <1>4

-----------------------------------------------------------------------------
(* The declaring calls. *)

LEMMA DeclaredSlot ==
  ASSUME TableOK, NEW k \in Kinds, NEW dir \in Slots, NEW name \in Names, NEW m \in Metas,
         NEW bytes \in Sizes \cup {0}, Declare(k, dir, name, m, bytes)
  PROVE  /\ Len(kind) \in Nat /\ Len(kind) + 1 \notin Slots
         /\ Slots' = Slots \cup {Len(kind) + 1}
         /\ \A s \in Slots : kind'[s] = kind[s] /\ nlink'[s] = nlink[s]
         /\ nlink'[Len(kind) + 1] = 1
         /\ CanAdd(dir, name)
         /\ AddsEntry(dir, name, Len(kind) + 1)
         /\ TableOK'
<1> DEFINE len == Len(kind)
<1>1. len \in Nat /\ kind \in [1 .. len -> Kinds] /\ Slots = 1 .. len
  BY DEF TableOK, Slots
<1>2. /\ kind' = Append(kind, k)
      /\ size' = Append(size, bytes)
      /\ meta' = Append(meta, m)
      /\ nlink' = Append(nlink, 1)
      /\ children' = Append(WithEntry(dir, name, len + 1), <<>>)
      /\ index' = Append(WithIndex(dir, name), NoNames)
      /\ CanAdd(dir, name)
  BY DEF Declare
<1>3. kind' \in Seq(Kinds) /\ Len(kind') = len + 1 /\ \A s \in Slots : kind'[s] = kind[s]
  BY <1>1, <1>2 DEF TableOK
<1>4. Slots' = 1 .. len + 1
  BY <1>3 DEF Slots
<1>5. /\ Slots' = Slots \cup {len + 1} /\ len + 1 \notin Slots
      /\ len + 1 \in 1 .. len + 1 /\ len + 1 \in Nat \ {0}
      /\ \A s \in Slots : s \in 1 .. len + 1 /\ s # len + 1
  BY <1>1, <1>4
<1>6. /\ size' \in [Slots' -> Sizes \cup {0}]
      /\ meta' \in [Slots' -> Metas]
  BY <1>1, <1>2, <1>4, AppendIsFunction DEF TableOK
<1>7. /\ nlink' \in [Slots' -> Nat]
      /\ nlink'[len + 1] = 1
      /\ \A s \in Slots : nlink'[s] = nlink[s]
  <2>1. nlink \in [1 .. len -> Nat] /\ 1 \in Nat
    BY <1>1 DEF TableOK
  <2>2. /\ Append(nlink, 1) \in [1 .. len + 1 -> Nat]
        /\ \A i \in 1 .. len + 1 : Append(nlink, 1)[i] = IF i = len + 1 THEN 1 ELSE nlink[i]
    <3>1. nlink \in Seq(Nat) /\ Len(nlink) = len
      BY <1>1, <2>1, TupleIsSeq
    <3>2. Append(nlink, 1) \in Seq(Nat) /\ Len(Append(nlink, 1)) = len + 1
      BY <3>1
    <3>3. Append(nlink, 1) \in [1 .. len + 1 -> Nat]
      BY <3>2, LenProperties
    <3>4. \A i \in 1 .. len + 1 : Append(nlink, 1)[i] = IF i = len + 1 THEN 1 ELSE nlink[i]
      <4>1. nlink = [i \in 1 .. len |-> nlink[i]]
        BY <2>1
      <4>2. QED
        BY <1>1, <4>1, AppendToFunction
    <3>5. QED
      BY <3>3, <3>4
  <2>3. QED
    BY <1>2, <1>4, <1>5, <2>2
<1>8. /\ children' \in [Slots' -> Seq(Entry)]
      /\ children'[len + 1] = <<>>
      /\ \A s \in Slots : children'[s] = WithEntry(dir, name, len + 1)[s]
  <2>1. WithEntry(dir, name, len + 1) \in [1 .. len -> Seq(Entry)] /\ <<>> \in Seq(Entry)
    BY <1>1, <1>5, WithEntryType
  <2> DEFINE W == WithEntry(dir, name, len + 1)
  <2> HIDE DEF W
  <2>2. /\ Append(W, <<>>) \in [1 .. len + 1 -> Seq(Entry)]
        /\ \A i \in 1 .. len + 1 : Append(W, <<>>)[i] = IF i = len + 1 THEN <<>> ELSE W[i]
    <3>1. W \in Seq(Seq(Entry)) /\ Len(W) = len
      BY <1>1, <2>1, TupleIsSeq DEF W
    <3>2. Append(W, <<>>) \in Seq(Seq(Entry)) /\ Len(Append(W, <<>>)) = len + 1
      BY <2>1, <3>1
    <3>3. Append(W, <<>>) \in [1 .. len + 1 -> Seq(Entry)]
      BY <3>2, LenProperties
    <3>4. \A i \in 1 .. len + 1 : Append(W, <<>>)[i] = IF i = len + 1 THEN <<>> ELSE W[i]
      <4>1. W = [i \in 1 .. len |-> W[i]]
        BY <2>1 DEF W
      <4>2. QED
        BY <1>1, <4>1, AppendToFunction
    <3>5. QED
      BY <3>3, <3>4
  <2>3. QED
    BY <1>2, <1>4, <1>5, <2>2 DEF W
<1>9. /\ DOMAIN index' = Slots'
      /\ index'[len + 1] = NoNames
      /\ \A s \in Slots : index'[s] = WithIndex(dir, name)[s]
  <2>1. WithIndex(dir, name) = [s \in 1 .. len |-> WithIndex(dir, name)[s]]
    BY <1>1, WithIndexType
  <2> DEFINE W == WithIndex(dir, name)
  <2> HIDE DEF W
  <2>2. /\ DOMAIN Append(W, NoNames) = 1 .. len + 1
        /\ \A i \in 1 .. len + 1 : Append(W, NoNames)[i] = IF i = len + 1 THEN NoNames ELSE W[i]
    BY <1>1, <2>1, AppendToFunction DEF W
  <2>3. QED
    BY <1>2, <1>4, <1>5, <2>2 DEF W
<1>10. AddsEntry(dir, name, len + 1)
  <2>1. \A s \in Slots' : s \notin Slots => children'[s] = <<>> /\ index'[s] = NoNames
    BY <1>5, <1>8, <1>9
  <2>2. \A s \in Slots \ {dir} : children'[s] = children[s] /\ index'[s] = index[s]
    <3>1. \A s \in Slots \ {dir} : WithEntry(dir, name, len + 1)[s] = children[s]
      BY <1>5, WithEntryType
    <3>2. \A s \in Slots \ {dir} : WithIndex(dir, name)[s] = index[s]
      BY WithIndexType
    <3>3. QED
      BY <1>8, <1>9, <3>1, <3>2
  <2>3. children'[dir] = Append(children[dir], NewEntry(name, len + 1))
    BY <1>5, <1>8, WithEntryType
  <2>4. index'[dir] = [n \in DOMAIN index[dir] \cup {name} |->
                         IF n = name THEN Len(children[dir]) + 1 ELSE index[dir][n]]
    BY <1>9, WithIndexType
  <2>5. QED
    BY <1>5, <2>1, <2>2, <2>3, <2>4 DEF AddsEntry
<1>11. \A s \in Slots : IsDir(s)' <=> IsDir(s)
  BY <1>3 DEF IsDir
<1>12. \A s \in Slots' : SlotOK(s)'
  <2>1. Slots' \subseteq Nat \ {0} /\ len + 1 \in Slots'
    BY <1>1, <1>4, <1>5
  <2>2. QED
    BY <2>1, <1>2, <1>10, <1>11, AddedSlotsOK
<1>13. Slots' # {} /\ kind'[ROOT] = "Dir"
  <2>1. Slots # {} /\ kind[ROOT] = "Dir"
    BY DEF TableOK
  <2>2. ROOT \in Slots
    BY <1>1, <2>1 DEF ROOT
  <2>3. QED
    BY <1>3, <1>5, <2>1, <2>2
<1>14. TableOK'
  BY <1>3, <1>6, <1>7, <1>8, <1>9, <1>12, <1>13 DEF TableOK, SlotOK
<1> QED
  BY <1>1, <1>2, <1>3, <1>5, <1>7, <1>10, <1>14

\* Entries lie in directories and point at slots.
LEMMA RefEnds ==
  ASSUME TableOK, NEW r \in LiveRefs
  PROVE  r[1] \in Slots /\ IsDir(r[1]) /\ Target(r) \in Slots
<1>1. r[1] \in Slots /\ r[2] \in DOMAIN children[r[1]]
  BY LiveRefMember
<1>2. children[r[1]] # <<>>
  BY <1>1
<1>3. QED
  BY <1>1, <1>2 DEF TableOK, Target

LEMMA DeclareKeeps ==
  ASSUME IInv, NEW k \in Kinds, NEW dir \in Slots, NEW name \in Names, NEW m \in Metas,
         NEW bytes \in Sizes \cup {0}, Declare(k, dir, name, m, bytes)
  PROVE  /\ IInv'
         /\ LinkedFromLinked /\ nlink[dir] > 0 => LinkedFromLinked'
<1>0. PICK slot : slot = Len(kind) + 1
  OBVIOUS
<1>1. TableOK /\ IndexMatches /\ NlinkIsRefCount /\ DirsFormForest
  BY DEF IInv
<1>2. /\ Len(kind) \in Nat /\ slot \notin Slots
      /\ Slots' = Slots \cup {slot}
      /\ \A s \in Slots : kind'[s] = kind[s] /\ nlink'[s] = nlink[s]
      /\ nlink'[slot] = 1
      /\ CanAdd(dir, name)
      /\ AddsEntry(dir, name, slot)
      /\ TableOK'
  BY <1>0, <1>1, DeclaredSlot
<1>3. slot \in Nat \ {0} /\ \A s \in Slots : s < slot
  BY <1>0, <1>2 DEF Slots
<1>4. PICK new :
        /\ new = <<dir, Len(children[dir]) + 1>>
        /\ new \notin LiveRefs
        /\ LiveRefs' = LiveRefs \cup {new}
        /\ Target(new)' = slot
        /\ \A r \in LiveRefs : Target(r)' = Target(r)
        /\ \A s : RefsTo(s)' = IF s = slot THEN RefsTo(s) \cup {new} ELSE RefsTo(s)
  BY <1>1, <1>2, <1>3, AddedRefs
<1>5. RefsTo(slot) = {}
  BY <1>1, <1>2, RefEnds DEF RefsTo
<1>6. RefsTo(slot)' = {new}
  BY <1>4, <1>5
<1>7. \A s \in Slots : RefsTo(s)' = RefsTo(s)
  BY <1>2, <1>4
<1>8. ROOT \in Slots
  BY <1>1 DEF TableOK, Slots, ROOT
<1>9. IndexMatches'
  BY <1>1, <1>2, <1>3, AddedIndex
<1>10. NlinkIsRefCount'
  <2>1. nlink'[ROOT] = 1 /\ RefsTo(ROOT)' = {}
    BY <1>1, <1>2, <1>7, <1>8 DEF NlinkIsRefCount
  <2>2. ASSUME NEW s \in Slots' \ {ROOT} PROVE nlink'[s] = Cardinality(RefsTo(s)')
    <3>1. CASE s = slot
      BY <1>2, <1>6, <3>1, FS_Singleton
    <3>2. CASE s \in Slots
      BY <1>1, <1>2, <1>7, <2>2, <3>2 DEF NlinkIsRefCount
    <3>3. QED
      BY <1>2, <3>1, <3>2
  <2>3. QED
    BY <2>1, <2>2 DEF NlinkIsRefCount
<1>11. DirsFormForest'
  <2> SUFFICES ASSUME NEW r \in LiveRefs', IsDir(Target(r))'
               PROVE  r[1] < Target(r)' /\ RefsTo(Target(r))' = {r}
    BY DEF DirsFormForest
  <2>0. \A t : Target(r)' = t => RefsTo(Target(r))' = RefsTo(t)'
    BY DEF RefsTo
  <2>1. CASE r = new
    <3>1. r[1] = dir /\ Target(r)' = slot
      BY <1>4, <2>1
    <3>2. RefsTo(Target(r))' = RefsTo(slot)'
      BY <2>0, <3>1
    <3>3. QED
      BY <1>3, <1>6, <2>1, <3>1, <3>2
  <2>2. CASE r \in LiveRefs
    <3>1. Target(r)' = Target(r) /\ Target(r) \in Slots
      BY <1>1, <1>4, <2>2, RefEnds
    <3>2. IsDir(Target(r))
      BY <1>2, <3>1 DEF IsDir
    <3>3. RefsTo(Target(r))' = RefsTo(Target(r))
      BY <1>7, <2>0, <3>1
    <3>4. QED
      BY <1>1, <2>2, <3>1, <3>2, <3>3 DEF DirsFormForest
  <2>3. QED
    BY <1>4, <2>1, <2>2
<1>12. ASSUME LinkedFromLinked, nlink[dir] > 0 PROVE LinkedFromLinked'
  <2> SUFFICES ASSUME NEW r \in LiveRefs' PROVE nlink'[r[1]] > 0
    BY DEF LinkedFromLinked
  <2>1. CASE r = new
    BY <1>2, <1>4, <1>12, <2>1
  <2>2. CASE r \in LiveRefs
    BY <1>1, <1>2, <1>12, <2>2, RefEnds DEF LinkedFromLinked
  <2>3. QED
    BY <1>4, <2>1, <2>2
<1>13. QED
  BY <1>2, <1>9, <1>10, <1>11, <1>12 DEF IInv

-----------------------------------------------------------------------------
(* hardlink(). *)

LEMMA HardlinkAdds ==
  ASSUME TableOK, NEW dir \in Slots, NEW name \in Names, NEW target \in Slots,
         hardlink(dir, name, target)
  PROVE  /\ Slots' = Slots /\ kind' = kind
         /\ ~IsDir(target)
         /\ CanAdd(dir, name)
         /\ AddsEntry(dir, name, target)
         /\ nlink' = [nlink EXCEPT ![target] = @ + 1]
         /\ TableOK'
<1>1. /\ Slots' = Slots /\ kind' = kind /\ size' = size /\ meta' = meta
      /\ ~IsDir(target)
      /\ CanAdd(dir, name)
      /\ children' = WithEntry(dir, name, target)
      /\ index' = WithIndex(dir, name)
      /\ nlink' = [nlink EXCEPT ![target] = @ + 1]
  BY DEF hardlink, Slots
<1>2. target \in Nat \ {0} /\ Slots \subseteq Nat \ {0}
  BY DEF Slots
<1>e. /\ WithEntry(dir, name, target)[dir] = Append(children[dir], NewEntry(name, target))
      /\ \A s \in Slots \ {dir} : WithEntry(dir, name, target)[s] = children[s]
  <2>1. target \in Nat \ {0}
    BY <1>2
  <2>2. QED
    BY <2>1, WithEntryType
<1>3. AddsEntry(dir, name, target)
  <2>1. \A s \in Slots \ {dir} : children'[s] = children[s]
    BY <1>1, <1>e
  <2>2. \A s \in Slots \ {dir} : index'[s] = index[s]
    <3>1. \A s \in Slots \ {dir} : WithIndex(dir, name)[s] = index[s]
      BY WithIndexType
    <3>2. index' = WithIndex(dir, name)
      BY <1>1
    <3>3. QED
      BY <3>1, <3>2
  <2>3. children'[dir] = Append(children[dir], NewEntry(name, target))
    BY <1>1, <1>e
  <2>4. index'[dir] = [n \in DOMAIN index[dir] \cup {name} |->
                         IF n = name THEN Len(children[dir]) + 1 ELSE index[dir][n]]
    BY <1>1, WithIndexType
  <2>5. QED
    BY <1>1, <2>1, <2>2, <2>3, <2>4 DEF AddsEntry
<1>4. \A s \in Slots' : SlotOK(s)'
  <2>1. \A s \in Slots : IsDir(s)' <=> IsDir(s)
    BY <1>1 DEF IsDir
  <2>2. QED
    BY <1>1, <1>2, <1>3, <2>1, AddedSlotsOK
<1>5. children' \in [Slots -> Seq(Entry)] /\ DOMAIN index' = Slots
  <2>1. DOMAIN WithIndex(dir, name) = Slots
    BY WithIndexType
  <2>2. QED
    BY <1>1, <1>2, <2>1, WithEntryType
<1>6. nlink' \in [Slots -> Nat]
  BY <1>1 DEF TableOK
<1>7. TableOK'
  BY <1>1, <1>4, <1>5, <1>6 DEF TableOK, SlotOK
<1>8. QED
  BY <1>1, <1>3, <1>7

LEMMA HardlinkKeeps ==
  ASSUME IInv, NEW dir \in Slots, NEW name \in Names, NEW target \in Slots,
         hardlink(dir, name, target)
  PROVE  /\ IInv'
         /\ LinkedFromLinked /\ nlink[dir] > 0 => LinkedFromLinked'
<1>1. TableOK /\ IndexMatches /\ NlinkIsRefCount /\ DirsFormForest
  BY DEF IInv
<1>2. /\ Slots' = Slots /\ kind' = kind
      /\ ~IsDir(target)
      /\ CanAdd(dir, name)
      /\ AddsEntry(dir, name, target)
      /\ nlink' = [nlink EXCEPT ![target] = @ + 1]
      /\ TableOK'
  BY <1>1, HardlinkAdds
<1>3. target \in Nat \ {0}
  BY DEF Slots
<1>4. PICK new :
        /\ new = <<dir, Len(children[dir]) + 1>>
        /\ new \notin LiveRefs
        /\ LiveRefs' = LiveRefs \cup {new}
        /\ Target(new)' = target
        /\ \A r \in LiveRefs : Target(r)' = Target(r)
        /\ \A s : RefsTo(s)' = IF s = target THEN RefsTo(s) \cup {new} ELSE RefsTo(s)
  BY <1>1, <1>2, <1>3, AddedRefs
<1>5. ROOT \in Slots /\ target # ROOT
  <2>1. ROOT \in Slots /\ IsDir(ROOT)
    BY <1>1 DEF TableOK, Slots, ROOT, IsDir
  <2>2. QED
    BY <1>2, <2>1
<1>6. nlink \in [Slots -> Nat]
  BY <1>1 DEF TableOK
<1>7. IndexMatches'
  BY <1>1, <1>2, <1>3, AddedIndex
<1>8. NlinkIsRefCount'
  <2>1. nlink'[ROOT] = 1 /\ RefsTo(ROOT)' = {}
    BY <1>1, <1>2, <1>4, <1>5, <1>6 DEF NlinkIsRefCount
  <2>2. ASSUME NEW s \in Slots' \ {ROOT} PROVE nlink'[s] = Cardinality(RefsTo(s)')
    <3>1. nlink[s] = Cardinality(RefsTo(s))
      BY <1>1, <1>2 DEF NlinkIsRefCount
    <3>2. CASE s = target
      <4>1. RefsTo(s) \subseteq LiveRefs
        BY DEF RefsTo
      <4>2. IsFiniteSet(RefsTo(s)) /\ new \notin RefsTo(s)
        BY <1>1, <1>4, <4>1, RefsFinite
      <4>3. Cardinality(RefsTo(s) \cup {new}) = Cardinality(RefsTo(s)) + 1
        BY <4>2, FS_AddElement
      <4>4. nlink'[s] = nlink[s] + 1 /\ RefsTo(s)' = RefsTo(s) \cup {new}
        BY <1>2, <1>4, <1>6, <3>2
      <4>5. QED
        BY <3>1, <4>3, <4>4
    <3>3. CASE s # target
      BY <1>2, <1>4, <1>6, <3>1, <3>3
    <3>4. QED
      BY <3>2, <3>3
  <2>3. QED
    BY <2>1, <2>2 DEF NlinkIsRefCount
<1>9. DirsFormForest'
  <2> SUFFICES ASSUME NEW r \in LiveRefs', IsDir(Target(r))'
               PROVE  r[1] < Target(r)' /\ RefsTo(Target(r))' = {r}
    BY DEF DirsFormForest
  <2>1. \A t : Target(r)' = t => RefsTo(Target(r))' = RefsTo(t)'
    BY DEF RefsTo
  <2>2. r # new
    BY <1>2, <1>4 DEF IsDir
  <2>3. r \in LiveRefs /\ Target(r)' = Target(r)
    BY <1>4, <2>2
  <2>4. IsDir(Target(r)) /\ Target(r) # target
    BY <1>2, <2>3 DEF IsDir
  <2>5. RefsTo(Target(r))' = RefsTo(Target(r))
    BY <1>4, <2>1, <2>3, <2>4
  <2>6. QED
    BY <1>1, <2>3, <2>4, <2>5 DEF DirsFormForest
<1>10. ASSUME LinkedFromLinked, nlink[dir] > 0 PROVE LinkedFromLinked'
  <2> SUFFICES ASSUME NEW r \in LiveRefs' PROVE nlink'[r[1]] > 0
    BY DEF LinkedFromLinked
  <2>1. r[1] \in Slots /\ nlink[r[1]] > 0
    <3>1. CASE r = new
      BY <1>4, <1>10, <3>1
    <3>2. CASE r \in LiveRefs
      BY <1>1, <1>10, <3>2, RefEnds DEF LinkedFromLinked
    <3>3. QED
      BY <1>4, <3>1, <3>2
  <2>2. QED
    BY <1>2, <1>6, <2>1
<1>11. QED
  BY <1>2, <1>7, <1>8, <1>9, <1>10 DEF IInv

-----------------------------------------------------------------------------
(* remove(). *)

\* Subtree(d) holds d, is closed under subdirectories, and holds no directory
\* but d that is not a subdirectory of another one in it.
LEMMA SubtreeFacts ==
  ASSUME TableOK, NEW d \in Slots, IsDir(d)
  PROVE  /\ Subtree(d) \subseteq Dirs
         /\ d \in Subtree(d)
         /\ \A r \in SubdirRefs : r[1] \in Subtree(d) => Target(r) \in Subtree(d)
         /\ \A s \in Subtree(d) \ {d} : \E r \in SubdirRefs : r[1] \in Subtree(d) /\ Target(r) = s
<1>1. \A s : s \in Subtree(d) <=>
        s \in Dirs /\ \A T \in SUBSET Dirs : d \in T /\ Closed(T, SubdirRefs) => s \in T
  BY DEF Subtree
<1>2. Subtree(d) \subseteq Dirs
  BY <1>1
<1>3. d \in Subtree(d)
  BY <1>1 DEF Dirs
<1>4. ASSUME NEW r \in SubdirRefs, r[1] \in Subtree(d) PROVE Target(r) \in Subtree(d)
  <2>1. Target(r) \in Dirs
    BY RefEnds DEF SubdirRefs, Dirs
  <2>2. ASSUME NEW T \in SUBSET Dirs, d \in T, Closed(T, SubdirRefs) PROVE Target(r) \in T
    BY <1>1, <1>4, <2>2 DEF Closed
  <2>3. QED
    BY <1>1, <2>1, <2>2
<1>5. ASSUME NEW s \in Subtree(d) \ {d},
             ~ \E r \in SubdirRefs : r[1] \in Subtree(d) /\ Target(r) = s
      PROVE  FALSE
  <2> DEFINE T == Subtree(d) \ {s}
  <2>1. T \in SUBSET Dirs /\ d \in T
    BY <1>2, <1>3
  <2>2. Closed(T, SubdirRefs)
    BY <1>4, <1>5 DEF Closed
  <2>3. s \in T
    BY <1>1, <2>1, <2>2
  <2>4. QED
    BY <2>3
<1>6. QED
  BY <1>2, <1>3, <1>4, <1>5

\* The entries a removal tombstones, as remove() has them.
KilledBy(removed, gone) == {removed} \cup {r \in LiveRefs : r[1] \in gone}

\* The entry remove() takes is live, and what it kills besides are the
\* entries of directories that go.
LEMMA RemovedRef ==
  ASSUME TableOK, IndexMatches, NEW dir \in Slots, NEW name \in Names, remove(dir, name)
  PROVE  \E removed, gone, killed :
           /\ removed = <<dir, index[dir][name]>>
           /\ removed \in LiveRefs
           /\ children[dir][removed[2]].name = name
           /\ name \in DOMAIN index[dir]
           /\ gone = Gone(Target(removed))
           /\ killed = KilledBy(removed, gone)
           /\ killed \subseteq LiveRefs
           /\ Slots' = Slots /\ kind' = kind /\ size' = size /\ meta' = meta
           /\ children' = Buried(killed)
           /\ index' = IndexWithout(dir, name, gone)
           /\ nlink' = Unlinked(killed, gone)
<1>1. PICK removed : removed = <<dir, index[dir][name]>>
  OBVIOUS
<1>2. PICK gone : gone = Gone(Target(removed))
  OBVIOUS
<1>3. PICK killed : killed = KilledBy(removed, gone)
  OBVIOUS
<1>4. /\ name \in DOMAIN index[dir]
      /\ Slots' = Slots /\ kind' = kind /\ size' = size /\ meta' = meta
      /\ children' = Buried(killed)
      /\ index' = IndexWithout(dir, name, gone)
      /\ nlink' = Unlinked(killed, gone)
  BY <1>1, <1>2, <1>3 DEF remove, Slots, KilledBy
<1>5. index[dir][name] \in 1 .. MaxEntries
  <2>1. /\ index[dir] \in [DOMAIN index[dir] -> DOMAIN children[dir]]
        /\ children[dir] \in Seq(Entry) /\ Len(children[dir]) <= MaxEntries
    BY DEF TableOK
  <2>2. MaxEntries \in Nat /\ DOMAIN children[dir] = 1 .. Len(children[dir])
    BY <2>1, NamespaceAssumption
  <2>3. index[dir][name] \in 1 .. Len(children[dir])
    BY <1>4, <2>1, <2>2
  <2>4. Len(children[dir]) \in Nat
    BY <2>1
  <2>5. QED
    BY <2>1, <2>2, <2>3, <2>4
<1>6. removed \in LiveRefs /\ children[dir][removed[2]].name = name
  BY <1>1, <1>4, <1>5 DEF IndexMatches
<1>7. killed \subseteq LiveRefs
  BY <1>3, <1>6 DEF KilledBy
<1>8. QED
  BY <1>1, <1>2, <1>3, <1>4, <1>6, <1>7

\* The names of a directory that goes go too, and no other directory loses
\* its name.
LEMMA GoneIsKilled ==
  ASSUME IInv, NEW removed \in LiveRefs, NEW gone, gone = Gone(Target(removed)),
         NEW killed, killed = KilledBy(removed, gone)
  PROVE  /\ gone \subseteq Slots
         /\ ROOT \notin gone
         /\ \A s \in gone : IsDir(s)
         /\ \A s \in gone : RefsTo(s) \subseteq killed
         /\ \A r \in killed : IsDir(Target(r)) => Target(r) \in gone
<1>1. TableOK /\ NlinkIsRefCount /\ DirsFormForest
  BY DEF IInv
<1>2. PICK child : child = Target(removed)
  OBVIOUS
<1>3. child \in Slots
  BY <1>1, <1>2, RefEnds
<1>4. CASE ~IsDir(child)
  <2>1. gone = {}
    BY <1>2, <1>4 DEF Gone
  <2>2. QED
    BY <1>2, <1>4, <2>1 DEF KilledBy
<1>5. CASE IsDir(child)
  <2>1. gone = Subtree(child)
    BY <1>2, <1>5 DEF Gone
  <2>2. /\ gone \subseteq Dirs
        /\ child \in gone
        /\ \A r \in SubdirRefs : r[1] \in gone => Target(r) \in gone
        /\ \A s \in gone \ {child} : \E r \in SubdirRefs : r[1] \in gone /\ Target(r) = s
    BY <1>1, <1>3, <1>5, <2>1, SubtreeFacts
  <2>3. ASSUME NEW s \in gone
        PROVE  RefsTo(s) \subseteq killed /\ RefsTo(s) # {}
    <3>1. PICK r \in killed : r \in LiveRefs /\ Target(r) = s
      <4>1. CASE s = child
        BY <1>2, <4>1 DEF KilledBy
      <4>2. CASE s # child
        BY <2>2, <2>3, <4>2 DEF SubdirRefs, KilledBy
      <4>3. QED
        BY <4>1, <4>2
    <3>2. IsDir(Target(r))
      BY <2>2, <2>3, <3>1 DEF Dirs
    <3>3. RefsTo(s) = {r}
      BY <1>1, <3>1, <3>2 DEF DirsFormForest
    <3>4. QED
      BY <3>1, <3>3
  <2>4. ROOT \notin gone
    BY <1>1, <2>3 DEF NlinkIsRefCount
  <2>5. ASSUME NEW r \in killed, IsDir(Target(r)) PROVE Target(r) \in gone
    BY <1>2, <2>2, <2>5 DEF SubdirRefs, KilledBy
  <2>6. QED
    BY <2>2, <2>3, <2>4, <2>5 DEF Dirs
<1>6. QED
  BY <1>4, <1>5

\* Tombstones change nothing but which entries are live.
LEMMA BuriedRefs ==
  ASSUME TableOK, NEW killed \in SUBSET LiveRefs, children' = Buried(killed), Slots' = Slots
  PROVE  /\ children' \in [Slots -> Seq(Entry)]
         /\ \A s \in Slots : /\ DOMAIN children'[s] = DOMAIN children[s]
                             /\ Len(children'[s]) = Len(children[s])
         /\ \A s \in Slots : \A i \in DOMAIN children[s] :
              /\ children'[s][i].name = children[s][i].name
              /\ children'[s][i].child = children[s][i].child
         /\ LiveRefs' = LiveRefs \ killed
         /\ \A r \in LiveRefs : Target(r)' = Target(r)
         /\ \A s : RefsTo(s)' = RefsTo(s) \ killed
<1>1. \A s \in Slots : /\ children[s] \in Seq(Entry)
                       /\ Len(children[s]) \in Nat
                       /\ DOMAIN children[s] = 1 .. Len(children[s])
                       /\ \A i \in DOMAIN children[s] : children[s][i] \in Entry
  BY DEF TableOK
<1>2. \A s \in Slots : children'[s] =
        [i \in DOMAIN children[s] |->
           IF <<s, i>> \in killed THEN [children[s][i] EXCEPT !.dead = TRUE] ELSE children[s][i]]
  BY DEF Buried
<1>3. ASSUME NEW s \in Slots, NEW i \in DOMAIN children[s]
      PROVE  /\ children'[s][i] \in Entry
             /\ children'[s][i].name = children[s][i].name
             /\ children'[s][i].child = children[s][i].child
             /\ children'[s][i].dead <=> <<s, i>> \in killed \/ children[s][i].dead
  <2>1. children[s][i] \in Entry
    BY <1>1
  <2> DEFINE E == children[s][i]
  <2>2. children'[s][i] = IF <<s, i>> \in killed THEN [E EXCEPT !.dead = TRUE] ELSE E
    BY <1>2
  <2>3. /\ [E EXCEPT !.dead = TRUE] \in Entry
        /\ [E EXCEPT !.dead = TRUE].name = E.name
        /\ [E EXCEPT !.dead = TRUE].child = E.child
        /\ [E EXCEPT !.dead = TRUE].dead = TRUE
    <3> HIDE DEF E
    <3>1. E \in Entry
      BY <2>1 DEF E
    <3>2. QED
      BY <3>1 DEF Entry
  <2>4. E \in Entry
    BY <2>1
  <2> HIDE DEF E
  <2>5. CASE <<s, i>> \in killed
    <3>1. children'[s][i] = [E EXCEPT !.dead = TRUE]
      BY <2>2, <2>5
    <3>2. QED
      BY <2>3, <2>5, <3>1 DEF E
  <2>6. CASE <<s, i>> \notin killed
    <3>1. children'[s][i] = E
      BY <2>2, <2>6
    <3>2. QED
      BY <2>4, <2>6, <3>1 DEF E
  <2>7. QED
    BY <2>5, <2>6
<1>4. ASSUME NEW s \in Slots
      PROVE  children'[s] \in Seq(Entry) /\ Len(children'[s]) = Len(children[s])
               /\ DOMAIN children'[s] = DOMAIN children[s]
  <2>1. DOMAIN children'[s] = 1 .. Len(children[s])
    BY <1>1, <1>2
  <2>2. children'[s] \in [1 .. Len(children[s]) -> Entry]
    <3>1. children'[s] = [i \in 1 .. Len(children[s]) |-> children'[s][i]]
      BY <1>1, <1>2
    <3>2. \A i \in 1 .. Len(children[s]) : children'[s][i] \in Entry
      BY <1>1, <1>3
    <3>3. QED
      BY <3>1, <3>2
  <2>3. QED
    BY <1>1, <2>1, <2>2, TupleIsSeq
<1>5. children' \in [Slots -> Seq(Entry)]
  BY <1>4 DEF Buried
<1>6. LiveRefs' = LiveRefs \ killed
  <2>1. \A s, i : <<s, i>> \in LiveRefs' <=>
          s \in Slots /\ i \in DOMAIN children'[s] /\ ~children'[s][i].dead
    BY DEF LiveRefs
  <2>2. \A r \in LiveRefs' : r = <<r[1], r[2]>>
    BY DEF LiveRefs
  <2>3. \A s, i : <<s, i>> \in LiveRefs' <=> <<s, i>> \in LiveRefs /\ <<s, i>> \notin killed
    <3> SUFFICES ASSUME NEW s, NEW i
                 PROVE <<s, i>> \in LiveRefs' <=> <<s, i>> \in LiveRefs /\ <<s, i>> \notin killed
      OBVIOUS
    <3>1. CASE s \in Slots /\ i \in DOMAIN children[s]
      BY <1>3, <1>4, <2>1, <3>1, LiveRefMember
    <3>2. CASE ~(s \in Slots /\ i \in DOMAIN children[s])
      BY <1>4, <2>1, <3>2, LiveRefMember
    <3>3. QED
      BY <3>1, <3>2
  <2>4. ASSUME NEW r \in LiveRefs' PROVE r \in LiveRefs \ killed
    BY <2>2, <2>3
  <2>5. ASSUME NEW r \in LiveRefs \ killed PROVE r \in LiveRefs'
    BY <2>3, LiveRefMember
  <2>6. QED
    BY <2>4, <2>5
<1>7. ASSUME NEW r \in LiveRefs PROVE Target(r)' = Target(r)
  <2>1. r[1] \in Slots /\ r[2] \in DOMAIN children[r[1]]
    BY LiveRefMember
  <2>2. QED
    BY <1>3, <2>1 DEF Target
<1>8. \A s : RefsTo(s)' = RefsTo(s) \ killed
  BY <1>6, <1>7 DEF RefsTo
<1>9. QED
  BY <1>3, <1>4, <1>5, <1>6, <1>7, <1>8

\* remove() counts right: what a node loses are its names among `killed`.
LEMMA UnlinkedCounts ==
  ASSUME TableOK, NEW killed \in SUBSET LiveRefs, NEW gone,
         NEW s \in Slots, nlink[s] = Cardinality(RefsTo(s)),
         s \in gone => RefsTo(s) \subseteq killed
  PROVE  Unlinked(killed, gone)[s] = Cardinality(RefsTo(s) \ killed)
<1>1. IsFiniteSet(RefsTo(s)) /\ IsFiniteSet(killed)
  <2>1. RefsTo(s) \in SUBSET LiveRefs
    BY DEF RefsTo
  <2>2. QED
    BY <2>1, RefsFinite
<1>2. CASE s \in gone
  <2>1. RefsTo(s) \ killed = {}
    BY <1>2
  <2>2. QED
    BY <1>2, <2>1, FS_EmptySet DEF Unlinked
<1>3. CASE s \notin gone
  <2>1. LostBy(s, killed) = RefsTo(s) \cap killed
    BY DEF LostBy, RefsTo
  <2>2. Cardinality(RefsTo(s) \ killed)
          = Cardinality(RefsTo(s)) - Cardinality(RefsTo(s) \cap killed)
    BY <1>1, FS_Difference
  <2>3. QED
    BY <1>3, <2>1, <2>2 DEF Unlinked
<1>4. QED
  BY <1>2, <1>3

LEMMA RemoveKeeps ==
  ASSUME IInv, NEW dir \in Slots, NEW name \in Names, remove(dir, name)
  PROVE  /\ IInv'
         /\ LinkedFromLinked => LinkedFromLinked'
<1>1. TableOK /\ IndexMatches /\ NlinkIsRefCount /\ DirsFormForest
  BY DEF IInv
<1>2. PICK removed, gone, killed :
        /\ removed = <<dir, index[dir][name]>>
        /\ removed \in LiveRefs
        /\ children[dir][removed[2]].name = name
        /\ name \in DOMAIN index[dir]
        /\ gone = Gone(Target(removed))
        /\ killed = KilledBy(removed, gone)
        /\ killed \subseteq LiveRefs
        /\ Slots' = Slots /\ kind' = kind /\ size' = size /\ meta' = meta
        /\ children' = Buried(killed)
        /\ index' = IndexWithout(dir, name, gone)
        /\ nlink' = Unlinked(killed, gone)
  BY <1>1, RemovedRef
<1>3. /\ gone \subseteq Slots
      /\ ROOT \notin gone
      /\ \A s \in gone : IsDir(s)
      /\ \A s \in gone : RefsTo(s) \subseteq killed
      /\ \A r \in killed : IsDir(Target(r)) => Target(r) \in gone
  BY <1>2, GoneIsKilled
<1>4. /\ children' \in [Slots -> Seq(Entry)]
      /\ \A s \in Slots : /\ DOMAIN children'[s] = DOMAIN children[s]
                          /\ Len(children'[s]) = Len(children[s])
      /\ \A s \in Slots : \A i \in DOMAIN children[s] :
           /\ children'[s][i].name = children[s][i].name
           /\ children'[s][i].child = children[s][i].child
      /\ LiveRefs' = LiveRefs \ killed
      /\ \A r \in LiveRefs : Target(r)' = Target(r)
      /\ \A s : RefsTo(s)' = RefsTo(s) \ killed
  BY <1>1, <1>2, BuriedRefs
<1>5. \A s \in Slots : IsDir(s)' <=> IsDir(s)
  BY <1>2 DEF IsDir
<1>6. ROOT \in Slots /\ IsDir(ROOT)
  BY <1>1 DEF TableOK, Slots, ROOT, IsDir
<1>7. /\ DOMAIN index' = Slots
      /\ \A s \in gone : index'[s] = NoNames
      /\ dir \notin gone => index'[dir] = [n \in DOMAIN index[dir] \ {name} |-> index[dir][n]]
      /\ \A s \in Slots \ {dir} : s \notin gone => index'[s] = index[s]
  BY <1>2, <1>3 DEF IndexWithout
<1>8. /\ \A s \in Slots \ {ROOT} : nlink'[s] = Cardinality(RefsTo(s)')
      /\ nlink'[ROOT] = 1 /\ RefsTo(ROOT)' = {}
  <2>1. ASSUME NEW s \in Slots \ {ROOT} PROVE nlink'[s] = Cardinality(RefsTo(s)')
    <3>1. nlink[s] = Cardinality(RefsTo(s))
      BY <1>1 DEF NlinkIsRefCount
    <3>2. Unlinked(killed, gone)[s] = Cardinality(RefsTo(s) \ killed)
      <4>1. s \in Slots /\ killed \in SUBSET LiveRefs
        BY <1>2
      <4>2. s \in gone => RefsTo(s) \subseteq killed
        BY <1>3
      <4>3. QED
        BY <1>1, <3>1, <4>1, <4>2, UnlinkedCounts
    <3>3. QED
      BY <1>2, <1>4, <3>2
  <2>2. RefsTo(ROOT)' = {}
    BY <1>1, <1>4 DEF NlinkIsRefCount
  <2>3. LostBy(ROOT, killed) = {}
    BY <1>1, <1>2 DEF NlinkIsRefCount, LostBy, RefsTo
  <2>4. nlink'[ROOT] = 1
    <3>1. nlink'[ROOT] = nlink[ROOT] - Cardinality(LostBy(ROOT, killed))
      BY <1>2, <1>3, <1>6 DEF Unlinked
    <3>2. nlink[ROOT] = 1 /\ Cardinality({}) = 0
      BY <1>1, FS_EmptySet DEF NlinkIsRefCount
    <3>3. QED
      BY <2>3, <3>1, <3>2
  <2>5. QED
    BY <2>1, <2>2, <2>4
<1>9. nlink' \in [Slots -> Nat]
  <2>1. nlink' = [s \in Slots |-> nlink'[s]]
    BY <1>2 DEF Unlinked
  <2>2. ASSUME NEW s \in Slots PROVE nlink'[s] \in Nat
    <3>1. CASE s = ROOT
      BY <1>8, <3>1
    <3>2. CASE s # ROOT
      <4>1. RefsTo(s) \ killed \in SUBSET LiveRefs
        BY DEF RefsTo
      <4>2. Cardinality(RefsTo(s) \ killed) \in Nat
        BY <1>1, <4>1, RefsFinite, FS_CardinalityType
      <4>3. QED
        BY <1>4, <1>8, <3>2, <4>2
    <3>3. QED
      BY <3>1, <3>2
  <2>3. QED
    BY <2>1, <2>2
<1>10. \A s \in Slots : SlotOK(s)'
  <2> SUFFICES ASSUME NEW s \in Slots PROVE SlotOK(s)'
    OBVIOUS
  <2>1. SlotOK(s)
    BY <1>1 DEF TableOK, SlotOK
  <2>2. Len(children'[s]) <= MaxEntries
    BY <1>4, <2>1 DEF SlotOK
  <2>3. ~IsDir(s)' => children'[s] = <<>>
    <3>1. ASSUME ~IsDir(s)' PROVE children'[s] = <<>>
      <4>1. Len(children'[s]) = 0 /\ children'[s] \in Seq(Entry)
        BY <1>4, <1>5, <2>1, <3>1, EmptySeq DEF SlotOK
      <4>2. QED
        BY <4>1
    <3>2. QED
      BY <3>1
  <2>4. \A i \in DOMAIN children'[s] : children'[s][i].child \in Slots'
    <3>1. \A i \in DOMAIN children[s] : children[s][i].child \in Slots
      BY <2>1 DEF SlotOK
    <3>2. DOMAIN children'[s] = DOMAIN children[s]
      BY <1>4
    <3>3. Slots' = Slots
      BY <1>2
    <3>4. QED
      BY <1>4, <3>1, <3>2, <3>3
  <2>5. /\ index'[s] \in [DOMAIN index'[s] -> DOMAIN children'[s]]
        /\ DOMAIN index'[s] \subseteq Names
    <3>1. CASE s \in gone
      BY <1>7, <3>1 DEF NoNames
    <3>2. CASE s \notin gone /\ s = dir
      BY <1>4, <1>7, <2>1, <3>2 DEF SlotOK
    <3>3. CASE s \notin gone /\ s # dir
      BY <1>4, <1>7, <2>1, <3>3 DEF SlotOK
    <3>4. QED
      BY <3>1, <3>2, <3>3
  <2>6. QED
    BY <2>2, <2>3, <2>4, <2>5 DEF SlotOK
<1>11. TableOK'
  <2>1. /\ kind' \in Seq(Kinds) /\ Slots' # {} /\ kind'[ROOT] = "Dir"
        /\ size' \in [Slots' -> Sizes \cup {0}] /\ meta' \in [Slots' -> Metas]
    BY <1>1, <1>2 DEF TableOK
  <2>2. QED
    BY <1>2, <1>4, <1>7, <1>9, <1>10, <2>1 DEF TableOK, SlotOK
<1>12. IndexMatches'
  <2> SUFFICES ASSUME NEW d \in Slots, NEW n \in Names, NEW i \in 1 .. MaxEntries
               PROVE  n \in DOMAIN index'[d] /\ index'[d][n] = i
                        <=> <<d, i>> \in LiveRefs' /\ children'[d][i].name = n
    BY <1>2 DEF IndexMatches
  <2>1. n \in DOMAIN index[d] /\ index[d][n] = i <=> <<d, i>> \in LiveRefs /\ children[d][i].name = n
    BY <1>1 DEF IndexMatches
  <2>2. <<d, i>> \in LiveRefs => children'[d][i].name = children[d][i].name
    BY <1>4, LiveRefMember
  <2>3. <<d, i>> \in LiveRefs' <=> <<d, i>> \in LiveRefs /\ <<d, i>> \notin killed
    BY <1>4
  <2>4. <<d, i>> \in killed <=> <<d, i>> = removed \/ (<<d, i>> \in LiveRefs /\ d \in gone)
    BY <1>2 DEF KilledBy
  <2>5. CASE d \in gone
    BY <1>7, <2>3, <2>4, <2>5 DEF NoNames
  <2>6. CASE d \notin gone /\ d = dir
    <3>1. <<d, i>> = removed <=> i = index[dir][name]
      BY <1>2, <2>6
    <3>2. CASE n = name
      BY <1>7, <2>1, <2>2, <2>3, <2>4, <2>6, <3>1, <3>2
    <3>3. CASE n # name
      <4>1. <<d, i>> \in LiveRefs /\ children[d][i].name = n => <<d, i>> # removed
        BY <1>2, <2>6, <3>3
      <4>2. QED
        BY <1>7, <2>1, <2>2, <2>3, <2>4, <2>6, <3>3, <4>1
    <3>4. QED
      BY <3>2, <3>3
  <2>7. CASE d \notin gone /\ d # dir
    <3>1. <<d, i>> # removed
      BY <1>2, <2>7
    <3>2. QED
      BY <1>7, <2>1, <2>2, <2>3, <2>4, <2>7, <3>1
  <2>8. QED
    BY <2>5, <2>6, <2>7
<1>13. NlinkIsRefCount'
  BY <1>2, <1>8 DEF NlinkIsRefCount
<1>14. DirsFormForest'
  <2> SUFFICES ASSUME NEW r \in LiveRefs', IsDir(Target(r))'
               PROVE  r[1] < Target(r)' /\ RefsTo(Target(r))' = {r}
    BY DEF DirsFormForest
  <2>1. \A t : Target(r)' = t => RefsTo(Target(r))' = RefsTo(t)'
    BY DEF RefsTo
  <2>2. r \in LiveRefs /\ r \notin killed /\ Target(r)' = Target(r)
    BY <1>4
  <2>3. IsDir(Target(r))
    BY <1>2, <2>2 DEF IsDir
  <2>4. r[1] < Target(r) /\ RefsTo(Target(r)) = {r}
    BY <1>1, <2>2, <2>3 DEF DirsFormForest
  <2>5. RefsTo(Target(r))' = RefsTo(Target(r)) \ killed
    BY <1>4, <2>1, <2>2
  <2>6. QED
    BY <2>2, <2>4, <2>5
<1>15. ASSUME LinkedFromLinked PROVE LinkedFromLinked'
  <2> SUFFICES ASSUME NEW r \in LiveRefs' PROVE nlink'[r[1]] > 0
    BY DEF LinkedFromLinked
  <2>1. r \in LiveRefs /\ r \notin killed
    BY <1>4
  <2>2. r[1] \in Slots /\ IsDir(r[1]) /\ r[1] \notin gone
    BY <1>1, <1>2, <2>1, RefEnds DEF KilledBy
  <2>3. nlink[r[1]] > 0
    BY <1>15, <2>1 DEF LinkedFromLinked
  <2>4. LostBy(r[1], killed) = {}
    BY <1>3, <2>2 DEF LostBy
  <2>5. nlink'[r[1]] = nlink[r[1]] - Cardinality({})
    BY <1>2, <2>2, <2>4 DEF Unlinked
  <2>6. nlink[r[1]] \in Nat
    BY <1>1, <2>2 DEF TableOK
  <2>7. QED
    BY <2>3, <2>5, <2>6, FS_EmptySet
<1>16. QED
  BY <1>11, <1>12, <1>13, <1>14, <1>15 DEF IInv

-----------------------------------------------------------------------------
(* The specification. *)

LEMMA InitInv == Init => IInv /\ LinkedFromLinked
<1> SUFFICES ASSUME Init PROVE IInv /\ LinkedFromLinked
  OBVIOUS
<1>1. /\ kind = <<"Dir">> /\ size = <<0>> /\ nlink = <<1>>
      /\ children = <<<<>>>> /\ index = <<NoNames>>
      /\ Slots = {1} /\ IsDir(1)
  BY DEF Init, Slots, IsDir
<1>2. LiveRefs = {}
  BY <1>1 DEF LiveRefs
<1>3. \A s : RefsTo(s) = {}
  BY <1>2 DEF RefsTo
<1>4. PICK m \in Metas : meta = <<m>>
  BY DEF Init
<1>5. TableOK
  <2>1. kind \in Seq(Kinds) /\ kind[ROOT] = "Dir"
    BY <1>1 DEF Kinds, ROOT
  <2>2. /\ size \in [Slots -> Sizes \cup {0}] /\ meta \in [Slots -> Metas]
        /\ nlink \in [Slots -> Nat] /\ children \in [Slots -> Seq(Entry)]
        /\ DOMAIN index = Slots
    <3>1. \A S : \A x \in S : <<x>> \in [{1} -> S]
      OBVIOUS
    <3>2. 0 \in Sizes \cup {0} /\ 1 \in Nat /\ <<>> \in Seq(Entry)
      OBVIOUS
    <3>3. DOMAIN <<NoNames>> = {1}
      OBVIOUS
    <3>4. QED
      BY <1>1, <1>4, <3>1, <3>2, <3>3
  <2>3. SlotOK(1)
    BY <1>1, NamespaceAssumption DEF SlotOK, NoNames
  <2>4. QED
    BY <1>1, <2>1, <2>2, <2>3 DEF TableOK, SlotOK
<1>6. IndexMatches
  BY <1>1, <1>2 DEF IndexMatches, NoNames
<1>7. NlinkIsRefCount
  BY <1>1, <1>3 DEF NlinkIsRefCount, ROOT
<1>8. QED
  BY <1>2, <1>5, <1>6, <1>7 DEF IInv, DirsFormForest, LinkedFromLinked

\* IInv and LinkedFromLinked speak of the table alone.
LEMMA SameTableKeeps ==
  ASSUME IInv, UNCHANGED <<kind, size, nlink, children, index>>,
         meta' \in [Slots -> Metas]
  PROVE  /\ IInv'
         /\ LinkedFromLinked => LinkedFromLinked'
<1>1. /\ Slots' = Slots /\ LiveRefs' = LiveRefs
      /\ \A r : Target(r)' = Target(r)
      /\ \A s : IsDir(s)' <=> IsDir(s)
  BY DEF Slots, LiveRefs, Target, IsDir
<1>2. \A s : RefsTo(s)' = RefsTo(s)
  BY <1>1 DEF RefsTo
<1>3. TableOK'
  BY <1>1 DEF IInv, TableOK
<1>4. IndexMatches'
  <2>1. IndexMatches
    BY DEF IInv
  <2>2. children' = children /\ index' = index /\ Slots' = Slots /\ LiveRefs' = LiveRefs
    BY <1>1
  <2> SUFFICES ASSUME NEW d \in Slots', NEW n \in Names, NEW i \in 1 .. MaxEntries
               PROVE  n \in DOMAIN index'[d] /\ index'[d][n] = i
                        <=> <<d, i>> \in LiveRefs' /\ children'[d][i].name = n
    BY DEF IndexMatches
  <2>3. QED
    BY <2>1, <2>2 DEF IndexMatches
<1>5. NlinkIsRefCount'
  BY <1>1, <1>2 DEF IInv, NlinkIsRefCount
<1>6. DirsFormForest'
  <2> SUFFICES ASSUME NEW r \in LiveRefs', IsDir(Target(r))'
               PROVE  r[1] < Target(r)' /\ RefsTo(Target(r))' = {r}
    BY DEF DirsFormForest
  <2>1. \A t : Target(r)' = t => RefsTo(Target(r))' = RefsTo(t)' /\ (IsDir(Target(r))' <=> IsDir(t)')
    BY DEF RefsTo, IsDir
  <2>2. QED
    BY <1>1, <1>2, <2>1 DEF IInv, DirsFormForest
<1>7. LinkedFromLinked => LinkedFromLinked'
  BY <1>1 DEF LinkedFromLinked
<1>8. QED
  BY <1>3, <1>4, <1>5, <1>6, <1>7 DEF IInv

LEMMA StepKeeps ==
  ASSUME IInv, [Next]_vars
  PROVE  /\ IInv'
         /\ ~StaleHandles /\ LinkedFromLinked => LinkedFromLinked'
<1>1. CASE UNCHANGED vars
  BY <1>1, SameTableKeeps DEF vars, IInv, TableOK
<1>2. ASSUME NEW handle \in Slots, NEW m \in Metas, set_meta(handle, m)
      PROVE  IInv' /\ (LinkedFromLinked => LinkedFromLinked')
  <2>1. meta' \in [Slots -> Metas] /\ UNCHANGED <<kind, size, nlink, children, index>>
    BY <1>2 DEF set_meta, IInv, TableOK
  <2>2. QED
    BY <2>1, SameTableKeeps
<1>3. ASSUME NEW dir \in Slots, NEW name \in Names, Usable(dir), NEW k \in Kinds,
             NEW m \in Metas, NEW bytes \in Sizes \cup {0}, Declare(k, dir, name, m, bytes)
      PROVE  IInv' /\ (~StaleHandles /\ LinkedFromLinked => LinkedFromLinked')
  BY <1>3, DeclareKeeps DEF Usable
<1>4. ASSUME NEW dir \in Slots, NEW name \in Names, NEW target \in Slots, Usable(dir),
             hardlink(dir, name, target)
      PROVE  IInv' /\ (~StaleHandles /\ LinkedFromLinked => LinkedFromLinked')
  BY <1>4, HardlinkKeeps DEF Usable
<1>5. ASSUME NEW dir \in Slots, NEW name \in Names, remove(dir, name)
      PROVE  IInv' /\ (LinkedFromLinked => LinkedFromLinked')
  BY <1>5, RemoveKeeps
<1>6. ASSUME NEW dir \in Slots, NEW name \in Names, Usable(dir),
             \/ \E m \in Metas : mkdir(dir, name, m)
             \/ \E m \in Metas, bytes \in Sizes : file(dir, name, m, bytes)
             \/ \E m \in Metas, bytes \in Sizes : file_sparse(dir, name, m, bytes)
             \/ \E m \in Metas : symlink(dir, name, m)
             \/ \E m \in Metas : mknod(dir, name, m)
      PROVE  IInv' /\ (~StaleHandles /\ LinkedFromLinked => LinkedFromLinked')
  <2>1. \E k \in Kinds, m \in Metas, bytes \in Sizes \cup {0} : Declare(k, dir, name, m, bytes)
    BY <1>6 DEF mkdir, file, file_sparse, symlink, mknod, Kinds
  <2>2. QED
    BY <1>3, <1>6, <2>1
<1>7. QED
  BY <1>1, <1>2, <1>4, <1>5, <1>6 DEF Next

-----------------------------------------------------------------------------
\* The conjunction that the calls of the builder keep together.
THEOREM Invariance == Spec => []IInv
<1>1. Init => IInv
  BY InitInv
<1>2. IInv /\ [Next]_vars => IInv'
  BY StepKeeps
<1>3. QED
  BY <1>1, <1>2, PTL DEF Spec

\* The name index of each directory, also of a removed one, agrees with its
\* entries after any sequence of calls.
THEOREM IndexAgrees == Spec => []IndexMatches
<1>1. IInv => IndexMatches
  BY DEF IInv
<1>2. QED
  BY <1>1, Invariance, PTL

\* nlink is the number of names, so unlink() never decrements a zero.
THEOREM LinksAreCounted == Spec => []NlinkIsRefCount
<1>1. IInv => NlinkIsRefCount
  BY DEF IInv
<1>2. QED
  BY <1>1, Invariance, PTL

\* Directories have one name each, in an older directory: the worklists of
\* remove_subtree() and mark_reachable() meet no directory twice.
THEOREM TreeStaysTree == Spec => []DirsFormForest
<1>1. IInv => DirsFormForest
  BY DEF IInv
<1>2. QED
  BY <1>1, Invariance, PTL

\* As long as the caller passes handles of linked nodes only, no linked name
\* hangs off a removed directory, however subtrees and hardlinks overlap.
THEOREM RemovalIsComplete ==
  ASSUME ~StaleHandles
  PROVE  Spec => []LinkedFromLinked
<1>1. Init => IInv /\ LinkedFromLinked
  BY InitInv
<1>2. (IInv /\ LinkedFromLinked) /\ [Next]_vars => (IInv /\ LinkedFromLinked)'
  BY StepKeeps
<1>3. QED
  BY <1>1, <1>2, PTL DEF Spec

-----------------------------------------------------------------------------
(* declared_bytes. *)

LinkedFiles == {s \in Slots : IsFile(s) /\ nlink[s] > 0}

\* Only files have a size, and the counter holds what the linked ones have.
BytesInv ==
  /\ \A s \in Slots : ~IsFile(s) => size[s] = 0
  /\ DeclaredBytesExact

LEMMA LinkedFilesFinite ==
  ASSUME TableOK
  PROVE  /\ IsFiniteSet(Slots) /\ \A s \in Slots : size[s] \in Nat
         /\ \A S \in SUBSET Slots : IsFiniteSet(S) /\ BytesOf(S) \in Nat
<1>1. IsFiniteSet(Slots)
  BY FS_Interval DEF TableOK, Slots
<1>2. \A s \in Slots : size[s] \in Nat
  <2>1. size \in [Slots -> Sizes \cup {0}]
    BY DEF TableOK
  <2>2. \A v \in Sizes \cup {0} : v \in Nat
    BY NamespaceAssumption
  <2>3. QED
    BY <2>1, <2>2
<1>3. ASSUME NEW S \in SUBSET Slots PROVE IsFiniteSet(S) /\ BytesOf(S) \in Nat
  <2>1. IsFiniteSet(S)
    BY <1>1, FS_Subset
  <2>2. Cardinality(Units(size, S)) \in Nat
    BY <1>2, <2>1, UnitsFinite
  <2>3. QED
    BY <2>1, <2>2 DEF BytesOf, Units
<1>4. QED
  BY <1>1, <1>2, <1>3

\* A node that is not a file declares no bytes; a file counts from the start.
LEMMA DeclareCounts ==
  ASSUME IInv, BytesInv, NEW k \in Kinds, NEW dir \in Slots, NEW name \in Names, NEW m \in Metas,
         NEW bytes \in Sizes \cup {0}, Declare(k, dir, name, m, bytes),
         k \notin {"File", "Sparse"} => bytes = 0
  PROVE  BytesInv'
<1>0. PICK slot : slot = Len(kind) + 1
  OBVIOUS
<1>1. TableOK
  BY DEF IInv
<1>2. /\ Len(kind) \in Nat /\ slot \notin Slots
      /\ Slots' = Slots \cup {slot}
      /\ \A s \in Slots : kind'[s] = kind[s] /\ nlink'[s] = nlink[s]
      /\ nlink'[slot] = 1
  BY <1>0, <1>1, DeclaredSlot
<1>3. Slots = 1 .. Len(kind) /\ kind \in [1 .. Len(kind) -> Kinds]
      /\ size \in [1 .. Len(kind) -> Sizes \cup {0}] /\ bytes \in Nat
  BY <1>1, NamespaceAssumption DEF TableOK, Slots
<1>4. kind' = Append(kind, k) /\ size' = Append(size, bytes) /\ declared_bytes' = declared_bytes + bytes
  BY DEF Declare
<1>5. /\ \A s \in Slots : s \in 1 .. Len(kind) + 1 /\ s # slot
      /\ slot \in 1 .. Len(kind) + 1
  BY <1>0, <1>2, <1>3
<1>6. kind'[slot] = k
  BY <1>0, <1>2, <1>3, <1>4, <1>5, AppendIsFunction
<1>7. size'[slot] = bytes /\ \A s \in Slots : size'[s] = size[s]
  BY <1>0, <1>2, <1>3, <1>4, <1>5, AppendIsFunction
<1>8. /\ \A s \in Slots : IsFile(s)' <=> IsFile(s)
      /\ IsFile(slot)' <=> k \in {"File", "Sparse"}
  BY <1>2, <1>6 DEF IsFile
<1>9. \A s \in Slots' : ~IsFile(s)' => size'[s] = 0
  BY <1>2, <1>7, <1>8 DEF BytesInv
<1>10. /\ IsFiniteSet(LinkedFiles) /\ slot \notin LinkedFiles
       /\ \A s \in LinkedFiles : size[s] \in Nat /\ size'[s] = size[s]
       /\ BytesOf(LinkedFiles) \in Nat
  BY <1>1, <1>2, <1>7, LinkedFilesFinite DEF LinkedFiles
<1>11. declared_bytes = Cardinality(Units(size, LinkedFiles))
  BY DEF BytesInv, DeclaredBytesExact, BytesOf, Units, LinkedFiles
<1>12. Units(size', LinkedFiles) = Units(size, LinkedFiles)
  BY <1>10, UnitsAgree
<1>13. LinkedFiles' = IF k \in {"File", "Sparse"} THEN LinkedFiles \cup {slot} ELSE LinkedFiles
  BY <1>2, <1>8 DEF LinkedFiles
<1>14. declared_bytes' = Cardinality(Units(size', LinkedFiles'))
  <2>1. CASE k \in {"File", "Sparse"}
    <3>1. \A s \in LinkedFiles \cup {slot} : size'[s] \in Nat
      BY <1>3, <1>7, <1>10
    <3>2. Cardinality(Units(size', LinkedFiles \cup {slot}))
            = Cardinality(Units(size', LinkedFiles)) + size'[slot]
      BY <1>10, <3>1, UnitsOfOneMore
    <3>3. QED
      BY <1>4, <1>7, <1>11, <1>12, <1>13, <2>1, <3>2
  <2>2. CASE k \notin {"File", "Sparse"}
    <3>1. declared_bytes' = declared_bytes
      BY <1>4, <1>10, <2>2 DEF BytesInv, DeclaredBytesExact, LinkedFiles
    <3>2. QED
      BY <1>11, <1>12, <1>13, <2>2, <3>1
  <2>3. QED
    BY <2>1, <2>2
<1>15. DeclaredBytesExact'
  BY <1>14 DEF DeclaredBytesExact, BytesOf, Units, LinkedFiles
<1>16. QED
  BY <1>9, <1>15 DEF BytesInv

\* remove() takes off the bytes of the files whose last name goes, and each
\* of them once, whether or not a directory goes with it.
LEMMA RemoveCounts ==
  ASSUME IInv, BytesInv, NEW dir \in Slots, NEW name \in Names, remove(dir, name)
  PROVE  BytesInv'
<1>1. TableOK /\ IndexMatches /\ NlinkIsRefCount
  BY DEF IInv
<1> DEFINE removed == <<dir, index[dir][name]>>
           gone    == Gone(Target(removed))
           killed  == KilledBy(removed, gone)
           shrunk  == ShrunkBy(killed, nlink')
<1>2. /\ Slots' = Slots /\ kind' = kind /\ size' = size
      /\ nlink' = Unlinked(killed, gone)
      /\ declared_bytes' = declared_bytes - BytesOf(shrunk)
  BY DEF remove, KilledBy, Slots
<1>3. removed \in LiveRefs /\ killed \subseteq LiveRefs
  BY <1>1, RemovedRef
<1>4. \A s \in gone : IsDir(s)
  BY <1>3, GoneIsKilled
<1> HIDE DEF removed, gone, killed
<1>5. ASSUME NEW s \in Slots, ~IsDir(s)
      PROVE  /\ nlink[s] \in Nat /\ nlink'[s] \in Nat
             /\ nlink'[s] > 0 => nlink[s] > 0
             /\ s \in shrunk <=> nlink[s] > 0 /\ nlink'[s] = 0
  <2>1. s # ROOT
    BY <1>1, <1>5 DEF TableOK, IsDir
  <2>2. /\ nlink'[s] = nlink[s] - Cardinality(LostBy(s, killed))
        /\ nlink[s] = Cardinality(RefsTo(s))
    BY <1>1, <1>2, <1>4, <1>5, <2>1 DEF Unlinked, NlinkIsRefCount
  <2>3. LostBy(s, killed) \in SUBSET RefsTo(s) /\ IsFiniteSet(RefsTo(s))
    BY <1>1, <1>3, RefsFinite DEF LostBy, RefsTo
  <2>4. /\ Cardinality(RefsTo(s)) \in Nat /\ Cardinality(LostBy(s, killed)) \in Nat
        /\ Cardinality(LostBy(s, killed)) <= Cardinality(RefsTo(s))
        /\ Cardinality(LostBy(s, killed)) = 0 <=> LostBy(s, killed) = {}
    BY <2>3, FS_Subset, FS_CardinalityType, FS_EmptySet
  <2>5. s \in shrunk <=> LostBy(s, killed) # {} /\ nlink'[s] = 0
    BY <1>5 DEF ShrunkBy
  <2>6. QED
    BY <2>2, <2>4, <2>5
<1>6. \A s \in shrunk : s \in Slots /\ ~IsDir(s)
  BY DEF ShrunkBy
<1> DEFINE files == {s \in shrunk : IsFile(s)}
<1>7. files \in SUBSET LinkedFiles /\ shrunk \in SUBSET Slots
  BY <1>5, <1>6 DEF LinkedFiles
<1>8. LinkedFiles' = LinkedFiles \ files
  <2>1. \A s \in Slots : IsFile(s) => ~IsDir(s)
    BY DEF IsFile, IsDir
  <2>2. \A s \in Slots : IsFile(s)' <=> IsFile(s)
    BY <1>2 DEF IsFile
  <2>3. ASSUME NEW s \in Slots, IsFile(s)
        PROVE  nlink'[s] > 0 <=> nlink[s] > 0 /\ s \notin shrunk
    <3>1. ~IsDir(s)
      BY <2>1, <2>3
    <3>2. /\ nlink[s] \in Nat /\ nlink'[s] \in Nat
          /\ nlink'[s] > 0 => nlink[s] > 0
          /\ s \in shrunk <=> nlink[s] > 0 /\ nlink'[s] = 0
      BY <1>5, <3>1
    <3> HIDE DEF shrunk
    <3>3. QED
      BY <3>2
  <2> HIDE DEF shrunk
  <2>4. QED
    BY <1>2, <2>2, <2>3 DEF LinkedFiles
<1>9. Units(size, shrunk) = Units(size, files)
  <2>1. \A s \in shrunk \ files : size[s] = 0
    BY <1>6 DEF BytesInv
  <2>2. files \in SUBSET shrunk
    OBVIOUS
  <2> HIDE DEF files, shrunk
  <2>3. QED
    BY <2>1, <2>2, UnitsOfNothing
<1>10. IsFiniteSet(LinkedFiles) /\ \A s \in LinkedFiles : size[s] \in Nat
  BY <1>1, LinkedFilesFinite DEF LinkedFiles
<1> HIDE DEF files, shrunk
<1>11. Cardinality(Units(size, LinkedFiles \ files))
         = Cardinality(Units(size, LinkedFiles)) - Cardinality(Units(size, files))
  BY <1>7, <1>10, UnitsOfTheRest
<1>12. declared_bytes = Cardinality(Units(size, LinkedFiles))
  BY DEF BytesInv, DeclaredBytesExact, BytesOf, Units, LinkedFiles
<1>13. BytesOf(shrunk) = Cardinality(Units(size, files))
  BY <1>9 DEF BytesOf, Units
<1>14. declared_bytes' = Cardinality(Units(size', LinkedFiles'))
  BY <1>2, <1>8, <1>11, <1>12, <1>13
<1>15. DeclaredBytesExact'
  BY <1>14 DEF DeclaredBytesExact, BytesOf, Units, LinkedFiles
<1>16. \A s \in Slots' : ~IsFile(s)' => size'[s] = 0
  BY <1>2 DEF BytesInv, IsFile
<1>17. QED
  BY <1>15, <1>16 DEF BytesInv

\* The counter of declared bytes is right after any sequence of calls that
\* pass handles of linked nodes: each removal of a subtree, each further name
\* and each name of a file that lives on elsewhere.
THEOREM BytesAreCounted ==
  ASSUME ~StaleHandles
  PROVE  Spec => []DeclaredBytesExact
<1>1. Init => BytesInv
  <2> SUFFICES ASSUME Init PROVE BytesInv
    OBVIOUS
  <2>1. Slots = {1} /\ kind[1] = "Dir" /\ size[1] = 0 /\ declared_bytes = 0
    BY DEF Init, Slots
  <2>2. {s \in Slots : IsFile(s) /\ nlink[s] > 0} = {}
    BY <2>1 DEF IsFile
  <2>3. UNION {{s} \X (1 .. size[s]) : s \in {}} = {}
    OBVIOUS
  <2>4. BytesOf({}) = 0
    BY <2>3, FS_EmptySet DEF BytesOf
  <2>5. QED
    BY <2>1, <2>2, <2>4 DEF BytesInv, DeclaredBytesExact
<1>2. IInv /\ BytesInv /\ [Next]_vars => BytesInv'
  <2> SUFFICES ASSUME IInv, BytesInv, [Next]_vars PROVE BytesInv'
    OBVIOUS
  <2>1. ASSUME UNCHANGED <<kind, size, nlink, declared_bytes>> PROVE BytesInv'
    BY <2>1 DEF BytesInv, DeclaredBytesExact, BytesOf, Slots, IsFile
  <2>2. CASE UNCHANGED vars
    BY <2>1, <2>2 DEF vars
  <2>3. ASSUME NEW handle \in Slots, NEW m \in Metas, set_meta(handle, m) PROVE BytesInv'
    BY <2>1, <2>3 DEF set_meta
  <2>4. ASSUME NEW dir \in Slots, NEW name \in Names,
               \/ \E m \in Metas : mkdir(dir, name, m)
               \/ \E m \in Metas, bytes \in Sizes : file(dir, name, m, bytes)
               \/ \E m \in Metas, bytes \in Sizes : file_sparse(dir, name, m, bytes)
               \/ \E m \in Metas : symlink(dir, name, m)
               \/ \E m \in Metas : mknod(dir, name, m)
        PROVE  BytesInv'
    <3>1. \E k \in Kinds, m \in Metas, bytes \in Sizes \cup {0} :
            Declare(k, dir, name, m, bytes) /\ (k \notin {"File", "Sparse"} => bytes = 0)
      BY <2>4 DEF mkdir, file, file_sparse, symlink, mknod, Kinds
    <3>2. QED
      BY <3>1, DeclareCounts
  <2>5. ASSUME NEW dir \in Slots, NEW name \in Names, NEW target \in Slots,
               nlink[target] > 0, hardlink(dir, name, target)
        PROVE  BytesInv'
    <3>1. /\ UNCHANGED <<kind, size, declared_bytes>>
          /\ nlink' = [nlink EXCEPT ![target] = @ + 1]
      BY <2>5 DEF hardlink
    <3>2. \A s \in Slots : nlink[s] \in Nat /\ (nlink'[s] > 0 <=> nlink[s] > 0)
      BY <2>5, <3>1 DEF IInv, TableOK
    <3>3. LinkedFiles' = LinkedFiles
      BY <3>1, <3>2 DEF LinkedFiles, Slots, IsFile
    <3>4. DeclaredBytesExact'
      BY <3>1, <3>3 DEF BytesInv, DeclaredBytesExact, BytesOf, LinkedFiles
    <3>5. QED
      BY <3>1, <3>4 DEF BytesInv, Slots, IsFile
  <2>6. ASSUME NEW dir \in Slots, NEW name \in Names, remove(dir, name) PROVE BytesInv'
    BY <2>6, RemoveCounts
  <2>7. QED
    BY <2>2, <2>3, <2>4, <2>5, <2>6 DEF Next, Usable
<1>3. Spec => []BytesInv
  BY <1>1, <1>2, Invariance, PTL DEF Spec
<1>4. BytesInv => DeclaredBytesExact
  BY DEF BytesInv
<1>5. QED
  BY <1>3, <1>4, PTL

-----------------------------------------------------------------------------
(* SealedNames: inode numbers. *)

\* What the proofs use of the builder's invariant.
LEMMA RootFacts ==
  ASSUME IInv
  PROVE  /\ ROOT \in Slots /\ IsDir(ROOT)
         /\ Len(kind) \in Nat /\ Slots = 1 .. Len(kind) /\ IsFiniteSet(Slots)
         /\ \A s \in Slots : nlink[s] \in Nat
         /\ \A r \in LiveRefs : Target(r) # ROOT
<1>1. Len(kind) \in Nat /\ Slots = 1 .. Len(kind) /\ Slots # {}
  BY DEF IInv, TableOK, Slots
<1>2. ROOT \in Slots /\ IsDir(ROOT)
  BY <1>1 DEF IInv, TableOK, ROOT, IsDir
<1>3. IsFiniteSet(Slots)
  BY <1>1, FS_Interval
<1>4. \A s \in Slots : nlink[s] \in Nat
  BY DEF IInv, TableOK
<1>5. \A r \in LiveRefs : Target(r) # ROOT
  BY DEF IInv, NlinkIsRefCount, RefsTo
<1>6. QED
  BY <1>1, <1>2, <1>3, <1>4, <1>5

\* A node that some live entry leads to has links.
LEMMA NamedIsLinked ==
  ASSUME IInv, NEW r \in LiveRefs
  PROVE  nlink[Target(r)] > 0
<1>1. Target(r) \in Slots \ {ROOT}
  BY RootFacts, RefEnds DEF IInv
<1>2. r \in RefsTo(Target(r)) /\ IsFiniteSet(RefsTo(Target(r)))
  BY RefsFinite DEF IInv, RefsTo
<1>3. nlink[Target(r)] = Cardinality(RefsTo(Target(r)))
  BY <1>1 DEF IInv, NlinkIsRefCount
<1>4. QED
  BY <1>2, <1>3, NonEmptyIsPositive

Ranked == {s \in Reachable \ {ROOT} : nlink[s] > 0}

LEMMA SlotIno ==
  ASSUME IInv
  PROVE  /\ slot_ino \in [Slots -> Nat]
         /\ slot_ino[ROOT] = ROOT_INO
         /\ \A s \in Slots \ {ROOT} : slot_ino[s] # 0 <=> s \in Ranked
         /\ \A s \in Ranked \cap Slots : slot_ino[s] >= FIRST_DYN_INO
         /\ \A s, t \in Slots : slot_ino[s] = slot_ino[t] /\ slot_ino[s] # 0 => s = t
<1> DEFINE Lower(s) == {t \in Ranked \cap Slots : t < s}
<1>1. Ranked \subseteq Slots
  BY RefEnds DEF Ranked, Reachable, Subtree, Dirs, IInv
<1>2. slot_ino = [s \in Slots |-> IF s = ROOT THEN ROOT_INO
                                  ELSE IF s \notin Ranked THEN 0
                                  ELSE FIRST_DYN_INO + Cardinality(Lower(s))]
  <2>1. \A s \in Slots : {t \in Ranked : t < s} = Lower(s)
    BY <1>1
  <2>2. QED
    BY <2>1 DEF slot_ino, Ranked
<1>3. ASSUME NEW s \in Slots PROVE IsFiniteSet(Lower(s)) /\ Cardinality(Lower(s)) \in Nat
  <2>1. Lower(s) \in SUBSET Slots
    OBVIOUS
  <2>2. QED
    BY <2>1, RootFacts, FS_Subset, FS_CardinalityType
<1> DEFINE rank == [s \in Slots |-> Cardinality(Lower(s))]
<1>4. \A s \in Slots : rank[s] \in Nat
  BY <1>3
<1>5. ASSUME NEW s \in Ranked, NEW t \in Ranked, s < t PROVE rank[s] < rank[t]
  <2>1. s \in Slots /\ t \in Slots /\ Slots \subseteq Nat
    BY <1>1, RootFacts
  <2>2. Lower(s) \in SUBSET Lower(t) /\ s \in Lower(t) /\ s \notin Lower(s)
    <3>1. s \in Nat /\ t \in Nat /\ \A u \in Slots : u \in Nat
      BY <2>1
    <3>2. \A u \in Slots : u < s => u < t
      BY <1>5, <3>1
    <3>3. ~ (s < s)
      BY <3>1
    <3> QED BY <1>5, <2>1, <3>2, <3>3
  <2>3. IsFiniteSet(Lower(t)) /\ Cardinality(Lower(s)) \in Nat /\ Cardinality(Lower(t)) \in Nat
    BY <1>3, <2>1
  <2>4. /\ Cardinality(Lower(s)) <= Cardinality(Lower(t))
        /\ Cardinality(Lower(s)) # Cardinality(Lower(t))
    <3> HIDE DEF Lower
    <3> QED BY <2>2, <2>3, FS_Subset
  <2>5. QED
    BY <2>1, <2>3, <2>4
<1>6. /\ \A s \in Slots \ {ROOT} : s \notin Ranked => slot_ino[s] = 0
      /\ \A s \in Slots \ {ROOT} : s \in Ranked => slot_ino[s] = 12 + rank[s]
      /\ slot_ino[ROOT] = 2 /\ DOMAIN slot_ino = Slots
  BY <1>2, RootFacts DEF FIRST_DYN_INO, ROOT_INO
<1> HIDE DEF rank, Lower
<1>7. ROOT \notin Ranked
  BY DEF Ranked
<1>8. slot_ino \in [Slots -> Nat]
  <2>1. ASSUME NEW s \in Slots PROVE slot_ino[s] \in Nat
    BY <1>4, <1>6
  <2>2. slot_ino = [s \in Slots |-> slot_ino[s]]
    BY <1>2
  <2>3. QED
    BY <2>1, <2>2
<1>9. ASSUME NEW s \in Slots, NEW t \in Slots, slot_ino[s] = slot_ino[t], slot_ino[s] # 0
      PROVE  s = t
  <2>1. s \in Nat /\ t \in Nat /\ rank[s] \in Nat /\ rank[t] \in Nat
    BY <1>4, RootFacts
  <2>2. (s = ROOT \/ s \in Ranked) /\ (t = ROOT \/ t \in Ranked)
    BY <1>6, <1>9
  <2>3. CASE s = ROOT \/ t = ROOT
    BY <1>6, <1>7, <1>9, <2>1, <2>2, <2>3
  <2>4. CASE s \in Ranked /\ t \in Ranked
    <3>1. rank[s] = rank[t]
      BY <1>6, <1>7, <1>9, <2>1, <2>4
    <3>2. ~ (s < t) /\ ~ (t < s)
      BY <1>5, <2>1, <2>4, <3>1
    <3>3. QED
      BY <2>1, <3>2
  <2>5. QED
    BY <2>2, <2>3, <2>4
<1>10. QED
  BY <1>1, <1>4, <1>6, <1>7, <1>8, <1>9 DEF FIRST_DYN_INO, ROOT_INO
-----------------------------------------------------------------------------
(* What is in the image. *)

\* The directories with an inode are those below the root.
LEMMA ImageDirs ==
  ASSUME IInv
  PROVE  /\ NumberedDirs(slot_ino) = Subtree(ROOT)
         /\ Subtree(ROOT) \subseteq Slots
         /\ ROOT \in Subtree(ROOT)
<1>1. /\ Subtree(ROOT) \subseteq Dirs
      /\ ROOT \in Subtree(ROOT)
      /\ \A r \in SubdirRefs : r[1] \in Subtree(ROOT) => Target(r) \in Subtree(ROOT)
      /\ \A s \in Subtree(ROOT) \ {ROOT} :
           \E r \in SubdirRefs : r[1] \in Subtree(ROOT) /\ Target(r) = s
  BY RootFacts, SubtreeFacts DEF IInv
<1>2. Subtree(ROOT) \subseteq Reachable
  BY DEF Reachable
<1>3. ASSUME NEW s \in Subtree(ROOT) PROVE s \in NumberedDirs(slot_ino)
  <2>1. s \in Slots /\ IsDir(s)
    BY <1>1 DEF Dirs
  <2>2. CASE s = ROOT
    BY <2>1, <2>2, SlotIno DEF NumberedDirs, ROOT_INO
  <2>3. CASE s # ROOT
    <3>1. PICK r \in SubdirRefs : Target(r) = s
      BY <1>1, <2>3
    <3>2. nlink[s] > 0
      BY <3>1, NamedIsLinked DEF SubdirRefs
    <3>3. s \in Ranked
      BY <1>2, <2>3, <3>2 DEF Ranked
    <3>4. QED
      BY <2>1, <2>3, <3>3, SlotIno DEF NumberedDirs
  <2>4. QED
    BY <2>2, <2>3
<1>4. ASSUME NEW s \in NumberedDirs(slot_ino) PROVE s \in Subtree(ROOT)
  <2>1. s \in Slots /\ IsDir(s) /\ slot_ino[s] # 0
    BY DEF NumberedDirs
  <2>2. s = ROOT \/ s \in Reachable
    BY <2>1, SlotIno DEF Ranked
  <2>3. CASE s = ROOT
    BY <1>1, <2>3
  <2>4. CASE \E r \in LiveRefs : r[1] \in Subtree(ROOT) /\ Target(r) = s
    BY <1>1, <2>1, <2>4 DEF SubdirRefs
  <2>5. QED
    BY <2>2, <2>3, <2>4 DEF Reachable
<1>5. QED
  BY <1>1, <1>3, <1>4 DEF Dirs

\* Every live entry of a directory below the root has a numbered child.
LEMMA ListedTarget ==
  ASSUME IInv, NEW r \in LiveRefs, r[1] \in Subtree(ROOT)
  PROVE  Target(r) \in Slots \ {ROOT} /\ slot_ino[Target(r)] # 0
<1>1. Target(r) \in Slots \ {ROOT}
  BY RootFacts, RefEnds DEF IInv
<1>2. Target(r) \in Reachable
  BY DEF Reachable
<1>3. Target(r) \in Ranked
  BY <1>1, <1>2, NamedIsLinked DEF Ranked
<1>4. QED
  BY <1>1, <1>3, SlotIno

\* The dirent that seal() renders for a live entry, in its directory.
DirentOf(r) ==
  [pos |-> r[2], name |-> children[r[1]][r[2]].name, ino |-> slot_ino[Target(r)]]
LostFoundDirent == [pos |-> 0, name |-> LostFound, ino |-> LOST_FOUND_INO]

\* A directory of the image lists its live entries, and the root lost+found.
LEMMA DirentsAre ==
  ASSUME IInv, NEW d \in Subtree(ROOT), NEW e
  PROVE  e \in Dirents(slot_ino, d) <=>
           \/ \E r \in LiveRefs : r[1] = d /\ e = DirentOf(r)
           \/ d = ROOT /\ e = LostFoundDirent
<1> DEFINE Kept == {j \in DOMAIN children[d] :
                      ~children[d][j].dead /\ slot_ino[children[d][j].child] # 0}
           Dirent(i) == [pos |-> i, name |-> children[d][i].name,
                         ino |-> slot_ino[children[d][i].child]]
<1>1. d \in Slots
  BY ImageDirs
<1>2. ASSUME NEW i \in Kept PROVE <<d, i>> \in LiveRefs /\ Dirent(i) = DirentOf(<<d, i>>)
  BY <1>1, LiveRefMember DEF DirentOf, Target
<1>3. ASSUME NEW r \in LiveRefs, r[1] = d PROVE r[2] \in Kept /\ DirentOf(r) = Dirent(r[2])
  <2>1. r[2] \in DOMAIN children[d] /\ ~children[d][r[2]].dead
    BY <1>3, LiveRefMember
  <2>2. slot_ino[children[d][r[2]].child] # 0
    BY <1>3, ListedTarget DEF Target
  <2>3. QED
    BY <1>3, <2>1, <2>2 DEF DirentOf, Target
<1>4. e \in Dirents(slot_ino, d) <=>
        (\E i \in Kept : e = Dirent(i)) \/ (d = ROOT /\ e = LostFoundDirent)
  BY DEF Dirents, LostFoundDirent
<1> HIDE DEF Kept, Dirent
<1>5. (\E i \in Kept : e = Dirent(i)) <=> \E r \in LiveRefs : r[1] = d /\ e = DirentOf(r)
  <2>1. ASSUME NEW i \in Kept, e = Dirent(i)
        PROVE  \E r \in LiveRefs : r[1] = d /\ e = DirentOf(r)
    <3>1. <<d, i>>[1] = d
      OBVIOUS
    <3>2. QED
      BY <1>2, <2>1, <3>1
  <2>2. QED
    BY <1>3, <2>1
<1>6. QED
  BY <1>4, <1>5

-----------------------------------------------------------------------------
\* The filter of seal() on numbered children drops no declared name: also a
\* directory kept alive by a stale handle lists all of its entries, if it is
\* in the image at all.
THEOREM NamesAreListed == Spec => []EveryNameIsListed
<1>1. IInv => EveryNameIsListed
  <2> SUFFICES ASSUME IInv, NEW r \in LiveRefs, slot_ino[r[1]] # 0
               PROVE  slot_ino[Target(r)] # 0
    BY DEF EveryNameIsListed
  <2>1. r[1] \in NumberedDirs(slot_ino)
    BY RefEnds DEF IInv, NumberedDirs
  <2>2. QED
    BY <2>1, ImageDirs, ListedTarget
<1>2. QED
  BY <1>1, Invariance, PTL

\* No directory of an image lists a name twice, provided the caller leaves
\* the name of lost+found alone.
THEOREM NamesDiffer ==
  ASSUME LostFound \notin Names
  PROVE  Spec => []NamesAreUnique
<1>1. IInv => NamesAreUnique
  <2> SUFFICES ASSUME IInv, NEW d \in Subtree(ROOT),
                      NEW e \in Dirents(slot_ino, d), NEW f \in Dirents(slot_ino, d),
                      e.name = f.name
               PROVE  e = f
    BY ImageDirs DEF NamesAreUnique
  <2>1. ASSUME NEW r \in LiveRefs, r[1] = d
        PROVE  /\ DirentOf(r).name \in Names
               /\ DirentOf(r).name \in DOMAIN index[d]
               /\ index[d][DirentOf(r).name] = r[2]
    <3>1. /\ d \in Slots /\ r[2] \in DOMAIN children[d] /\ r = <<d, r[2]>>
          /\ DirentOf(r).name = children[d][r[2]].name
      BY <2>1, LiveRefMember DEF DirentOf
    <3>2. /\ children[d] \in Seq(Entry) /\ Len(children[d]) <= MaxEntries
          /\ MaxEntries \in Nat
      BY <3>1, NamespaceAssumption DEF IInv, TableOK
    <3>3. children[d][r[2]] \in Entry /\ r[2] \in 1 .. MaxEntries
      BY <3>1, <3>2
    <3>4. DirentOf(r).name \in Names
      BY <3>1, <3>3 DEF Entry
    <3>5. QED
      BY <3>1, <3>3, <3>4 DEF IInv, IndexMatches
  <2>2. LostFoundDirent.name = LostFound
    BY DEF LostFoundDirent
  <2>3. CASE e = LostFoundDirent
    BY <2>1, <2>2, <2>3, DirentsAre
  <2>4. CASE f = LostFoundDirent
    BY <2>1, <2>2, <2>4, DirentsAre
  <2>5. CASE e # LostFoundDirent /\ f # LostFoundDirent
    <3>1. PICK q \in LiveRefs : q[1] = d /\ e = DirentOf(q)
      BY <2>5, DirentsAre
    <3>2. PICK r \in LiveRefs : r[1] = d /\ f = DirentOf(r)
      BY <2>5, DirentsAre
    <3>3. q[2] = r[2] /\ q = <<d, q[2]>> /\ r = <<d, r[2]>>
      BY <2>1, <3>1, <3>2, LiveRefMember
    <3>4. QED
      BY <3>1, <3>2, <3>3
  <2>6. QED
    BY <2>3, <2>4, <2>5
<1>2. QED
  BY <1>1, Invariance, PTL

-----------------------------------------------------------------------------
(* ".." and link counts. *)

\* The names that lead to a slot of the image are the live entries that point
\* at it from a directory of the image.
LEMMA ListedAs ==
  ASSUME IInv, NEW s \in Slots, slot_ino[s] # 0, NEW n
  PROVE  n \in NamesOf(Listings(slot_ino), slot_ino, s) <=>
           \E r \in RefsTo(s) : r[1] \in Subtree(ROOT) /\ n = <<r[1], DirentOf(r)>>
<1>1. slot_ino[s] # LOST_FOUND_INO
  BY SlotIno DEF LOST_FOUND_INO, FIRST_DYN_INO, ROOT_INO
<1>2. ASSUME n \in NamesOf(Listings(slot_ino), slot_ino, s)
      PROVE  \E r \in RefsTo(s) : r[1] \in Subtree(ROOT) /\ n = <<r[1], DirentOf(r)>>
  <2>0. PICK d \in Subtree(ROOT) : \E e \in Dirents(slot_ino, d) : n = <<d, e>>
    BY <1>2, ImageDirs DEF NamesOf, Listings
  <2>1. PICK e \in Dirents(slot_ino, d) : n = <<d, e>>
    BY <2>0
  <2>2. e.ino = slot_ino[s]
    BY <1>2, <2>1 DEF NamesOf
  <2>3. e # LostFoundDirent
    BY <1>1, <2>2 DEF LostFoundDirent
  <2>4. PICK r \in LiveRefs : r[1] = d /\ e = DirentOf(r)
    BY <2>3, DirentsAre
  <2>5. slot_ino[Target(r)] = slot_ino[s] /\ Target(r) \in Slots
    BY <2>2, <2>4, RefEnds DEF DirentOf, IInv
  <2>6. Target(r) = s
    BY <2>5, SlotIno
  <2>7. QED
    BY <2>1, <2>4, <2>6 DEF RefsTo
<1>3. ASSUME NEW r \in RefsTo(s), r[1] \in Subtree(ROOT), n = <<r[1], DirentOf(r)>>
      PROVE  n \in NamesOf(Listings(slot_ino), slot_ino, s)
  <2>1. r \in LiveRefs /\ Target(r) = s
    BY DEF RefsTo
  <2>2. DirentOf(r) \in Dirents(slot_ino, r[1])
    BY <1>3, <2>1, DirentsAre
  <2>3. n \in Listings(slot_ino)
    BY <1>3, <2>2, ImageDirs DEF Listings
  <2>4. n[2].ino = slot_ino[s]
    BY <1>3, <2>1 DEF DirentOf
  <2>5. QED
    BY <2>3, <2>4 DEF NamesOf
<1>4. QED
  BY <1>2, <1>3

\* A directory below the root has one name, in the directory that its ".."
\* leads to.
LEMMA ParentOf ==
  ASSUME IInv, NEW s \in Subtree(ROOT), s # ROOT
  PROVE  \E r \in LiveRefs :
           /\ RefsTo(s) = {r} /\ Target(r) = s
           /\ r[1] \in Subtree(ROOT)
           /\ parent_ino(slot_ino, s) = slot_ino[r[1]]
<1>1. PICK r \in SubdirRefs : r[1] \in Subtree(ROOT) /\ Target(r) = s
  BY RootFacts, SubtreeFacts DEF IInv
<1>2. r \in LiveRefs /\ IsDir(Target(r))
  BY DEF SubdirRefs
<1>3. RefsTo(s) = {r}
  BY <1>1, <1>2 DEF IInv, DirsFormForest
<1>4. {q[1] : q \in RefsTo(s)} \cap NumberedDirs(slot_ino) = {r[1]}
  BY <1>1, <1>3, ImageDirs
<1>5. r[1] \in Nat
  BY <1>1, ImageDirs, RootFacts
<1>6. (CHOOSE p \in {r[1]} : \A q \in {r[1]} : q <= p) = r[1]
  BY <1>5
<1>7. parent_ino(slot_ino, s) = slot_ino[r[1]]
  BY <1>4, <1>6 DEF parent_ino
<1>8. QED
  BY <1>1, <1>2, <1>3, <1>7

\* Each directory of an image is listed by the directory its ".." leads to,
\* and by no other.
THEOREM DotDotLeadsBack == Spec => []DotDotIsInverse
<1>1. IInv => DotDotIsInverse
  <2> SUFFICES ASSUME IInv, NEW s \in Subtree(ROOT), s # ROOT
               PROVE  \E d \in Subtree(ROOT) :
                        /\ parent_ino(slot_ino, s) = slot_ino[d]
                        /\ {n[1] : n \in NamesOf(Listings(slot_ino), slot_ino, s)} = {d}
    BY ImageDirs DEF DotDotIsInverse
  <2>1. PICK r \in LiveRefs :
          /\ RefsTo(s) = {r} /\ Target(r) = s
          /\ r[1] \in Subtree(ROOT)
          /\ parent_ino(slot_ino, s) = slot_ino[r[1]]
    BY ParentOf
  <2>2. s \in Slots /\ slot_ino[s] # 0
    BY ImageDirs DEF NumberedDirs
  <2>3. NamesOf(Listings(slot_ino), slot_ino, s) = {<<r[1], DirentOf(r)>>}
    BY <2>1, <2>2, ListedAs
  <2>4. {n[1] : n \in {<<r[1], DirentOf(r)>>}} = {r[1]}
    OBVIOUS
  <2>5. QED
    BY <2>1, <2>3, <2>4
<1>2. QED
  BY <1>1, Invariance, PTL

\* Where no linked name hangs off a removed directory, every linked directory
\* is below the root: the oldest one that is not would have an older parent.
LEMMA LinkedBelowRoot ==
  ASSUME IInv, LinkedFromLinked, NEW s \in Slots, IsDir(s), nlink[s] > 0
  PROVE  s \in Subtree(ROOT)
<1> DEFINE Lost == {t \in Slots : IsDir(t) /\ nlink[t] > 0 /\ t \notin Subtree(ROOT)}
<1>1. SUFFICES ASSUME s \notin Subtree(ROOT) PROVE FALSE
  OBVIOUS
<1>2. Lost \in SUBSET Nat /\ s \in Lost
  BY <1>1, RootFacts
<1>3. PICK m \in Lost : \A t \in Lost : m <= t
  <2> HIDE DEF Lost
  <2> QED BY <1>2, LeastNatural
<1>4. m \in Slots /\ m # ROOT
  BY <1>3, ImageDirs
<1>5. nlink[m] = Cardinality(RefsTo(m)) /\ RefsTo(m) # {}
  <2>1. nlink[m] = Cardinality(RefsTo(m)) /\ nlink[m] > 0
    BY <1>3, <1>4 DEF IInv, NlinkIsRefCount
  <2>2. QED
    BY <2>1, FS_EmptySet
<1>6. PICK r \in LiveRefs : Target(r) = m
  BY <1>5 DEF RefsTo
<1>7. r[1] < m /\ r[1] \in Slots /\ IsDir(r[1]) /\ nlink[r[1]] > 0
  BY <1>3, <1>6, RefEnds DEF IInv, DirsFormForest, LinkedFromLinked
<1>8. r[1] \in Subtree(ROOT)
  <2>1. r[1] \notin Lost
    <3>1. r[1] \in Nat /\ m \in Nat
      BY <1>2, <1>7, RootFacts
    <3>2. ~ (m <= r[1])
      BY <1>7, <3>1
    <3>3. QED
      BY <1>3, <3>2
  <2>2. QED
    BY <1>7, <2>1
<1>9. r \in SubdirRefs
  BY <1>3, <1>6 DEF SubdirRefs
<1>10. m \in Subtree(ROOT)
  BY <1>6, <1>8, <1>9, RootFacts, SubtreeFacts DEF IInv
<1>11. QED
  BY <1>3, <1>10

\* A node that is not a directory: as many dirents as links.
LEMMA NamesOfFile ==
  ASSUME IInv, LinkedFromLinked, NEW s \in Slots, slot_ino[s] # 0, ~IsDir(s)
  PROVE  Cardinality(NamesOf(Listings(slot_ino), slot_ino, s)) = nlink[s]
<1> DEFINE Listed == NamesOf(Listings(slot_ino), slot_ino, s)
           f == [r \in RefsTo(s) |-> <<r[1], DirentOf(r)>>]
<1>1. \A r \in RefsTo(s) : r[1] \in Subtree(ROOT)
  BY RefEnds, LinkedBelowRoot DEF RefsTo, LinkedFromLinked, IInv
<1>2. f \in [RefsTo(s) -> Listed]
  BY <1>1, ListedAs
<1>3. ASSUME NEW q \in RefsTo(s), NEW r \in RefsTo(s), f[q] = f[r] PROVE q = r
  <2>1. q[1] = r[1] /\ DirentOf(q) = DirentOf(r)
    BY <1>3
  <2>2. q[2] = r[2]
    BY <2>1 DEF DirentOf
  <2>3. QED
    BY <2>1, <2>2, LiveRefMember DEF RefsTo
<1>4. \A n \in Listed : \E r \in RefsTo(s) : f[r] = n
  BY ListedAs
<1>5. IsFiniteSet(RefsTo(s)) /\ nlink[s] = Cardinality(RefsTo(s))
  <2>1. s # ROOT
    BY RootFacts
  <2>2. QED
    BY <2>1, RefsFinite DEF IInv, NlinkIsRefCount, RefsTo
<1> HIDE DEF f, Listed
<1>6. Cardinality(Listed) = Cardinality(RefsTo(s))
  BY <1>2, <1>3, <1>4, <1>5, SameSize
<1>7. QED
  BY <1>5, <1>6 DEF Listed

SubdirEntries(d) ==
  {i \in DOMAIN children[d] : /\ ~children[d][i].dead
                              /\ slot_ino[children[d][i].child] # 0
                              /\ IsDir(children[d][i].child)}

\* The directories whose ".." leads to d are those it has entries for, and
\* the root itself.
LEMMA DotDotsCounted ==
  ASSUME IInv, NEW d \in Subtree(ROOT)
  PROVE  /\ subdirs(slot_ino, d) \in Nat
         /\ DotDotsOf(slot_ino, d) = subdirs(slot_ino, d) + IF d = ROOT THEN 2 ELSE 0
<1> DEFINE Inside == {s \in Subtree(ROOT) \ {ROOT} : parent_ino(slot_ino, s) = slot_ino[d]}
           DotDots == {s \in NumberedDirs(slot_ino) : parent_ino(slot_ino, s) = slot_ino[d]}
           f == [i \in SubdirEntries(d) |-> Target(<<d, i>>)]
<1>1. d \in Slots /\ slot_ino[d] # 0
  BY ImageDirs DEF NumberedDirs
<1>2. ASSUME NEW i \in SubdirEntries(d)
      PROVE  <<d, i>> \in SubdirRefs /\ f[i] = Target(<<d, i>>)
  BY <1>1, LiveRefMember DEF SubdirRefs, SubdirEntries, Target
<1>3. ASSUME NEW i \in SubdirEntries(d) PROVE f[i] \in Inside
  <2>1. Target(<<d, i>>) \in Subtree(ROOT) /\ Target(<<d, i>>) # ROOT
    BY <1>2, RootFacts, SubtreeFacts DEF IInv, SubdirRefs
  <2>2. PICK r \in LiveRefs :
          /\ RefsTo(Target(<<d, i>>)) = {r}
          /\ parent_ino(slot_ino, Target(<<d, i>>)) = slot_ino[r[1]]
    BY <2>1, ParentOf
  <2>3. r = <<d, i>>
    BY <1>2, <2>2 DEF SubdirRefs, RefsTo
  <2>4. QED
    BY <1>2, <2>1, <2>2, <2>3
<1>4. ASSUME NEW i \in SubdirEntries(d), NEW j \in SubdirEntries(d), f[i] = f[j] PROVE i = j
  <2>1. <<d, i>> \in LiveRefs /\ <<d, j>> \in RefsTo(Target(<<d, i>>)) /\ IsDir(Target(<<d, i>>))
    BY <1>2, <1>4 DEF SubdirRefs, RefsTo
  <2>2. <<d, j>> = <<d, i>>
    BY <2>1 DEF IInv, DirsFormForest
  <2>3. QED
    BY <2>2
<1>5. ASSUME NEW s \in Inside PROVE \E i \in SubdirEntries(d) : f[i] = s
  <2>1. PICK r \in LiveRefs :
          /\ Target(r) = s
          /\ r[1] \in Subtree(ROOT)
          /\ parent_ino(slot_ino, s) = slot_ino[r[1]]
    BY ParentOf
  <2>2. r[1] = d
    BY <1>1, <2>1, ImageDirs, SlotIno
  <2>3. r = <<d, r[2]>> /\ r[2] \in DOMAIN children[d] /\ ~children[d][r[2]].dead
    BY <2>1, <2>2, LiveRefMember
  <2>4. IsDir(s) /\ slot_ino[s] # 0
    BY ImageDirs DEF NumberedDirs
  <2>5. r[2] \in SubdirEntries(d)
    BY <2>1, <2>2, <2>3, <2>4 DEF SubdirEntries, Target
  <2>6. QED
    BY <2>1, <2>3, <2>5
<1>6. f \in [SubdirEntries(d) -> Inside]
  BY <1>3
<1>7. IsFiniteSet(SubdirEntries(d))
  <2>1. IsFiniteSet(1 .. Len(children[d])) /\ DOMAIN children[d] = 1 .. Len(children[d])
    <3>1. children[d] \in Seq(Entry)
      BY <1>1 DEF IInv, TableOK
    <3>2. Len(children[d]) \in Nat /\ DOMAIN children[d] = 1 .. Len(children[d])
      BY <3>1
    <3>3. PICK n \in Nat : n = Len(children[d])
      BY <3>2
    <3>4. IsFiniteSet(1 .. n)
      BY UpTo
    <3>5. QED
      BY <3>2, <3>3, <3>4
  <2>2. SubdirEntries(d) \in SUBSET DOMAIN children[d]
    BY DEF SubdirEntries
  <2>3. QED
    BY <2>1, <2>2, FS_Subset
<1> HIDE DEF f, Inside
<1>8. IsFiniteSet(Inside) /\ Cardinality(Inside) = Cardinality(SubdirEntries(d))
  BY <1>4, <1>5, <1>6, <1>7, SameSize
<1>9. subdirs(slot_ino, d) = Cardinality(Inside) /\ Cardinality(Inside) \in Nat
  BY <1>8, FS_CardinalityType DEF subdirs, SubdirEntries
<1>10. parent_ino(slot_ino, ROOT) = slot_ino[ROOT]
  BY SlotIno DEF parent_ino
<1>11. CASE d = ROOT
  <2>1. DotDots = Inside \cup {ROOT} /\ ROOT \notin Inside
    BY <1>10, <1>11, ImageDirs DEF Inside
  <2>2. Cardinality(DotDots) = Cardinality(Inside) + 1
    BY <1>8, <2>1, FS_AddElement
  <2>3. QED
    BY <1>9, <1>11, <2>2 DEF DotDotsOf
<1>12. CASE d # ROOT
  <2>1. slot_ino[ROOT] # slot_ino[d]
    BY <1>1, <1>12, RootFacts, SlotIno
  <2>2. DotDots = Inside
    BY <1>10, <2>1, ImageDirs DEF Inside
  <2>3. QED
    BY <1>9, <1>12, <2>2 DEF DotDotsOf
<1>13. QED
  BY <1>11, <1>12

\* The link count e2fsck computes is the one the image has, for every inode
\* of every image sealed by a caller that passes handles of linked nodes.
THEOREM LinkCountsAgree ==
  ASSUME ~StaleHandles
  PROVE  Spec => []LinkCountsMatch
<1>1. IInv /\ LinkedFromLinked => LinkCountsMatch
  <2> SUFFICES ASSUME IInv, LinkedFromLinked, NEW s \in Slots, slot_ino[s] # 0
               PROVE  LET names == Cardinality(NamesOf(Listings(slot_ino), slot_ino, s))
                      IN links_count(slot_ino, s) =
                           IF IsDir(s) THEN Overflowed(names + 1 + DotDotsOf(slot_ino, s))
                           ELSE names
    BY DEF LinkCountsMatch, Numbered
  <2>1. CASE ~IsDir(s)
    BY <2>1, NamesOfFile DEF links_count
  <2>2. CASE IsDir(s)
    <3>1. s \in Subtree(ROOT)
      BY <2>2, ImageDirs DEF NumberedDirs
    <3>2. /\ subdirs(slot_ino, s) \in Nat
          /\ DotDotsOf(slot_ino, s) = subdirs(slot_ino, s) + IF s = ROOT THEN 2 ELSE 0
      BY <3>1, DotDotsCounted
    <3>3. CASE s = ROOT
      <4>1. NamesOf(Listings(slot_ino), slot_ino, s) = {}
        BY <3>3, ListedAs DEF IInv, NlinkIsRefCount
      <4>2. Cardinality(NamesOf(Listings(slot_ino), slot_ino, s)) = 0
        BY <4>1, FS_EmptySet
      <4>3. 0 + 1 + DotDotsOf(slot_ino, s) = 2 + subdirs(slot_ino, s) + 1
        BY <3>2, <3>3
      <4>4. QED
        BY <2>2, <3>3, <4>2, <4>3 DEF links_count
    <3>4. CASE s # ROOT
      <4>1. PICK r \in LiveRefs : RefsTo(s) = {r} /\ r[1] \in Subtree(ROOT)
        BY <3>1, <3>4, ParentOf
      <4>2. NamesOf(Listings(slot_ino), slot_ino, s) = {<<r[1], DirentOf(r)>>}
        BY <4>1, ListedAs
      <4>3. Cardinality(NamesOf(Listings(slot_ino), slot_ino, s)) = 1
        BY <4>2, FS_Singleton
      <4>4. 1 + 1 + DotDotsOf(slot_ino, s) = 2 + subdirs(slot_ino, s) + 0
        BY <3>2, <3>4
      <4>5. QED
        BY <2>2, <3>4, <4>3, <4>4 DEF links_count
    <3>5. QED
      BY <3>3, <3>4
  <2>3. QED
    BY <2>1, <2>2
<1>2. Spec => [](IInv /\ LinkedFromLinked)
  BY Invariance, RemovalIsComplete, PTL
<1>3. QED
  BY <1>1, <1>2, PTL
==============================================================================
