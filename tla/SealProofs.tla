----------------------------- MODULE SealProofs ------------------------------
(***************************************************************************)
(* Proofs about Seal: no block of the image is put to two uses.            *)
(*                                                                         *)
(* The flex spans cannot run into each other, because a span skips at most *)
(* one table length per table, and what the second allocator hands out is  *)
(* free of all that is reserved and ahead of all it has handed out.  From  *)
(* that follow the layout handed to the writer, the accounts and the       *)
(* bitmap: sets of blocks that are apart, counted.                         *)
(***************************************************************************)
EXTENDS Seal, BasicFacts
-----------------------------------------------------------------------------
(* Geometry. *)

LEMMA Parameters ==
  ASSUME input \in Inputs
  PROVE  /\ GroupBlocks \in Nat \ {0} /\ GroupsPerFlex \in Nat \ {0} /\ GdtBlocks \in Nat \ {0}
         /\ MaxExtent \in Nat \ {0} /\ LostFoundBlocks \in Nat \ {0} /\ PerLeaf \in Nat \ {0}
         /\ input.blocks \in Nat \ {0} /\ input.itable \in Nat \ {0} /\ input.journal \in Nat \ {0}
         /\ input.inodes \in Seq(Inode)
         /\ 3 + GdtBlocks + 2 * input.itable < GroupBlocks
BY SealAssumption DEF Input

LEMMA GroupStarts ==
  ASSUME input \in Inputs, NEW g \in Nat
  PROVE  /\ group_start(g) \in Nat
         /\ group_start(g + 1) = group_start(g) + GroupBlocks
         /\ \A h \in Nat : g < h => group_start(g) + GroupBlocks <= group_start(h)
         /\ \A h \in Nat : g <= h => group_start(g) <= group_start(h)
<1>1. GroupBlocks \in Nat \ {0}
  BY Parameters
<1>2. g * GroupBlocks \in Nat /\ (g + 1) * GroupBlocks = g * GroupBlocks + GroupBlocks
  BY <1>1
<1>3. \A h \in Nat : g <= h => g * GroupBlocks <= h * GroupBlocks
  BY <1>1, TimesKeepsOrder
<1>4. \A h \in Nat : g + 1 <= h => (g + 1) * GroupBlocks <= h * GroupBlocks
  BY <1>1, TimesKeepsOrder
<1>5. QED
  BY <1>2, <1>3, <1>4 DEF group_start

LEMMA StartType ==
  ASSUME input \in Inputs, NEW g \in Nat
  PROVE  group_start(g) \in Nat
BY GroupStarts

\* The image ends in its last group.
LEMMA GroupsHoldImage ==
  ASSUME input \in Inputs
  PROVE  groups \in Nat \ {0} /\ input.blocks <= group_start(groups)
<1>1. GroupBlocks \in Nat \ {0} /\ input.blocks \in Nat \ {0}
  BY Parameters
<1>2. PICK u \in Nat : u = input.blocks + GroupBlocks - 1
  BY <1>1
<1>3. PICK d \in Nat, m \in 0 .. GroupBlocks - 1 : d = u \div GroupBlocks /\ u = GroupBlocks * d + m
  BY <1>1, QuotientAndRest
<1>4. groups = d
  BY <1>2, <1>3 DEF groups, CeilDiv
<1>5. GroupBlocks * d = d * GroupBlocks /\ d * GroupBlocks \in Nat
  BY <1>1
<1>6. input.blocks <= d * GroupBlocks
  BY <1>1, <1>2, <1>3, <1>5
<1>7. d # 0
  BY <1>1, <1>6
<1>8. QED
  BY <1>4, <1>6, <1>7 DEF group_start

LEMMA SuperShape ==
  ASSUME input \in Inputs, NEW r \in SuperRuns
  PROVE  \E g \in Nat : /\ r.start = group_start(g) /\ r.len = 1 + GdtBlocks
                        /\ r = [start |-> group_start(g), len |-> 1 + GdtBlocks]
                        /\ BlocksOf(r) = group_start(g) .. group_start(g) + GdtBlocks
<1>1. PICK g \in {0} \cup backup_groups : r = [start |-> group_start(g), len |-> 1 + GdtBlocks]
  BY DEF SuperRuns
<1>2. g \in Nat
  BY GroupsHoldImage DEF backup_groups
<1>3. group_start(g) \in Nat /\ GdtBlocks \in Nat
  BY <1>2, GroupStarts, Parameters
<1>4. QED
  BY <1>1, <1>2, <1>3 DEF BlocksOf, RunEnd

LEMMA SupersApart ==
  ASSUME input \in Inputs, NEW q \in SuperRuns, NEW r \in SuperRuns, q # r
  PROVE  BlocksOf(q) \cap BlocksOf(r) = {} /\ q.start # r.start
<1>1. PICK g \in Nat : /\ q = [start |-> group_start(g), len |-> 1 + GdtBlocks]
                       /\ BlocksOf(q) = group_start(g) .. group_start(g) + GdtBlocks
  BY SuperShape
<1>2. PICK h \in Nat : /\ r = [start |-> group_start(h), len |-> 1 + GdtBlocks]
                       /\ BlocksOf(r) = group_start(h) .. group_start(h) + GdtBlocks
  BY SuperShape
<1>3. group_start(g) # group_start(h) /\ g # h
  BY <1>1, <1>2
<1>4. g < h \/ h < g
  BY <1>3
<1>5. group_start(g) + GroupBlocks <= group_start(h) \/ group_start(h) + GroupBlocks <= group_start(g)
  BY <1>4, GroupStarts
<1>6. /\ group_start(g) \in Nat /\ group_start(h) \in Nat /\ GroupBlocks \in Nat
      /\ GdtBlocks \in Nat /\ GdtBlocks < GroupBlocks
  <2>1. 3 + GdtBlocks + 2 * input.itable < GroupBlocks /\ input.itable \in Nat /\ GdtBlocks \in Nat /\ GroupBlocks \in Nat
    BY Parameters
  <2>2. GdtBlocks < GroupBlocks
    BY <2>1
  <2>3. QED
    BY <2>1, <2>2, StartType, Zenon
<1>7. QED
  BY <1>1, <1>2, <1>3, <1>5, <1>6

\* Behind the copy a group may start with, none of its blocks belong to one.
LEMMA GroupBodyIsFree ==
  ASSUME input \in Inputs, NEW g \in Nat, NEW b \in Nat,
         group_start(g) + GdtBlocks < b, b < group_start(g + 1), NEW r \in SuperRuns
  PROVE  b \notin BlocksOf(r)
<1>1. PICK h \in Nat : BlocksOf(r) = group_start(h) .. group_start(h) + GdtBlocks
  BY SuperShape
<1>2. /\ group_start(g) \in Nat /\ group_start(h) \in Nat /\ group_start(g + 1) \in Nat
      /\ GdtBlocks \in Nat
  <2>1. g + 1 \in Nat
    OBVIOUS
  <2>2. GdtBlocks \in Nat
    BY Parameters
  <2>3. QED
    BY <2>1, <2>2, StartType, Zenon
<1>3. h <= g => group_start(h) <= group_start(g)
  BY GroupStarts
<1>4. g < h => group_start(g + 1) <= group_start(h)
  BY GroupStarts
<1>5. QED
  BY <1>1, <1>2, <1>3, <1>4

LEMMA FreeType ==
  ASSUME input \in Inputs, NEW a \in Nat, NEW R
  PROVE  /\ FreeFrom(a, R) \in SUBSET Nat /\ IsFiniteSet(FreeFrom(a, R))
         /\ \A b : b \in FreeFrom(a, R) <=>
                     b \in Nat /\ a <= b /\ b < input.blocks /\ \A r \in R : b \notin BlocksOf(r)
<1>1. input.blocks \in Nat
  BY Parameters
<1>2. FreeFrom(a, R) \in SUBSET (a .. input.blocks - 1) /\ FreeFrom(a, R) \in SUBSET Nat
  BY <1>1 DEF FreeFrom
<1>3. IsFiniteSet(a .. input.blocks - 1)
  BY <1>1, FS_Interval
<1>4. IsFiniteSet(FreeFrom(a, R))
  BY <1>2, <1>3, FS_Subset
<1>5. \A b : b \in a .. input.blocks - 1 <=> b \in Nat /\ a <= b /\ b < input.blocks
  BY <1>1
<1>6. QED
  BY <1>2, <1>4, <1>5 DEF FreeFrom
-----------------------------------------------------------------------------
(* The inductive invariant. *)

\* Flex metadata.  Of the groups that have bitmaps, the first Tables have an
\* inode table too.
Open == pc = "itables"
Finished == IF leader <= groups THEN leader ELSE groups
Tables == IF Open THEN leader + slot - 1 ELSE Len(group_meta)
TableBlocks(g) == IF g <= Tables THEN group_meta[g].it .. group_meta[g].it + input.itable - 1 ELSE {}
MetaBlocks(g) == {group_meta[g].bb, group_meta[g].ib} \cup TableBlocks(g)
Flexed == UNION {BlocksOf(flex_runs[i]) : i \in DOMAIN flex_runs}
OpenBlocks == IF Open THEN group_meta[leader + 1].bb .. cursor - 1 ELSE {}

GroupMeta == [bb : Nat, ib : Nat, it : Nat]
SpanShape ==
  /\ group_meta \in Seq(GroupMeta)
  /\ Len(group_meta) = IF Open THEN leader + Members ELSE Finished
  /\ flex_runs \in Seq(Run)
  /\ Open => leader < groups /\ slot \in 1 .. Members

\* No metadata block has two uses or is part of a superblock copy.
MetaApart ==
  /\ \A g \in DOMAIN group_meta :
       /\ group_meta[g].bb # group_meta[g].ib
       /\ {group_meta[g].bb, group_meta[g].ib} \cap TableBlocks(g) = {}
       /\ MetaBlocks(g) \subseteq FreeFrom(0, SuperRuns)
  /\ \A g, h \in DOMAIN group_meta : g # h => MetaBlocks(g) \cap MetaBlocks(h) = {}

\* It is in the run of its span, the open one's or that kept of a finished
\* one, and a finished one ends before the next leader group.
MetaCovered ==
  /\ \A g \in DOMAIN group_meta : MetaBlocks(g) \subseteq Flexed \cup OpenBlocks
  /\ \A b \in Flexed : b < group_start(leader)
  /\ \A b \in OpenBlocks : group_start(leader) <= b

\* The open span has taken no more than two blocks per group and twice the
\* length of a table per table.
SpanIsShort ==
  Open =>
    /\ cursor <= input.blocks
    /\ group_meta[leader + 1].bb < cursor
    /\ Cardinality({b \in SpanRoom : b < cursor}) <= 2 * Members + 2 * input.itable * (slot - 1)

SpanInv == SpanShape /\ MetaApart /\ MetaCovered /\ SpanIsShort

\* What the second allocator has given out.
Out == <<journal_runs, lf_runs, dir_runs, data_runs, segments>>
Given(runs) == UNION {BlocksOf(runs[i]) : i \in DOMAIN runs}
RunsApart(runs) ==
  \A i, j \in DOMAIN runs : i # j => BlocksOf(runs[i]) \cap BlocksOf(runs[j]) = {}
OutIn(lists, room) ==
  /\ \A k \in 1 .. 5 : lists[k] \in Seq(Run) /\ RunsApart(lists[k]) /\ Given(lists[k]) \subseteq room
  /\ \A k, l \in 1 .. 5 : k # l => Given(lists[k]) \cap Given(lists[l]) = {}

PassedRoom == {b \in FreeFrom(0, AllReserved) : b < cursor}
Early == {"geometry", "bitmaps", "itables"}
OutInv ==
  /\ pc \in Early \cup {"journal"} => \A k \in 1 .. 5 : Out[k] = <<>>
  /\ pc = "lost_found" => lf_runs = <<>>
  /\ pc \notin Early => OutIn(Out, PassedRoom)

\* The last two are those of SealedVolume.
Phases == {"geometry", "bitmaps", "itables", "journal", "lost_found", "metadata", "data", "sealed",
           "written", "torn"}
IInv ==
  /\ input \in Inputs
  /\ pc \in Phases \cup {"refused"}
  /\ span \in Nat /\ slot \in Nat /\ cursor \in Nat
  /\ pc # "refused" => SpanInv /\ OutInv

-----------------------------------------------------------------------------
(* Flex spans. *)

LEMMA SpanNumbers ==
  ASSUME input \in Inputs, span \in Nat
  PROVE  /\ leader \in Nat /\ (span + 1) * GroupsPerFlex = leader + GroupsPerFlex
         /\ leader < groups =>
              /\ Members \in 1 .. GroupsPerFlex /\ leader + Members <= groups
              /\ Members = GroupsPerFlex \/ leader + Members = groups
<1>1. GroupsPerFlex \in Nat \ {0} /\ groups \in Nat
  BY Parameters, GroupsHoldImage
<1>2. PICK n \in Nat : n = span * GroupsPerFlex /\ (span + 1) * GroupsPerFlex = n + GroupsPerFlex
  BY <1>1
<1>3. leader = n
  BY <1>2 DEF leader
<1>4. n < groups =>
        /\ Members \in 1 .. GroupsPerFlex /\ n + Members <= groups
        /\ Members = GroupsPerFlex \/ n + Members = groups
  BY <1>1, <1>3 DEF Members, Least
<1>5. QED
  BY <1>2, <1>3, <1>4, Zenon

\* What one block of each group left over outweighs.
LEMMA RoomOfSpan ==
  ASSUME NEW n \in Nat \ {0}, NEW w \in Nat, NEW t \in Nat, 2 + 2 * t < w
  PROVE  2 * n + 2 * t * n < n * w
<1>1. 3 + 2 * t <= w
  OBVIOUS
<1>2. (3 + 2 * t) * n <= w * n
  BY <1>1, TimesKeepsOrder
<1>3. (3 + 2 * t) * n = 3 * n + 2 * t * n /\ w * n = n * w
  OBVIOUS
<1>4. 2 * t * n \in Nat /\ 3 * n = 2 * n + n
  OBVIOUS
<1>5. QED
  BY <1>2, <1>3, <1>4

LEMMA SizeOfGrid ==
  ASSUME NEW n \in Nat, NEW w \in Nat
  PROVE  /\ IsFiniteSet((1 .. n) \X (1 .. w))
         /\ Cardinality((1 .. n) \X (1 .. w)) = n * w
<1> DEFINE A == 1 .. n
           B == 1 .. w
<1>1. IsFiniteSet(A) /\ Cardinality(A) = n
  BY FS_Interval
<1>2. IsFiniteSet(B) /\ Cardinality(B) = w
  BY FS_Interval
<1> HIDE DEF A, B
<1>3. IsFiniteSet(A \X B) /\ Cardinality(A \X B) = Cardinality(A) * Cardinality(B)
  BY <1>1, <1>2, FS_Product
<1>4. QED
  BY <1>1, <1>2, <1>3, Zenon DEF A, B

\* The blocks the groups of a span have behind the superblock copies.
LEMMA BodiesOfSpan ==
  ASSUME input \in Inputs, NEW l \in Nat, NEW n \in Nat \ {0}, NEW w \in Nat,
         w = GroupBlocks - 1 - GdtBlocks, NEW S, IsFiniteSet(S),
         \A b \in Nat : /\ group_start(l) <= b /\ b < group_start(l + n)
                        /\ \A r \in SuperRuns : b \notin BlocksOf(r)
                        => b \in S
  PROVE  n * w <= Cardinality(S)
<1> DEFINE P == (1 .. n) \X (1 .. w)
           body(p) == group_start(l + p[1] - 1) + (GdtBlocks + p[2])
           f == [p \in P |-> body(p)]
<1>1. ASSUME NEW p \in P
      PROVE  /\ l + p[1] - 1 \in Nat /\ body(p) \in Nat
             /\ group_start(l + p[1] - 1) + GdtBlocks < body(p)
             /\ group_start(l) <= body(p)
             /\ body(p) < group_start((l + p[1] - 1) + 1)
             /\ group_start((l + p[1] - 1) + 1) <= group_start(l + n)
  <2>1. PICK k \in Nat : k = l + p[1] - 1 /\ l <= k /\ k + 1 <= l + n
    OBVIOUS
  <2>2. /\ group_start(k) \in Nat /\ group_start(k + 1) = group_start(k) + GroupBlocks
        /\ group_start(l) <= group_start(k)
    BY <2>1, GroupStarts
  <2>3. group_start(k + 1) <= group_start(l + n)
    <3>1. k + 1 \in Nat /\ l + n \in Nat
      OBVIOUS
    <3>2. QED
      BY <2>1, <3>1, GroupStarts
  <2>4. /\ GroupBlocks \in Nat /\ GdtBlocks \in Nat /\ p[2] \in Nat /\ p[2] > 0
        /\ GdtBlocks + p[2] < GroupBlocks
    <3>1. GroupBlocks \in Nat /\ GdtBlocks \in Nat
      BY Parameters
    <3>2. p[2] \in Nat /\ p[2] > 0 /\ p[2] <= w
      OBVIOUS
    <3>3. QED
      BY <3>1, <3>2
  <2>5. group_start(l) \in Nat
    BY StartType
  <2>6. body(p) = group_start(k) + (GdtBlocks + p[2])
    BY <2>1
  <2> HIDE DEF body
  <2>7. /\ body(p) \in Nat /\ group_start(k) + GdtBlocks < body(p)
        /\ group_start(l) <= body(p) /\ body(p) < group_start(k + 1)
    BY <2>2, <2>4, <2>5, <2>6
  <2>8. QED
    BY <2>1, <2>3, <2>7, Zenon
<1> HIDE DEF body
<1>2. ASSUME NEW p \in P PROVE body(p) \in S
  <2>1. \A r \in SuperRuns : body(p) \notin BlocksOf(r)
    BY <1>1, GroupBodyIsFree
  <2>2. body(p) < group_start(l + n)
    <3>1. l + n \in Nat /\ (l + p[1] - 1) + 1 \in Nat
      BY <1>1
    <3>2. group_start(l + n) \in Nat /\ group_start((l + p[1] - 1) + 1) \in Nat
      BY <3>1, StartType, Zenon
    <3>3. QED
      BY <1>1, <3>2
  <2>3. QED
    BY <1>1, <2>1, <2>2
<1>3. ASSUME NEW p \in P, NEW q \in P, body(p) = body(q), p[1] < q[1] PROVE FALSE
  <2>1. (l + p[1] - 1) + 1 <= l + q[1] - 1 /\ (l + p[1] - 1) + 1 \in Nat /\ l + q[1] - 1 \in Nat
    BY <1>3
  <2>2. group_start((l + p[1] - 1) + 1) <= group_start(l + q[1] - 1)
    BY <2>1, GroupStarts
  <2>3. group_start((l + p[1] - 1) + 1) \in Nat /\ group_start(l + q[1] - 1) \in Nat
    BY <2>1, StartType, Zenon
  <2>4. body(p) < group_start((l + p[1] - 1) + 1) /\ body(p) \in Nat
        /\ group_start(l + q[1] - 1) + GdtBlocks < body(q)
    BY <1>1
  <2>5. GdtBlocks \in Nat
    BY Parameters
  <2>6. QED
    BY <1>3, <2>2, <2>3, <2>4, <2>5
<1>4. ASSUME NEW p \in P, NEW q \in P, f[p] = f[q] PROVE p = q
  <2>1. body(p) = body(q)
    BY <1>4
  <2>2. p[1] = q[1]
    BY <1>3, <2>1
  <2>3. group_start(l + p[1] - 1) \in Nat /\ GdtBlocks \in Nat
    BY <1>1, StartType, Parameters
  <2>4. group_start(l + p[1] - 1) + (GdtBlocks + p[2]) = group_start(l + p[1] - 1) + (GdtBlocks + q[2])
    BY <2>1, <2>2, Zenon DEF body
  <2>5. p[2] = q[2]
    BY <2>3, <2>4
  <2>6. QED
    BY <2>2, <2>5
<1>5. f \in [P -> S]
  BY <1>2
<1> HIDE DEF f
<1>6. f \in Injection(P, S)
  BY <1>4, <1>5 DEF Injection, IsInjective
<1>7. IsFiniteSet(P) /\ Cardinality(P) = n * w
  BY SizeOfGrid, Zenon
<1>8. QED
  BY <1>6, <1>7, FS_Injection

LEMMA SpanEnds ==
  ASSUME input \in Inputs, span \in Nat, leader < groups, NEW c \in Nat, c <= input.blocks,
         Cardinality({b \in SpanRoom : b < c}) <= 2 * Members + 2 * input.itable * Members
  PROVE  c <= group_start(leader + GroupsPerFlex)
<1>1. SUFFICES ASSUME ~(c <= group_start(leader + GroupsPerFlex)) PROVE FALSE
  OBVIOUS
<1>2. /\ leader \in Nat /\ GroupsPerFlex \in Nat \ {0} /\ groups \in Nat
      /\ input.blocks \in Nat /\ input.itable \in Nat /\ leader + GroupsPerFlex \in Nat
      /\ input.blocks <= group_start(groups)
  <2>1. leader \in Nat
    BY SpanNumbers
  <2>2. GroupsPerFlex \in Nat \ {0} /\ input.blocks \in Nat /\ input.itable \in Nat
    BY Parameters
  <2>3. leader + GroupsPerFlex \in Nat
    BY <2>1, <2>2
  <2>4. groups \in Nat /\ input.blocks <= group_start(groups)
    BY GroupsHoldImage
  <2>5. QED
    BY <2>1, <2>2, <2>3, <2>4, Zenon
<1>3. Members = GroupsPerFlex
  <2>1. group_start(leader + GroupsPerFlex) \in Nat /\ group_start(groups) \in Nat
    BY <1>2, StartType
  <2>2. group_start(leader + GroupsPerFlex) < group_start(groups)
    BY <1>1, <1>2, <2>1
  <2>3. ~(groups <= leader + GroupsPerFlex)
    <3>1. groups <= leader + GroupsPerFlex => group_start(groups) <= group_start(leader + GroupsPerFlex)
      BY <1>2, GroupStarts
    <3>2. QED
      BY <2>1, <2>2, <3>1
  <2>4. leader < groups => Members = GroupsPerFlex \/ leader + Members = groups
    BY SpanNumbers
  <2>5. leader + Members = groups => Members = GroupsPerFlex
    <3>1. leader < groups => Members \in 1 .. GroupsPerFlex
      BY SpanNumbers
    <3>2. QED
      BY <1>2, <2>3, <3>1
  <2>6. QED
    BY <2>4, <2>5
<1> DEFINE S == {b \in SpanRoom : b < c}
<1>4. group_start(leader) \in Nat /\ group_start(leader + GroupsPerFlex) \in Nat
  BY <1>2, StartType
<1>5. IsFiniteSet(S) /\ Cardinality(S) \in Nat
  <2>1. IsFiniteSet(SpanRoom)
    BY <1>4, FreeType DEF SpanRoom
  <2>2. QED
    BY <2>1, FS_Subset, FS_CardinalityType
<1>6. ASSUME NEW b \in Nat, group_start(leader) <= b, b < group_start(leader + GroupsPerFlex),
             \A r \in SuperRuns : b \notin BlocksOf(r)
      PROVE  b \in S
  <2>1. b < c /\ b < input.blocks
    BY <1>1, <1>2, <1>4, <1>6
  <2>2. QED
    BY <1>4, <1>6, <2>1, FreeType DEF SpanRoom
<1>7. PICK w \in Nat : w = GroupBlocks - 1 - GdtBlocks /\ 2 + 2 * input.itable < w
  <2>1. /\ GroupBlocks \in Nat /\ GdtBlocks \in Nat /\ input.itable \in Nat
        /\ 3 + GdtBlocks + 2 * input.itable < GroupBlocks
    BY Parameters
  <2>2. QED
    BY <2>1
<1>8. GroupsPerFlex * w <= Cardinality(S)
  <2> HIDE DEF S
  <2>1. QED
    BY <1>2, <1>5, <1>6, <1>7, BodiesOfSpan
<1>9. 2 * GroupsPerFlex + 2 * input.itable * GroupsPerFlex < GroupsPerFlex * w
  BY <1>2, <1>7, RoomOfSpan
<1>10. Cardinality(S) <= 2 * GroupsPerFlex + 2 * input.itable * GroupsPerFlex
  BY <1>3, Zenon
<1>11. 2 * GroupsPerFlex + 2 * input.itable * GroupsPerFlex \in Nat /\ GroupsPerFlex * w \in Nat
  BY <1>2
<1> HIDE DEF S
<1>12. QED
  BY <1>5, <1>8, <1>9, <1>10, <1>11

LEMMA Extrema ==
  ASSUME NEW S \in SUBSET Nat, IsFiniteSet(S), S # {}
  PROVE  /\ Min(S) \in S /\ \A k \in S : Min(S) <= k
         /\ Max(S) \in S /\ \A k \in S : k <= Max(S)
<1>1. Min(S) \in S /\ \A k \in S : Min(S) <= k
  BY LeastNatural DEF Min
<1>2. \E m \in S : \A k \in S : k <= m
  BY GreatestOfFinite
<1>3. \E m \in S : \A k \in S : m >= k
  BY <1>2
<1>4. Max(S) \in S /\ \A k \in S : Max(S) >= k
  BY <1>3 DEF Max
<1>5. QED
  BY <1>1, <1>4

\* As many blocks as there are from the first to the last: all of them.
LEMMA OneRunIsRun ==
  ASSUME NEW S \in SUBSET Nat, IsFiniteSet(S), S # {}, OneRun(S)
  PROVE  /\ S = Min(S) .. Min(S) + Cardinality(S) - 1
         /\ Max(S) + 1 = Min(S) + Cardinality(S)
<1>1. /\ Min(S) \in Nat /\ Max(S) \in Nat /\ Min(S) <= Max(S)
      /\ \A k \in S : Min(S) <= k /\ k <= Max(S)
  BY Extrema
<1>2. Cardinality(S) \in Nat /\ Max(S) - Min(S) + 1 = Cardinality(S)
  BY FS_CardinalityType DEF OneRun
<1>3. S \in SUBSET (Min(S) .. Max(S))
  BY <1>1
<1>4. IsFiniteSet(Min(S) .. Max(S)) /\ Cardinality(Min(S) .. Max(S)) = Max(S) - Min(S) + 1
  BY <1>1, FS_Interval
<1>5. S = Min(S) .. Max(S)
  BY <1>2, <1>3, <1>4, FS_Subset
<1>6. Max(S) + 1 = Min(S) + Cardinality(S) /\ Max(S) = Min(S) + Cardinality(S) - 1
  BY <1>1, <1>2
<1>7. QED
  BY <1>5, <1>6

\* The blocks on offer up to the last of the lowest are the lowest.
LEMMA UpToLowest ==
  ASSUME NEW S \in SUBSET Nat, IsFiniteSet(S), NEW n \in Nat, NEW m \in Lowest(n, S)
  PROVE  {b \in S : b < m + 1} \in SUBSET Lowest(n, S)
<1>1. ASSUME NEW b \in S, b < m + 1, b \notin Lowest(n, S) PROVE FALSE
  <2>1. m < b /\ m \in Nat /\ b \in Nat
    BY <1>1, LowestComeFirst
  <2>2. QED
    BY <1>1, <2>1
<1>2. QED
  BY <1>1

\* The lowest n blocks, and the room up to the last of them.
LEMMA LowestPicks ==
  ASSUME NEW S \in SUBSET Nat, IsFiniteSet(S), NEW n \in Nat \ {0}, n <= Cardinality(S),
         NEW T, T = Lowest(n, S)
  PROVE  /\ T \in SUBSET S /\ IsFiniteSet(T) /\ T # {} /\ Cardinality(T) = n
         /\ Max(T) \in T /\ \A b \in T : b <= Max(T)
         /\ Cardinality({b \in S : b < Max(T) + 1}) <= n
<1>1. T \in SUBSET S /\ IsFiniteSet(T) /\ Cardinality(T) = n
  BY LowestComeFirst, LowestSize
<1>2. T # {}
  BY <1>1, FS_EmptySet
<1>3. T \in SUBSET Nat
  BY <1>1
<1>4. Max(T) \in T /\ \A b \in T : b <= Max(T)
  BY <1>1, <1>2, <1>3, Extrema
<1>5. {b \in S : b < Max(T) + 1} \in SUBSET T
  BY <1>4, UpToLowest
<1>6. Cardinality({b \in S : b < Max(T) + 1}) <= n
  <2> DEFINE U == {b \in S : b < Max(T) + 1}
  <2> HIDE DEF U
  <2>1. Cardinality(U) <= Cardinality(T)
    BY <1>1, <1>5, FS_Subset DEF U
  <2>2. QED
    BY <1>1, <2>1 DEF U
<1>7. QED
  BY <1>1, <1>2, <1>4, <1>6

\* The blocks of T by number.
LEMMA Numbered ==
  ASSUME NEW T \in SUBSET Nat, IsFiniteSet(T), NEW n \in Nat \ {0}, Cardinality(T) = n
  PROVE  /\ \A k \in 1 .. n : Nth(T, k) \in T
         /\ \A k, l \in 1 .. n : k # l => Nth(T, k) # Nth(T, l)
         /\ \A b \in T : Nth(T, 1) <= b
<1>1. \A k \in 1 .. n : Nth(T, k) \in T /\ Nth(T, k) \in Nat
  BY NthMember
<1>2. ASSUME NEW k \in 1 .. n, NEW l \in 1 .. n, k < l PROVE Nth(T, k) < Nth(T, l)
  BY <1>2, NthOrders
<1>3. ASSUME NEW k \in 1 .. n, NEW l \in 1 .. n, k # l PROVE Nth(T, k) # Nth(T, l)
  <2>1. k < l \/ l < k
    BY <1>3
  <2>2. Nth(T, k) < Nth(T, l) \/ Nth(T, l) < Nth(T, k)
    BY <1>2, <2>1
  <2>3. QED
    BY <1>1, <2>2
<1>4. ASSUME NEW b \in T PROVE Nth(T, 1) <= b
  <2>1. PICK k \in 1 .. n : Nth(T, k) = b
    BY NthIsOnto
  <2>2. 1 \in 1 .. n /\ (k = 1 \/ 1 < k)
    OBVIOUS
  <2>3. Nth(T, 1) = b \/ Nth(T, 1) < b
    BY <1>2, <2>1, <2>2
  <2>4. QED
    BY <1>1, <2>2, <2>3
<1>5. QED
  BY <1>1, <1>3, <1>4

\* A table offered is one run of free blocks at the cursor or later, and no
\* more than two table lengths of room are used up with it.
LEMMA TableFacts ==
  ASSUME input \in Inputs, cursor \in Nat, TableOffers # {}
  PROVE  /\ TableOffers \in SUBSET FreeFrom(cursor, SuperRuns)
         /\ Min(TableOffers) \in TableOffers
         /\ TableOffers = Min(TableOffers) .. Min(TableOffers) + input.itable - 1
         /\ Max(TableOffers) + 1 = Min(TableOffers) + input.itable
         /\ Max(TableOffers) \in TableOffers
         /\ Cardinality({b \in FreeFrom(cursor, SuperRuns) : b < Max(TableOffers) + 1})
              <= 2 * input.itable
<1> DEFINE n == input.itable
           room == FreeFrom(cursor, SuperRuns)
           first == Lowest(n, room)
           rest == room \ first
           second == Lowest(n, rest)
<1>1. n \in Nat \ {0}
  BY Parameters
<1>2. room \in SUBSET Nat /\ IsFiniteSet(room) /\ Cardinality(room) \in Nat
  BY FreeType, FS_CardinalityType
<1>3. \/ TableOffers = first /\ OneRun(first) /\ n <= Cardinality(room)
      \/ TableOffers = second /\ OneRun(second) /\ 2 * n <= Cardinality(room)
  <2>1. Cardinality(room) < n \/ n <= Cardinality(room)
    BY <1>1, <1>2
  <2>2. Cardinality(room) >= 2 * n <=> 2 * n <= Cardinality(room)
    BY <1>1, <1>2
  <2>3. QED
    BY <2>1, <2>2 DEF TableOffers
<1> HIDE DEF n, room
<1>4. CASE TableOffers = first /\ OneRun(first) /\ n <= Cardinality(room)
  <2>1. /\ first \in SUBSET room /\ IsFiniteSet(first) /\ first # {} /\ Cardinality(first) = n
        /\ Max(first) \in first
        /\ Cardinality({b \in room : b < Max(first) + 1}) <= n
    BY <1>1, <1>2, <1>4, LowestPicks
  <2>2. first \in SUBSET Nat
    BY <1>2, <2>1
  <2>3. first = Min(first) .. Min(first) + n - 1 /\ Max(first) + 1 = Min(first) + n
    BY <1>4, <2>1, <2>2, OneRunIsRun
  <2>4. Min(first) \in first
    BY <2>1, <2>2, Extrema
  <2>5. Cardinality({b \in room : b < Max(first) + 1}) <= 2 * n
    <3> DEFINE U == {b \in room : b < Max(first) + 1}
    <3>1. IsFiniteSet(U)
      BY <1>2, FS_Subset
    <3> HIDE DEF U
    <3>2. Cardinality(U) \in Nat
      BY <3>1, FS_CardinalityType
    <3>3. Cardinality(U) <= n
      BY <2>1 DEF U
    <3>4. Cardinality(U) <= 2 * n
      BY <1>1, <3>2, <3>3
    <3>5. QED
      BY <3>4 DEF U
  <2>6. QED
    BY <1>4, <2>1, <2>3, <2>4, <2>5, Zenon DEF n, room
<1>5. CASE TableOffers = second /\ OneRun(second) /\ 2 * n <= Cardinality(room)
  <2>1. n <= Cardinality(room)
    BY <1>1, <1>2, <1>5
  <2>2. /\ first \in SUBSET room /\ IsFiniteSet(first) /\ Cardinality(first) = n
        /\ \A a \in first, b \in rest : a < b
    BY <1>1, <1>2, <2>1, LowestPicks, LowestComeFirst
  <2>3. rest \in SUBSET Nat /\ IsFiniteSet(rest) /\ n <= Cardinality(rest)
    <3>1. rest \in SUBSET Nat
      BY <1>2
    <3> HIDE DEF first
    <3>2. room \cap first = first
      BY <2>2
    <3>3. IsFiniteSet(rest) /\ Cardinality(rest) = Cardinality(room) - Cardinality(room \cap first)
      BY <1>2, FS_Difference
    <3>4. Cardinality(rest) = Cardinality(room) - n
      BY <2>2, <3>2, <3>3
    <3> HIDE DEF rest
    <3>5. QED
      BY <1>1, <1>2, <1>5, <3>1, <3>3, <3>4
  <2>4. /\ second \in SUBSET rest /\ IsFiniteSet(second) /\ second # {} /\ Cardinality(second) = n
        /\ Max(second) \in second
        /\ Cardinality({b \in rest : b < Max(second) + 1}) <= n
    <3> HIDE DEF rest
    <3>1. QED
      BY <1>1, <2>3, LowestPicks
  <2>5. second \in SUBSET Nat /\ second \in SUBSET room
    BY <2>3, <2>4
  <2>6. second = Min(second) .. Min(second) + n - 1 /\ Max(second) + 1 = Min(second) + n
    BY <1>5, <2>4, <2>5, OneRunIsRun
  <2>7. Min(second) \in second
    BY <2>4, <2>5, Extrema
  <2>8. Cardinality({b \in room : b < Max(second) + 1}) <= 2 * n
    <3> DEFINE U == {b \in room : b < Max(second) + 1}
               V == {b \in rest : b < Max(second) + 1}
    <3>1. IsFiniteSet(V) /\ Cardinality(V) \in Nat
      BY <2>3, FS_Subset, FS_CardinalityType
    <3>2. U \in SUBSET (first \cup V) /\ first \cap V = {}
      OBVIOUS
    <3> HIDE DEF U, V
    <3>3. IsFiniteSet(first \cup V) /\ Cardinality(first \cup V) = n + Cardinality(V)
      <4>1. Cardinality(first \cap V) = 0
        BY <3>2, FS_EmptySet
      <4>2. IsFiniteSet(first \cup V)
            /\ Cardinality(first \cup V) = Cardinality(first) + Cardinality(V) - Cardinality(first \cap V)
        BY <2>2, <3>1, FS_Union
      <4>3. QED
        BY <1>1, <2>2, <3>1, <4>1, <4>2
    <3>4. Cardinality(U) <= n + Cardinality(V) /\ Cardinality(U) \in Nat
      BY <3>2, <3>3, FS_Subset, FS_CardinalityType
    <3>5. Cardinality(V) <= n
      BY <2>4 DEF V
    <3>6. Cardinality(U) <= 2 * n
      BY <1>1, <3>1, <3>4, <3>5
    <3>7. QED
      BY <3>6 DEF U
  <2>9. QED
    BY <1>5, <2>4, <2>5, <2>6, <2>7, <2>8, Zenon DEF n, room
<1>6. QED
  BY <1>3, <1>4, <1>5

-----------------------------------------------------------------------------
(* The steps of the flex spans. *)

LEMMA SameGeometry ==
  ASSUME input' = input
  PROVE  /\ groups' = groups /\ SuperRuns' = SuperRuns
         /\ \A g : group_start(g)' = group_start(g)
         /\ FreeFrom(0, SuperRuns)' = FreeFrom(0, SuperRuns)
         /\ span' = span => /\ leader' = leader /\ Members' = Members /\ Finished' = Finished
                            /\ SpanRoom' = SpanRoom
<1>1. groups' = groups
  BY DEF groups
<1>2. SuperRuns' = SuperRuns
  BY <1>1 DEF SuperRuns, backup_groups, group_start
<1>3. FreeFrom(0, SuperRuns)' = FreeFrom(0, SuperRuns)
  BY <1>2 DEF FreeFrom
<1>4. \A g : group_start(g)' = group_start(g)
  BY DEF group_start
<1>5. ASSUME span' = span
      PROVE  leader' = leader /\ Members' = Members /\ Finished' = Finished /\ SpanRoom' = SpanRoom
  <2>1. leader' = leader
    BY <1>5 DEF leader
  <2>2. Members' = Members /\ Finished' = Finished
    BY <1>1, <2>1 DEF Members, Least, Finished
  <2>3. SpanRoom' = SpanRoom
    BY <1>2, <2>1 DEF SpanRoom, FreeFrom, group_start
  <2>4. QED
    BY <2>1, <2>2, <2>3
<1>6. QED
  BY <1>1, <1>2, <1>3, <1>4, <1>5

\* Nothing is given out before the spans are done.
LEMMA NothingGivenYet ==
  ASSUME UNCHANGED outVars, OutInv, pc \in Early, pc' \in Early
  PROVE  OutInv'
<1>1. \A k \in 1 .. 5 : Out[k] = <<>>
  BY DEF OutInv
<1>2. Out' = Out
  BY DEF outVars, Out
<1>3. pc' # "lost_found"
  BY DEF Early
<1>4. QED
  BY <1>1, <1>2, <1>3 DEF OutInv

LEMMA Appended ==
  ASSUME NEW A, NEW s \in Seq(A), NEW t \in Seq(A)
  PROVE  /\ s \o t \in Seq(A) /\ Len(s \o t) = Len(s) + Len(t)
         /\ DOMAIN s = 1 .. Len(s) /\ DOMAIN t = 1 .. Len(t)
         /\ DOMAIN (s \o t) = 1 .. Len(s) + Len(t)
         /\ \A i \in 1 .. Len(s) : (s \o t)[i] = s[i]
         /\ \A i \in 1 .. Len(t) : (s \o t)[Len(s) + i] = t[i]
<1>1. /\ s \o t \in Seq(A) /\ Len(s \o t) = Len(s) + Len(t)
      /\ Len(s) \in Nat /\ Len(t) \in Nat
  OBVIOUS
<1>2. DOMAIN s = 1 .. Len(s) /\ DOMAIN t = 1 .. Len(t) /\ DOMAIN (s \o t) = 1 .. Len(s) + Len(t)
  BY <1>1
<1>3. \A i \in 1 .. Len(s) : (s \o t)[i] = s[i]
  OBVIOUS
<1>4. ASSUME NEW i \in 1 .. Len(t) PROVE (s \o t)[Len(s) + i] = t[i]
  OBVIOUS
<1>5. QED
  BY <1>1, <1>2, <1>3, <1>4

LEMMA PlaceBitmapsKeeps ==
  ASSUME IInv, PlaceBitmaps
  PROVE  IInv'
<1> DEFINE M == Members
           S == SpanRoom
<1>l. PICK l : l = leader
  OBVIOUS
<1>n. PICK n : n = 2 * M
  OBVIOUS
<1>t. PICK T : T = Lowest(n, S)
  OBVIOUS
<1> DEFINE new == [i \in 1 .. M |-> [bb |-> Nth(T, i), ib |-> Nth(T, M + i), it |-> 0]]
<1>1. /\ input \in Inputs /\ span \in Nat /\ SpanInv /\ OutInv
      /\ pc = "bitmaps" /\ leader < groups /\ n <= Cardinality(S)
      /\ group_meta' = group_meta \o new /\ cursor' = Max(T) + 1 /\ slot' = 1 /\ pc' = "itables"
      /\ input' = input /\ span' = span /\ flex_runs' = flex_runs /\ UNCHANGED outVars
  BY <1>n, <1>t DEF IInv, PlaceBitmaps
<1>2. /\ leader = l /\ l \in Nat /\ M \in Nat \ {0} /\ n = 2 * M /\ n \in Nat \ {0} /\ leader + M <= groups
      /\ group_start(leader) \in Nat /\ input.blocks \in Nat
  <2>1. leader \in Nat /\ M \in Nat \ {0} /\ leader + M <= groups
    BY <1>1, SpanNumbers
  <2>2. 2 * M \in Nat \ {0}
    BY <2>1
  <2>3. QED
    BY <1>l, <1>n, <1>1, <2>1, <2>2, StartType, Parameters
<1>3. /\ leader' = leader /\ Members' = M /\ SpanRoom' = S /\ groups' = groups
      /\ \A g : group_start(g)' = group_start(g)
      /\ FreeFrom(0, SuperRuns)' = FreeFrom(0, SuperRuns)
  BY <1>1, SameGeometry
<1>4. ~Open /\ Open' /\ Len(group_meta) = leader /\ group_meta \in Seq(GroupMeta)
      /\ Tables = leader /\ Tables' = leader /\ OpenBlocks = {}
  <2>1. ~Open /\ Open'
    BY <1>1 DEF Open
  <2>2. Len(group_meta) = leader /\ group_meta \in Seq(GroupMeta) /\ OpenBlocks = {}
    <3>1. leader <= groups
      BY <1>1, <1>2, GroupsHoldImage
    <3>2. QED
      BY <1>1, <2>1, <3>1 DEF SpanInv, SpanShape, Finished, OpenBlocks
  <2>3. Tables = leader
    BY <2>1, <2>2 DEF Tables
  <2>4. Tables' = leader
    <3>1. Tables' = leader + 1 - 1
      BY <1>1, <1>3, <2>1 DEF Tables
    <3>2. QED
      BY <1>2, <3>1
  <2>5. QED
    BY <2>1, <2>2, <2>3, <2>4
<1>5. /\ S \in SUBSET Nat /\ IsFiniteSet(S)
      /\ \A b \in S : /\ group_start(leader) <= b /\ b < input.blocks
                      /\ b \in FreeFrom(0, SuperRuns)
  <2>1. \A b : b \in S <=>
                 b \in Nat /\ group_start(leader) <= b /\ b < input.blocks /\ \A r \in SuperRuns : b \notin BlocksOf(r)
    BY <1>1, <1>2, FreeType DEF SpanRoom
  <2>2. \A b \in S : b \in FreeFrom(0, SuperRuns)
    BY <1>1, <2>1, FreeType
  <2>3. QED
    BY <1>1, <1>2, <2>1, <2>2, FreeType DEF SpanRoom
<1> HIDE DEF M, S
<1>6. /\ T \in SUBSET S /\ T \in SUBSET Nat /\ IsFiniteSet(T) /\ Cardinality(T) = n
      /\ Max(T) \in T /\ \A b \in T : b <= Max(T)
      /\ Cardinality({b \in S : b < Max(T) + 1}) <= n
  <2>1. /\ T \in SUBSET S /\ IsFiniteSet(T) /\ Cardinality(T) = n
        /\ Max(T) \in T /\ \A b \in T : b <= Max(T)
        /\ Cardinality({b \in S : b < Max(T) + 1}) <= n
    <3>1. /\ S \in SUBSET Nat /\ IsFiniteSet(S) /\ n \in Nat \ {0} /\ n <= Cardinality(S)
          /\ T = Lowest(n, S)
      BY <1>t, <1>1, <1>2, <1>5, Zenon
    <3>2. QED
      BY <3>1, LowestPicks
  <2>2. T \in SUBSET Nat
    BY <1>5, <2>1
  <2>3. QED
    BY <2>1, <2>2, Zenon
<1>7. /\ \A k \in 1 .. n : Nth(T, k) \in T
      /\ \A j, k \in 1 .. n : j # k => Nth(T, j) # Nth(T, k)
      /\ \A b \in T : Nth(T, 1) <= b
  BY <1>2, <1>6, Numbered
<1>8. \A i \in 1 .. M : i \in 1 .. n /\ M + i \in 1 .. n
  BY <1>2
<1>9. \A i \in 1 .. M : new[i].bb = Nth(T, i) /\ new[i].ib = Nth(T, M + i)
  OBVIOUS
<1>10. new \in Seq(GroupMeta) /\ Len(new) = M
  <2>1. \A i \in 1 .. M : Nth(T, i) \in Nat /\ Nth(T, M + i) \in Nat
    BY <1>6, <1>7, <1>8
  <2>2. new \in [1 .. M -> GroupMeta]
    BY <2>1 DEF GroupMeta
  <2>3. QED
    BY <1>2, <2>2, SequenceOf
<1> HIDE DEF new
<1>11. /\ group_meta' \in Seq(GroupMeta) /\ Len(group_meta') = l + M
       /\ DOMAIN group_meta = 1 .. l /\ DOMAIN group_meta' = 1 .. l + M
       /\ \A g \in 1 .. l : group_meta'[g] = group_meta[g]
       /\ \A i \in 1 .. M : group_meta'[l + i] = new[i]
  <2>1. /\ group_meta' \in Seq(GroupMeta) /\ Len(group_meta') = Len(group_meta) + Len(new)
        /\ DOMAIN group_meta = 1 .. Len(group_meta)
        /\ DOMAIN group_meta' = 1 .. Len(group_meta) + Len(new)
        /\ \A g \in 1 .. Len(group_meta) : group_meta'[g] = group_meta[g]
        /\ \A i \in 1 .. Len(new) : group_meta'[Len(group_meta) + i] = new[i]
    <3>1. /\ group_meta \in Seq(GroupMeta) /\ new \in Seq(GroupMeta)
          /\ group_meta' = group_meta \o new
      BY <1>1, <1>4, <1>10, Zenon
    <3>2. QED
      BY <3>1, Appended
  <2>2. Len(group_meta) = l /\ Len(new) = M
    BY <1>2, <1>4, <1>10
  <2>3. QED
    BY <2>1, <2>2, Zenon
<1>12. ASSUME NEW g \in 1 .. l
       PROVE  TableBlocks(g)' = TableBlocks(g) /\ MetaBlocks(g)' = MetaBlocks(g)
  <2>1. group_meta'[g] = group_meta[g]
    BY <1>11
  <2>2. TableBlocks(g)' = TableBlocks(g)
    BY <1>1, <1>2, <1>4, <2>1 DEF TableBlocks
  <2>3. QED
    BY <2>1, <2>2 DEF MetaBlocks
<1>13. ASSUME NEW i \in 1 .. M
       PROVE  /\ group_meta'[l + i].bb = Nth(T, i) /\ group_meta'[l + i].ib = Nth(T, M + i)
              /\ TableBlocks(l + i)' = {}
              /\ MetaBlocks(l + i)' = {Nth(T, i), Nth(T, M + i)}
  <2>1. group_meta'[l + i].bb = Nth(T, i) /\ group_meta'[l + i].ib = Nth(T, M + i)
    <3>1. group_meta'[l + i] = new[i]
      BY <1>11
    <3>2. new[i].bb = Nth(T, i) /\ new[i].ib = Nth(T, M + i)
      BY <1>9
    <3>3. QED
      BY <3>1, <3>2, Zenon
  <2>2. ~(l + i <= l)
    BY <1>2
  <2>3. TableBlocks(l + i)' = {}
    BY <1>2, <1>4, <2>2 DEF TableBlocks
  <2>4. QED
    BY <2>1, <2>3 DEF MetaBlocks
<1>14. ASSUME NEW g \in DOMAIN group_meta'
       PROVE  g \in 1 .. l \/ \E i \in 1 .. M : g = l + i
  <2>1. SUFFICES ASSUME g \notin 1 .. l PROVE \E i \in 1 .. M : g = l + i
    OBVIOUS
  <2>2. PICK k : k = g - l
    OBVIOUS
  <2>3. l \in Nat /\ M \in Nat /\ g \in 1 .. l + M
    BY <1>2, <1>11, Zenon
  <2>4. k \in 1 .. M /\ g = l + k
    BY <2>1, <2>2, <2>3
  <2>5. QED
    BY <2>4
<1>15. ASSUME NEW g \in 1 .. l PROVE MetaBlocks(g) \cap T = {}
  <2>1. \A b \in MetaBlocks(g) : b \in Flexed
    BY <1>1, <1>4, <1>11 DEF SpanInv, MetaCovered
  <2>2. \A b \in Flexed : b < group_start(leader)
    BY <1>1 DEF SpanInv, MetaCovered
  <2>3. \A b \in T : b \in Nat /\ group_start(leader) <= b
    BY <1>5, <1>6
  <2>4. ASSUME NEW b \in MetaBlocks(g), b \in T PROVE FALSE
    <3>1. b < group_start(leader) /\ b \in Nat /\ group_start(leader) <= b
      BY <2>1, <2>2, <2>3, <2>4
    <3>2. QED
      BY <1>2, <3>1
  <2>5. QED
    BY <2>4
<1>16. SpanShape'
  <2>1. /\ (group_meta \in Seq(GroupMeta))' /\ Len(group_meta)' = leader' + Members'
        /\ (flex_runs \in Seq(Run))'
    BY <1>1, <1>2, <1>3, <1>11 DEF SpanInv, SpanShape
  <2>2. slot' \in 1 .. Members' /\ leader' < groups'
    BY <1>1, <1>2, <1>3
  <2>3. QED
    BY <1>4, <2>1, <2>2 DEF SpanShape
<1>17. MetaApart'
  <2>1. ASSUME NEW g \in DOMAIN group_meta'
        PROVE  /\ group_meta'[g].bb # group_meta'[g].ib
               /\ {group_meta'[g].bb, group_meta'[g].ib} \cap TableBlocks(g)' = {}
               /\ MetaBlocks(g)' \subseteq FreeFrom(0, SuperRuns)'
    <3>1. CASE g \in 1 .. l
      <4>1. group_meta'[g] = group_meta[g] /\ TableBlocks(g)' = TableBlocks(g) /\ MetaBlocks(g)' = MetaBlocks(g)
        BY <1>11, <1>12, <3>1
      <4>2. QED
        BY <1>1, <1>3, <1>11, <3>1, <4>1 DEF SpanInv, MetaApart
    <3>2. ASSUME NEW i \in 1 .. M, g = l + i
          PROVE  /\ group_meta'[g].bb # group_meta'[g].ib
                 /\ {group_meta'[g].bb, group_meta'[g].ib} \cap TableBlocks(g)' = {}
                 /\ MetaBlocks(g)' \subseteq FreeFrom(0, SuperRuns)'
      <4>1. i # M + i
        BY <1>2
      <4>2. Nth(T, i) # Nth(T, M + i) /\ Nth(T, i) \in S /\ Nth(T, M + i) \in S
        BY <1>6, <1>7, <1>8, <4>1
      <4>3. QED
        BY <1>3, <1>5, <1>13, <3>2, <4>2
    <3>3. QED
      BY <1>14, <3>1, <3>2
  <2>2. ASSUME NEW g \in 1 .. l, NEW h \in 1 .. l, g # h
        PROVE  MetaBlocks(g)' \cap MetaBlocks(h)' = {}
    BY <1>1, <1>11, <1>12, <2>2, SMTT(30) DEF SpanInv, MetaApart
  <2>3. ASSUME NEW g \in 1 .. l, NEW i \in 1 .. M
        PROVE  MetaBlocks(g)' \cap MetaBlocks(l + i)' = {}
    <3>1. MetaBlocks(l + i)' \in SUBSET T
      BY <1>7, <1>8, <1>13
    <3>2. QED
      BY <1>12, <1>15, <3>1
  <2>4. ASSUME NEW i \in 1 .. M, NEW j \in 1 .. M, i # j
        PROVE  MetaBlocks(l + i)' \cap MetaBlocks(l + j)' = {}
    <3>1. i # j /\ i # M + j /\ M + i # j /\ M + i # M + j
      BY <1>2, <2>4
    <3>2. /\ Nth(T, i) # Nth(T, j) /\ Nth(T, i) # Nth(T, M + j)
          /\ Nth(T, M + i) # Nth(T, j) /\ Nth(T, M + i) # Nth(T, M + j)
      BY <1>7, <1>8, <3>1
    <3>3. QED
      BY <1>13, <3>2
  <2>5. ASSUME NEW g \in DOMAIN group_meta', NEW h \in DOMAIN group_meta', g # h
        PROVE  MetaBlocks(g)' \cap MetaBlocks(h)' = {}
    <3>1. CASE g \in 1 .. l
      BY <1>14, <2>2, <2>3, <2>5, <3>1
    <3>2. ASSUME NEW i \in 1 .. M, g = l + i
          PROVE  MetaBlocks(g)' \cap MetaBlocks(h)' = {}
      <4>1. CASE h \in 1 .. l
        BY <2>3, <3>2, <4>1
      <4>2. ASSUME NEW j \in 1 .. M, h = l + j
            PROVE  MetaBlocks(g)' \cap MetaBlocks(h)' = {}
        BY <2>4, <2>5, <3>2, <4>2
      <4>3. QED
        BY <1>14, <4>1, <4>2
    <3>3. QED
      BY <1>14, <3>1, <3>2
  <2>6. QED
    BY <2>1, <2>5 DEF MetaApart
<1>18. OpenBlocks' = Nth(T, 1) .. Max(T) /\ group_meta'[l + 1].bb = Nth(T, 1) /\ Max(T) \in Nat
       /\ Nth(T, 1) \in T
  <2>1. 1 \in 1 .. M /\ 1 \in 1 .. n
    BY <1>2
  <2>2. group_meta'[l + 1].bb = Nth(T, 1) /\ Max(T) \in Nat /\ Nth(T, 1) \in T
    BY <1>6, <1>7, <1>13, <2>1
  <2>3. cursor' - 1 = Max(T)
    BY <1>1, <2>2
  <2>4. QED
    BY <1>2, <1>3, <1>4, <2>2, <2>3 DEF OpenBlocks
<1>19. MetaCovered'
  <2>1. Flexed' = Flexed
    BY <1>1 DEF Flexed
  <2>2. \A b \in T : b \in OpenBlocks'
    BY <1>6, <1>7, <1>18
  <2>3. ASSUME NEW g \in DOMAIN group_meta' PROVE MetaBlocks(g)' \subseteq Flexed' \cup OpenBlocks'
    <3>1. CASE g \in 1 .. l
      BY <1>1, <1>4, <1>11, <1>12, <2>1, <3>1 DEF SpanInv, MetaCovered
    <3>2. ASSUME NEW i \in 1 .. M, g = l + i PROVE MetaBlocks(g)' \subseteq Flexed' \cup OpenBlocks'
      BY <1>7, <1>8, <1>13, <2>2, <3>2
    <3>3. QED
      BY <1>14, <3>1, <3>2
  <2>4. \A b \in Flexed' : b < group_start(leader)'
    BY <1>1, <1>3, <2>1 DEF SpanInv, MetaCovered, group_start
  <2>5. \A b \in OpenBlocks' : group_start(leader)' <= b
    <3>1. Nth(T, 1) \in Nat /\ group_start(leader) <= Nth(T, 1)
      BY <1>5, <1>6, <1>18
    <3>2. \A b \in OpenBlocks' : group_start(leader) <= b
      BY <1>2, <1>18, <3>1
    <3>3. QED
      BY <1>1, <1>3, <3>2 DEF group_start
  <2>6. QED
    BY <2>3, <2>4, <2>5 DEF MetaCovered
<1>20. SpanIsShort'
  <2>1. Max(T) < input.blocks /\ Nth(T, 1) <= Max(T) /\ Nth(T, 1) \in Nat
    BY <1>5, <1>6, <1>18
  <2>2. cursor' <= input'.blocks /\ Nth(T, 1) < cursor'
    BY <1>1, <1>2, <1>18, <2>1
  <2>3. 2 * Members' + 2 * input'.itable * (slot' - 1) = 2 * M
    <3>1. input'.itable \in Nat
      BY <1>1, Parameters
    <3>2. QED
      BY <1>1, <1>2, <1>3, <3>1
  <2>4. Cardinality({b \in SpanRoom' : b < cursor'}) <= 2 * Members' + 2 * input'.itable * (slot' - 1)
    BY <1>1, <1>2, <1>3, <1>6, <2>3
  <2>5. QED
    BY <1>2, <1>3, <1>18, <2>2, <2>4 DEF SpanIsShort
<1>21. OutInv'
  BY <1>1, NothingGivenYet DEF Early
<1>22. input' \in Inputs /\ pc' \in Phases /\ span' \in Nat /\ slot' \in Nat /\ cursor' \in Nat
  BY <1>1, <1>18 DEF Phases
<1>23. QED
  BY <1>16, <1>17, <1>19, <1>20, <1>21, <1>22 DEF IInv, SpanInv

\* Less room than two table lengths is used up for a table.
LEMMA RoomUsed ==
  ASSUME input \in Inputs, span \in Nat, cursor \in Nat, group_start(leader) <= cursor,
         NEW c \in Nat, NEW m \in Nat, NEW n \in Nat,
         Cardinality({b \in SpanRoom : b < cursor}) <= m,
         Cardinality({b \in FreeFrom(cursor, SuperRuns) : b < c}) <= n
  PROVE  Cardinality({b \in SpanRoom : b < c}) <= m + n
<1> DEFINE U == {b \in SpanRoom : b < cursor}
           V == {b \in FreeFrom(cursor, SuperRuns) : b < c}
           W == {b \in SpanRoom : b < c}
<1>1. leader \in Nat /\ group_start(leader) \in Nat
  BY SpanNumbers, StartType
<1>2. IsFiniteSet(SpanRoom) /\ IsFiniteSet(FreeFrom(cursor, SuperRuns)) /\ SpanRoom \in SUBSET Nat
  BY <1>1, FreeType DEF SpanRoom
<1>3. IsFiniteSet(U) /\ IsFiniteSet(V)
  BY <1>2, FS_Subset
<1>4. W \in SUBSET (U \cup V)
  <2>1. ASSUME NEW b \in SpanRoom, b < c, ~(b < cursor) PROVE b \in FreeFrom(cursor, SuperRuns)
    <3>1. b \in Nat /\ b < input.blocks /\ \A r \in SuperRuns : b \notin BlocksOf(r)
      BY <1>1, FreeType DEF SpanRoom
    <3>2. cursor <= b
      BY <2>1, <3>1
    <3>3. QED
      BY <3>1, <3>2, FreeType
  <2>2. QED
    BY <2>1
<1> HIDE DEF U, V, W
<1>5. IsFiniteSet(U \cup V) /\ Cardinality(U \cup V) <= Cardinality(U) + Cardinality(V)
  <2>1. /\ Cardinality(U) \in Nat /\ Cardinality(V) \in Nat /\ Cardinality(U \cap V) \in Nat
    BY <1>3, FS_CardinalityType, FS_Intersection
  <2>2. IsFiniteSet(U \cup V)
        /\ Cardinality(U \cup V) = Cardinality(U) + Cardinality(V) - Cardinality(U \cap V)
    BY <1>3, FS_Union
  <2>3. QED
    BY <2>1, <2>2
<1>6. Cardinality(W) <= Cardinality(U \cup V) /\ Cardinality(W) \in Nat
  BY <1>4, <1>5, FS_Subset, FS_CardinalityType
<1>7. Cardinality(U) \in Nat /\ Cardinality(V) \in Nat /\ Cardinality(U \cup V) \in Nat
  BY <1>3, <1>5, FS_CardinalityType
<1>8. Cardinality(U) <= m /\ Cardinality(V) <= n
  BY Zenon DEF U, V
<1>9. Cardinality(W) <= m + n
  BY <1>5, <1>6, <1>7, <1>8
<1>10. QED
  BY <1>9 DEF W

\* What PlaceTable does to the metadata of the groups: the next one gets
\* blocks that are ahead of all others.
LEMMA TablePlaced ==
  ASSUME IInv, PlaceTable, NEW l, l = leader, NEW G, G = l + slot, NEW t, t = Min(TableOffers)
  PROVE  /\ l \in Nat /\ G \in Nat /\ t \in Nat /\ slot \in 1 .. Members /\ G <= l + Members
         /\ group_meta \in Seq(GroupMeta) /\ Len(group_meta) = l + Members
         /\ DOMAIN group_meta = 1 .. l + Members
         /\ group_meta' \in Seq(GroupMeta) /\ Len(group_meta') = l + Members
         /\ DOMAIN group_meta' = DOMAIN group_meta
         /\ Tables = G - 1 /\ G \in DOMAIN group_meta
         /\ \A g \in DOMAIN group_meta : /\ group_meta'[g].bb = group_meta[g].bb
                                         /\ group_meta'[g].ib = group_meta[g].ib
                                         /\ group_meta[g].bb \in Nat
         /\ \A g \in DOMAIN group_meta : g # G => group_meta'[g].it = group_meta[g].it
         /\ group_meta'[G].it = t
         /\ cursor' = t + input.itable /\ t + input.itable <= input.blocks
         /\ TableOffers = t .. t + input.itable - 1
         /\ \A b \in TableOffers : b \in FreeFrom(0, SuperRuns) /\ cursor <= b /\ b < cursor'
         /\ cursor < cursor' /\ cursor' \in Nat
         /\ Cardinality({b \in FreeFrom(cursor, SuperRuns) : b < cursor'}) <= 2 * input.itable
<1>1. /\ input \in Inputs /\ span \in Nat /\ cursor \in Nat /\ slot \in Nat /\ pc = "itables" /\ SpanInv
      /\ TableOffers # {}
      /\ group_meta' = [group_meta EXCEPT ![G].it = t]
      /\ cursor' = Max(TableOffers) + 1
  BY DEF IInv, PlaceTable
<1>2. l \in Nat /\ leader < groups /\ slot \in 1 .. Members /\ Members \in Nat
      /\ group_meta \in Seq(GroupMeta) /\ Len(group_meta) = l + Members
      /\ input.itable \in Nat \ {0} /\ input.blocks \in Nat
  <2>1. l \in Nat /\ (leader < groups => Members \in 1 .. GroupsPerFlex)
    BY <1>1, SpanNumbers
  <2>2. /\ leader < groups /\ slot \in 1 .. Members
        /\ group_meta \in Seq(GroupMeta) /\ Len(group_meta) = l + Members
    BY <1>1 DEF SpanInv, SpanShape, Open
  <2>3. input.itable \in Nat \ {0} /\ input.blocks \in Nat /\ GroupsPerFlex \in Nat
    BY <1>1, Parameters
  <2>4. Members \in Nat
    BY <2>1, <2>2, <2>3
  <2>5. QED
    BY <2>1, <2>2, <2>3, <2>4, Zenon
<1>3. DOMAIN group_meta = 1 .. l + Members /\ G \in DOMAIN group_meta /\ G \in Nat /\ G <= l + Members
  <2>1. DOMAIN group_meta = 1 .. l + Members
    BY <1>2
  <2>2. G \in 1 .. l + Members /\ G \in Nat /\ G <= l + Members
    BY <1>2
  <2>3. QED
    BY <2>1, <2>2
<1>4. /\ TableOffers \in SUBSET FreeFrom(cursor, SuperRuns) /\ t \in TableOffers
      /\ TableOffers = t .. t + input.itable - 1
      /\ Max(TableOffers) + 1 = t + input.itable /\ Max(TableOffers) \in TableOffers
      /\ Cardinality({b \in FreeFrom(cursor, SuperRuns) : b < Max(TableOffers) + 1})
           <= 2 * input.itable
  BY <1>1, TableFacts
<1>5. \A b \in TableOffers : b \in Nat /\ cursor <= b /\ b < input.blocks /\ b \in FreeFrom(0, SuperRuns)
  <2>1. SUFFICES ASSUME NEW b \in TableOffers
                 PROVE  b \in Nat /\ cursor <= b /\ b < input.blocks /\ b \in FreeFrom(0, SuperRuns)
    BY Zenon
  <2>2. b \in FreeFrom(cursor, SuperRuns)
    BY <1>4
  <2>3. b \in Nat /\ cursor <= b /\ b < input.blocks /\ \A r \in SuperRuns : b \notin BlocksOf(r)
    BY <1>1, <2>2, FreeType
  <2>4. 0 <= b /\ 0 \in Nat
    BY <2>3
  <2>5. b \in FreeFrom(0, SuperRuns)
    BY <1>1, <2>3, <2>4, FreeType
  <2>6. QED
    BY <2>3, <2>5, Zenon
<1>6. /\ t \in Nat /\ cursor' = t + input.itable /\ t + input.itable <= input.blocks
      /\ cursor < cursor' /\ cursor' \in Nat
  <2>1. PICK m : m = Max(TableOffers)
    OBVIOUS
  <2>2. t \in Nat /\ m \in Nat /\ m < input.blocks /\ cursor <= t
    BY <1>4, <1>5, <2>1, Zenon
  <2>3. m + 1 = t + input.itable /\ cursor' = m + 1
    BY <1>1, <1>4, <2>1, Zenon
  <2>4. cursor \in Nat /\ input.itable \in Nat \ {0} /\ input.blocks \in Nat
    BY <1>1, <1>2, Zenon
  <2>5. QED
    BY <2>2, <2>3, <2>4
<1>7. \A b \in TableOffers : b < cursor'
  <2>1. \A b \in t .. t + input.itable - 1 : b < t + input.itable
    BY <1>2, <1>6
  <2>2. QED
    BY <1>4, <1>6, <2>1, Zenon
<1>8. \A g \in DOMAIN group_meta : group_meta[g] \in GroupMeta
  BY <1>2
<1>9. /\ DOMAIN group_meta' = DOMAIN group_meta
      /\ \A g \in DOMAIN group_meta :
           group_meta'[g] = IF g = G THEN [group_meta[g] EXCEPT !.it = t] ELSE group_meta[g]
  BY <1>1
<1>10. ASSUME NEW g \in DOMAIN group_meta
       PROVE  /\ group_meta'[g].bb = group_meta[g].bb /\ group_meta'[g].ib = group_meta[g].ib
              /\ group_meta'[g].it = IF g = G THEN t ELSE group_meta[g].it
              /\ group_meta[g].bb \in Nat /\ group_meta'[g] \in GroupMeta
  <2>1. group_meta[g] \in GroupMeta
    BY <1>8
  <2>2. group_meta'[g] = IF g = G THEN [group_meta[g] EXCEPT !.it = t] ELSE group_meta[g]
    BY <1>9
  <2>3. QED
    BY <1>6, <2>1, <2>2 DEF GroupMeta
<1>11. group_meta' \in Seq(GroupMeta) /\ Len(group_meta') = l + Members
  BY <1>1, <1>2, <1>3, <1>9, <1>10
<1>12. Tables = G - 1
  BY <1>1, <1>2 DEF Tables, Open
<1>13. Cardinality({b \in FreeFrom(cursor, SuperRuns) : b < cursor'}) <= 2 * input.itable
  BY <1>1, <1>4, Zenon
<1>14. \A g \in DOMAIN group_meta : /\ group_meta'[g].bb = group_meta[g].bb
                                     /\ group_meta'[g].ib = group_meta[g].ib
                                     /\ group_meta[g].bb \in Nat
  BY <1>10, Zenon
<1>15. /\ \A g \in DOMAIN group_meta : g # G => group_meta'[g].it = group_meta[g].it
       /\ group_meta'[G].it = t
  BY <1>3, <1>10
<1>16. /\ DOMAIN group_meta' = DOMAIN group_meta
       /\ \A b \in TableOffers : b \in FreeFrom(0, SuperRuns) /\ cursor <= b /\ b < cursor'
  BY <1>5, <1>7, <1>9, Zenon
<1>17. QED
  BY <1>2, <1>3, <1>4, <1>6, <1>11, <1>12, <1>13, <1>14, <1>15, <1>16, Zenon

\* The new table is apart from all that the spans have.
LEMMA TableApart ==
  ASSUME IInv, PlaceTable, NEW l, l = leader, NEW G, G = l + slot, Tables' = G
  PROVE  /\ MetaApart'
         /\ \A g \in DOMAIN group_meta : MetaBlocks(g)' \subseteq MetaBlocks(g) \cup TableOffers
         /\ group_start(l) \in Nat /\ group_meta[l + 1].bb \in Nat
         /\ group_start(l) <= group_meta[l + 1].bb
         /\ group_meta[l + 1].bb < cursor
<1>t. PICK t : t = Min(TableOffers)
  OBVIOUS
<1>1. /\ input \in Inputs /\ span \in Nat /\ cursor \in Nat /\ SpanInv
      /\ input' = input /\ Open
  BY DEF IInv, PlaceTable, Open
<1>2. /\ l \in Nat /\ G \in Nat /\ slot \in 1 .. Members
      /\ DOMAIN group_meta = 1 .. l + Members /\ DOMAIN group_meta' = DOMAIN group_meta
      /\ Tables = G - 1 /\ G \in DOMAIN group_meta
      /\ \A g \in DOMAIN group_meta : /\ group_meta'[g].bb = group_meta[g].bb
                                      /\ group_meta'[g].ib = group_meta[g].ib
                                      /\ group_meta[g].bb \in Nat
      /\ \A g \in DOMAIN group_meta : g # G => group_meta'[g].it = group_meta[g].it
      /\ group_meta'[G].it = t
      /\ TableOffers = t .. t + input.itable - 1
      /\ \A b \in TableOffers : b \in FreeFrom(0, SuperRuns) /\ cursor <= b
  BY <1>t, TablePlaced, Zenon
<1>3. /\ group_start(l) \in Nat /\ group_meta[l + 1].bb \in Nat
      /\ group_start(l) <= group_meta[l + 1].bb /\ group_meta[l + 1].bb < cursor
  <2>1. group_start(l) \in Nat
    BY <1>1, <1>2, StartType
  <2>2. l + 1 \in DOMAIN group_meta
    <3>1. Members \in Nat
      BY <1>1, SpanNumbers, Parameters DEF SpanInv, SpanShape
    <3>2. QED
      BY <1>2, <3>1
  <2>3. group_meta[l + 1].bb \in Nat /\ group_meta[l + 1].bb < cursor
    BY <1>1, <1>2, <2>2 DEF SpanInv, SpanIsShort
  <2>4. group_meta[l + 1].bb \in OpenBlocks
    BY <1>1, <2>3 DEF OpenBlocks
  <2>5. \A b \in OpenBlocks : group_start(l) <= b
    BY <1>1 DEF SpanInv, MetaCovered
  <2>6. QED
    BY <2>1, <2>3, <2>4, <2>5
<1>4. ASSUME NEW g \in DOMAIN group_meta, NEW b \in MetaBlocks(g), b \in TableOffers PROVE FALSE
  <2>1. b \in Nat /\ cursor <= b
    BY <1>1, <1>2, <1>4, FreeType
  <2>2. b \in Flexed \cup OpenBlocks
    BY <1>1, <1>4 DEF SpanInv, MetaCovered
  <2>3. CASE b \in Flexed
    <3>1. b < group_start(l)
      BY <1>1, <2>3 DEF SpanInv, MetaCovered
    <3>2. QED
      BY <1>1, <1>3, <2>1, <3>1
  <2>4. CASE b \in OpenBlocks
    <3>1. b \in group_meta[l + 1].bb .. cursor - 1
      BY <1>1, <2>4 DEF OpenBlocks
    <3>2. QED
      BY <1>1, <2>1, <3>1
  <2>5. QED
    BY <2>2, <2>3, <2>4
<1>5. ASSUME NEW g \in DOMAIN group_meta, g # G
      PROVE  TableBlocks(g)' = TableBlocks(g) /\ MetaBlocks(g)' = MetaBlocks(g)
  <2>1. g <= G <=> g <= Tables
    BY <1>2, <1>5
  <2>2. group_meta'[g].it = group_meta[g].it /\ group_meta'[g].bb = group_meta[g].bb
        /\ group_meta'[g].ib = group_meta[g].ib
    BY <1>2, <1>5
  <2>3. TableBlocks(g)' = TableBlocks(g)
    BY <1>1, <2>1, <2>2 DEF TableBlocks
  <2>4. QED
    BY <2>2, <2>3 DEF MetaBlocks
<1>6. /\ TableBlocks(G)' = TableOffers
      /\ MetaBlocks(G) = {group_meta[G].bb, group_meta[G].ib}
      /\ MetaBlocks(G)' = MetaBlocks(G) \cup TableOffers
  <2>1. G <= G /\ ~(G <= Tables)
    BY <1>2
  <2>2. TableBlocks(G) = {} /\ TableBlocks(G)' = TableOffers
    BY <1>1, <1>2, <2>1 DEF TableBlocks
  <2>3. group_meta'[G].bb = group_meta[G].bb /\ group_meta'[G].ib = group_meta[G].ib
    BY <1>2
  <2>4. QED
    BY <2>2, <2>3 DEF MetaBlocks
<1>7. MetaApart'
  <2>1. FreeFrom(0, SuperRuns)' = FreeFrom(0, SuperRuns)
    BY <1>1, SameGeometry
  <2>2. ASSUME NEW g \in DOMAIN group_meta
        PROVE  /\ group_meta'[g].bb # group_meta'[g].ib
               /\ {group_meta'[g].bb, group_meta'[g].ib} \cap TableBlocks(g)' = {}
               /\ MetaBlocks(g)' \subseteq FreeFrom(0, SuperRuns)'
    <3>1. /\ group_meta[g].bb # group_meta[g].ib
          /\ {group_meta[g].bb, group_meta[g].ib} \cap TableBlocks(g) = {}
          /\ MetaBlocks(g) \subseteq FreeFrom(0, SuperRuns)
      BY <1>1 DEF SpanInv, MetaApart
    <3>2. group_meta'[g].bb = group_meta[g].bb /\ group_meta'[g].ib = group_meta[g].ib
      BY <1>2
    <3>3. CASE g # G
      BY <1>5, <2>1, <3>1, <3>2, <3>3
    <3>4. CASE g = G
      <4>1. group_meta[g].bb \in MetaBlocks(g) /\ group_meta[g].ib \in MetaBlocks(g)
        BY DEF MetaBlocks
      <4>2. {group_meta[g].bb, group_meta[g].ib} \cap TableOffers = {}
        BY <1>4, <4>1
      <4>3. \A b \in TableOffers : b \in FreeFrom(0, SuperRuns)
        BY <1>2, Zenon
      <4>4. TableBlocks(g)' = TableOffers /\ MetaBlocks(g)' = MetaBlocks(g) \cup TableOffers
        BY <1>6, <3>4, Zenon
      <4>5. QED
        BY <2>1, <3>1, <3>2, <4>2, <4>3, <4>4
    <3>5. QED
      BY <3>3, <3>4
  <2>3. ASSUME NEW g \in DOMAIN group_meta, NEW h \in DOMAIN group_meta, g # h
        PROVE  MetaBlocks(g)' \cap MetaBlocks(h)' = {}
    <3>1. MetaBlocks(g) \cap MetaBlocks(h) = {}
      BY <1>1, <2>3 DEF SpanInv, MetaApart
    <3>2. MetaBlocks(g) \cap TableOffers = {} /\ MetaBlocks(h) \cap TableOffers = {}
      BY <1>4
    <3>3. CASE g # G /\ h # G
      BY <1>5, <3>1, <3>3
    <3>4. CASE g = G
      BY <1>5, <1>6, <2>3, <3>1, <3>2, <3>4
    <3>5. CASE h = G
      BY <1>5, <1>6, <2>3, <3>1, <3>2, <3>5
    <3>6. QED
      BY <3>3, <3>4, <3>5
  <2>4. QED
    BY <1>2, <2>2, <2>3 DEF MetaApart
<1>8. ASSUME NEW g \in DOMAIN group_meta PROVE MetaBlocks(g)' \subseteq MetaBlocks(g) \cup TableOffers
  BY <1>5, <1>6
<1>9. QED
  BY <1>3, <1>7, <1>8

LEMMA OneMoreTable ==
  ASSUME NEW M \in Nat, NEW t \in Nat, NEW s \in Nat \ {0}
  PROVE  /\ 2 * M + 2 * t * (s - 1) \in Nat
         /\ 2 * M + 2 * t * (s - 1) + 2 * t = 2 * M + 2 * t * s
<1>1. PICK k \in Nat : s = k + 1
  OBVIOUS
<1>2. s - 1 = k
  BY <1>1
<1>3. t * s = t * k + t /\ t * k \in Nat
  BY <1>1
<1>4. 2 * t * k = 2 * (t * k) /\ 2 * t * s = 2 * (t * s)
  BY <1>1
<1>5. QED
  BY <1>2, <1>3, <1>4

LEMMA PlaceTableKeeps ==
  ASSUME IInv, PlaceTable
  PROVE  IInv'
<1>l. PICK l : l = leader
  OBVIOUS
<1>g. PICK G : G = l + slot
  OBVIOUS
<1>t. PICK t : t = Min(TableOffers)
  OBVIOUS
<1>m. PICK M : M = Members
  OBVIOUS
<1>f. PICK from : from = group_meta[l + 1].bb
  OBVIOUS
<1>1. /\ input \in Inputs /\ span \in Nat /\ cursor \in Nat /\ SpanInv /\ OutInv
      /\ pc = "itables" /\ Open /\ input' = input /\ slot' = slot + 1 /\ UNCHANGED outVars
      /\ \/ slot < M /\ pc' = pc /\ span' = span /\ flex_runs' = flex_runs
         \/ /\ ~(slot < M) /\ pc' = "bitmaps" /\ span' = span + 1
            /\ flex_runs' = Append(flex_runs, [start |-> from, len |-> cursor' - from])
  BY <1>l, <1>m, <1>f DEF IInv, PlaceTable, Open
<1>2. /\ l \in Nat /\ G \in Nat /\ t \in Nat /\ slot \in 1 .. M
      /\ group_meta' \in Seq(GroupMeta) /\ Len(group_meta') = l + M
      /\ DOMAIN group_meta = 1 .. l + M /\ DOMAIN group_meta' = DOMAIN group_meta
      /\ \A g \in DOMAIN group_meta : group_meta'[g].bb = group_meta[g].bb
      /\ cursor' = t + input.itable /\ t + input.itable <= input.blocks
      /\ \A b \in TableOffers : cursor <= b /\ b < cursor'
      /\ cursor < cursor' /\ cursor' \in Nat
      /\ Cardinality({b \in FreeFrom(cursor, SuperRuns) : b < cursor'}) <= 2 * input.itable
  BY <1>l, <1>g, <1>t, <1>m, TablePlaced, Zenon
<1>3. /\ leader < groups /\ M \in 1 .. GroupsPerFlex /\ l + M <= groups
      /\ M = GroupsPerFlex \/ l + M = groups
      /\ (span + 1) * GroupsPerFlex = l + GroupsPerFlex
      /\ GroupsPerFlex \in Nat \ {0} /\ groups \in Nat
      /\ input.blocks \in Nat /\ input.itable \in Nat \ {0}
  <2>1. leader < groups
    BY <1>1 DEF SpanInv, SpanShape
  <2>2. /\ M \in 1 .. GroupsPerFlex /\ l + M <= groups
        /\ M = GroupsPerFlex \/ l + M = groups
        /\ (span + 1) * GroupsPerFlex = l + GroupsPerFlex
    BY <1>l, <1>m, <1>1, <2>1, SpanNumbers, Zenon
  <2>3. groups \in Nat
    BY <1>1, GroupsHoldImage
  <2>4. GroupsPerFlex \in Nat \ {0} /\ input.blocks \in Nat /\ input.itable \in Nat \ {0}
    BY <1>1, Parameters
  <2>5. QED
    BY <2>1, <2>2, <2>3, <2>4, Zenon
<1>4. Tables' = G
  <2>1. CASE pc' = pc /\ span' = span
    <3>1. Open' /\ leader' = l
      BY <1>l, <1>1, <2>1, SameGeometry DEF Open
    <3>2. Tables' = l + slot' - 1
      BY <3>1 DEF Tables
    <3>3. QED
      BY <1>g, <1>1, <1>2, <1>3, <3>2
  <2>2. CASE pc' = "bitmaps" /\ ~(slot < M)
    <3>1. Tables' = Len(group_meta')
      BY <2>2 DEF Tables, Open
    <3>2. slot = M
      BY <1>2, <1>3, <2>2
    <3>3. QED
      BY <1>g, <1>2, <3>1, <3>2
  <2>3. QED
    BY <1>1, <2>1, <2>2
<1>5. /\ MetaApart'
      /\ \A g \in DOMAIN group_meta : MetaBlocks(g)' \subseteq MetaBlocks(g) \cup TableOffers
      /\ group_start(l) \in Nat /\ from \in Nat /\ group_start(l) <= from /\ from < cursor
  BY <1>l, <1>g, <1>f, <1>4, TableApart, Zenon
<1>6. group_meta'[l + 1].bb = from
  <2>1. l + 1 \in DOMAIN group_meta
    BY <1>2, <1>3
  <2>2. QED
    BY <1>f, <1>2, <2>1
<1>7. ASSUME NEW g \in DOMAIN group_meta
      PROVE  MetaBlocks(g)' \subseteq Flexed \cup (from .. cursor' - 1)
  <2>1. MetaBlocks(g) \subseteq Flexed \cup (from .. cursor - 1)
    BY <1>l, <1>f, <1>1 DEF SpanInv, MetaCovered, OpenBlocks
  <2>2. from .. cursor - 1 \subseteq from .. cursor' - 1
    BY <1>1, <1>2, <1>5
  <2>3. TableOffers \subseteq from .. cursor' - 1
    <3>1. ASSUME NEW b \in TableOffers PROVE b \in from .. cursor' - 1
      <4>1. cursor <= b /\ b < cursor' /\ b \in Nat
        BY <1>l, <1>g, <1>t, <1>1, <1>2, TablePlaced, FreeType
      <4>2. QED
        BY <1>1, <1>2, <1>5, <4>1
    <3>2. QED
      BY <3>1
  <2>4. QED
    BY <1>5, <2>1, <2>2, <2>3
<1>8. Cardinality({b \in SpanRoom : b < cursor'}) <= 2 * M + 2 * input.itable * slot
  <2>1. PICK m \in Nat : m = 2 * M + 2 * input.itable * (slot - 1)
    <3>1. slot \in Nat \ {0} /\ M \in Nat /\ input.itable \in Nat
      BY <1>2, <1>3
    <3>2. QED
      BY <3>1, OneMoreTable
  <2>2. Cardinality({b \in SpanRoom : b < cursor}) <= m
    BY <1>m, <1>1, <2>1 DEF SpanInv, SpanIsShort
  <2>3. group_start(leader) <= cursor
    BY <1>l, <1>1, <1>5
  <2>4. PICK n \in Nat : n = 2 * input.itable
    BY <1>3
  <2>5. Cardinality({b \in FreeFrom(cursor, SuperRuns) : b < cursor'}) <= n
    BY <1>2, <2>4
  <2>6. PICK c \in Nat : c = cursor'
    BY <1>2
  <2>7. Cardinality({b \in SpanRoom : b < c}) <= m + n
    BY <1>1, <2>2, <2>3, <2>5, <2>6, RoomUsed
  <2>8. m + n = 2 * M + 2 * input.itable * slot
    <3>1. slot \in Nat \ {0} /\ M \in Nat /\ input.itable \in Nat
      BY <1>2, <1>3
    <3>2. QED
      BY <2>1, <2>4, <3>1, OneMoreTable
  <2>9. QED
    BY <2>6, <2>7, <2>8, Zenon
<1>9. \A b \in Flexed : b < group_start(l)
  BY <1>l, <1>1 DEF SpanInv, MetaCovered
<1>10. OutInv'
  BY <1>1, NothingGivenYet DEF Early
<1>11. CASE slot < M /\ pc' = pc /\ span' = span /\ flex_runs' = flex_runs
  <2>1. /\ leader' = l /\ Members' = M /\ SpanRoom' = SpanRoom /\ groups' = groups /\ Open'
        /\ \A g : group_start(g)' = group_start(g)
    BY <1>l, <1>m, <1>1, <1>11, SameGeometry DEF Open
  <2>2. SpanShape'
    <3>1. slot' \in 1 .. M
      BY <1>1, <1>2, <1>3, <1>11, SMTT(30)
    <3>2. (group_meta \in Seq(GroupMeta))' /\ Len(group_meta)' = leader' + Members'
      BY <1>2, <2>1
    <3>3. (flex_runs \in Seq(Run))'
      BY <1>1, <1>11 DEF SpanInv, SpanShape
    <3>4. leader' < groups'
      BY <1>l, <1>3, <2>1
    <3>5. QED
      BY <2>1, <3>1, <3>2, <3>3, <3>4 DEF SpanShape
  <2>3. OpenBlocks' = from .. cursor' - 1
    BY <1>6, <2>1 DEF OpenBlocks
  <2>4. MetaCovered'
    <3>1. Flexed' = Flexed
      BY <1>11 DEF Flexed
    <3>2. \A g \in DOMAIN group_meta' : MetaBlocks(g)' \subseteq Flexed' \cup OpenBlocks'
      BY <1>2, <1>7, <2>3, <3>1
    <3>3. \A b \in Flexed' : b < group_start(leader)'
      BY <1>l, <1>1, <1>9, <2>1, <3>1 DEF group_start
    <3>4. \A b \in OpenBlocks' : group_start(leader)' <= b
      <4>1. \A b \in OpenBlocks' : group_start(l) <= b
        BY <1>2, <1>5, <2>3
      <4>2. QED
        BY <1>l, <1>1, <2>1, <4>1 DEF group_start
    <3>5. QED
      BY <3>2, <3>3, <3>4 DEF MetaCovered
  <2>5. SpanIsShort'
    <3>1. cursor' <= input'.blocks /\ group_meta'[leader' + 1].bb < cursor'
      BY <1>1, <1>2, <1>5, <1>6, <2>1, SMTT(30)
    <3>2. slot' - 1 = slot
      BY <1>1, <1>2
    <3>3. Cardinality({b \in SpanRoom' : b < cursor'})
            <= 2 * Members' + 2 * input'.itable * (slot' - 1)
      BY <1>1, <1>8, <2>1, <3>2, Zenon
    <3>4. QED
      BY <3>1, <3>3 DEF SpanIsShort
  <2>6. input' \in Inputs /\ pc' \in Phases /\ span' \in Nat /\ slot' \in Nat /\ cursor' \in Nat
    BY <1>1, <1>2, <1>11 DEF Phases
  <2>7. QED
    BY <1>5, <1>10, <2>2, <2>4, <2>5, <2>6 DEF IInv, SpanInv
<1>12. CASE /\ ~(slot < M) /\ pc' = "bitmaps" /\ span' = span + 1
            /\ flex_runs' = Append(flex_runs, [start |-> from, len |-> cursor' - from])
  <2>r. PICK r : r = [start |-> from, len |-> cursor' - from]
    OBVIOUS
  <2>1. /\ leader' = l + GroupsPerFlex /\ groups' = groups /\ ~Open'
        /\ \A g : group_start(g)' = group_start(g)
    <3>1. leader' = (span + 1) * GroupsPerFlex
      BY <1>12 DEF leader
    <3>2. ~Open'
      BY <1>12 DEF Open
    <3>3. QED
      BY <1>1, <1>3, <3>1, <3>2, SameGeometry
  <2>2. r \in Run /\ BlocksOf(r) = from .. cursor' - 1
    <3>1. cursor' - from \in Nat \ {0} /\ from + (cursor' - from) = cursor'
      BY <1>1, <1>2, <1>5
    <3>2. QED
      BY <1>5, <2>r, <3>1 DEF Run, BlocksOf, RunEnd
  <2>3. flex_runs \in Seq(Run)
    BY <1>1 DEF SpanInv, SpanShape
  <2>4. /\ flex_runs' \in Seq(Run) /\ Flexed' = Flexed \cup (from .. cursor' - 1)
    <3>1. flex_runs' = Append(flex_runs, r)
      BY <1>12, <2>r
    <3>2. /\ flex_runs' \in Seq(Run) /\ DOMAIN flex_runs' = DOMAIN flex_runs \cup {Len(flex_runs) + 1}
          /\ \A i \in DOMAIN flex_runs : flex_runs'[i] = flex_runs[i]
          /\ flex_runs'[Len(flex_runs) + 1] = r
      BY <2>2, <2>3, <3>1
    <3>3. QED
      BY <2>2, <3>2 DEF Flexed
  <2>5. cursor' <= group_start(l + GroupsPerFlex)
    <3>1. slot = M
      BY <1>2, <1>3, <1>12
    <3>2. PICK c \in Nat : c = cursor'
      BY <1>2
    <3>3. Cardinality({b \in SpanRoom : b < c}) <= 2 * Members + 2 * input.itable * Members
      BY <1>m, <1>8, <3>1, <3>2, Zenon
    <3>4. c <= input.blocks
      BY <1>2, <3>2
    <3>5. QED
      BY <1>l, <1>1, <1>3, <3>2, <3>3, <3>4, SpanEnds
  <2>6. SpanShape'
    <3>1. Len(group_meta)' = Finished'
      <4>1. Finished' = IF l + GroupsPerFlex <= groups THEN l + GroupsPerFlex ELSE groups
        BY <2>1 DEF Finished
      <4>2. QED
        BY <1>2, <1>3, <4>1
    <3>2. QED
      BY <1>2, <2>1, <2>4, <3>1 DEF SpanShape
  <2>7. MetaCovered'
    <3>1. OpenBlocks' = {}
      BY <2>1 DEF OpenBlocks
    <3>2. \A g \in DOMAIN group_meta' : MetaBlocks(g)' \subseteq Flexed' \cup OpenBlocks'
      BY <1>2, <1>7, <2>4
    <3>3. \A b \in Flexed' : b < group_start(l + GroupsPerFlex)
      <4>1. group_start(l) <= group_start(l + GroupsPerFlex) /\ group_start(l + GroupsPerFlex) \in Nat
        <5>1. l + GroupsPerFlex \in Nat /\ l <= l + GroupsPerFlex
          BY <1>2, <1>3
        <5>2. QED
          BY <1>1, <1>2, <5>1, GroupStarts, StartType
      <4>2. ASSUME NEW b \in Flexed PROVE b \in Nat
        <5>1. PICK i \in DOMAIN flex_runs : b \in BlocksOf(flex_runs[i])
          BY DEF Flexed
        <5>2. flex_runs[i] \in Run
          BY <2>3, <5>1
        <5>3. QED
          BY <5>1, <5>2 DEF Run, BlocksOf, RunEnd
      <4>3. ASSUME NEW b \in Flexed PROVE b < group_start(l + GroupsPerFlex)
        BY <1>5, <1>9, <4>1, <4>2
      <4>4. ASSUME NEW b \in from .. cursor' - 1 PROVE b < group_start(l + GroupsPerFlex)
        BY <1>2, <1>5, <2>5, <4>1
      <4>5. QED
        BY <2>4, <4>3, <4>4
    <3>4. group_start(leader)' = group_start(l + GroupsPerFlex)
      BY <1>1, <2>1 DEF group_start
    <3>5. QED
      BY <3>1, <3>2, <3>3, <3>4 DEF MetaCovered
  <2>8. SpanIsShort'
    BY <2>1 DEF SpanIsShort
  <2>9. input' \in Inputs /\ pc' \in Phases /\ span' \in Nat /\ slot' \in Nat /\ cursor' \in Nat
    BY <1>1, <1>2, <1>3, <1>12 DEF Phases
  <2>10. QED
    BY <1>5, <1>10, <2>6, <2>7, <2>8, <2>9 DEF IInv, SpanInv
<1>13. QED
  BY <1>1, <1>11, <1>12

-----------------------------------------------------------------------------
(* Lists of runs. *)

LEMMA RunType ==
  ASSUME NEW r \in Run
  PROVE  BlocksOf(r) \in SUBSET Nat
BY DEF Run, BlocksOf, RunEnd

LEMMA NoRuns == <<>> \in Seq(Run) /\ RunsApart(<<>>) /\ Given(<<>>) = {}
BY DEF RunsApart, Given

LEMMA TilesGive ==
  ASSUME NEW runs, NEW S, Tiles(runs, S)
  PROVE  runs \in Seq(Run) /\ RunsApart(runs) /\ Given(runs) = S
<1>1. /\ runs \in Seq(Run)
      /\ \A i \in DOMAIN runs : BlocksOf(runs[i]) \in SUBSET S
      /\ \A i, j \in DOMAIN runs : i < j => RunEnd(runs[i]) <= runs[j].start
      /\ \A c \in S : \E i \in DOMAIN runs : c \in BlocksOf(runs[i])
  BY DEF Tiles
<1>2. Given(runs) = S
  BY <1>1 DEF Given
<1>3. ASSUME NEW i \in DOMAIN runs, NEW j \in DOMAIN runs, i < j
      PROVE  BlocksOf(runs[i]) \cap BlocksOf(runs[j]) = {}
  <2>1. runs[i] \in Run /\ runs[j] \in Run /\ RunEnd(runs[i]) <= runs[j].start
    BY <1>1, <1>3
  <2>2. /\ runs[i].start \in Nat /\ runs[j].start \in Nat /\ RunEnd(runs[i]) \in Nat /\ RunEnd(runs[j]) \in Nat
    BY <2>1 DEF Run, RunEnd
  <2>3. QED
    BY <2>1, <2>2 DEF BlocksOf
<1>4. \A i, j \in DOMAIN runs : i \in Nat /\ j \in Nat
  BY <1>1
<1>5. ASSUME NEW i \in DOMAIN runs, NEW j \in DOMAIN runs, i # j
      PROVE  BlocksOf(runs[i]) \cap BlocksOf(runs[j]) = {}
  <2>1. i < j \/ j < i
    BY <1>4, <1>5
  <2>2. QED
    BY <1>3, <2>1
<1>6. QED
  BY <1>1, <1>2, <1>5 DEF RunsApart

\* An index into s \o t is one into s or into t.
LEMMA IndexOfAppended ==
  ASSUME NEW A, NEW s \in Seq(A), NEW t \in Seq(A), NEW i \in DOMAIN (s \o t)
  PROVE  \/ i \in DOMAIN s /\ (s \o t)[i] = s[i]
         \/ \E k \in DOMAIN t : i = Len(s) + k /\ (s \o t)[i] = t[k]
<1>1. Len(s) \in Nat /\ Len(t) \in Nat
  OBVIOUS
<1>2. CASE i \in 1 .. Len(s)
  BY <1>2, Appended
<1>3. CASE i \notin 1 .. Len(s)
  <2>1. PICK k : k = i - Len(s)
    OBVIOUS
  <2>2. i \in 1 .. Len(s) + Len(t)
    BY Appended
  <2>3. k \in 1 .. Len(t) /\ i = Len(s) + k
    BY <1>1, <1>3, <2>1, <2>2
  <2>4. (s \o t)[Len(s) + k] = t[k] /\ k \in DOMAIN t
    BY <2>3, Appended
  <2>5. QED
    BY <2>3, <2>4
<1>4. QED
  BY <1>2, <1>3

LEMMA GivenByBoth ==
  ASSUME NEW s \in Seq(Run), NEW t \in Seq(Run)
  PROVE  Given(s \o t) = Given(s) \cup Given(t)
<1>1. ASSUME NEW b \in Given(s \o t) PROVE b \in Given(s) \cup Given(t)
  <2>1. PICK i \in DOMAIN (s \o t) : b \in BlocksOf((s \o t)[i])
    BY DEF Given
  <2>2. \/ i \in DOMAIN s /\ (s \o t)[i] = s[i]
        \/ \E k \in DOMAIN t : i = Len(s) + k /\ (s \o t)[i] = t[k]
    BY IndexOfAppended
  <2>3. QED
    BY <2>1, <2>2 DEF Given
<1>2. ASSUME NEW i \in DOMAIN s PROVE BlocksOf(s[i]) \subseteq Given(s \o t)
  <2>1. i \in DOMAIN (s \o t) /\ (s \o t)[i] = s[i]
    <3>1. Len(s) \in Nat /\ Len(t) \in Nat /\ i \in 1 .. Len(s)
      OBVIOUS
    <3>2. i \in 1 .. Len(s) + Len(t)
      BY <3>1
    <3>3. QED
      BY <3>1, <3>2, Appended
  <2>2. QED
    BY <2>1 DEF Given
<1>3. ASSUME NEW i \in DOMAIN t PROVE BlocksOf(t[i]) \subseteq Given(s \o t)
  <2>1. Len(s) + i \in DOMAIN (s \o t) /\ (s \o t)[Len(s) + i] = t[i]
    <3>1. Len(s) \in Nat /\ Len(t) \in Nat /\ i \in 1 .. Len(t)
      OBVIOUS
    <3>2. Len(s) + i \in 1 .. Len(s) + Len(t)
      BY <3>1
    <3>3. QED
      BY <3>1, <3>2, Appended
  <2>2. QED
    BY <2>1 DEF Given
<1>4. QED
  BY <1>1, <1>2, <1>3 DEF Given

LEMMA BothApart ==
  ASSUME NEW s \in Seq(Run), NEW t \in Seq(Run), RunsApart(s), RunsApart(t), Given(s) \cap Given(t) = {}
  PROVE  RunsApart(s \o t)
<1>1. SUFFICES ASSUME NEW i \in DOMAIN (s \o t), NEW j \in DOMAIN (s \o t), i # j
               PROVE  BlocksOf((s \o t)[i]) \cap BlocksOf((s \o t)[j]) = {}
  BY DEF RunsApart
<1>2. \A k \in DOMAIN s, m \in DOMAIN t : BlocksOf(s[k]) \cap BlocksOf(t[m]) = {}
  BY DEF Given
<1>3. \/ i \in DOMAIN s /\ (s \o t)[i] = s[i]
      \/ \E k \in DOMAIN t : i = Len(s) + k /\ (s \o t)[i] = t[k]
  BY IndexOfAppended
<1>4. \/ j \in DOMAIN s /\ (s \o t)[j] = s[j]
      \/ \E m \in DOMAIN t : j = Len(s) + m /\ (s \o t)[j] = t[m]
  BY IndexOfAppended
<1>5. QED
  BY <1>1, <1>2, <1>3, <1>4 DEF RunsApart

\* One more list of runs, out of new room.
Extended(old, n, t, new) == new[n] = old[n] \o t /\ \A k \in 1 .. 5 : k # n => new[k] = old[k]

LEMMA ExtendOne ==
  ASSUME NEW old, NEW A, OutIn(old, A), NEW t \in Seq(Run), RunsApart(t), NEW B, Given(t) \subseteq B,
         A \cap B = {}, NEW n \in 1 .. 5, NEW new, Extended(old, n, t, new)
  PROVE  OutIn(new, A \cup B)
<1>0. new[n] = old[n] \o t /\ \A k \in 1 .. 5 : k # n => new[k] = old[k]
  BY DEF Extended
<1>1. ASSUME NEW k \in 1 .. 5
      PROVE  /\ old[k] \in Seq(Run) /\ RunsApart(old[k]) /\ Given(old[k]) \subseteq A
             /\ \A l \in 1 .. 5 : k # l => Given(old[k]) \cap Given(old[l]) = {}
  BY DEF OutIn
<1>2. /\ new[n] \in Seq(Run) /\ RunsApart(new[n]) /\ Given(new[n]) = Given(old[n]) \cup Given(t)
  <2>1. old[n] \o t \in Seq(Run)
    BY <1>1, Appended
  <2>2. Given(old[n]) \cap Given(t) = {}
    BY <1>1
  <2>3. RunsApart(old[n] \o t) /\ Given(old[n] \o t) = Given(old[n]) \cup Given(t)
    BY <1>1, <2>2, BothApart, GivenByBoth
  <2>4. QED
    BY <1>0, <2>1, <2>3
<1>3. ASSUME NEW k \in 1 .. 5
      PROVE  new[k] \in Seq(Run) /\ RunsApart(new[k]) /\ Given(new[k]) \subseteq A \cup B
  <2>1. CASE k = n
    BY <1>1, <1>2, <2>1
  <2>2. CASE k # n
    BY <1>0, <1>1, <2>2
  <2>3. QED
    BY <2>1, <2>2
<1>4. ASSUME NEW k \in 1 .. 5, NEW l \in 1 .. 5, k # l
      PROVE  Given(new[k]) \cap Given(new[l]) = {}
  <2>1. /\ Given(old[k]) \cap Given(old[l]) = {} /\ Given(old[k]) \subseteq A /\ Given(old[l]) \subseteq A
    BY <1>1, <1>4
  <2>2. CASE k = n
    <3>1. Given(new[l]) = Given(old[l]) /\ Given(new[k]) = Given(old[k]) \cup Given(t)
      BY <1>0, <1>2, <1>4, <2>2
    <3>2. QED
      BY <2>1, <3>1
  <2>3. CASE l = n
    <3>1. Given(new[k]) = Given(old[k]) /\ Given(new[l]) = Given(old[l]) \cup Given(t)
      BY <1>0, <1>2, <1>4, <2>3
    <3>2. QED
      BY <2>1, <3>1
  <2>4. CASE k # n /\ l # n
    BY <1>0, <2>1, <2>4
  <2>5. QED
    BY <2>2, <2>3, <2>4
<1>5. QED
  BY <1>3, <1>4 DEF OutIn

LEMMA MoreRoom ==
  ASSUME NEW lists, NEW A, OutIn(lists, A), NEW B, A \subseteq B
  PROVE  OutIn(lists, B)
BY DEF OutIn
-----------------------------------------------------------------------------
(* What is placed for one inode. *)

LEMMA LowestIsPart ==
  ASSUME NEW S, NEW n
  PROVE  Lowest(n, S) \in SUBSET S
BY DEF Lowest

LEMMA SinglesFacts ==
  ASSUME NEW S \in SUBSET Nat, IsFiniteSet(S)
  PROVE  Singles(S) \in Seq(Run) /\ RunsApart(Singles(S)) /\ Given(Singles(S)) = S
<1>1. Tiles(RunsOf(S, {}, 1), S)
  BY RunsTile
<1>2. QED
  BY <1>1, TilesGive DEF Singles

\* Blocks the cursor has not passed before and has afterwards.
NewRoom(to) == {b \in FreeFrom(cursor, AllReserved) : b < to}

LEMMA PlaceFacts ==
  ASSUME input \in Inputs, cursor \in Nat, NEW acl, NEW sizes, NEW p, p = Place(acl, sizes)
  PROVE  /\ p.cursor \in Nat /\ cursor <= p.cursor
         /\ p.runs \in Seq(Run) /\ RunsApart(p.runs)
         /\ Singles(p.front) \in Seq(Run) /\ RunsApart(Singles(p.front))
         /\ Singles(p.tree) \in Seq(Run) /\ RunsApart(Singles(p.tree))
         /\ Given(p.runs) \subseteq NewRoom(p.cursor)
         /\ Given(Singles(p.front)) \subseteq NewRoom(p.cursor)
         /\ Given(Singles(p.tree)) \subseteq NewRoom(p.cursor)
         /\ Given(p.runs) \cap Given(Singles(p.front)) = {}
         /\ Given(p.runs) \cap Given(Singles(p.tree)) = {}
         /\ Given(Singles(p.front)) \cap Given(Singles(p.tree)) = {}
         /\ Given(Singles(p.front)) = p.front /\ Given(Singles(p.tree)) = p.tree
<1>1. PICK free : free = FreeFrom(cursor, AllReserved)
  OBVIOUS
<1>2. PICK front : front = Lowest(IF acl THEN 1 ELSE 0, free)
  OBVIOUS
<1>3. PICK body : body = Lowest(Total(sizes), free \ front)
  OBVIOUS
<1>4. PICK firsts : firsts = {Nth(body, 1 + SumOf(sizes, 1 .. k - 1)) : k \in DOMAIN sizes}
  OBVIOUS
<1>5. PICK runs : runs = IF Total(sizes) <= Cardinality(free) - Cardinality(front)
                         THEN RunsOf(body, firsts, MaxExtent) ELSE <<>>
  OBVIOUS
<1>6. PICK tree : tree = Lowest(TreeBlocks(Len(runs)), free \ (front \cup body))
  OBVIOUS
<1>7. PICK taken : taken = front \cup body \cup tree
  OBVIOUS
<1>8. /\ p.front = front /\ p.runs = runs /\ p.tree = tree
      /\ p.cursor = IF taken = {} THEN cursor ELSE Max(taken) + 1
  BY <1>1, <1>2, <1>3, <1>4, <1>5, <1>6, <1>7 DEF Place
<1>9. /\ free \in SUBSET Nat /\ IsFiniteSet(free)
      /\ \A b \in free : cursor <= b
  BY <1>1, FreeType
<1>10. /\ front \in SUBSET free /\ body \in SUBSET (free \ front)
       /\ tree \in SUBSET (free \ (front \cup body))
  BY <1>2, <1>3, <1>6, LowestIsPart, Zenon
<1>11. taken \in SUBSET free
  BY <1>7, <1>10
<1>12. IsFiniteSet(front) /\ IsFiniteSet(body) /\ IsFiniteSet(tree) /\ IsFiniteSet(taken)
  <2>1. body \in SUBSET free /\ tree \in SUBSET free
    BY <1>10
  <2>2. QED
    BY <1>9, <1>10, <1>11, <2>1, FS_Subset, Zenon
<1>13. runs \in Seq(Run) /\ RunsApart(runs) /\ Given(runs) \subseteq body
  <2>1. MaxExtent \in Nat \ {0} /\ body \in SUBSET Nat
    BY <1>9, <1>10, Parameters
  <2>2. Tiles(RunsOf(body, firsts, MaxExtent), body)
    BY <1>12, <2>1, RunsTile
  <2>3. /\ RunsOf(body, firsts, MaxExtent) \in Seq(Run) /\ RunsApart(RunsOf(body, firsts, MaxExtent))
        /\ Given(RunsOf(body, firsts, MaxExtent)) = body
    BY <2>2, TilesGive, Zenon
  <2>4. CASE runs = RunsOf(body, firsts, MaxExtent)
    BY <2>3, <2>4
  <2>5. CASE runs = <<>>
    BY <2>5, NoRuns
  <2>6. QED
    BY <1>5, <2>4, <2>5
<1>14. /\ Singles(front) \in Seq(Run) /\ RunsApart(Singles(front)) /\ Given(Singles(front)) = front
       /\ Singles(tree) \in Seq(Run) /\ RunsApart(Singles(tree)) /\ Given(Singles(tree)) = tree
  <2>1. front \in SUBSET Nat /\ tree \in SUBSET Nat
    BY <1>9, <1>10
  <2>2. QED
    BY <1>12, <2>1, SinglesFacts
<1>15. p.cursor \in Nat /\ cursor <= p.cursor /\ \A b \in taken : b < p.cursor
  <2>1. CASE taken = {}
    BY <1>8, <2>1
  <2>2. CASE taken # {}
    <3>1. taken \in SUBSET Nat
      BY <1>9, <1>11
    <3>2. PICK m : m = Max(taken)
      OBVIOUS
    <3>3. m \in taken /\ \A b \in taken : b <= m
      BY <1>12, <2>2, <3>1, <3>2, Extrema
    <3>4. p.cursor = m + 1
      BY <1>8, <2>2, <3>2
    <3>5. m \in Nat /\ cursor <= m
      BY <1>9, <1>11, <3>1, <3>3
    <3>6. QED
      BY <3>1, <3>3, <3>4, <3>5
  <2>3. QED
    BY <2>1, <2>2
<1>16. taken \subseteq NewRoom(p.cursor)
  BY <1>1, <1>11, <1>15 DEF NewRoom
<1>17. /\ body \subseteq NewRoom(p.cursor) /\ front \subseteq NewRoom(p.cursor)
       /\ tree \subseteq NewRoom(p.cursor)
  BY <1>7, <1>16
<1>18. body \cap front = {} /\ body \cap tree = {} /\ front \cap tree = {}
  BY <1>10
<1>19. /\ Given(p.runs) \subseteq body /\ Given(Singles(p.front)) = front
       /\ Given(Singles(p.tree)) = tree /\ p.front = front /\ p.tree = tree
  BY <1>8, <1>13, <1>14
<1>20. /\ p.runs \in Seq(Run) /\ RunsApart(p.runs)
       /\ Singles(p.front) \in Seq(Run) /\ RunsApart(Singles(p.front))
       /\ Singles(p.tree) \in Seq(Run) /\ RunsApart(Singles(p.tree))
  BY <1>8, <1>13, <1>14
<1>21. QED
  BY <1>15, <1>17, <1>18, <1>19, <1>20

\* One more list in one of the first four, and one in the last.
BothExtended(old, n, t, s, new) ==
  /\ new[n] = old[n] \o t /\ new[5] = old[5] \o s
  /\ \A k \in 1 .. 4 : k # n => new[k] = old[k]

LEMMA ExtendTwo ==
  ASSUME NEW old, NEW A, OutIn(old, A),
         NEW t \in Seq(Run), RunsApart(t), NEW s \in Seq(Run), RunsApart(s), Given(t) \cap Given(s) = {},
         NEW B, Given(t) \subseteq B, Given(s) \subseteq B, A \cap B = {},
         NEW n \in 1 .. 4, NEW new, BothExtended(old, n, t, s, new)
  PROVE  OutIn(new, A \cup B)
<1> DEFINE mid == [k \in 1 .. 5 |-> IF k = n THEN old[n] \o t ELSE old[k]]
<1>1. n \in 1 .. 5 /\ n # 5 /\ 5 \in 1 .. 5
  OBVIOUS
<1>2. Extended(old, n, t, mid)
  BY <1>1 DEF Extended
<1>3. Extended(mid, 5, s, new)
  <2>1. mid[5] = old[5]
    BY <1>1
  <2>2. ASSUME NEW k \in 1 .. 5, k # 5 PROVE new[k] = mid[k]
    <3>1. k \in 1 .. 4
      BY <2>2
    <3>2. QED
      BY <3>1 DEF BothExtended
  <2>3. QED
    BY <2>1, <2>2 DEF Extended, BothExtended
<1> HIDE DEF mid
<1>4. Given(t) \subseteq Given(t) /\ A \cap Given(t) = {}
  OBVIOUS
<1>5. OutIn(mid, A \cup Given(t))
  BY <1>1, <1>2, <1>4, ExtendOne
<1>6. Given(s) \subseteq Given(s) /\ (A \cup Given(t)) \cap Given(s) = {}
  OBVIOUS
<1>7. OutIn(new, (A \cup Given(t)) \cup Given(s))
  BY <1>1, <1>3, <1>5, <1>6, ExtendOne
<1>8. (A \cup Given(t)) \cup Given(s) \subseteq A \cup B
  OBVIOUS
<1>9. QED
  BY <1>7, <1>8, MoreRoom
-----------------------------------------------------------------------------
(* The steps of the second allocator. *)

LEMMA SameSpan ==
  ASSUME SpanInv, UNCHANGED <<input, span, inVars>>, pc # "itables", pc' # "itables"
  PROVE  SpanInv' /\ AllReserved' = AllReserved
<1>1. /\ input' = input /\ span' = span /\ group_meta' = group_meta /\ flex_runs' = flex_runs
      /\ ~Open /\ ~Open'
  BY DEF inVars, Open
<1>2. /\ SuperRuns' = SuperRuns /\ FreeFrom(0, SuperRuns)' = FreeFrom(0, SuperRuns)
      /\ leader' = leader /\ Finished' = Finished
      /\ \A g : group_start(g)' = group_start(g)
  BY <1>1, SameGeometry
<1>3. /\ \A g : TableBlocks(g)' = TableBlocks(g)
      /\ \A g : MetaBlocks(g)' = MetaBlocks(g)
  <2>1. Tables' = Tables
    BY <1>1 DEF Tables
  <2>2. \A g : TableBlocks(g)' = TableBlocks(g)
    BY <1>1, <2>1 DEF TableBlocks
  <2>3. QED
    BY <1>1, <2>2 DEF MetaBlocks
<1>4. Flexed' = Flexed /\ OpenBlocks' = {} /\ OpenBlocks = {}
  BY <1>1 DEF Flexed, OpenBlocks
<1>5. AllReserved' = AllReserved
  BY <1>1, <1>2 DEF AllReserved
<1>6. SpanShape'
  BY <1>1, <1>2 DEF SpanInv, SpanShape
<1>7. MetaApart'
  BY <1>1, <1>2, <1>3 DEF SpanInv, MetaApart
<1>8. MetaCovered'
  <2>1. /\ \A g \in DOMAIN group_meta : MetaBlocks(g) \subseteq Flexed \cup OpenBlocks
        /\ \A b \in Flexed : b < group_start(leader)
    BY DEF SpanInv, MetaCovered
  <2>2. group_start(leader)' = group_start(leader)
    BY <1>1, <1>2 DEF group_start
  <2>3. \A g \in DOMAIN group_meta' : MetaBlocks(g)' \subseteq Flexed' \cup OpenBlocks'
    BY <1>1, <1>3, <1>4, <2>1
  <2>4. \A b \in Flexed' : b < group_start(leader)'
    BY <1>4, <2>1, <2>2
  <2>5. \A b \in OpenBlocks' : group_start(leader)' <= b
    BY <1>4
  <2>6. QED
    BY <2>3, <2>4, <2>5 DEF MetaCovered
<1>9. SpanIsShort'
  BY <1>1 DEF SpanIsShort
<1>10. QED
  BY <1>5, <1>6, <1>7, <1>8, <1>9 DEF SpanInv

\* Blocks given out now were not given out before.
LEMMA RoomGrows ==
  ASSUME input \in Inputs, cursor \in Nat, cursor' \in Nat, cursor <= cursor',
         input' = input, AllReserved' = AllReserved
  PROVE  /\ PassedRoom \cup NewRoom(cursor') \subseteq PassedRoom'
         /\ PassedRoom \cap NewRoom(cursor') = {}
<1>1. /\ FreeFrom(0, AllReserved) \in SUBSET Nat
      /\ \A b \in FreeFrom(cursor, AllReserved) : b \in FreeFrom(0, AllReserved) /\ cursor <= b
  BY FreeType
<1>2. PassedRoom' = {b \in FreeFrom(0, AllReserved) : b < cursor'}
  <2>1. FreeFrom(0, AllReserved)' = FreeFrom(0, AllReserved)
    BY DEF FreeFrom
  <2>2. QED
    BY <2>1 DEF PassedRoom
<1>3. QED
  BY <1>1, <1>2 DEF PassedRoom, NewRoom

\* A step of the second allocator, from what it adds to the lists.
LEMMA MoreIsGiven ==
  ASSUME IInv, pc \in Phases \ Early, pc' \in Phases \ (Early \cup {"journal"}),
         pc' = "lost_found" => lf_runs' = <<>>,
         UNCHANGED <<input, span, inVars>>, slot' \in Nat, cursor' \in Nat, cursor <= cursor',
         OutIn(Out, PassedRoom) /\ PassedRoom \cap NewRoom(cursor') = {}
           => OutIn(Out', PassedRoom \cup NewRoom(cursor'))
  PROVE  IInv'
<1>1. /\ input \in Inputs /\ span \in Nat /\ cursor \in Nat /\ SpanInv /\ OutInv
      /\ input' = input /\ span' = span
      /\ pc # "itables" /\ pc' # "itables" /\ pc \notin Early /\ pc' \notin Early \cup {"journal"}
  BY DEF IInv, Phases, Early
<1>2. SpanInv' /\ AllReserved' = AllReserved
  BY <1>1, SameSpan
<1>3. /\ PassedRoom \cup NewRoom(cursor') \subseteq PassedRoom'
      /\ PassedRoom \cap NewRoom(cursor') = {}
  BY <1>1, <1>2, RoomGrows
<1>4. OutIn(Out, PassedRoom)
  BY <1>1 DEF OutInv
<1>5. OutIn(Out', PassedRoom \cup NewRoom(cursor'))
  BY <1>3, <1>4
<1>6. OutIn(Out', PassedRoom')
  BY <1>3, <1>5, MoreRoom
<1>7. OutInv'
  BY <1>1, <1>6 DEF OutInv
<1>8. QED
  BY <1>1, <1>2, <1>7 DEF IInv

LEMMA CheckGeometryKeeps ==
  ASSUME IInv, CheckGeometry
  PROVE  IInv'
<1>1. /\ input \in Inputs /\ span \in Nat /\ slot \in Nat /\ cursor \in Nat /\ SpanInv /\ OutInv
      /\ pc = "geometry" /\ pc' = "bitmaps" /\ slot' = slot /\ cursor' = cursor
      /\ UNCHANGED <<input, span, inVars>> /\ UNCHANGED outVars
  BY DEF IInv, CheckGeometry
<1>2. SpanInv'
  BY <1>1, SameSpan
<1>3. OutInv'
  BY <1>1, NothingGivenYet DEF Early
<1>4. QED
  BY <1>1, <1>2, <1>3 DEF IInv, Phases

LEMMA SpansDoneKeeps ==
  ASSUME IInv, SpansDone
  PROVE  IInv'
<1>1. /\ input \in Inputs /\ span \in Nat /\ slot \in Nat /\ cursor \in Nat /\ SpanInv /\ OutInv
      /\ pc = "bitmaps" /\ pc' = "journal" /\ slot' = slot /\ cursor' = 0
      /\ UNCHANGED <<input, span, inVars>> /\ UNCHANGED outVars
  BY DEF IInv, SpansDone
<1>2. SpanInv'
  BY <1>1, SameSpan
<1>3. \A k \in 1 .. 5 : Out'[k] = <<>>
  BY <1>1 DEF OutInv, Out, Early, outVars
<1>4. OutIn(Out', PassedRoom')
  BY <1>3, NoRuns DEF OutIn
<1>5. OutInv'
  BY <1>1, <1>3, <1>4 DEF OutInv
<1>6. QED
  BY <1>1, <1>2, <1>5 DEF IInv, Phases

LEMMA MetadataDoneKeeps ==
  ASSUME IInv, MetadataDone \/ Sealed
  PROVE  IInv'
<1>1. /\ input \in Inputs /\ span \in Nat /\ slot \in Nat /\ cursor \in Nat
      /\ pc \in {"metadata", "data"} /\ pc' \in {"data", "sealed"} /\ slot' \in Nat /\ cursor' = cursor
      /\ UNCHANGED <<input, span, inVars>> /\ UNCHANGED outVars
  BY DEF IInv, MetadataDone, Sealed
<1>2. Out' = Out
  BY <1>1 DEF Out, outVars
<1>3. OutIn(Out, PassedRoom) => OutIn(Out', PassedRoom \cup NewRoom(cursor'))
  <2>1. PassedRoom \subseteq PassedRoom \cup NewRoom(cursor')
    OBVIOUS
  <2>2. QED
    BY <1>2, <2>1, MoreRoom
<1>4. pc \in Phases \ Early /\ pc' \in Phases \ (Early \cup {"journal"}) /\ pc' # "lost_found"
  BY <1>1 DEF Phases, Early
<1>5. cursor' \in Nat /\ cursor <= cursor'
  BY <1>1
<1>6. QED
  BY <1>1, <1>3, <1>4, <1>5, MoreIsGiven

\* A step that appends a list for content and one for the tree blocks.
Placed(p) == \E acl, sizes : p = Place(acl, sizes)

LEMMA ContentPlaced ==
  ASSUME input \in Inputs, cursor \in Nat, NEW p, Placed(p),
         NEW old, NEW A, OutIn(old, A), A \cap NewRoom(p.cursor) = {},
         NEW n \in 1 .. 4, NEW new, BothExtended(old, n, p.runs, Singles(p.tree), new)
  PROVE  OutIn(new, A \cup NewRoom(p.cursor))
<1>1. PICK t : t = p.runs
  OBVIOUS
<1>2. PICK s : s = Singles(p.tree)
  OBVIOUS
<1>3. PICK B : B = NewRoom(p.cursor)
  OBVIOUS
<1>4. /\ t \in Seq(Run) /\ RunsApart(t) /\ s \in Seq(Run) /\ RunsApart(s)
      /\ Given(t) \cap Given(s) = {} /\ Given(t) \subseteq B /\ Given(s) \subseteq B
  BY <1>1, <1>2, <1>3, PlaceFacts DEF Placed
<1>5. BothExtended(old, n, t, s, new) /\ A \cap B = {}
  BY <1>1, <1>2, <1>3
<1>6. OutIn(new, A \cup B)
  BY <1>4, <1>5, ExtendTwo
<1>7. QED
  BY <1>3, <1>6

LEMMA PlaceJournalKeeps ==
  ASSUME IInv, PlaceJournal
  PROVE  IInv'
<1>1. PICK p : p = Place(FALSE, <<input.journal>>)
  OBVIOUS
<1>2. /\ input \in Inputs /\ span \in Nat /\ slot \in Nat /\ cursor \in Nat /\ OutInv
      /\ pc = "journal" /\ pc' = "lost_found" /\ slot' = slot /\ cursor' = p.cursor
      /\ UNCHANGED <<input, span, inVars>> /\ journal_runs' = p.runs
      /\ segments' = segments \o Singles(p.tree)
      /\ lf_runs' = lf_runs /\ dir_runs' = dir_runs /\ data_runs' = data_runs
  BY <1>1 DEF IInv, PlaceJournal
<1>3. journal_runs = <<>> /\ lf_runs = <<>>
  BY <1>2 DEF OutInv, Out
<1>4. p.cursor \in Nat /\ cursor <= p.cursor /\ p.runs \in Seq(Run)
  BY <1>1, <1>2, PlaceFacts
<1>5. Out'[1] = Out[1] \o p.runs /\ Out'[5] = Out[5] \o Singles(p.tree)
  BY <1>2, <1>3, <1>4 DEF Out
<1>6. BothExtended(Out, 1, p.runs, Singles(p.tree), Out')
  BY <1>2, <1>5 DEF Out, BothExtended
<1>7. ASSUME OutIn(Out, PassedRoom), PassedRoom \cap NewRoom(p.cursor) = {}
      PROVE  OutIn(Out', PassedRoom \cup NewRoom(p.cursor))
  <2>1. Placed(p)
    BY <1>1, Zenon DEF Placed
  <2>2. 1 \in 1 .. 4
    OBVIOUS
  <2>3. QED
    BY <1>2, <1>6, <1>7, <2>1, <2>2, ContentPlaced
<1>8. pc \in Phases \ Early /\ pc' \in Phases \ (Early \cup {"journal"}) /\ lf_runs' = <<>>
  BY <1>2, <1>3 DEF Phases, Early
<1>9. QED
  BY <1>2, <1>4, <1>7, <1>8, MoreIsGiven

LEMMA PlaceLostFoundKeeps ==
  ASSUME IInv, PlaceLostFound
  PROVE  IInv'
<1>1. PICK p : p = Place(FALSE, <<LostFoundBlocks>>)
  OBVIOUS
<1>2. /\ input \in Inputs /\ span \in Nat /\ cursor \in Nat /\ OutInv
      /\ pc = "lost_found" /\ pc' = "metadata" /\ slot' = 1 /\ cursor' = p.cursor
      /\ UNCHANGED <<input, span, inVars>> /\ lf_runs' = p.runs
      /\ segments' = segments \o Singles(p.tree)
      /\ journal_runs' = journal_runs /\ dir_runs' = dir_runs /\ data_runs' = data_runs
  BY <1>1 DEF IInv, PlaceLostFound
<1>3. lf_runs = <<>>
  BY <1>2 DEF OutInv
<1>4. Placed(p)
  BY <1>1, Zenon DEF Placed
<1>5. p.cursor \in Nat /\ cursor <= p.cursor /\ p.runs \in Seq(Run)
  BY <1>1, <1>2, PlaceFacts
<1>6. Out'[2] = Out[2] \o p.runs /\ Out'[5] = Out[5] \o Singles(p.tree)
  BY <1>2, <1>3, <1>5 DEF Out
<1>7. BothExtended(Out, 2, p.runs, Singles(p.tree), Out')
  BY <1>2, <1>6 DEF Out, BothExtended
<1>8. 2 \in 1 .. 4
  OBVIOUS
<1>9. ASSUME OutIn(Out, PassedRoom), PassedRoom \cap NewRoom(p.cursor) = {}
      PROVE  OutIn(Out', PassedRoom \cup NewRoom(p.cursor))
  BY <1>2, <1>4, <1>7, <1>8, <1>9, ContentPlaced
<1>10. pc \in Phases \ Early /\ pc' \in Phases \ (Early \cup {"journal"}) /\ pc' # "lost_found"
  BY <1>2 DEF Phases, Early
<1>11. slot' \in Nat
  BY <1>2
<1>12. QED
  BY <1>2, <1>5, <1>9, <1>10, <1>11, MoreIsGiven

LEMMA PlaceDataKeeps ==
  ASSUME IInv, PlaceData
  PROVE  IInv'
<1>1. PICK p : p = PlaceOfData
  OBVIOUS
<1>2. /\ input \in Inputs /\ span \in Nat /\ slot \in Nat /\ cursor \in Nat
      /\ pc = "data" /\ pc' = "data" /\ slot' = slot + 1 /\ cursor' = p.cursor
      /\ UNCHANGED <<input, span, inVars>> /\ data_runs' = data_runs \o p.runs
      /\ segments' = segments \o Singles(p.tree)
      /\ journal_runs' = journal_runs /\ lf_runs' = lf_runs /\ dir_runs' = dir_runs
  BY <1>1 DEF IInv, PlaceData
<1>3. Placed(p)
  BY <1>1, Zenon DEF Placed, PlaceOfData
<1>4. p.cursor \in Nat /\ cursor <= p.cursor
  BY <1>2, <1>3, PlaceFacts DEF Placed
<1>5. BothExtended(Out, 4, p.runs, Singles(p.tree), Out')
  BY <1>2 DEF Out, BothExtended
<1>6. 4 \in 1 .. 4
  OBVIOUS
<1>7. ASSUME OutIn(Out, PassedRoom), PassedRoom \cap NewRoom(p.cursor) = {}
      PROVE  OutIn(Out', PassedRoom \cup NewRoom(p.cursor))
  BY <1>2, <1>3, <1>5, <1>6, <1>7, ContentPlaced
<1>8. pc \in Phases \ Early /\ pc' \in Phases \ (Early \cup {"journal"}) /\ pc' # "lost_found"
  BY <1>2 DEF Phases, Early
<1>9. slot' \in Nat
  BY <1>2
<1>10. QED
  BY <1>2, <1>4, <1>7, <1>8, <1>9, MoreIsGiven

\* What an inode's own blocks are: for attributes, and the slow symlink's.
LEMMA OwnBlocks ==
  ASSUME input \in Inputs, cursor \in Nat, NEW p, Placed(p),
         NEW own, NEW content,
         \/ own = Singles(p.front) \o p.runs /\ content = <<>>
         \/ own = Singles(p.front) \o <<>> /\ content \in {p.runs, <<>>}
  PROVE  /\ own \in Seq(Run) /\ RunsApart(own) /\ content \in Seq(Run) /\ RunsApart(content)
         /\ Given(own) \subseteq NewRoom(p.cursor) /\ Given(content) \subseteq NewRoom(p.cursor)
         /\ Given(own) \cap Given(content) = {}
         /\ Given(own) \cap Given(Singles(p.tree)) = {}
         /\ Given(content) \cap Given(Singles(p.tree)) = {}
         /\ Singles(p.tree) \in Seq(Run) /\ RunsApart(Singles(p.tree))
         /\ Given(Singles(p.tree)) \subseteq NewRoom(p.cursor)
<1>1. PICK f : f = Singles(p.front)
  OBVIOUS
<1>2. PICK r : r = p.runs
  OBVIOUS
<1>3. PICK t : t = Singles(p.tree)
  OBVIOUS
<1>4. PICK B : B = NewRoom(p.cursor)
  OBVIOUS
<1>5. /\ f \in Seq(Run) /\ RunsApart(f) /\ r \in Seq(Run) /\ RunsApart(r) /\ t \in Seq(Run) /\ RunsApart(t)
      /\ Given(f) \subseteq B /\ Given(r) \subseteq B /\ Given(t) \subseteq B
      /\ Given(r) \cap Given(f) = {} /\ Given(r) \cap Given(t) = {} /\ Given(f) \cap Given(t) = {}
  BY <1>1, <1>2, <1>3, <1>4, PlaceFacts DEF Placed
<1>6. Given(f) \cap Given(r) = {}
  BY <1>5
<1>7. f \o r \in Seq(Run) /\ RunsApart(f \o r) /\ Given(f \o r) = Given(f) \cup Given(r)
  BY <1>5, <1>6, Appended, BothApart, GivenByBoth
<1>8. f \o <<>> = f
  BY <1>5
<1>9. CASE own = f \o r /\ content = <<>>
  BY <1>3, <1>4, <1>5, <1>7, <1>9, NoRuns
<1>10. CASE own = f \o <<>> /\ content = r
  BY <1>3, <1>4, <1>5, <1>6, <1>8, <1>10
<1>11. CASE own = f \o <<>> /\ content = <<>>
  BY <1>3, <1>4, <1>5, <1>8, <1>11, NoRuns
<1>12. QED
  BY <1>1, <1>2, <1>9, <1>10, <1>11

LEMMA PlaceMetadataKeeps ==
  ASSUME IInv, PlaceMetadata
  PROVE  IInv'
<1>1. PICK p : p = PlaceOfMetadata
  OBVIOUS
<1>2. PICK own : own = Singles(p.front) \o (IF TheInode.kind = "symlink" THEN p.runs ELSE <<>>)
  OBVIOUS
<1>3. PICK content : content = IF TheInode.kind = "dir" THEN p.runs ELSE <<>>
  OBVIOUS
<1>4. PICK tree : tree = Singles(p.tree)
  OBVIOUS
<1>5. PICK B : B = NewRoom(p.cursor)
  OBVIOUS
<1>6. /\ input \in Inputs /\ span \in Nat /\ slot \in Nat /\ cursor \in Nat
      /\ pc = "metadata" /\ pc' = "metadata" /\ slot' = slot + 1 /\ cursor' = p.cursor
      /\ UNCHANGED <<input, span, inVars>> /\ dir_runs' = dir_runs \o content
      /\ segments' = (segments \o own) \o tree
      /\ journal_runs' = journal_runs /\ lf_runs' = lf_runs /\ data_runs' = data_runs
  BY <1>1, <1>2, <1>3, <1>4 DEF IInv, PlaceMetadata
<1>7. Placed(p)
  BY <1>1, Zenon DEF Placed, PlaceOfMetadata
<1>8. p.cursor \in Nat /\ cursor <= p.cursor
  BY <1>6, <1>7, PlaceFacts DEF Placed
<1>9. /\ own \in Seq(Run) /\ RunsApart(own) /\ content \in Seq(Run) /\ RunsApart(content)
      /\ Given(own) \subseteq B /\ Given(content) \subseteq B
      /\ Given(own) \cap Given(content) = {}
      /\ Given(own) \cap Given(tree) = {} /\ Given(content) \cap Given(tree) = {}
      /\ tree \in Seq(Run) /\ RunsApart(tree) /\ Given(tree) \subseteq B
  <2>1. \/ own = Singles(p.front) \o p.runs /\ content = <<>>
        \/ own = Singles(p.front) \o <<>> /\ content \in {p.runs, <<>>}
    BY <1>2, <1>3
  <2>2. QED
    BY <1>4, <1>5, <1>6, <1>7, <2>1, OwnBlocks
<1> DEFINE mid == [k \in 1 .. 5 |-> IF k = 5 THEN segments \o own ELSE Out[k]]
<1>10. Extended(Out, 5, own, mid)
  BY DEF Extended, Out
<1>11. BothExtended(mid, 3, content, tree, Out')
  BY <1>6 DEF BothExtended, Out
<1>12. ASSUME OutIn(Out, PassedRoom), PassedRoom \cap NewRoom(p.cursor) = {}
       PROVE  OutIn(Out', PassedRoom \cup NewRoom(p.cursor))
  <2> HIDE DEF mid
  <2>1. PICK A : A = PassedRoom
    OBVIOUS
  <2>2. A \cap B = {} /\ OutIn(Out, A)
    BY <1>5, <1>12, <2>1
  <2>3. Given(own) \subseteq Given(own) /\ A \cap Given(own) = {} /\ 5 \in 1 .. 5
    BY <1>9, <2>2
  <2>4. OutIn(mid, A \cup Given(own))
    BY <1>9, <1>10, <2>2, <2>3, ExtendOne
  <2>5. /\ Given(content) \subseteq B \ Given(own) /\ Given(tree) \subseteq B \ Given(own)
        /\ (A \cup Given(own)) \cap (B \ Given(own)) = {} /\ 3 \in 1 .. 4
    BY <1>9, <2>2
  <2>6. OutIn(Out', (A \cup Given(own)) \cup (B \ Given(own)))
    BY <1>9, <1>11, <2>4, <2>5, ExtendTwo
  <2>7. (A \cup Given(own)) \cup (B \ Given(own)) \subseteq A \cup B
    BY <1>9
  <2>8. OutIn(Out', A \cup B)
    BY <2>6, <2>7, MoreRoom
  <2>9. QED
    BY <1>5, <2>1, <2>8
<1>13. pc \in Phases \ Early /\ pc' \in Phases \ (Early \cup {"journal"}) /\ pc' # "lost_found"
  BY <1>6 DEF Phases, Early
<1>14. slot' \in Nat
  BY <1>6
<1>15. QED
  BY <1>6, <1>8, <1>12, <1>13, <1>14, MoreIsGiven
-----------------------------------------------------------------------------
(* The invariant. *)

LEMMA AtFirst ==
  ASSUME Init
  PROVE  IInv
<1>1. /\ input \in Inputs /\ pc = "geometry" /\ span = 0 /\ slot = 0 /\ cursor = 0
      /\ group_meta = <<>> /\ flex_runs = <<>>
      /\ journal_runs = <<>> /\ lf_runs = <<>> /\ dir_runs = <<>>
      /\ segments = <<>> /\ data_runs = <<>>
  BY DEF Init
<1>2. OutInv
  BY <1>1 DEF OutInv, Out, Early
<1>3. ~Open /\ OpenBlocks = {} /\ Flexed = {}
  BY <1>1 DEF Open, OpenBlocks, Flexed
<1>4. SpanShape
  <2>1. GroupsPerFlex \in Nat /\ groups \in Nat \ {0}
    BY <1>1, Parameters, GroupsHoldImage
  <2>2. leader = 0
    BY <1>1, <2>1 DEF leader
  <2>3. Finished = 0
    BY <2>1, <2>2 DEF Finished
  <2>4. QED
    BY <1>1, <1>3, <2>3 DEF SpanShape
<1>5. MetaApart
  BY <1>1 DEF MetaApart
<1>6. MetaCovered
  BY <1>1, <1>3 DEF MetaCovered
<1>7. SpanIsShort
  BY <1>3 DEF SpanIsShort
<1>8. QED
  BY <1>1, <1>2, <1>4, <1>5, <1>6, <1>7 DEF IInv, SpanInv, Phases

LEMMA RefusedKeeps ==
  ASSUME IInv, Refused
  PROVE  IInv'
BY DEF IInv, Refused, Phases

LEMMA StutterKeeps ==
  ASSUME IInv, UNCHANGED vars
  PROVE  IInv'
<1>1. /\ input' = input /\ pc' = pc /\ span' = span /\ slot' = slot /\ cursor' = cursor
      /\ group_meta' = group_meta /\ flex_runs' = flex_runs
      /\ journal_runs' = journal_runs /\ lf_runs' = lf_runs /\ dir_runs' = dir_runs
      /\ segments' = segments /\ data_runs' = data_runs
  BY DEF vars, inVars, outVars
<1>2. /\ SuperRuns' = SuperRuns /\ FreeFrom(0, SuperRuns)' = FreeFrom(0, SuperRuns)
      /\ leader' = leader /\ Finished' = Finished /\ Members' = Members /\ SpanRoom' = SpanRoom
      /\ groups' = groups /\ \A g : group_start(g)' = group_start(g)
  BY <1>1, SameGeometry
<1>3. Open' = Open
  BY <1>1 DEF Open
<1>4. /\ \A g : TableBlocks(g)' = TableBlocks(g)
      /\ \A g : MetaBlocks(g)' = MetaBlocks(g)
  <2>1. Tables' = Tables
    BY <1>1, <1>2, <1>3 DEF Tables
  <2>2. \A g : TableBlocks(g)' = TableBlocks(g)
    BY <1>1, <2>1 DEF TableBlocks
  <2>3. QED
    BY <1>1, <2>2 DEF MetaBlocks
<1>5. Flexed' = Flexed /\ OpenBlocks' = OpenBlocks
  BY <1>1, <1>2, <1>3 DEF Flexed, OpenBlocks
<1>6. SpanShape' = SpanShape
  BY <1>1, <1>2, <1>3 DEF SpanShape
<1>7. MetaApart' = MetaApart
  BY <1>1, <1>2, <1>4 DEF MetaApart
<1>8. MetaCovered' = MetaCovered
  <2>1. group_start(leader)' = group_start(leader)
    BY <1>1, <1>2 DEF group_start
  <2>2. QED
    BY <1>1, <1>4, <1>5, <2>1 DEF MetaCovered
<1>9. SpanIsShort' = SpanIsShort
  BY <1>1, <1>2, <1>3 DEF SpanIsShort
<1>10. OutInv' = OutInv
  <2>1. AllReserved' = AllReserved
    BY <1>1, <1>2 DEF AllReserved
  <2>2. PassedRoom' = PassedRoom
    BY <1>1, <2>1 DEF PassedRoom, FreeFrom
  <2>3. Out' = Out
    BY <1>1 DEF Out
  <2>4. QED
    BY <1>1, <2>2, <2>3 DEF OutInv
<1>11. QED
  BY <1>1, <1>6, <1>7, <1>8, <1>9, <1>10 DEF IInv, SpanInv

\* What is marked is of three sorts.
SuperMarks == {<<"super", r.start, r>> : r \in SuperRuns}
MetaMarks ==
  Listed("bb", [g \in DOMAIN group_meta |-> One(group_meta[g].bb)])
    \cup Listed("ib", [g \in DOMAIN group_meta |-> One(group_meta[g].ib)])
    \cup Listed("it", [g \in DOMAIN group_meta |->
                         [start |-> group_meta[g].it, len |-> input.itable]])
OutNames == <<"journal", "lost+found", "dir", "data", "segment">>
OutMarks == UNION {Listed(OutNames[k], Out[k]) : k \in 1 .. 5}

LEMMA ThreeSorts ==
  ASSUME NEW m \in Marked
  PROVE  m \in SuperMarks \/ m \in MetaMarks \/ m \in OutMarks
<1>1. /\ OutNames[1] = "journal" /\ OutNames[2] = "lost+found" /\ OutNames[3] = "dir"
      /\ OutNames[4] = "data" /\ OutNames[5] = "segment"
      /\ Out[1] = journal_runs /\ Out[2] = lf_runs /\ Out[3] = dir_runs
      /\ Out[4] = data_runs /\ Out[5] = segments
  BY DEF OutNames, Out
<1>2. 1 \in 1 .. 5 /\ 2 \in 1 .. 5 /\ 3 \in 1 .. 5 /\ 4 \in 1 .. 5 /\ 5 \in 1 .. 5
  OBVIOUS
<1>3. /\ Listed("journal", journal_runs) \subseteq OutMarks
      /\ Listed("lost+found", lf_runs) \subseteq OutMarks
      /\ Listed("dir", dir_runs) \subseteq OutMarks
      /\ Listed("data", data_runs) \subseteq OutMarks
      /\ Listed("segment", segments) \subseteq OutMarks
  BY <1>1, <1>2 DEF OutMarks
<1>4. QED
  BY <1>3 DEF Marked, SuperMarks, MetaMarks

\* A bitmap, or a table, of a group.
MetaPart(what, g) ==
  IF what = "bb" THEN {group_meta[g].bb}
  ELSE IF what = "ib" THEN {group_meta[g].ib} ELSE TableBlocks(g)

LEMMA MetaMark ==
  ASSUME IInv, pc \in Phases \ Early, NEW m \in MetaMarks
  PROVE  \E what \in {"bb", "ib", "it"}, g \in DOMAIN group_meta :
           m = <<what, g, m[3]>> /\ BlocksOf(m[3]) = MetaPart(what, g)
<1>1. /\ group_meta \in Seq(GroupMeta) /\ ~Open /\ input.itable \in Nat
  <2>1. input \in Inputs /\ SpanShape /\ pc \notin Early
    BY DEF IInv, SpanInv, Phases
  <2>2. input.itable \in Nat
    BY <2>1, Parameters
  <2>3. QED
    BY <2>1, <2>2 DEF SpanShape, Open, Early
<1>2. ASSUME NEW g \in DOMAIN group_meta
      PROVE  /\ group_meta[g].bb \in Nat /\ group_meta[g].ib \in Nat /\ group_meta[g].it \in Nat
             /\ g <= Tables
  <2>1. group_meta[g] \in GroupMeta /\ g \in 1 .. Len(group_meta)
    BY <1>1
  <2>2. Tables = Len(group_meta)
    BY <1>1 DEF Tables
  <2>3. QED
    BY <2>1, <2>2 DEF GroupMeta
<1>3. \A b \in Nat : BlocksOf(One(b)) = {b}
  <2>1. ASSUME NEW b \in Nat PROVE BlocksOf(One(b)) = {b}
    <3>1. One(b).start = b /\ One(b).len = 1
      BY DEF One
    <3>2. BlocksOf(One(b)) = b .. (b + 1) - 1
      BY <3>1 DEF BlocksOf, RunEnd
    <3>3. QED
      BY <3>2
  <2>2. QED
    BY <2>1
<1>4. CASE m \in Listed("bb", [g \in DOMAIN group_meta |-> One(group_meta[g].bb)])
  <2>1. PICK g \in DOMAIN group_meta : m = <<"bb", g, One(group_meta[g].bb)>>
    BY <1>4 DEF Listed
  <2>2. BlocksOf(m[3]) = MetaPart("bb", g) /\ m = <<"bb", g, m[3]>>
    BY <1>2, <1>3, <2>1 DEF MetaPart
  <2>3. QED
    BY <2>2
<1>5. CASE m \in Listed("ib", [g \in DOMAIN group_meta |-> One(group_meta[g].ib)])
  <2>1. PICK g \in DOMAIN group_meta : m = <<"ib", g, One(group_meta[g].ib)>>
    BY <1>5 DEF Listed
  <2>2. BlocksOf(m[3]) = MetaPart("ib", g) /\ m = <<"ib", g, m[3]>>
    BY <1>2, <1>3, <2>1 DEF MetaPart
  <2>3. QED
    BY <2>2
<1>6. CASE m \in Listed("it", [g \in DOMAIN group_meta |->
                                 [start |-> group_meta[g].it, len |-> input.itable]])
  <2>1. PICK g \in DOMAIN group_meta :
          m = <<"it", g, [start |-> group_meta[g].it, len |-> input.itable]>>
    BY <1>6 DEF Listed
  <2>2. /\ m = <<"it", g, m[3]>> /\ m[3].start = group_meta[g].it /\ m[3].len = input.itable
    BY <2>1
  <2>3. BlocksOf(m[3]) = group_meta[g].it .. (group_meta[g].it + input.itable) - 1
    BY <2>2 DEF BlocksOf, RunEnd
  <2>4. TableBlocks(g) = group_meta[g].it .. group_meta[g].it + input.itable - 1
    BY <1>2 DEF TableBlocks
  <2>5. (group_meta[g].it + input.itable) - 1 = group_meta[g].it + input.itable - 1
    BY <1>1, <1>2, SMTT(30)
  <2>6. BlocksOf(m[3]) = MetaPart("it", g)
    BY <2>3, <2>4, <2>5 DEF MetaPart
  <2>7. QED
    BY <2>2, <2>6
<1>7. QED
  BY <1>4, <1>5, <1>6 DEF MetaMarks

LEMMA OutMark ==
  ASSUME NEW m \in OutMarks
  PROVE  \E k \in 1 .. 5 : \E i \in DOMAIN Out[k] : m = <<OutNames[k], i, m[3]>> /\ m[3] = Out[k][i]
<1>1. PICK k \in 1 .. 5 : m \in Listed(OutNames[k], Out[k])
  BY DEF OutMarks
<1>2. PICK i \in DOMAIN Out[k] : m = <<OutNames[k], i, Out[k][i]>>
  BY <1>1 DEF Listed
<1>3. m[3] = Out[k][i]
  BY <1>2
<1>4. QED
  BY <1>2, <1>3

LEMMA MetaMarksApart ==
  ASSUME IInv, pc \in Phases \ Early, NEW m \in MetaMarks, NEW n \in MetaMarks, m # n
  PROVE  BlocksOf(m[3]) \cap BlocksOf(n[3]) = {}
<1>1. MetaApart
  BY DEF IInv, SpanInv, Phases
<1>2. PICK v \in {"bb", "ib", "it"}, g \in DOMAIN group_meta :
        m = <<v, g, m[3]>> /\ BlocksOf(m[3]) = MetaPart(v, g) /\ m \in MetaMarks
  BY MetaMark
<1>3. PICK w \in {"bb", "ib", "it"}, h \in DOMAIN group_meta :
        n = <<w, h, n[3]>> /\ BlocksOf(n[3]) = MetaPart(w, h) /\ n \in MetaMarks
  BY MetaMark
<1>4. CASE g # h
  <2>1. MetaPart(v, g) \subseteq MetaBlocks(g) /\ MetaPart(w, h) \subseteq MetaBlocks(h)
    BY DEF MetaPart, MetaBlocks
  <2>2. MetaBlocks(g) \cap MetaBlocks(h) = {}
    BY <1>1, <1>4 DEF MetaApart
  <2>3. QED
    BY <1>2, <1>3, <2>1, <2>2
<1>5. CASE g = h
  <2>1. v = w => m[3] = n[3]
    <3>1. SUFFICES ASSUME v = w PROVE m[3] = n[3]
      OBVIOUS
    <3>2. CASE v = "bb"
      BY <1>2, <1>3, <1>5, <3>1, <3>2 DEF MetaMarks, Listed
    <3>3. CASE v = "ib"
      BY <1>2, <1>3, <1>5, <3>1, <3>3 DEF MetaMarks, Listed
    <3>4. CASE v = "it"
      BY <1>2, <1>3, <1>5, <3>1, <3>4 DEF MetaMarks, Listed
    <3>5. QED
      BY <3>2, <3>3, <3>4
  <2>2. v # w
    BY <1>2, <1>3, <1>5, <2>1
  <2>3. /\ group_meta[g].bb # group_meta[g].ib
        /\ {group_meta[g].bb, group_meta[g].ib} \cap TableBlocks(g) = {}
    BY <1>1 DEF MetaApart
  <2>4. MetaPart(v, g) \cap MetaPart(w, g) = {}
    BY <2>2, <2>3 DEF MetaPart
  <2>5. QED
    BY <1>2, <1>3, <1>5, <2>4
<1>6. QED
  BY <1>4, <1>5

LEMMA OutMarksApart ==
  ASSUME OutIn(Out, PassedRoom), NEW m \in OutMarks, NEW n \in OutMarks, m # n
  PROVE  BlocksOf(m[3]) \cap BlocksOf(n[3]) = {}
<1>1. PICK k \in 1 .. 5 : \E i \in DOMAIN Out[k] : m = <<OutNames[k], i, m[3]>> /\ m[3] = Out[k][i]
  BY OutMark
<1>2. PICK i \in DOMAIN Out[k] : m = <<OutNames[k], i, m[3]>> /\ m[3] = Out[k][i]
  BY <1>1
<1>3. PICK l \in 1 .. 5 : \E j \in DOMAIN Out[l] : n = <<OutNames[l], j, n[3]>> /\ n[3] = Out[l][j]
  BY OutMark
<1>4. PICK j \in DOMAIN Out[l] : n = <<OutNames[l], j, n[3]>> /\ n[3] = Out[l][j]
  BY <1>3
<1>5. CASE k # l
  <2>1. BlocksOf(m[3]) \subseteq Given(Out[k]) /\ BlocksOf(n[3]) \subseteq Given(Out[l])
    BY <1>2, <1>4 DEF Given
  <2>2. Given(Out[k]) \cap Given(Out[l]) = {}
    BY <1>5 DEF OutIn
  <2>3. QED
    BY <2>1, <2>2
<1>6. CASE k = l
  <2>1. i # j
    BY <1>2, <1>4, <1>6
  <2>2. RunsApart(Out[k])
    BY DEF OutIn
  <2>3. BlocksOf(Out[k][i]) \cap BlocksOf(Out[k][j]) = {}
    BY <1>6, <2>1, <2>2 DEF RunsApart
  <2>4. QED
    BY <1>2, <1>4, <1>6, <2>3
<1>7. QED
  BY <1>5, <1>6

LEMMA ApartWhenInvariant ==
  ASSUME IInv
  PROVE  MarkedOnce
<1>1. SUFFICES ASSUME pc \in {"journal", "lost_found", "metadata", "data", "sealed"},
                      NEW m \in Marked, NEW n \in Marked, m # n
               PROVE  BlocksOf(m[3]) \cap BlocksOf(n[3]) = {}
  BY DEF MarkedOnce
<1>2. /\ pc \in Phases \ Early /\ pc # "refused" /\ input \in Inputs /\ ~Open
  BY <1>1 DEF Phases, Early, IInv, Open
<1>3. MetaApart /\ MetaCovered /\ OutIn(Out, PassedRoom)
  BY <1>2 DEF IInv, SpanInv, OutInv
<1>4. ASSUME NEW x \in SuperMarks
      PROVE  /\ BlocksOf(x[3]) \cap FreeFrom(0, SuperRuns) = {}
             /\ BlocksOf(x[3]) \cap FreeFrom(0, AllReserved) = {}
             /\ x[3] \in SuperRuns /\ x = <<"super", x[3].start, x[3]>>
  <2>1. PICK r \in SuperRuns : x = <<"super", r.start, r>>
    BY DEF SuperMarks
  <2>2. x[3] = r
    BY <2>1
  <2>3. r \in AllReserved
    BY DEF AllReserved
  <2>4. QED
    BY <2>1, <2>2, <2>3 DEF FreeFrom
<1>5. ASSUME NEW x \in MetaMarks
      PROVE  /\ BlocksOf(x[3]) \subseteq FreeFrom(0, SuperRuns)
             /\ BlocksOf(x[3]) \cap FreeFrom(0, AllReserved) = {}
  <2>1. PICK what \in {"bb", "ib", "it"}, g \in DOMAIN group_meta :
          x = <<what, g, x[3]>> /\ BlocksOf(x[3]) = MetaPart(what, g)
    BY <1>2, MetaMark
  <2>2. MetaPart(what, g) \subseteq MetaBlocks(g)
    BY DEF MetaPart, MetaBlocks
  <2>3. MetaBlocks(g) \subseteq FreeFrom(0, SuperRuns)
    BY <1>3 DEF MetaApart
  <2>4. MetaBlocks(g) \subseteq Flexed
    BY <1>2, <1>3 DEF MetaCovered, OpenBlocks
  <2>5. Flexed \cap FreeFrom(0, AllReserved) = {}
    BY DEF Flexed, FreeFrom, AllReserved
  <2>6. QED
    BY <2>1, <2>2, <2>3, <2>4, <2>5
<1>6. ASSUME NEW x \in OutMarks
      PROVE  BlocksOf(x[3]) \subseteq FreeFrom(0, AllReserved)
  <2>1. PICK k \in 1 .. 5 : \E i \in DOMAIN Out[k] : x = <<OutNames[k], i, x[3]>> /\ x[3] = Out[k][i]
    BY OutMark
  <2>2. BlocksOf(x[3]) \subseteq Given(Out[k])
    BY <2>1 DEF Given
  <2>3. Given(Out[k]) \subseteq PassedRoom /\ PassedRoom \subseteq FreeFrom(0, AllReserved)
    BY <1>3 DEF OutIn, PassedRoom
  <2>4. QED
    BY <2>2, <2>3
<1>7. ASSUME m \in SuperMarks, n \in SuperMarks
      PROVE  BlocksOf(m[3]) \cap BlocksOf(n[3]) = {}
  <2>1. m[3] \in SuperRuns /\ n[3] \in SuperRuns /\ m[3] # n[3]
    BY <1>1, <1>4, <1>7
  <2>2. QED
    BY <1>2, <2>1, SupersApart
<1>8. ASSUME m \in MetaMarks, n \in MetaMarks
      PROVE  BlocksOf(m[3]) \cap BlocksOf(n[3]) = {}
  BY <1>1, <1>2, <1>8, MetaMarksApart
<1>9. ASSUME m \in OutMarks, n \in OutMarks
      PROVE  BlocksOf(m[3]) \cap BlocksOf(n[3]) = {}
  BY <1>1, <1>3, <1>9, OutMarksApart
<1>10. m \in SuperMarks \/ m \in MetaMarks \/ m \in OutMarks
  BY ThreeSorts
<1>11. n \in SuperMarks \/ n \in MetaMarks \/ n \in OutMarks
  BY ThreeSorts
<1>12. QED
  BY <1>4, <1>5, <1>6, <1>7, <1>8, <1>9, <1>10, <1>11

LEMMA StepKeeps ==
  ASSUME IInv, [Next]_vars
  PROVE  IInv'
<1>1. CASE CheckGeometry
  BY <1>1, CheckGeometryKeeps
<1>2. CASE PlaceBitmaps
  BY <1>2, PlaceBitmapsKeeps
<1>3. CASE PlaceTable
  BY <1>3, PlaceTableKeeps
<1>4. CASE SpansDone
  BY <1>4, SpansDoneKeeps
<1>5. CASE PlaceJournal
  BY <1>5, PlaceJournalKeeps
<1>6. CASE PlaceLostFound
  BY <1>6, PlaceLostFoundKeeps
<1>7. CASE PlaceMetadata
  BY <1>7, PlaceMetadataKeeps
<1>8. CASE MetadataDone \/ Sealed
  BY <1>8, MetadataDoneKeeps
<1>9. CASE PlaceData
  BY <1>9, PlaceDataKeeps
<1>10. CASE Refused
  BY <1>10, RefusedKeeps
<1>11. CASE UNCHANGED vars
  BY <1>11, StutterKeeps
<1>12. QED
  BY <1>1, <1>2, <1>3, <1>4, <1>5, <1>6, <1>7, <1>8, <1>9, <1>10, <1>11 DEF Next

\* At every step of seal(), what is placed is free, in the image and apart.
THEOREM Invariance == Spec => []IInv
<1>1. Init => IInv
  BY AtFirst
<1>2. IInv /\ [Next]_vars => IInv'
  BY StepKeeps
<1>3. QED
  BY <1>1, <1>2, PTL DEF Spec

\* "double-alloc": no block is set twice in the bitmap, whatever groups the
\* flex metadata runs into and wherever the superblock copies lie.
THEOREM NoBlockMarkedTwice == Spec => []MarkedOnce
<1>1. IInv => MarkedOnce
  BY ApartWhenInvariant
<1>2. QED
  BY <1>1, Invariance, PTL
-----------------------------------------------------------------------------
(* The layout: sorting. *)

ItemsOf(runs) == {runs[i] : i \in DOMAIN runs}

\* Things with different keys are sorted as one expects.
LEMMA SortedLists ==
  ASSUME NEW S, NEW key, NEW m \in Nat, \A x \in S : x[key] \in 0 .. m,
         \A x, y \in S : x[key] = y[key] => x = y
  PROVE  /\ Sorted(S, key) \in Seq(S) /\ ItemsOf(Sorted(S, key)) = S
         /\ \A i, j \in DOMAIN Sorted(S, key) :
              i < j => Sorted(S, key)[i][key] < Sorted(S, key)[j][key]
<1> DEFINE K == {x[key] : x \in S}
           f == [x \in S |-> x[key]]
           Lesser(x) == {y \in S : y[key] < x[key]}
           Same(x) == {y \in S : y[key] = x[key]}
           q == Sorted(S, key)
<1>1. K \in SUBSET (0 .. m) /\ K \in SUBSET Nat
  OBVIOUS
<1>2. IsFiniteSet(K)
  <2>1. IsFiniteSet(0 .. m)
    BY FS_Interval
  <2> HIDE DEF K
  <2>2. QED
    BY <1>1, <2>1, FS_Subset
<1>3. IsFiniteSet(S) /\ Cardinality(S) = Cardinality(K)
  <2>1. f \in [S -> K] /\ \A x, y \in S : f[x] = f[y] => x = y
    OBVIOUS
  <2>2. \A k \in K : \E x \in S : f[x] = k
    OBVIOUS
  <2> HIDE DEF f, K
  <2>3. f \in Injection(S, K)
    BY <2>1 DEF Injection, IsInjective
  <2>4. IsFiniteSet(S)
    BY <1>2, <2>3, FS_Injection
  <2>5. QED
    BY <2>1, <2>2, <2>4, SameSize
<1>4. ASSUME NEW x \in S
      PROVE  /\ Cardinality(Lesser(x)) = Rank(K, x[key]) /\ Rank(K, x[key]) \in 0 .. Cardinality(S) - 1
             /\ Cardinality(Same(x)) = 1
  <2>1. PICK B : B = Lesser(x)
    OBVIOUS
  <2>2. PICK L : L = Below(K, x[key])
    OBVIOUS
  <2>3. B \in SUBSET S /\ L = {y[key] : y \in B}
    BY <2>1, <2>2 DEF Below
  <2> DEFINE g == [y \in B |-> y[key]]
  <2>4. g \in [B -> L] /\ (\A y, z \in B : g[y] = g[z] => y = z) /\ \A k \in L : \E y \in B : g[y] = k
    BY <2>3
  <2>5. IsFiniteSet(B)
    BY <1>3, <2>3, FS_Subset
  <2> HIDE DEF g, K, Lesser
  <2>6. Cardinality(L) = Cardinality(B)
    BY <2>4, <2>5, SameSize
  <2>7. Cardinality(Lesser(x)) = Rank(K, x[key])
    BY <2>1, <2>2, <2>6 DEF Rank
  <2>8. x[key] \in K
    BY DEF K
  <2>9. Rank(K, x[key]) \in 0 .. Cardinality(S) - 1
    BY <1>1, <1>2, <1>3, <2>8, RankBelowSize
  <2>10. Same(x) = {x}
    OBVIOUS
  <2>11. Cardinality(Same(x)) = 1
    <3> HIDE DEF Same
    <3> QED BY <2>10, FS_Singleton
  <2>12. QED
    BY <2>7, <2>9, <2>11
<1>5. q = [i \in 1 .. Cardinality(S) |->
             CHOOSE x \in S : Cardinality(Lesser(x)) < i /\ i <= Cardinality(Lesser(x)) + Cardinality(Same(x))]
  BY DEF Sorted
<1>6. Cardinality(S) \in Nat
  BY <1>3, FS_CardinalityType
<1>7. DOMAIN q = 1 .. Cardinality(S)
  BY <1>5
<1>8. ASSUME NEW i \in 1 .. Cardinality(S)
      PROVE  q[i] \in S /\ Rank(K, q[i][key]) = i - 1
  <2>1. i - 1 \in 0 .. Cardinality(K) - 1
    BY <1>3, <1>6
  <2>2. PICK k \in K : Rank(K, k) = i - 1
    <3> HIDE DEF K
    <3> QED BY <1>1, <1>2, <2>1, RankIsTaken
  <2>3. PICK y \in S : y[key] = k
    OBVIOUS
  <2> DEFINE P(x) == Cardinality(Lesser(x)) < i /\ i <= Cardinality(Lesser(x)) + Cardinality(Same(x))
  <2>4. P(y)
    <3>1. Cardinality(Lesser(y)) = i - 1 /\ Cardinality(Same(y)) = 1
      BY <1>4, <2>2, <2>3
    <3>2. i \in Int /\ i - 1 < i /\ i <= (i - 1) + 1
      OBVIOUS
    <3>3. QED
      BY <3>1, <3>2
  <2>5. q[i] = CHOOSE x \in S : P(x)
    BY <1>5
  <2> HIDE DEF P
  <2>6. q[i] \in S /\ P(q[i])
    BY <2>4, <2>5
  <2>7. PICK r \in Nat : r = Rank(K, q[i][key])
    <3>1. Rank(K, q[i][key]) \in 0 .. Cardinality(S) - 1
      BY <1>4, <2>6
    <3> HIDE DEF K, q
    <3>2. Rank(K, q[i][key]) \in Nat
      BY <1>6, <3>1
    <3>3. QED
      BY <3>2
  <2>8. r < i /\ i <= r + 1
    <3>1. Cardinality(Lesser(q[i])) = r /\ Cardinality(Same(q[i])) = 1
      BY <1>4, <2>6, <2>7
    <3>2. Cardinality(Lesser(q[i])) < i /\ i <= Cardinality(Lesser(q[i])) + Cardinality(Same(q[i]))
      BY <2>6 DEF P
    <3> HIDE DEF Lesser, Same
    <3>3. QED
      BY <3>1, <3>2
  <2>9. r = i - 1
    BY <2>7, <2>8
  <2>10. QED
    BY <2>6, <2>7, <2>9
<1> HIDE DEF Lesser, Same, f, q
<1>9. q \in Seq(S)
  <2>1. q \in [1 .. Cardinality(S) -> S]
    BY <1>5, <1>8
  <2>2. PICK n \in Nat : n = Cardinality(S)
    BY <1>6
  <2>3. q \in [1 .. n -> S]
    BY <2>1, <2>2
  <2>4. QED
    BY <2>3, SequenceOf
<1>10. ASSUME NEW i \in DOMAIN q, NEW j \in DOMAIN q, i < j PROVE q[i][key] < q[j][key]
  <2>1. /\ q[i] \in S /\ q[j] \in S /\ Rank(K, q[i][key]) = i - 1 /\ Rank(K, q[j][key]) = j - 1
        /\ i \in Int /\ j \in Int
    <3>1. i \in 1 .. Cardinality(S) /\ j \in 1 .. Cardinality(S)
      BY <1>7
    <3>2. i \in Int /\ j \in Int
      BY <1>6, <3>1
    <3>3. QED
      BY <1>8, <3>1, <3>2, Zenon
  <2>2. q[i][key] \in K /\ q[j][key] \in K /\ i - 1 < j - 1
    BY <1>10, <2>1
  <2> HIDE DEF K
  <2>3. QED
    BY <1>1, <1>2, <2>1, <2>2, RankOrders
<1>11. ASSUME NEW x \in S PROVE x \in ItemsOf(q)
  <2>1. PICK r \in 0 .. Cardinality(S) - 1 : r = Rank(K, x[key])
    BY <1>4
  <2>2. r + 1 \in 1 .. Cardinality(S) /\ (r + 1) - 1 = r
    BY <1>6, <2>1
  <2>3. PICK i \in 1 .. Cardinality(S) : i = r + 1
    BY <2>2
  <2>4. q[i] \in S /\ Rank(K, q[i][key]) = r
    BY <1>8, <2>2, <2>3
  <2>5. q[i][key] = x[key]
    <3>1. q[i][key] \in K /\ x[key] \in K
      BY <2>4
    <3>2. Rank(K, x[key]) = Rank(K, q[i][key])
      BY <2>1, <2>4
    <3> HIDE DEF K
    <3>3. QED
      BY <1>1, <1>2, <3>1, <3>2, RankOrders
  <2>6. q[i] = x
    BY <2>4, <2>5
  <2>7. QED
    BY <1>7, <2>3, <2>6 DEF ItemsOf
<1>12. ItemsOf(q) = S
  BY <1>7, <1>8, <1>11 DEF ItemsOf
<1>13. QED
  BY <1>9, <1>10, <1>12 DEF q
-----------------------------------------------------------------------------
(* The layout: files. *)

\* The blocks n units need.
LEMMA CeilOf ==
  ASSUME NEW u \in Nat \ {0}, NEW x \in Nat
  PROVE  /\ CeilDiv(x, u) \in Nat
         /\ u * CeilDiv(x, u) - u < x /\ x <= u * CeilDiv(x, u)
         /\ x % u = 0 => x = u * CeilDiv(x, u)
<1>1. PICK y \in Nat : y = x + u - 1
  OBVIOUS
<1>2. PICK c \in Nat, m \in 0 .. u - 1 : c = y \div u /\ y = u * c + m
  BY QuotientAndRest
<1>3. CeilDiv(x, u) = c
  BY <1>1, <1>2 DEF CeilDiv
<1>4. u * c \in Nat
  OBVIOUS
<1>5. u * c - u < x /\ x <= u * c
  BY <1>1, <1>2, <1>4
<1>6. ASSUME x % u = 0 PROVE x = u * c
  <2>1. PICK e \in Nat : x = u * e
    <3>1. x \div u \in Nat /\ x = u * (x \div u) + (x % u)
      BY QuotientAndRest
    <3>2. PICK e \in Nat : e = x \div u
      BY <3>1
    <3>3. u * e \in Nat /\ x = u * e + 0
      BY <1>6, <3>1, <3>2
    <3>4. QED
      BY <3>3
  <2>2. ~(e < c)
    <3>1. e + 1 <= c => (e + 1) * u <= c * u
      BY TimesKeepsOrder
    <3>2. (e + 1) * u = u * e + u /\ c * u = u * c /\ u * e \in Nat
      OBVIOUS
    <3>3. QED
      BY <1>4, <1>5, <2>1, <3>1, <3>2
  <2>3. ~(c < e)
    <3>1. c + 1 <= e => (c + 1) * u <= e * u
      BY TimesKeepsOrder
    <3>2. (c + 1) * u = u * c + u /\ e * u = u * e
      OBVIOUS
    <3>3. QED
      BY <1>4, <1>5, <2>1, <3>1, <3>2
  <2>4. e = c
    BY <2>2, <2>3
  <2>5. QED
    BY <2>1, <2>4
<1>7. QED
  BY <1>3, <1>4, <1>5, <1>6

\* If only the last segment ends inside a block, the blocks of the segments
\* together are those of the bytes together.
LEMMA BlocksOfBytes ==
  ASSUME NEW L \in Nat, NEW d, \A k \in 1 .. L : d[k] \in Nat \ {0},
         \A k \in 1 .. L - 1 : d[k] % BlockUnits = 0,
         NEW c, \A k \in 1 .. L : c[k] = CeilDiv(d[k], BlockUnits)
  PROVE  /\ SumOf(c, 1 .. L) \in Nat /\ SumOf(d, 1 .. L) \in Nat
         /\ BlockUnits * (SumOf(c, 1 .. L) - 1) < SumOf(d, 1 .. L)
         /\ SumOf(d, 1 .. L) <= BlockUnits * SumOf(c, 1 .. L)
<1>1. PICK u \in Nat \ {0} : u = BlockUnits
  BY BlockUnitsAssumption
<1>2. \A S : SumOf(c, S) = Cardinality(Units(c, S)) /\ SumOf(d, S) = Cardinality(Units(d, S))
  BY DEF SumOf, Units
<1>3. ASSUME NEW k \in 1 .. L
      PROVE  /\ c[k] \in Nat /\ d[k] \in Nat /\ u * c[k] - u < d[k] /\ d[k] <= u * c[k]
             /\ d[k] % u = 0 => d[k] = u * c[k]
  BY <1>1, <1>3, CeilOf
<1>4. CASE L = 0
  <2>1. 1 .. L = {}
    BY <1>4
  <2>2. Units(c, {}) = {} /\ Units(d, {}) = {}
    BY DEF Units
  <2>3. SumOf(c, 1 .. L) = 0 /\ SumOf(d, 1 .. L) = 0
    BY <1>2, <2>1, <2>2, FS_EmptySet
  <2>4. u * (0 - 1) < 0 /\ u * 0 = 0
    OBVIOUS
  <2>5. QED
    BY <1>1, <2>3, <2>4
<1>5. CASE L # 0
  <2> DEFINE rest == 1 .. L - 1
  <2>1. 1 .. L = rest \cup {L} /\ L \notin rest /\ L \in 1 .. L /\ rest \subseteq 1 .. L /\ L - 1 \in Int
    BY <1>5
  <2>2. IsFiniteSet(rest)
    BY <2>1, FS_Interval
  <2>3. \A k \in rest : c[k] \in Nat /\ d[k] = u * c[k]
    BY <1>1, <1>3, <2>1
  <2>4. \A k \in rest \cup {L} : c[k] \in Nat /\ d[k] \in Nat
    BY <1>3, <2>1
  <2> HIDE DEF rest
  <2>5. PICK C \in Nat : C = Cardinality(Units(c, rest))
    BY <2>2, <2>4, UnitsFinite
  <2>6. Cardinality(Units(d, rest)) = u * C
    BY <2>2, <2>3, <2>5, UnitsTimes
  <2>7. SumOf(c, 1 .. L) = C + c[L]
    <3>1. Cardinality(Units(c, rest \cup {L})) = C + c[L]
      BY <2>1, <2>2, <2>4, <2>5, UnitsOfOneMore
    <3>2. QED
      BY <1>2, <2>1, <3>1
  <2>8. SumOf(d, 1 .. L) = u * C + d[L]
    <3>1. Cardinality(Units(d, rest \cup {L})) = u * C + d[L]
      BY <2>1, <2>2, <2>4, <2>6, UnitsOfOneMore
    <3>2. QED
      BY <1>2, <2>1, <3>1
  <2>9. PICK a \in Nat, b \in Nat : a = c[L] /\ b = d[L] /\ u * a - u < b /\ b <= u * a
    BY <1>3, <2>1
  <2>10. u * C \in Nat /\ u * a \in Nat /\ u * (C + a) = u * C + u * a
    OBVIOUS
  <2>11. u * ((C + a) - 1) = u * C + u * a - u
    OBVIOUS
  <2>12. C + a \in Nat /\ u * C + b \in Nat /\ u * ((C + a) - 1) < u * C + b /\ u * C + b <= u * (C + a)
    BY <2>9, <2>10, <2>11
  <2>13. SumOf(c, 1 .. L) = C + a /\ SumOf(d, 1 .. L) = u * C + b
    BY <2>7, <2>8, <2>9
  <2>14. QED
    BY <1>1, <2>12, <2>13
<1>6. QED
  BY <1>4, <1>5

Ascend(runs) == \A i, j \in DOMAIN runs : i < j => RunEnd(runs[i]) <= runs[j].start

LEMMA TotalType ==
  ASSUME NEW sizes \in Seq(Nat)
  PROVE  Total(sizes) \in Nat
<1>1. PICK D : D = DOMAIN sizes
  OBVIOUS
<1>2. IsFiniteSet(D) /\ \A k \in D : sizes[k] \in Nat
  <2>1. D = 1 .. Len(sizes) /\ Len(sizes) \in Nat
    BY <1>1
  <2>2. IsFiniteSet(D)
    BY <2>1, FS_Interval
  <2>3. QED
    BY <1>1, <2>2
<1>3. Cardinality(Units(sizes, D)) \in Nat
  BY <1>2, UnitsFinite
<1>4. QED
  BY <1>1, <1>3 DEF Total, SumOf, Units

\* What fits has all the blocks asked for.
LEMMA PlacedInFull ==
  ASSUME input \in Inputs, cursor \in Nat, NEW acl, NEW sizes \in Seq(Nat), NEW p, p = Place(acl, sizes)
  PROVE  /\ Ascend(p.runs)
         /\ p.fits => Cardinality(Given(p.runs)) = Total(sizes)
<1>1. PICK free : free = FreeFrom(cursor, AllReserved)
  OBVIOUS
<1>2. PICK front : front = Lowest(IF acl THEN 1 ELSE 0, free)
  OBVIOUS
<1>3. PICK rest : rest = free \ front
  OBVIOUS
<1>4. PICK n \in Nat : n = Total(sizes)
  BY TotalType
<1>5. PICK body : body = Lowest(n, rest)
  OBVIOUS
<1>6. PICK firsts : firsts = {Nth(body, 1 + SumOf(sizes, 1 .. k - 1)) : k \in DOMAIN sizes}
  OBVIOUS
<1>7. PICK room : room = Cardinality(free) - Cardinality(front)
  OBVIOUS
<1>8. PICK runs : runs = IF n <= room THEN RunsOf(body, firsts, MaxExtent) ELSE <<>>
  OBVIOUS
<1>9. p.runs = runs /\ (p.fits => n + TreeBlocks(Len(runs)) <= room)
  BY <1>1, <1>2, <1>3, <1>4, <1>5, <1>6, <1>7, <1>8 DEF Place
<1>10. /\ free \in SUBSET Nat /\ IsFiniteSet(free)
  BY <1>1, FreeType
<1>11. front \in SUBSET free
  BY <1>2, LowestIsPart, Zenon
<1>12. rest \in SUBSET Nat /\ IsFiniteSet(rest) /\ Cardinality(rest) = room /\ room \in Nat
  <2>1. IsFiniteSet(rest) /\ Cardinality(rest) = Cardinality(free) - Cardinality(free \cap front)
    BY <1>3, <1>10, FS_Difference
  <2>2. free \cap front = front
    BY <1>11
  <2>3. Cardinality(rest) = room
    BY <1>7, <2>1, <2>2
  <2>4. QED
    BY <1>3, <1>10, <2>1, <2>3, FS_CardinalityType
<1>13. body \in SUBSET Nat /\ IsFiniteSet(body) /\ (n <= room => Cardinality(body) = n)
  <2>1. body \in SUBSET rest
    BY <1>5, LowestIsPart, Zenon
  <2>2. QED
    BY <1>5, <1>12, <2>1, LowestSize
<1>14. Ascend(<<>>)
  BY DEF Ascend
<1>15. CASE n <= room
  <2>1. MaxExtent \in Nat \ {0}
    BY Parameters
  <2>2. Tiles(runs, body)
    <3>1. runs = RunsOf(body, firsts, MaxExtent)
      BY <1>8, <1>15
    <3>2. Tiles(RunsOf(body, firsts, MaxExtent), body)
      BY <1>13, <2>1, RunsTile
    <3>3. QED
      BY <3>1, <3>2, Zenon
  <2>3. Given(runs) = body
    BY <2>2, TilesGive, Zenon
  <2>4. Ascend(runs)
    BY <2>2 DEF Tiles, Ascend
  <2>5. QED
    BY <1>4, <1>9, <1>13, <1>15, <2>3, <2>4
<1>16. CASE ~(n <= room)
  <2>1. runs = <<>>
    BY <1>8, <1>16
  <2>2. TreeBlocks(Len(runs)) = 0
    <3>1. InlineExtents \in Nat
      BY SealAssumption
    <3>2. Len(runs) = 0
      BY <2>1
    <3>3. Leaves(0) = 0 /\ IndexBlocks(0) = 0
      BY <3>1 DEF Leaves, IndexBlocks
    <3>4. QED
      BY <3>2, <3>3 DEF TreeBlocks
  <2>3. ~p.fits
    BY <1>9, <1>12, <1>16, <2>2
  <2>4. QED
    BY <1>9, <1>14, <2>1, <2>3
<1>17. QED
  BY <1>15, <1>16
-----------------------------------------------------------------------------
(* The invariant of the files. *)

\* The files whose data is placed are those before NextFile.
NextFile ==
  IF pc = "data" THEN slot ELSE IF pc = "sealed" THEN Len(input.inodes) + 1 ELSE 1

\* Each of these has as many blocks as its bytes need, ascending, before those
\* of the files after it; together they are the data runs.
FilesPlaced ==
  /\ file_runs \in [Slots -> Seq(Run)]
  /\ NextFile \in Nat \ {0}
  /\ \A s \in Slots : NextFile <= s => file_runs[s] = <<>>
  /\ \A s \in Slots : s < NextFile =>
       Cardinality(Given(file_runs[s])) = Total(DataBlocks(input.inodes[s]))
  /\ \A s \in Slots : Ascend(file_runs[s])
  /\ \A s, t \in Slots : s < t =>
       \A b \in Given(file_runs[s]), c \in Given(file_runs[t]) : b < c
  /\ ItemsOf(data_runs) = UNION {ItemsOf(file_runs[s]) : s \in Slots}
FileInv ==
  pc # "refused" =>
    /\ FilesPlaced
    /\ pc \notin Early \cup {"journal"} => journal_runs # <<>>

LEMMA GivenByItems ==
  ASSUME NEW runs
  PROVE  Given(runs) = UNION {BlocksOf(r) : r \in ItemsOf(runs)}
BY DEF Given, ItemsOf

LEMMA ItemsOfBoth ==
  ASSUME NEW s \in Seq(Run), NEW t \in Seq(Run)
  PROVE  ItemsOf(s \o t) = ItemsOf(s) \cup ItemsOf(t)
<1>1. \A i \in DOMAIN s : i \in DOMAIN (s \o t) /\ (s \o t)[i] = s[i]
  OBVIOUS
<1>2. \A k \in DOMAIN t : Len(s) + k \in DOMAIN (s \o t) /\ (s \o t)[Len(s) + k] = t[k]
  OBVIOUS
<1>3. ASSUME NEW i \in DOMAIN (s \o t) PROVE (s \o t)[i] \in ItemsOf(s) \cup ItemsOf(t)
  BY IndexOfAppended DEF ItemsOf
<1>4. ASSUME NEW i \in DOMAIN s PROVE s[i] \in ItemsOf(s \o t)
  BY <1>1 DEF ItemsOf
<1>5. ASSUME NEW k \in DOMAIN t PROVE t[k] \in ItemsOf(s \o t)
  BY <1>2 DEF ItemsOf
<1>6. PICK A, B, C : A = ItemsOf(s) /\ B = ItemsOf(t) /\ C = ItemsOf(s \o t)
  OBVIOUS
<1>7. A \subseteq C
  BY <1>4, <1>6 DEF ItemsOf
<1>8. B \subseteq C
  BY <1>5, <1>6 DEF ItemsOf
<1>9. C \subseteq A \cup B
  <2>1. ASSUME NEW x \in C PROVE x \in A \cup B
    <3>1. PICK i \in DOMAIN (s \o t) : x = (s \o t)[i]
      BY <1>6 DEF ItemsOf
    <3>2. QED
      BY <1>3, <1>6, <3>1
  <2>2. QED
    BY <2>1
<1>10. QED
  BY <1>6, <1>7, <1>8, <1>9

LEMMA DataSizes ==
  ASSUME input \in Inputs, NEW s \in Slots
  PROVE  /\ input.inodes \in Seq(Inode) /\ s \in Nat \ {0} /\ s <= Len(input.inodes)
         /\ DataBlocks(input.inodes[s]) \in Seq(Nat)
<1>1. input.inodes \in Seq(Inode)
  BY Parameters
<1>2. s \in Nat \ {0} /\ s <= Len(input.inodes) /\ input.inodes[s] \in Inode
  BY <1>1 DEF Slots
<1>3. PICK d : d = input.inodes[s].data
  OBVIOUS
<1>4. d \in Seq(Nat \ {0})
  BY <1>2, <1>3 DEF Inode
<1>5. \A k \in DOMAIN d : CeilDiv(d[k], BlockUnits) \in Nat
  <2>1. \A k \in DOMAIN d : d[k] \in Nat
    BY <1>4
  <2>2. QED
    BY <2>1, BlockUnitsAssumption, CeilOf
<1>6. DataBlocks(input.inodes[s]) = [k \in 1 .. Len(d) |-> CeilDiv(d[k], BlockUnits)]
  BY <1>3, <1>4 DEF DataBlocks
<1>7. PICK m \in Nat : m = Len(d) /\ DOMAIN d = 1 .. m
  BY <1>4
<1>8. DataBlocks(input.inodes[s]) \in [1 .. m -> Nat]
  BY <1>5, <1>6, <1>7
<1>9. QED
  BY <1>1, <1>2, <1>8, SequenceOf

LEMMA FilesAtFirst ==
  ASSUME Init
  PROVE  FileInv
<1>1. /\ input \in Inputs /\ pc = "geometry" /\ data_runs = <<>>
      /\ file_runs = [s \in Slots |-> <<>>]
  BY DEF Init
<1>2. NextFile = 1
  BY <1>1 DEF NextFile
<1>3. \A s \in Slots : s \in Nat \ {0}
  BY <1>1, DataSizes
<1>4. Given(<<>>) = {} /\ ItemsOf(<<>>) = {} /\ Ascend(<<>>) /\ <<>> \in Seq(Run)
  BY DEF Given, ItemsOf, Ascend
<1>5. \A s \in Slots : file_runs[s] = <<>>
  BY <1>1
<1>6. file_runs \in [Slots -> Seq(Run)]
  BY <1>1, <1>4
<1>7. ItemsOf(data_runs) = UNION {ItemsOf(file_runs[s]) : s \in Slots}
  BY <1>1, <1>4, <1>5
<1>8. \A s \in Slots : ~(s < NextFile)
  BY <1>2, <1>3
<1>9. FilesPlaced
  BY <1>2, <1>4, <1>5, <1>6, <1>7, <1>8 DEF FilesPlaced
<1>10. QED
  BY <1>1, <1>9 DEF FileInv, Early

\* A step that places no data.
LEMMA SameFiles ==
  ASSUME FilesPlaced, UNCHANGED <<input, data_runs, file_runs>>, NextFile' = NextFile
  PROVE  FilesPlaced'
<1>1. Slots' = Slots
  BY DEF Slots
<1>2. QED
  BY <1>1 DEF FilesPlaced, DataBlocks

LEMMA OtherStepsKeepFiles ==
  ASSUME IInv, FileInv,
         \/ CheckGeometry \/ PlaceBitmaps \/ PlaceTable \/ SpansDone \/ PlaceLostFound
         \/ PlaceMetadata \/ MetadataDone \/ UNCHANGED vars
  PROVE  FileInv'
<1>1. /\ UNCHANGED <<input, data_runs, file_runs>>
      /\ journal_runs' = journal_runs
  BY DEF CheckGeometry, PlaceBitmaps, PlaceTable, SpansDone, PlaceLostFound, PlaceMetadata,
         MetadataDone, vars, outVars
<1>2. CASE UNCHANGED vars
  <2>1. pc' = pc /\ slot' = slot
    BY <1>2 DEF vars
  <2>2. NextFile' = NextFile
    BY <1>1, <2>1 DEF NextFile
  <2>3. QED
    BY <1>1, <2>1, <2>2, SameFiles DEF FileInv
<1>3. CASE ~UNCHANGED vars
  <2>1. /\ pc \in Early \cup {"lost_found", "metadata"}
        /\ pc' \in Early \cup {"journal", "metadata"} \/ (pc' = "data" /\ slot' = 1)
        /\ pc \in Early => pc' \in Early \cup {"journal"}
    BY <1>3 DEF CheckGeometry, PlaceBitmaps, PlaceTable, SpansDone, PlaceLostFound, PlaceMetadata,
                MetadataDone, Early
  <2>2. NextFile = 1 /\ NextFile' = 1
    BY <2>1 DEF NextFile, Early
  <2>3. pc # "refused" /\ pc # "journal"
    BY <2>1 DEF Early
  <2>4. FilesPlaced'
    BY <1>1, <2>2, <2>3, SameFiles DEF FileInv
  <2>5. pc' \notin Early \cup {"journal"} => journal_runs' # <<>>
    BY <1>1, <2>1, <2>3 DEF FileInv
  <2>6. QED
    BY <2>4, <2>5 DEF FileInv
<1>4. QED
  BY <1>2, <1>3

\* The journal has blocks.
LEMMA JournalKeepsFiles ==
  ASSUME IInv, FileInv, PlaceJournal
  PROVE  FileInv'
<1>1. PICK sizes : sizes = <<input.journal>>
  OBVIOUS
<1>2. PICK acl : acl = FALSE
  OBVIOUS
<1>3. PICK p : p = Place(acl, sizes)
  OBVIOUS
<1>4. /\ input \in Inputs /\ cursor \in Nat /\ pc = "journal" /\ pc' = "lost_found"
      /\ UNCHANGED <<input, data_runs, file_runs>>
  BY DEF IInv, PlaceJournal
<1>5. p.fits /\ journal_runs' = p.runs
  <2>1. p = Place(FALSE, <<input.journal>>)
    BY <1>1, <1>2, <1>3
  <2>2. QED
    BY <2>1 DEF PlaceJournal
<1>6. input.journal \in Nat \ {0}
  BY <1>4, Parameters
<1>7. sizes \in Seq(Nat) /\ DOMAIN sizes = {1} /\ sizes[1] = input.journal
  BY <1>1, <1>6
<1>8. Total(sizes) = input.journal
  <2>1. Units(sizes, {}) = {}
    BY DEF Units
  <2>2. Cardinality(Units(sizes, {})) = 0 /\ IsFiniteSet({})
    BY <2>1, FS_EmptySet
  <2>3. Cardinality(Units(sizes, {} \cup {1})) = 0 + sizes[1]
    <3>1. 1 \notin {} /\ \A s \in {} \cup {1} : sizes[s] \in Nat
      BY <1>6, <1>7
    <3>2. Cardinality(Units(sizes, {} \cup {1})) = Cardinality(Units(sizes, {})) + sizes[1]
      BY <2>2, <3>1, UnitsOfOneMore
    <3>3. QED
      BY <2>2, <3>2
  <2>4. {} \cup {1} = {1}
    OBVIOUS
  <2>5. Total(sizes) = 0 + sizes[1]
    BY <1>7, <2>3, <2>4 DEF Total, SumOf, Units
  <2>6. QED
    BY <1>6, <1>7, <2>5
<1>9. Cardinality(Given(p.runs)) = input.journal
  BY <1>3, <1>4, <1>5, <1>7, <1>8, PlacedInFull
<1>10. p.runs # <<>>
  <2>1. ASSUME p.runs = <<>> PROVE FALSE
    <3>1. Given(p.runs) = {}
      BY <2>1 DEF Given
    <3>2. Cardinality(Given(p.runs)) = 0
      BY <3>1, FS_EmptySet
    <3>3. QED
      BY <1>6, <1>9, <3>2
  <2>2. QED
    BY <2>1
<1>11. NextFile' = NextFile
  BY <1>4 DEF NextFile
<1>12. FilesPlaced'
  BY <1>4, <1>11, SameFiles DEF FileInv
<1>13. QED
  BY <1>5, <1>10, <1>12 DEF FileInv

LEMMA SealedKeepsFiles ==
  ASSUME IInv, FileInv, Sealed
  PROVE  FileInv'
<1>1. /\ input \in Inputs /\ slot \in Nat /\ pc = "data" /\ pc' = "sealed" /\ slot \notin Slots
      /\ UNCHANGED <<input, data_runs, file_runs, journal_runs>>
  BY DEF IInv, Sealed, outVars
<1>2. FilesPlaced /\ journal_runs # <<>>
  BY <1>1 DEF FileInv, Early
<1>3. NextFile = slot /\ NextFile' = Len(input.inodes) + 1
  BY <1>1 DEF NextFile
<1>4. input.inodes \in Seq(Inode)
  BY <1>1, Parameters
<1>5. Slots = 1 .. Len(input.inodes) /\ Len(input.inodes) \in Nat
  BY <1>4 DEF Slots
<1>6. slot \in Nat \ {0}
  BY <1>2, <1>3 DEF FilesPlaced
<1>7. \A s \in Slots : s < slot /\ s < Len(input.inodes) + 1 /\ ~(Len(input.inodes) + 1 <= s)
  BY <1>1, <1>5, <1>6
<1>8. Slots' = Slots
  BY <1>1 DEF Slots
<1>9. Len(input.inodes) + 1 \in Nat \ {0}
  BY <1>5
<1>10. FilesPlaced'
  BY <1>1, <1>2, <1>3, <1>7, <1>8, <1>9 DEF FilesPlaced, DataBlocks
<1>11. QED
  BY <1>1, <1>2, <1>10 DEF FileInv

\* The file of the slot gets its blocks, ahead of all there are.
LEMMA DataKeepsFiles ==
  ASSUME IInv, FileInv, PlaceData
  PROVE  FileInv'
<1>1. PICK sizes : sizes = DataBlocks(TheInode)
  OBVIOUS
<1>2. PICK acl : acl = FALSE
  OBVIOUS
<1>3. PICK p : p = Place(acl, sizes)
  OBVIOUS
<1>4. /\ input \in Inputs /\ cursor \in Nat /\ slot \in Slots /\ pc = "data" /\ pc' = "data"
      /\ slot' = slot + 1 /\ input' = input /\ journal_runs' = journal_runs
  BY DEF IInv, PlaceData
<1>5. /\ p.fits /\ data_runs' = data_runs \o p.runs
      /\ file_runs' = [file_runs EXCEPT ![slot] = p.runs]
  <2>1. p = PlaceOfData
    BY <1>1, <1>2, <1>3 DEF PlaceOfData
  <2>2. QED
    BY <2>1 DEF PlaceData
<1>6. FilesPlaced /\ journal_runs # <<>> /\ NextFile = slot /\ NextFile' = slot + 1
  BY <1>4 DEF FileInv, Early, NextFile
<1>7. /\ slot \in Nat \ {0} /\ \A s \in Slots : s \in Nat \ {0}
      /\ sizes \in Seq(Nat)
  <2>1. \A s \in Slots : s \in Nat \ {0} /\ DataBlocks(input.inodes[s]) \in Seq(Nat)
    BY <1>4, DataSizes
  <2>2. QED
    BY <1>1, <1>4, <2>1 DEF TheInode
<1>8. /\ p.runs \in Seq(Run) /\ Ascend(p.runs) /\ Cardinality(Given(p.runs)) = Total(sizes)
      /\ Given(p.runs) \subseteq NewRoom(p.cursor)
  BY <1>3, <1>4, <1>5, <1>7, PlaceFacts, PlacedInFull
<1>9. /\ file_runs \in [Slots -> Seq(Run)] /\ file_runs[slot] = <<>>
      /\ \A s \in Slots : file_runs'[s] = IF s = slot THEN p.runs ELSE file_runs[s]
      /\ file_runs' \in [Slots -> Seq(Run)]
  <2>1. file_runs \in [Slots -> Seq(Run)]
    BY <1>6 DEF FilesPlaced
  <2>2. file_runs[slot] = <<>>
    BY <1>4, <1>6, <1>7 DEF FilesPlaced
  <2>3. QED
    BY <1>5, <1>8, <2>1, <2>2
<1>10. data_runs \in Seq(Run) /\ Given(data_runs) \subseteq PassedRoom
  <2>1. OutIn(Out, PassedRoom)
    BY <1>4 DEF IInv, OutInv, Early
  <2>2. Out[4] = data_runs /\ 4 \in 1 .. 5
    BY DEF Out
  <2>3. QED
    BY <2>1, <2>2 DEF OutIn
<1>11. ASSUME NEW s \in Slots, s # slot, NEW b \in Given(file_runs[s]), NEW c \in Given(p.runs)
       PROVE  b < c
  <2>1. ItemsOf(file_runs[s]) \subseteq ItemsOf(data_runs)
    BY <1>6 DEF FilesPlaced
  <2>2. b \in Given(data_runs)
    BY <2>1, GivenByItems
  <2>3. /\ FreeFrom(0, AllReserved) \in SUBSET Nat /\ FreeFrom(cursor, AllReserved) \in SUBSET Nat
        /\ \A d \in FreeFrom(cursor, AllReserved) : cursor <= d
    BY <1>4, FreeType
  <2>4. b \in Nat /\ b < cursor
    BY <1>10, <2>2, <2>3 DEF PassedRoom
  <2>5. c \in Nat /\ cursor <= c
    BY <1>8, <2>3 DEF NewRoom
  <2>6. QED
    BY <1>4, <2>4, <2>5
<1>12. \A s \in Slots : slot < s => file_runs[s] = <<>>
  BY <1>6, <1>7 DEF FilesPlaced
<1>13. Slots' = Slots
  BY <1>4 DEF Slots
<1>14. \A s \in Slots : slot + 1 <= s => file_runs'[s] = <<>>
  BY <1>7, <1>9, <1>12
<1>15. ASSUME NEW s \in Slots, s < slot + 1
       PROVE  Cardinality(Given(file_runs'[s])) = Total(DataBlocks(input.inodes[s]))
  <2>1. CASE s = slot
    <3>1. file_runs'[s] = p.runs /\ sizes = DataBlocks(input.inodes[s])
      BY <1>1, <1>9, <2>1 DEF TheInode
    <3>2. QED
      BY <1>8, <3>1, Zenon
  <2>2. CASE s # slot
    <3>1. s < slot
      BY <1>7, <1>15, <2>2
    <3>2. file_runs'[s] = file_runs[s]
      BY <1>9, <2>2
    <3>3. Cardinality(Given(file_runs[s])) = Total(DataBlocks(input.inodes[s]))
      BY <1>6, <3>1 DEF FilesPlaced
    <3>4. QED
      BY <3>2, <3>3, Zenon
  <2>3. QED
    BY <2>1, <2>2
<1>16. \A s \in Slots : Ascend(file_runs'[s])
  BY <1>6, <1>8, <1>9 DEF FilesPlaced
<1>17. ASSUME NEW s \in Slots, NEW t \in Slots, s < t,
              NEW b \in Given(file_runs'[s]), NEW c \in Given(file_runs'[t])
       PROVE  b < c
  <2>1. CASE t = slot
    <3>1. s # slot /\ file_runs'[s] = file_runs[s] /\ file_runs'[t] = p.runs
      BY <1>7, <1>9, <1>17, <2>1
    <3>2. b \in Given(file_runs[s]) /\ c \in Given(p.runs)
      BY <3>1
    <3>3. QED
      BY <1>11, <3>1, <3>2
  <2>2. CASE s = slot
    <3>1. file_runs'[t] = <<>>
      BY <1>7, <1>9, <1>12, <1>17, <2>2
    <3>2. Given(file_runs'[t]) = {}
      BY <3>1 DEF Given
    <3>3. QED
      BY <3>2
  <2>3. CASE s # slot /\ t # slot
    <3>1. b \in Given(file_runs[s]) /\ c \in Given(file_runs[t])
      BY <1>9, <2>3
    <3>2. QED
      BY <1>6, <1>17, <3>1 DEF FilesPlaced
  <2>4. QED
    BY <2>1, <2>2, <2>3
<1>18. ItemsOf(data_runs') = UNION {ItemsOf(file_runs'[s]) : s \in Slots}
  <2>1. ItemsOf(data_runs') = ItemsOf(p.runs) \cup UNION {ItemsOf(file_runs[s]) : s \in Slots}
    <3>1. ItemsOf(data_runs) = UNION {ItemsOf(file_runs[s]) : s \in Slots}
      BY <1>6 DEF FilesPlaced
    <3>2. ItemsOf(data_runs \o p.runs) = ItemsOf(p.runs) \cup ItemsOf(data_runs)
      BY <1>8, <1>10, ItemsOfBoth
    <3>3. ItemsOf(data_runs') = ItemsOf(data_runs \o p.runs)
      BY <1>5, Zenon
    <3>4. QED
      BY <3>1, <3>2, <3>3, Zenon
  <2>2. ItemsOf(file_runs[slot]) = {}
    BY <1>9 DEF ItemsOf
  <2>3. \A s \in Slots : ItemsOf(file_runs'[s]) = IF s = slot THEN ItemsOf(p.runs) ELSE ItemsOf(file_runs[s])
    BY <1>9
  <2>4. PICK A : A = ItemsOf(p.runs)
    OBVIOUS
  <2>5. PICK B : B = [s \in Slots |-> ItemsOf(file_runs[s])]
    OBVIOUS
  <2>6. PICK C : C = [s \in Slots |-> ItemsOf(file_runs'[s])]
    OBVIOUS
  <2>7. /\ UNION {ItemsOf(file_runs[s]) : s \in Slots} = UNION {B[s] : s \in Slots}
        /\ UNION {ItemsOf(file_runs'[s]) : s \in Slots} = UNION {C[s] : s \in Slots}
    BY <2>5, <2>6
  <2>8. B[slot] = {} /\ \A s \in Slots : C[s] = IF s = slot THEN A ELSE B[s]
    BY <1>4, <2>2, <2>3, <2>4, <2>5, <2>6
  <2>9. UNION {C[s] : s \in Slots} = A \cup UNION {B[s] : s \in Slots}
    BY <1>4, <2>8
  <2>10. QED
    BY <2>1, <2>4, <2>7, <2>9, Zenon
<1>19. FilesPlaced'
  <2>1. file_runs' \in [Slots' -> Seq(Run)] /\ NextFile' \in Nat \ {0}
    BY <1>6, <1>7, <1>9, <1>13
  <2>2. \A s \in Slots' : NextFile' <= s => file_runs'[s] = <<>>
    BY <1>6, <1>13, <1>14
  <2>3. \A s \in Slots' : s < NextFile' =>
          Cardinality(Given(file_runs'[s])) = Total(DataBlocks(input'.inodes[s]))
    BY <1>4, <1>6, <1>13, <1>15
  <2>4. /\ \A s \in Slots' : Ascend(file_runs'[s])
        /\ \A s, t \in Slots' : s < t =>
             \A b \in Given(file_runs'[s]), c \in Given(file_runs'[t]) : b < c
    BY <1>13, <1>16, <1>17
  <2>5. ItemsOf(data_runs') = UNION {ItemsOf(file_runs'[s]) : s \in Slots'}
    BY <1>13, <1>18, Zenon
  <2>6. QED
    BY <2>1, <2>2, <2>3, <2>4, <2>5, Zenon DEF FilesPlaced
<1>20. QED
  BY <1>4, <1>6, <1>19 DEF FileInv

\* The files at every step.
LEMMA FilesInvariance == Spec => []FileInv
<1>1. Init => FileInv
  BY FilesAtFirst
<1>2. IInv /\ FileInv /\ [Next]_vars => FileInv'
  <2>1. SUFFICES ASSUME IInv, FileInv, [Next]_vars PROVE FileInv'
    OBVIOUS
  <2>2. CASE \/ CheckGeometry \/ PlaceBitmaps \/ PlaceTable \/ SpansDone \/ PlaceLostFound
             \/ PlaceMetadata \/ MetadataDone \/ UNCHANGED vars
    BY <2>1, <2>2, OtherStepsKeepFiles
  <2>3. CASE PlaceJournal
    BY <2>1, <2>3, JournalKeepsFiles
  <2>4. CASE PlaceData
    BY <2>1, <2>4, DataKeepsFiles
  <2>5. CASE Sealed
    BY <2>1, <2>5, SealedKeepsFiles
  <2>6. CASE Refused
    BY <2>6 DEF Refused, FileInv
  <2>7. QED
    BY <2>1, <2>2, <2>3, <2>4, <2>5, <2>6 DEF Next
<1>3. QED
  BY <1>1, <1>2, Invariance, PTL DEF Spec
-----------------------------------------------------------------------------
(* The layout: segments. *)

\* Segments are single blocks, group descriptors or inode tables.
SuperStarts == {r.start : r \in SuperRuns}
BitmapBlocks == UNION {{group_meta[g].bb, group_meta[g].ib} : g \in DOMAIN group_meta}
OutSingles ==
  {journal_runs[1].start} \cup {segments[i].start : i \in DOMAIN segments}
    \cup (Given(lf_runs) \cup Given(dir_runs))
SingleSegs == {Bytes(b, 1) : b \in SuperStarts \cup BitmapBlocks \cup OutSingles}
GdtSegs == {Bytes(r.start + 1, GdtBlocks) : r \in SuperRuns}
TableSeg(g) == [block |-> group_meta[g].it, len |-> input.itable,
                used |-> used_itable(g - 1), itable |-> TRUE]
TableSegs == {TableSeg(g) : g \in DOMAIN group_meta}

LEMMA SegmentSorts ==
  ASSUME NEW x \in LayoutSegments
  PROVE  x \in SingleSegs \/ x \in GdtSegs \/ x \in TableSegs
<1>1. \/ x \in {Bytes(r.start, 1) : r \in SuperRuns}
      \/ x \in {Bytes(r.start + 1, GdtBlocks) : r \in SuperRuns}
      \/ \E g \in DOMAIN group_meta :
           x \in {Bytes(group_meta[g].bb, 1), Bytes(group_meta[g].ib, 1), TableSeg(g)}
      \/ x = Bytes(journal_runs[1].start, 1)
      \/ x \in {Bytes(b, 1) : b \in UNION {BlocksOf(r) : r \in {lf_runs[i] : i \in DOMAIN lf_runs}
                                                          \cup {dir_runs[i] : i \in DOMAIN dir_runs}}}
      \/ x \in {Bytes(segments[i].start, 1) : i \in DOMAIN segments}
  BY DEF LayoutSegments, TableSeg
<1>2. CASE x \in {Bytes(r.start, 1) : r \in SuperRuns}
  BY <1>2 DEF SingleSegs, SuperStarts
<1>3. CASE x \in {Bytes(r.start + 1, GdtBlocks) : r \in SuperRuns}
  BY <1>3 DEF GdtSegs
<1>4. CASE \E g \in DOMAIN group_meta :
             x \in {Bytes(group_meta[g].bb, 1), Bytes(group_meta[g].ib, 1), TableSeg(g)}
  <2>1. PICK g \in DOMAIN group_meta :
          x \in {Bytes(group_meta[g].bb, 1), Bytes(group_meta[g].ib, 1), TableSeg(g)}
    BY <1>4
  <2>2. group_meta[g].bb \in BitmapBlocks /\ group_meta[g].ib \in BitmapBlocks
    BY DEF BitmapBlocks
  <2>3. QED
    BY <2>1, <2>2 DEF SingleSegs, TableSegs
<1>5. CASE x = Bytes(journal_runs[1].start, 1)
  BY <1>5 DEF SingleSegs, OutSingles
<1>6. CASE x \in {Bytes(b, 1) : b \in UNION {BlocksOf(r) : r \in {lf_runs[i] : i \in DOMAIN lf_runs}
                                                            \cup {dir_runs[i] : i \in DOMAIN dir_runs}}}
  <2>1. PICK b : /\ b \in UNION {BlocksOf(r) : r \in {lf_runs[i] : i \in DOMAIN lf_runs}
                                                 \cup {dir_runs[i] : i \in DOMAIN dir_runs}}
                 /\ x = Bytes(b, 1)
    BY <1>6
  <2>2. b \in Given(lf_runs) \cup Given(dir_runs)
    BY <2>1 DEF Given
  <2>3. QED
    BY <2>1, <2>2 DEF SingleSegs, OutSingles
<1>7. CASE x \in {Bytes(segments[i].start, 1) : i \in DOMAIN segments}
  BY <1>7 DEF SingleSegs, OutSingles
<1>8. QED
  BY <1>1, <1>2, <1>3, <1>4, <1>5, <1>6, <1>7

\* Where everything is in the end.
LEMMA AtTheEnd ==
  ASSUME IInv, FileInv, pc = "sealed"
  PROVE  /\ input \in Inputs
         /\ \A g \in DOMAIN group_meta :
              /\ g \in Nat \ {0} /\ group_meta[g].it \in Nat
              /\ TableBlocks(g) = group_meta[g].it .. group_meta[g].it + input.itable - 1
              /\ group_meta[g].bb # group_meta[g].ib
              /\ {group_meta[g].bb, group_meta[g].ib} \cap TableBlocks(g) = {}
         /\ \A g, h \in DOMAIN group_meta : g # h => MetaBlocks(g) \cap MetaBlocks(h) = {}
         /\ \A g \in DOMAIN group_meta : \A b \in MetaBlocks(g) :
              b \in Nat /\ b < input.blocks /\ \A r \in SuperRuns : b \notin BlocksOf(r)
         /\ \A b \in PassedRoom :
              /\ b \in Nat /\ b < input.blocks /\ \A r \in SuperRuns : b \notin BlocksOf(r)
              /\ \A g \in DOMAIN group_meta : b \notin MetaBlocks(g)
         /\ data_runs \in Seq(Run) /\ RunsApart(data_runs) /\ Given(data_runs) \subseteq PassedRoom
         /\ OutSingles \subseteq PassedRoom /\ OutSingles \cap Given(data_runs) = {}
<1>1. input \in Inputs /\ SpanInv /\ OutInv /\ ~Open /\ pc \notin Early \cup {"journal"}
  BY DEF IInv, Open, Early
<1>2. journal_runs # <<>>
  BY <1>1 DEF FileInv
<1>3. group_meta \in Seq(GroupMeta) /\ MetaApart /\ MetaCovered
  BY <1>1 DEF SpanInv, SpanShape
<1>4. ASSUME NEW g \in DOMAIN group_meta
      PROVE  /\ g \in Nat \ {0} /\ group_meta[g].it \in Nat
             /\ TableBlocks(g) = group_meta[g].it .. group_meta[g].it + input.itable - 1
             /\ group_meta[g].bb # group_meta[g].ib
             /\ {group_meta[g].bb, group_meta[g].ib} \cap TableBlocks(g) = {}
             /\ MetaBlocks(g) \subseteq FreeFrom(0, SuperRuns)
             /\ MetaBlocks(g) \subseteq Flexed
  <2>1. g \in Nat \ {0} /\ group_meta[g] \in GroupMeta /\ g <= Len(group_meta)
    BY <1>3
  <2>2. TableBlocks(g) = group_meta[g].it .. group_meta[g].it + input.itable - 1
    BY <1>1, <2>1 DEF TableBlocks, Tables
  <2>3. OpenBlocks = {}
    BY <1>1 DEF OpenBlocks
  <2>4. QED
    BY <1>3, <2>1, <2>2, <2>3 DEF MetaApart, MetaCovered, GroupMeta
<1>5. \A b \in FreeFrom(0, SuperRuns) :
        b \in Nat /\ b < input.blocks /\ \A r \in SuperRuns : b \notin BlocksOf(r)
  BY <1>1, FreeType
<1>6. ASSUME NEW b \in PassedRoom
      PROVE  /\ b \in Nat /\ b < input.blocks /\ \A r \in SuperRuns : b \notin BlocksOf(r)
             /\ b \notin Flexed
  <2>1. b \in FreeFrom(0, AllReserved)
    BY DEF PassedRoom
  <2>2. b \in Nat /\ b < input.blocks /\ \A r \in AllReserved : b \notin BlocksOf(r)
    BY <1>1, <2>1, FreeType
  <2>3. QED
    BY <2>2 DEF AllReserved, Flexed
<1>7. OutIn(Out, PassedRoom)
  BY <1>1 DEF OutInv
<1>8. /\ Out[1] = journal_runs /\ Out[2] = lf_runs /\ Out[3] = dir_runs /\ Out[4] = data_runs
      /\ Out[5] = segments
  BY DEF Out
<1>9. /\ journal_runs \in Seq(Run) /\ segments \in Seq(Run) /\ data_runs \in Seq(Run)
      /\ RunsApart(data_runs)
      /\ Given(journal_runs) \subseteq PassedRoom /\ Given(lf_runs) \subseteq PassedRoom
      /\ Given(dir_runs) \subseteq PassedRoom /\ Given(data_runs) \subseteq PassedRoom
      /\ Given(segments) \subseteq PassedRoom
      /\ Given(journal_runs) \cap Given(data_runs) = {} /\ Given(lf_runs) \cap Given(data_runs) = {}
      /\ Given(dir_runs) \cap Given(data_runs) = {} /\ Given(segments) \cap Given(data_runs) = {}
  <2>1. 1 \in 1 .. 5 /\ 2 \in 1 .. 5 /\ 3 \in 1 .. 5 /\ 4 \in 1 .. 5 /\ 5 \in 1 .. 5
    OBVIOUS
  <2>2. /\ \A k \in 1 .. 5 : Out[k] \in Seq(Run) /\ RunsApart(Out[k]) /\ Given(Out[k]) \subseteq PassedRoom
        /\ \A k, l \in 1 .. 5 : k # l => Given(Out[k]) \cap Given(Out[l]) = {}
    BY <1>7 DEF OutIn
  <2>3. /\ Out[1] \in Seq(Run) /\ Out[5] \in Seq(Run) /\ Out[4] \in Seq(Run) /\ RunsApart(Out[4])
        /\ Given(Out[1]) \subseteq PassedRoom /\ Given(Out[2]) \subseteq PassedRoom
        /\ Given(Out[3]) \subseteq PassedRoom /\ Given(Out[4]) \subseteq PassedRoom
        /\ Given(Out[5]) \subseteq PassedRoom
    BY <2>1, <2>2
  <2>4. /\ Given(Out[1]) \cap Given(Out[4]) = {} /\ Given(Out[2]) \cap Given(Out[4]) = {}
        /\ Given(Out[3]) \cap Given(Out[4]) = {} /\ Given(Out[5]) \cap Given(Out[4]) = {}
    BY <2>1, <2>2
  <2>5. QED
    BY <1>8, <2>3, <2>4, Zenon
<1>10. ASSUME NEW runs \in Seq(Run), NEW i \in DOMAIN runs PROVE runs[i].start \in Given(runs)
  <2>1. runs[i] \in Run
    OBVIOUS
  <2>2. runs[i].start \in BlocksOf(runs[i])
    BY <2>1 DEF Run, BlocksOf, RunEnd
  <2>3. QED
    BY <2>2 DEF Given
<1>11. OutSingles \subseteq Given(journal_runs) \cup Given(segments) \cup Given(lf_runs) \cup Given(dir_runs)
  <2>1. 1 \in DOMAIN journal_runs
    BY <1>2, <1>9
  <2>2. journal_runs[1].start \in Given(journal_runs)
    BY <1>9, <1>10, <2>1
  <2>3. \A i \in DOMAIN segments : segments[i].start \in Given(segments)
    BY <1>9, <1>10
  <2>4. QED
    BY <2>2, <2>3 DEF OutSingles
<1>12. OutSingles \subseteq PassedRoom /\ OutSingles \cap Given(data_runs) = {}
  BY <1>9, <1>11
<1>13. \A g, h \in DOMAIN group_meta : g # h => MetaBlocks(g) \cap MetaBlocks(h) = {}
  BY <1>3 DEF MetaApart
<1>14. /\ \A g \in DOMAIN group_meta : \A b \in MetaBlocks(g) :
            b \in Nat /\ b < input.blocks /\ \A r \in SuperRuns : b \notin BlocksOf(r)
       /\ \A b \in PassedRoom, g \in DOMAIN group_meta : b \notin MetaBlocks(g)
  BY <1>4, <1>5, <1>6
<1>15. QED
  BY <1>1, <1>4, <1>6, <1>9, <1>12, <1>13, <1>14

LEMMA LastGroupStarts ==
  ASSUME input \in Inputs
  PROVE  groups - 1 \in Nat /\ group_start(groups - 1) < input.blocks
<1>1. GroupBlocks \in Nat \ {0} /\ input.blocks \in Nat \ {0}
  BY Parameters
<1>2. PICK c \in Nat : c = groups /\ GroupBlocks * c - GroupBlocks < input.blocks
  BY <1>1, CeilOf DEF groups
<1>3. c # 0
  BY <1>2, GroupsHoldImage
<1>4. (c - 1) * GroupBlocks = GroupBlocks * c - GroupBlocks
  BY <1>1
<1>5. QED
  BY <1>2, <1>3, <1>4 DEF group_start

\* A table has no more blocks in use than it has.
LEMMA UsedTable ==
  ASSUME input \in Inputs, NEW g \in Nat
  PROVE  used_itable(g) \in Nat /\ used_itable(g) <= input.itable
<1>1. PICK u \in Nat \ {0}, t \in Nat \ {0} : u = InodesPerBlock /\ t = input.itable
  BY Parameters, SealAssumption
<1>2. PICK n \in Nat : n = inodes_per_group /\ n = t * u
  BY <1>1 DEF inodes_per_group
<1>3. max_ino \in Int
  <2>1. Len(input.inodes) \in Nat /\ LostFoundIno \in Nat
    BY Parameters, SealAssumption
  <2>2. QED
    BY <2>1 DEF max_ino
<1>4. PICK z \in Int : z = max_ino - g * inodes_per_group
  BY <1>2, <1>3
<1>5. Max({z, 0}) \in Nat
  <2>1. \E x \in {z, 0} : \A y \in {z, 0} : x >= y
    OBVIOUS
  <2>2. Max({z, 0}) \in {z, 0} /\ \A y \in {z, 0} : Max({z, 0}) >= y
    BY <2>1 DEF Max
  <2>3. QED
    BY <2>2
<1>6. PICK k \in Nat : k = used_inodes_in_group(g) /\ k <= n
  <2>1. PICK m \in Nat : m = Max({z, 0})
    BY <1>5
  <2>2. used_inodes_in_group(g) = Least(Max({z, 0}), inodes_per_group)
    BY <1>4, Zenon DEF used_inodes_in_group
  <2>3. used_inodes_in_group(g) = Least(m, n)
    BY <1>2, <2>1, <2>2, Zenon
  <2>4. Least(m, n) \in Nat /\ Least(m, n) <= n
    BY DEF Least
  <2>5. QED
    BY <2>3, <2>4
<1>7. PICK c \in Nat : c = used_itable(g) /\ u * c - u < k
  BY <1>1, <1>6, CeilOf DEF used_itable
<1>8. (c - 1) * u < t * u
  <2>1. (c - 1) * u = u * c - u
    OBVIOUS
  <2>2. PICK w \in Nat, v \in Nat : w = u * c /\ v = t * u
    OBVIOUS
  <2>3. w - u < v
    BY <1>2, <1>6, <1>7, <2>2
  <2>4. QED
    BY <2>1, <2>2, <2>3
<1>9. c - 1 < t
  BY <1>8, TimesShowsOrder
<1>10. QED
  BY <1>1, <1>7, <1>9

IsSingle(x) ==
  \E b \in SuperStarts \cup BitmapBlocks \cup OutSingles : x = Bytes(b, 1) /\ SegBlocks(x) = {b}
GdtOf(r) == r.start + 1 .. r.start + GdtBlocks
IsGdt(x) == \E r \in SuperRuns : x = Bytes(r.start + 1, GdtBlocks) /\ SegBlocks(x) = GdtOf(r)
IsTable(x) == \E g \in DOMAIN group_meta : x = TableSeg(g) /\ SegBlocks(x) = TableBlocks(g)

LEMMA BytesShape ==
  ASSUME NEW b \in Nat, NEW n \in Nat \ {0}
  PROVE  /\ Bytes(b, n) \in Segment /\ Bytes(b, n).used = Bytes(b, n).len
         /\ SegBlocks(Bytes(b, n)) = b .. b + n - 1
<1>1. /\ Bytes(b, n) = [block |-> b, len |-> n, used |-> n, itable |-> FALSE]
  BY DEF Bytes
<1>2. Bytes(b, n).block = b /\ Bytes(b, n).len = n /\ Bytes(b, n).used = n
  BY <1>1
<1>3. [block |-> b, len |-> n, used |-> n, itable |-> FALSE] \in Segment
  BY DEF Segment
<1>4. QED
  BY <1>1, <1>2, <1>3 DEF SegBlocks

LEMMA SingleNumbers ==
  ASSUME IInv, FileInv, pc = "sealed", NEW b \in SuperStarts \cup BitmapBlocks \cup OutSingles
  PROVE  /\ b \in Nat
         /\ \A r \in SuperRuns : b \notin GdtOf(r)
         /\ \A g \in DOMAIN group_meta : b \notin TableBlocks(g)
<1>1. \A r \in SuperRuns : r.start \in Nat /\ GdtBlocks \in Nat /\ BlocksOf(r) = r.start .. r.start + GdtBlocks
  <2>1. input \in Inputs /\ GdtBlocks \in Nat
    BY AtTheEnd, Parameters
  <2>2. QED
    BY <2>1, SuperShape, StartType
<1>2. \A g \in DOMAIN group_meta : TableBlocks(g) \subseteq MetaBlocks(g)
  BY DEF MetaBlocks
<1>3. CASE b \in SuperStarts
  <2>1. PICK q \in SuperRuns : b = q.start
    BY <1>3 DEF SuperStarts
  <2>2. b \in Nat /\ b \in BlocksOf(q)
    BY <1>1, <2>1
  <2>3. ASSUME NEW r \in SuperRuns PROVE b \notin GdtOf(r)
    <3>1. CASE r = q
      BY <1>1, <2>1, <3>1 DEF GdtOf
    <3>2. CASE r # q
      <4>1. BlocksOf(q) \cap BlocksOf(r) = {}
        BY <3>2, AtTheEnd, SupersApart
      <4>2. GdtOf(r) \subseteq BlocksOf(r)
        BY <1>1 DEF GdtOf
      <4>3. QED
        BY <2>2, <4>1, <4>2
    <3>3. QED
      BY <3>1, <3>2
  <2>4. ASSUME NEW g \in DOMAIN group_meta, b \in TableBlocks(g) PROVE FALSE
    <3>1. b \in MetaBlocks(g)
      BY <1>2, <2>4
    <3>2. b \notin BlocksOf(q)
      BY <3>1, AtTheEnd
    <3>3. QED
      BY <2>2, <3>2
  <2>5. QED
    BY <2>2, <2>3, <2>4
<1>4. ASSUME b \in Nat, \A r \in SuperRuns : b \notin BlocksOf(r)
      PROVE  \A r \in SuperRuns : b \notin GdtOf(r)
  BY <1>1, <1>4 DEF GdtOf
<1>5. CASE b \in BitmapBlocks
  <2>1. PICK h \in DOMAIN group_meta : b \in {group_meta[h].bb, group_meta[h].ib}
    BY <1>5 DEF BitmapBlocks
  <2>2. b \in MetaBlocks(h) /\ b \notin TableBlocks(h)
    <3>1. {group_meta[h].bb, group_meta[h].ib} \cap TableBlocks(h) = {}
      BY AtTheEnd
    <3>2. QED
      BY <2>1, <3>1 DEF MetaBlocks
  <2>3. b \in Nat /\ \A r \in SuperRuns : b \notin BlocksOf(r)
    BY <2>2, AtTheEnd
  <2>4. ASSUME NEW g \in DOMAIN group_meta, b \in TableBlocks(g) PROVE FALSE
    <3>1. g # h => MetaBlocks(g) \cap MetaBlocks(h) = {}
      BY AtTheEnd
    <3>2. QED
      BY <1>2, <2>2, <2>4, <3>1
  <2>5. QED
    BY <1>4, <2>3, <2>4
<1>6. CASE b \in OutSingles
  <2>1. b \in PassedRoom
    BY <1>6, AtTheEnd
  <2>2. b \in Nat /\ (\A r \in SuperRuns : b \notin BlocksOf(r)) /\ \A g \in DOMAIN group_meta : b \notin MetaBlocks(g)
    BY <2>1, AtTheEnd
  <2>3. QED
    BY <1>2, <1>4, <2>2
<1>7. QED
  BY <1>3, <1>5, <1>6

LEMMA SegmentShape ==
  ASSUME IInv, FileInv, pc = "sealed", NEW x \in LayoutSegments
  PROVE  /\ x \in Segment /\ x.used <= x.len /\ (~x.itable => x.used = x.len)
         /\ IsSingle(x) \/ IsGdt(x) \/ IsTable(x)
<1>1. input \in Inputs /\ GdtBlocks \in Nat \ {0} /\ input.itable \in Nat \ {0}
  BY AtTheEnd, Parameters
<1>2. CASE x \in SingleSegs
  <2>1. PICK b \in SuperStarts \cup BitmapBlocks \cup OutSingles : x = Bytes(b, 1)
    BY <1>2 DEF SingleSegs
  <2>2. b \in Nat /\ 1 \in Nat \ {0}
    BY SingleNumbers
  <2>3. x \in Segment /\ x.used = x.len /\ SegBlocks(x) = b .. b + 1 - 1
    BY <2>1, <2>2, BytesShape
  <2>4. b .. b + 1 - 1 = {b}
    BY <2>2
  <2>5. IsSingle(x)
    BY <2>1, <2>3, <2>4 DEF IsSingle
  <2>6. x.used <= x.len
    BY <2>3 DEF Segment
  <2>7. QED
    BY <2>3, <2>5, <2>6
<1>3. CASE x \in GdtSegs
  <2>1. PICK r \in SuperRuns : x = Bytes(r.start + 1, GdtBlocks)
    BY <1>3 DEF GdtSegs
  <2>2. r.start \in Nat
    BY <1>1, SuperShape, StartType
  <2>3. x \in Segment /\ x.used = x.len /\ SegBlocks(x) = (r.start + 1) .. (r.start + 1) + GdtBlocks - 1
    <3>1. r.start + 1 \in Nat
      BY <2>2
    <3>2. QED
      BY <1>1, <2>1, <3>1, BytesShape
  <2>4. (r.start + 1) + GdtBlocks - 1 = r.start + GdtBlocks
    BY <1>1, <2>2
  <2>5. IsGdt(x)
    BY <2>1, <2>3, <2>4 DEF IsGdt, GdtOf
  <2>6. x.used <= x.len
    BY <2>3 DEF Segment
  <2>7. QED
    BY <2>3, <2>5, <2>6
<1>4. CASE x \in TableSegs
  <2>1. PICK g \in DOMAIN group_meta : x = TableSeg(g)
    BY <1>4 DEF TableSegs
  <2>2. /\ g \in Nat \ {0} /\ group_meta[g].it \in Nat
        /\ TableBlocks(g) = group_meta[g].it .. group_meta[g].it + input.itable - 1
    BY AtTheEnd
  <2>3. used_itable(g - 1) \in Nat /\ used_itable(g - 1) <= input.itable
    <3>1. g - 1 \in Nat
      BY <2>2
    <3>2. QED
      BY <1>1, <3>1, UsedTable
  <2>4. /\ x.block = group_meta[g].it /\ x.len = input.itable /\ x.used = used_itable(g - 1)
        /\ x.itable = TRUE
    BY <2>1 DEF TableSeg
  <2>5. x \in Segment
    BY <1>1, <2>1, <2>2, <2>3 DEF TableSeg, Segment
  <2>6. SegBlocks(x) = TableBlocks(g)
    BY <2>2, <2>4 DEF SegBlocks
  <2>7. IsTable(x)
    BY <2>1, <2>6 DEF IsTable
  <2>8. QED
    BY <2>3, <2>4, <2>5, <2>7
<1>5. QED
  BY <1>2, <1>3, <1>4, SegmentSorts

LEMMA SegmentsApart ==
  ASSUME IInv, FileInv, pc = "sealed", NEW x \in LayoutSegments, NEW y \in LayoutSegments, x # y
  PROVE  SegBlocks(x) \cap SegBlocks(y) = {}
<1>1. \A r \in SuperRuns : GdtOf(r) \subseteq BlocksOf(r)
  <2>1. input \in Inputs /\ GdtBlocks \in Nat
    BY AtTheEnd, Parameters
  <2>2. ASSUME NEW r \in SuperRuns PROVE GdtOf(r) \subseteq BlocksOf(r)
    <3>1. r.start \in Nat /\ BlocksOf(r) = r.start .. r.start + GdtBlocks
      BY <2>1, SuperShape, StartType
    <3>2. QED
      BY <2>1, <3>1 DEF GdtOf
  <2>3. QED
    BY <2>2
<1>2. \A q, r \in SuperRuns : q # r => GdtOf(q) \cap GdtOf(r) = {}
  <2>1. \A q, r \in SuperRuns : q # r => BlocksOf(q) \cap BlocksOf(r) = {}
    BY AtTheEnd, SupersApart
  <2>2. QED
    BY <1>1, <2>1
<1>3. \A r \in SuperRuns, g \in DOMAIN group_meta : GdtOf(r) \cap TableBlocks(g) = {}
  <2>1. \A g \in DOMAIN group_meta : \A b \in TableBlocks(g) : \A r \in SuperRuns : b \notin BlocksOf(r)
    BY AtTheEnd DEF MetaBlocks
  <2>2. QED
    BY <1>1, <2>1
<1>4. \A g, h \in DOMAIN group_meta : g # h => TableBlocks(g) \cap TableBlocks(h) = {}
  <2>1. \A g, h \in DOMAIN group_meta : g # h => MetaBlocks(g) \cap MetaBlocks(h) = {}
    BY AtTheEnd
  <2>2. QED
    BY <2>1 DEF MetaBlocks
<1>5. ASSUME NEW s \in LayoutSegments, NEW t \in LayoutSegments, s # t, IsSingle(s)
      PROVE  SegBlocks(s) \cap SegBlocks(t) = {}
  <2>1. PICK b \in SuperStarts \cup BitmapBlocks \cup OutSingles : s = Bytes(b, 1) /\ SegBlocks(s) = {b}
    BY <1>5 DEF IsSingle
  <2>2. CASE IsSingle(t)
    BY <1>5, <2>1, <2>2 DEF IsSingle
  <2>3. CASE IsGdt(t)
    BY <2>1, <2>3, SingleNumbers DEF IsGdt
  <2>4. CASE IsTable(t)
    BY <2>1, <2>4, SingleNumbers DEF IsTable
  <2>5. QED
    BY <2>2, <2>3, <2>4, SegmentShape
<1>6. ASSUME NEW s \in LayoutSegments, NEW t \in LayoutSegments, s # t, IsGdt(s)
      PROVE  SegBlocks(s) \cap SegBlocks(t) = {}
  <2>1. PICK r \in SuperRuns : s = Bytes(r.start + 1, GdtBlocks) /\ SegBlocks(s) = GdtOf(r)
    BY <1>6 DEF IsGdt
  <2>2. CASE IsSingle(t)
    BY <1>5, <1>6, <2>2
  <2>3. CASE IsGdt(t)
    <3>1. PICK q \in SuperRuns : t = Bytes(q.start + 1, GdtBlocks) /\ SegBlocks(t) = GdtOf(q)
      BY <2>3 DEF IsGdt
    <3>2. q # r
      BY <1>6, <2>1, <3>1
    <3>3. QED
      BY <1>2, <2>1, <3>1, <3>2
  <2>4. CASE IsTable(t)
    BY <1>3, <2>1, <2>4 DEF IsTable
  <2>5. QED
    BY <2>2, <2>3, <2>4, SegmentShape
<1>7. ASSUME NEW s \in LayoutSegments, NEW t \in LayoutSegments, s # t, IsTable(s), IsTable(t)
      PROVE  SegBlocks(s) \cap SegBlocks(t) = {}
  <2>1. PICK g \in DOMAIN group_meta : s = TableSeg(g) /\ SegBlocks(s) = TableBlocks(g)
    BY <1>7 DEF IsTable
  <2>2. PICK h \in DOMAIN group_meta : t = TableSeg(h) /\ SegBlocks(t) = TableBlocks(h)
    BY <1>7 DEF IsTable
  <2>3. g # h
    BY <1>7, <2>1, <2>2
  <2>4. QED
    BY <1>4, <2>1, <2>2, <2>3
<1>8. IsSingle(x) \/ IsGdt(x) \/ IsTable(x)
  BY SegmentShape
<1>9. IsSingle(y) \/ IsGdt(y) \/ IsTable(y)
  BY SegmentShape
<1>10. QED
  BY <1>5, <1>6, <1>7, <1>8, <1>9

\* No segment has blocks of a file.
LEMMA SegmentsApartFromData ==
  ASSUME IInv, FileInv, pc = "sealed", NEW x \in LayoutSegments
  PROVE  SegBlocks(x) \cap Given(data_runs) = {}
<1>1. ASSUME NEW b \in Given(data_runs)
      PROVE  /\ \A r \in SuperRuns : b \notin BlocksOf(r)
             /\ \A g \in DOMAIN group_meta : b \notin MetaBlocks(g)
             /\ b \notin OutSingles
  BY AtTheEnd
<1>2. input \in Inputs /\ GdtBlocks \in Nat
  BY AtTheEnd, Parameters
<1>3. \A r \in SuperRuns : r.start \in BlocksOf(r) /\ GdtOf(r) \subseteq BlocksOf(r)
  <2>1. ASSUME NEW r \in SuperRuns PROVE r.start \in BlocksOf(r) /\ GdtOf(r) \subseteq BlocksOf(r)
    <3>1. r.start \in Nat /\ BlocksOf(r) = r.start .. r.start + GdtBlocks
      BY <1>2, SuperShape, StartType
    <3>2. QED
      BY <1>2, <3>1 DEF GdtOf
  <2>2. QED
    BY <2>1
<1>4. CASE IsSingle(x)
  BY <1>1, <1>3, <1>4 DEF IsSingle, SuperStarts, BitmapBlocks, MetaBlocks
<1>5. CASE IsGdt(x)
  BY <1>1, <1>3, <1>5 DEF IsGdt
<1>6. CASE IsTable(x)
  BY <1>1, <1>6 DEF IsTable, MetaBlocks
<1>7. QED
  BY <1>4, <1>5, <1>6, SegmentShape

\* The superblock copy of the last group, if it has one, is in the image.
CopiesFit ==
  groups - 1 \in {0} \cup backup_groups => group_start(groups - 1) + GdtBlocks < input.blocks

LEMMA CopiesInside ==
  ASSUME input \in Inputs, CopiesFit, NEW r \in SuperRuns
  PROVE  r.start \in Nat /\ r.start + GdtBlocks < input.blocks
<1>1. PICK g \in {0} \cup backup_groups : r = [start |-> group_start(g), len |-> 1 + GdtBlocks]
  BY DEF SuperRuns
<1>2. groups \in Nat \ {0} /\ groups - 1 \in Nat /\ group_start(groups - 1) < input.blocks
  BY GroupsHoldImage, LastGroupStarts
<1>3. g \in Nat /\ g <= groups - 1
  BY <1>2 DEF backup_groups
<1>4. /\ group_start(g) \in Nat /\ group_start(groups - 1) \in Nat /\ GdtBlocks \in Nat
      /\ GroupBlocks \in Nat /\ input.blocks \in Nat /\ GdtBlocks < GroupBlocks
  <2>1. 3 + GdtBlocks + 2 * input.itable < GroupBlocks /\ input.itable \in Nat /\ GdtBlocks \in Nat
        /\ GroupBlocks \in Nat /\ input.blocks \in Nat
    BY Parameters
  <2>2. group_start(g) \in Nat /\ group_start(groups - 1) \in Nat
    BY <1>2, <1>3, StartType
  <2>3. QED
    BY <2>1, <2>2
<1>5. CASE g = groups - 1
  BY <1>1, <1>4, <1>5 DEF CopiesFit
<1>6. CASE g < groups - 1
  <2>1. group_start(g) + GroupBlocks <= group_start(groups - 1)
    BY <1>2, <1>3, <1>6, GroupStarts
  <2>2. QED
    BY <1>1, <1>2, <1>4, <2>1
<1>7. QED
  BY <1>2, <1>3, <1>5, <1>6

\* All of them are in the image.
LEMMA SegmentsInside ==
  ASSUME IInv, FileInv, pc = "sealed", CopiesFit, NEW x \in LayoutSegments, NEW c \in SegBlocks(x)
  PROVE  c < input.blocks
<1>1. input \in Inputs /\ GdtBlocks \in Nat \ {0} /\ input.blocks \in Nat
  BY AtTheEnd, Parameters
<1>2. \A r \in SuperRuns : r.start \in Nat /\ r.start + GdtBlocks < input.blocks
  BY <1>1, CopiesInside
<1>3. /\ \A g \in DOMAIN group_meta : \A b \in MetaBlocks(g) : b < input.blocks
      /\ \A b \in OutSingles : b < input.blocks
  BY AtTheEnd
<1>4. CASE IsSingle(x)
  <2>1. c \in SuperStarts \cup BitmapBlocks \cup OutSingles
    BY <1>4 DEF IsSingle
  <2>2. CASE c \in SuperStarts
    <3>1. PICK r \in SuperRuns : c = r.start
      BY <2>2 DEF SuperStarts
    <3>2. QED
      BY <1>1, <1>2, <3>1
  <2>3. CASE c \in BitmapBlocks
    BY <1>3, <2>3 DEF BitmapBlocks, MetaBlocks
  <2>4. QED
    BY <1>3, <2>1, <2>2, <2>3
<1>5. CASE IsGdt(x)
  <2>1. PICK r \in SuperRuns : c \in r.start + 1 .. r.start + GdtBlocks
    BY <1>5 DEF IsGdt, GdtOf
  <2>2. QED
    BY <1>1, <1>2, <2>1
<1>6. CASE IsTable(x)
  BY <1>3, <1>6 DEF IsTable, MetaBlocks
<1>7. QED
  BY <1>4, <1>5, <1>6, SegmentShape
-----------------------------------------------------------------------------
(* The layout: what the writer counts on. *)

LEMMA SegmentEnds ==
  ASSUME NEW x \in Segment
  PROVE  /\ x.block \in Nat /\ SegEnd(x) \in Nat /\ x.block < SegEnd(x)
         /\ x.block \in SegBlocks(x) /\ SegEnd(x) - 1 \in SegBlocks(x)
         /\ \A b \in Nat : b \in SegBlocks(x) <=> x.block <= b /\ b < SegEnd(x)
<1>1. x.block \in Nat /\ x.len \in Nat \ {0}
  BY DEF Segment
<1>2. SegEnd(x) = x.block + x.len /\ SegBlocks(x) = x.block .. x.block + x.len - 1
  BY DEF SegEnd, SegBlocks
<1>3. QED
  BY <1>1, <1>2

LEMMA RunEnds ==
  ASSUME NEW r \in Run
  PROVE  /\ r.start \in Nat /\ RunEnd(r) \in Nat
         /\ r.start \in BlocksOf(r) /\ RunEnd(r) - 1 \in BlocksOf(r)
BY DEF Run, RunEnd, BlocksOf

LEMMA SegmentsInOrder ==
  ASSUME IInv, FileInv, pc = "sealed", CopiesFit, NEW q, q = Sorted(LayoutSegments, "block")
  PROVE  /\ q \in Seq(Segment) /\ \A i \in DOMAIN q : q[i] \in LayoutSegments
         /\ \A i, j \in DOMAIN q : i < j => SegEnd(q[i]) <= q[j].block
<1>1. input.blocks \in Nat
  BY AtTheEnd, Parameters
<1>2. \A x \in LayoutSegments : x \in Segment
  BY SegmentShape
<1>3. \A x \in LayoutSegments : x["block"] \in 0 .. input.blocks
  <2>1. ASSUME NEW x \in LayoutSegments PROVE x["block"] \in 0 .. input.blocks
    <3>1. x.block \in Nat /\ x.block \in SegBlocks(x)
      BY <1>2, SegmentEnds
    <3>2. x.block < input.blocks
      BY <3>1, SegmentsInside
    <3>3. x.block \in 0 .. input.blocks
      BY <1>1, <3>1, <3>2
    <3>4. QED
      BY <3>3
  <2>2. QED
    BY <2>1
<1>4. \A x, y \in LayoutSegments : x["block"] = y["block"] => x = y
  <2>1. ASSUME NEW x \in LayoutSegments, NEW y \in LayoutSegments, x.block = y.block PROVE x = y
    <3>1. x.block \in SegBlocks(x) /\ y.block \in SegBlocks(y)
      BY <1>2, SegmentEnds
    <3>2. x # y => SegBlocks(x) \cap SegBlocks(y) = {}
      BY SegmentsApart
    <3>3. QED
      BY <2>1, <3>1, <3>2
  <2>2. QED
    BY <2>1
<1>5. /\ q \in Seq(LayoutSegments)
      /\ \A i, j \in DOMAIN q : i < j => q[i]["block"] < q[j]["block"]
  BY <1>1, <1>3, <1>4, SortedLists
<1>6. \A i \in DOMAIN q : q[i] \in LayoutSegments
  BY <1>5
<1>7. q \in Seq(Segment)
  BY <1>2, <1>5
<1>8. ASSUME NEW i \in DOMAIN q, NEW j \in DOMAIN q, i < j
      PROVE  SegEnd(q[i]) <= q[j].block
  <2>1. q[i].block < q[j].block
    BY <1>5, <1>8
  <2>2. q[i] \in LayoutSegments /\ q[j] \in LayoutSegments /\ q[i] \in Segment /\ q[j] \in Segment
    BY <1>2, <1>6
  <2>3. q[i].block \in Nat /\ q[j].block \in Nat /\ SegEnd(q[i]) \in Nat
    BY <2>2, SegmentEnds
  <2>4. q[i] # q[j]
    BY <2>1, <2>3
  <2>5. SegBlocks(q[i]) \cap SegBlocks(q[j]) = {}
    BY <2>2, <2>4, SegmentsApart
  <2>6. q[j].block \notin SegBlocks(q[i])
    BY <2>2, <2>5, SegmentEnds
  <2>7. ~(q[j].block < SegEnd(q[i]))
    BY <2>1, <2>2, <2>3, <2>6, SegmentEnds
  <2>8. QED
    BY <2>3, <2>7
<1>9. QED
  BY <1>6, <1>7, <1>8

LEMMA DataRunsInOrder ==
  ASSUME IInv, FileInv, pc = "sealed", NEW q, q = Sorted(ItemsOf(data_runs), "start")
  PROVE  /\ q \in Seq(Run) /\ ItemsOf(q) = ItemsOf(data_runs)
         /\ \A i \in DOMAIN q : BlocksOf(q[i]) \subseteq Given(data_runs)
         /\ \A i, j \in DOMAIN q : i < j => RunEnd(q[i]) <= q[j].start
<1>1. input.blocks \in Nat
  BY AtTheEnd, Parameters
<1>2. /\ data_runs \in Seq(Run) /\ RunsApart(data_runs)
      /\ \A b \in Given(data_runs) : b < input.blocks
  BY AtTheEnd
<1>3. \A r \in ItemsOf(data_runs) : r \in Run /\ BlocksOf(r) \subseteq Given(data_runs)
  BY <1>2 DEF ItemsOf, Given
<1>4. \A r, s \in ItemsOf(data_runs) : r # s => BlocksOf(r) \cap BlocksOf(s) = {}
  BY <1>2 DEF ItemsOf, RunsApart
<1>5. \A r \in ItemsOf(data_runs) : r["start"] \in 0 .. input.blocks
  <2>1. ASSUME NEW r \in ItemsOf(data_runs) PROVE r["start"] \in 0 .. input.blocks
    <3>1. r.start \in Nat /\ r.start \in BlocksOf(r)
      BY <1>3, RunEnds
    <3>2. r.start \in 0 .. input.blocks
      BY <1>1, <1>2, <1>3, <3>1
    <3>3. QED
      BY <3>2
  <2>2. QED
    BY <2>1
<1>6. \A r, s \in ItemsOf(data_runs) : r["start"] = s["start"] => r = s
  <2>1. ASSUME NEW r \in ItemsOf(data_runs), NEW s \in ItemsOf(data_runs), r.start = s.start PROVE r = s
    <3>1. r.start \in BlocksOf(r) /\ s.start \in BlocksOf(s)
      BY <1>3, RunEnds
    <3>2. QED
      BY <1>4, <2>1, <3>1
  <2>2. QED
    BY <2>1
<1>7. /\ q \in Seq(ItemsOf(data_runs)) /\ ItemsOf(q) = ItemsOf(data_runs)
      /\ \A i, j \in DOMAIN q : i < j => q[i]["start"] < q[j]["start"]
  BY <1>1, <1>5, <1>6, SortedLists
<1>8. \A i \in DOMAIN q : q[i] \in ItemsOf(data_runs)
  BY <1>7
<1>9. q \in Seq(Run)
  BY <1>3, <1>7
<1>10. ASSUME NEW i \in DOMAIN q, NEW j \in DOMAIN q, i < j
       PROVE  RunEnd(q[i]) <= q[j].start
  <2>1. q[i].start < q[j].start
    BY <1>7, <1>10
  <2>2. q[i] \in Run /\ q[j] \in Run
    BY <1>3, <1>8
  <2>3. q[i] # q[j]
    BY <2>1, <2>2, RunEnds
  <2>4. BlocksOf(q[i]) \cap BlocksOf(q[j]) = {}
    BY <1>4, <1>8, <2>3
  <2>5. QED
    BY <2>1, <2>2, <2>4, ApartAscend
<1>11. QED
  BY <1>3, <1>7, <1>8, <1>9, <1>10

\* The bytes of a file end in its last block.
LEMMA FileFits ==
  ASSUME input \in Inputs, FilesPlaced, pc = "sealed", NEW s \in Slots
  PROVE  LET n == Cardinality(Given(file_runs[s]))
             size == Total(input.inodes[s].data)
         IN size \in Nat /\ BlockUnits * (n - 1) < size /\ size <= BlockUnits * n
<1>1. PICK d : d = input.inodes[s].data
  OBVIOUS
<1>2. PICK c : c = DataBlocks(input.inodes[s])
  OBVIOUS
<1>3. input.inodes \in Seq(Inode) /\ s \in Nat \ {0} /\ s <= Len(input.inodes)
  BY DataSizes
<1>4. d \in Seq(Nat \ {0}) /\ \A k \in 1 .. Len(d) - 1 : d[k] % BlockUnits = 0
  <2>1. input.inodes[s] \in Inode
    BY <1>3 DEF Slots
  <2>2. s \in DOMAIN input.inodes
    BY DEF Slots
  <2>3. \A k \in 1 .. Len(input.inodes[s].data) - 1 : input.inodes[s].data[k] % BlockUnits = 0
    BY <2>2, SealAssumption
  <2>4. QED
    BY <1>1, <2>1, <2>3 DEF Inode
<1>5. PICK L \in Nat : L = Len(d) /\ DOMAIN d = 1 .. L
  BY <1>4
<1>6. DOMAIN c = 1 .. L /\ \A k \in 1 .. L : c[k] = CeilDiv(d[k], BlockUnits)
  BY <1>1, <1>2, <1>5 DEF DataBlocks
<1>7. \A k \in 1 .. L : d[k] \in Nat \ {0}
  BY <1>4, <1>5
<1>8. \A k \in 1 .. L - 1 : d[k] % BlockUnits = 0
  BY <1>4, <1>5
<1>9. /\ SumOf(c, 1 .. L) \in Nat /\ SumOf(d, 1 .. L) \in Nat
      /\ BlockUnits * (SumOf(c, 1 .. L) - 1) < SumOf(d, 1 .. L)
      /\ SumOf(d, 1 .. L) <= BlockUnits * SumOf(c, 1 .. L)
  BY <1>6, <1>7, <1>8, BlocksOfBytes
<1>10. Total(c) = SumOf(c, 1 .. L) /\ Total(d) = SumOf(d, 1 .. L)
  BY <1>5, <1>6 DEF Total
<1>11. Cardinality(Given(file_runs[s])) = Total(c)
  <2>1. s < NextFile
    <3>1. NextFile = Len(input.inodes) + 1 /\ Len(input.inodes) \in Nat
      BY <1>3 DEF NextFile
    <3>2. QED
      BY <1>3, <3>1
  <2>2. QED
    BY <1>2, <2>1 DEF FilesPlaced
<1>12. QED
  BY <1>1, <1>9, <1>10, <1>11

LEMMA LayoutIsOK ==
  ASSUME IInv, FileInv, pc = "sealed", CopiesFit
  PROVE  LayoutOK(TheLayout)
<1>1. PICK q : q = Sorted(LayoutSegments, "block")
  OBVIOUS
<1>2. PICK e : e = Sorted(ItemsOf(data_runs), "start")
  OBVIOUS
<1>3. PICK files : files = [s \in Slots |-> [runs |-> file_runs[s], size |-> Total(input.inodes[s].data)]]
  OBVIOUS
<1>4. PICK l : l = TheLayout
  OBVIOUS
<1>5. l = [blocks |-> input.blocks, segments |-> q, data_runs |-> e, files |-> files]
  BY <1>1, <1>2, <1>3, <1>4 DEF TheLayout, ItemsOf
<1>6. l.blocks = input.blocks /\ l.segments = q /\ l.data_runs = e /\ l.files = files
  BY <1>5
<1>7. input \in Inputs /\ input.blocks \in Nat /\ input.inodes \in Seq(Inode)
  BY AtTheEnd, Parameters
<1>8. FilesPlaced
  BY DEF FileInv
<1>9. /\ q \in Seq(Segment) /\ \A i \in DOMAIN q : q[i] \in LayoutSegments
      /\ \A i, j \in DOMAIN q : i < j => SegEnd(q[i]) <= q[j].block
  BY <1>1, SegmentsInOrder
<1>10. /\ e \in Seq(Run) /\ ItemsOf(e) = ItemsOf(data_runs)
       /\ \A i \in DOMAIN e : BlocksOf(e[i]) \subseteq Given(data_runs)
       /\ \A i, j \in DOMAIN e : i < j => RunEnd(e[i]) <= e[j].start
  BY <1>2, DataRunsInOrder
<1>11. /\ DOMAIN files = Slots /\ files \in Seq(File)
       /\ \A s \in Slots : files[s].runs = file_runs[s] /\ files[s].size = Total(input.inodes[s].data)
  <2>1. \A s \in Slots : file_runs[s] \in Seq(Run) /\ Total(input.inodes[s].data) \in Nat
    <3>1. \A s \in Slots : Total(input.inodes[s].data) \in Nat
      BY <1>7, <1>8, FileFits
    <3>2. QED
      BY <1>8, <3>1 DEF FilesPlaced
  <2>2. \A s \in Slots : files[s] \in File
    BY <1>3, <2>1 DEF File
  <2>3. PICK n \in Nat : Slots = 1 .. n
    BY <1>7 DEF Slots
  <2>4. files \in [1 .. n -> File]
    BY <1>3, <2>2, <2>3
  <2>5. files \in Seq(File)
    BY <2>4, SequenceOf
  <2>6. QED
    BY <1>3, <2>5
<1>12. SegmentsHaveContent(l)
  <2>1. \A i \in DOMAIN q : q[i].used <= q[i].len /\ (~q[i].itable => q[i].used = q[i].len)
    BY <1>9, SegmentShape
  <2>2. QED
    BY <1>6, <2>1 DEF SegmentsHaveContent
<1>13. SegmentsAscend(l) /\ DataRunsAscend(l)
  BY <1>6, <1>9, <1>10 DEF SegmentsAscend, DataRunsAscend
<1>14. DataApartFromSegments(l)
  <2>1. \A j \in DOMAIN q : SegBlocks(q[j]) \cap Given(data_runs) = {}
    BY <1>9, SegmentsApartFromData
  <2>2. QED
    BY <1>6, <1>10, <2>1 DEF DataApartFromSegments
<1>15. InsideImage(l)
  <2>1. ASSUME NEW i \in DOMAIN q PROVE SegEnd(q[i]) <= input.blocks
    <3>1. q[i] \in Segment /\ q[i] \in LayoutSegments
      BY <1>9
    <3>2. SegEnd(q[i]) \in Nat /\ SegEnd(q[i]) - 1 \in SegBlocks(q[i])
      BY <3>1, SegmentEnds
    <3>3. SegEnd(q[i]) - 1 < input.blocks
      BY <3>1, <3>2, SegmentsInside
    <3>4. QED
      BY <1>7, <3>2, <3>3
  <2>2. ASSUME NEW i \in DOMAIN e PROVE RunEnd(e[i]) <= input.blocks
    <3>1. e[i] \in Run /\ BlocksOf(e[i]) \subseteq Given(data_runs)
      BY <1>10
    <3>2. RunEnd(e[i]) \in Nat /\ RunEnd(e[i]) - 1 \in Given(data_runs)
      BY <3>1, RunEnds
    <3>3. RunEnd(e[i]) - 1 < input.blocks
      BY <3>2, AtTheEnd
    <3>4. QED
      BY <1>7, <3>2, <3>3
  <2>3. QED
    BY <1>6, <2>1, <2>2 DEF InsideImage
<1>16. DataRunsAreFiles(l)
  <2>1. ItemsOf(e) = UNION {ItemsOf(file_runs[s]) : s \in Slots}
    BY <1>8, <1>10 DEF FilesPlaced
  <2>2. \A s \in Slots : ItemsOf(file_runs[s]) = {files[s].runs[i] : i \in DOMAIN files[s].runs}
    BY <1>11 DEF ItemsOf
  <2>3. {ItemsOf(file_runs[s]) : s \in Slots}
          = {{l.files[s].runs[i] : i \in DOMAIN l.files[s].runs} : s \in DOMAIN l.files}
    <3> DEFINE A(s) == ItemsOf(file_runs[s])
               B(s) == {l.files[s].runs[i] : i \in DOMAIN l.files[s].runs}
    <3>1. \A s \in Slots : A(s) = B(s)
      BY <1>6, <2>2
    <3>2. DOMAIN l.files = Slots
      BY <1>6, <1>11
    <3> HIDE DEF A, B
    <3>3. {A(s) : s \in Slots} = {B(s) : s \in DOMAIN l.files}
      BY <3>1, <3>2
    <3>4. QED
      BY <3>3 DEF A, B
  <2>4. {l.data_runs[i] : i \in DOMAIN l.data_runs} = ItemsOf(e)
    BY <1>6 DEF ItemsOf
  <2>5. QED
    BY <2>1, <2>3, <2>4, Zenon DEF DataRunsAreFiles
<1>17. FilesAscend(l)
  <2>1. ASSUME NEW s \in Slots, NEW t \in Slots,
               NEW i \in DOMAIN file_runs[s], NEW j \in DOMAIN file_runs[t], s < t \/ (s = t /\ i < j)
        PROVE  RunEnd(file_runs[s][i]) <= file_runs[t][j].start
    <3>1. file_runs[s][i] \in Run /\ file_runs[t][j] \in Run
      BY <1>8 DEF FilesPlaced
    <3>2. CASE s < t
      <4>1. RunEnd(file_runs[s][i]) - 1 \in Given(file_runs[s]) /\ file_runs[t][j].start \in Given(file_runs[t])
        BY <3>1, RunEnds DEF Given
      <4>2. RunEnd(file_runs[s][i]) - 1 < file_runs[t][j].start
        BY <1>8, <3>2, <4>1 DEF FilesPlaced
      <4>3. QED
        BY <3>1, <4>2, RunEnds
    <3>3. CASE s = t /\ i < j
      BY <1>8, <3>3 DEF FilesPlaced, Ascend
    <3>4. QED
      BY <2>1, <3>2, <3>3
  <2>2. QED
    BY <1>6, <1>11, <2>1 DEF FilesAscend
<1>18. SizesFit(l)
  <2>1. ASSUME NEW s \in Slots
        PROVE  /\ BlockUnits * (Cardinality(FileBlocksOf(files[s])) - 1) < files[s].size
               /\ files[s].size <= BlockUnits * Cardinality(FileBlocksOf(files[s]))
    <3>1. FileBlocksOf(files[s]) = Given(file_runs[s])
      BY <1>11 DEF FileBlocksOf, Given
    <3>2. /\ BlockUnits * (Cardinality(Given(file_runs[s])) - 1) < Total(input.inodes[s].data)
          /\ Total(input.inodes[s].data) <= BlockUnits * Cardinality(Given(file_runs[s]))
      BY <1>7, <1>8, FileFits
    <3>3. files[s].size = Total(input.inodes[s].data)
      BY <1>11
    <3>4. QED
      BY <3>1, <3>2, <3>3, Zenon
  <2>2. QED
    BY <1>6, <1>11, <2>1 DEF SizesFit
<1>19. /\ l.blocks \in Nat /\ l.segments \in Seq(Segment) /\ l.data_runs \in Seq(Run) /\ l.files \in Seq(File)
  BY <1>6, <1>7, <1>9, <1>10, <1>11
<1>20. QED
  BY <1>4, <1>12, <1>13, <1>14, <1>15, <1>16, <1>17, <1>18, <1>19 DEF LayoutOK

\* Unless the last group has a superblock copy it has no room for, a sealed
\* layout is one ImageWriter can emit: sorted, in the image, no two segments
\* or runs on one block, and for each file just the blocks its bytes need.
THEOREM SealedLayoutIsWritable == Spec => [](CopiesFit => LayoutIsWritable)
<1>1. IInv /\ FileInv => (CopiesFit => LayoutIsWritable)
  BY LayoutIsOK DEF LayoutIsWritable
<1>2. QED
  BY <1>1, Invariance, FilesInvariance, PTL
-----------------------------------------------------------------------------
(* Blocks counted: what is given out for one inode. *)

LEMMA TotalOfNone == Total(<<>>) = 0
<1>1. Units(<<>>, {}) = {}
  BY DEF Units
<1>2. DOMAIN <<>> = {}
  OBVIOUS
<1>3. Total(<<>>) = Cardinality({})
  BY <1>1, <1>2, Zenon DEF Total, SumOf, Units
<1>4. QED
  BY <1>3, FS_EmptySet

LEMMA TotalOfOne ==
  ASSUME NEW n \in Nat
  PROVE  Total(<<n>>) = n
<1>1. PICK sizes : sizes = <<n>>
  OBVIOUS
<1>2. DOMAIN sizes = {1} /\ sizes[1] = n
  BY <1>1
<1>3. IsFiniteSet({1}) /\ Cardinality({1}) = 1
  BY FS_Singleton
<1>4. SumOf(sizes, {1}) = Cardinality({1}) * n
  BY <1>2, <1>3, SumOfSame
<1>5. Total(sizes) = n
  BY <1>2, <1>3, <1>4 DEF Total
<1>6. QED
  BY <1>1, <1>5, Zenon

LEMMA TreeBlocksType ==
  ASSUME NEW n \in Nat
  PROVE  TreeBlocks(n) \in Nat
<1>1. InlineExtents \in Nat \ {0} /\ PerLeaf \in Nat \ {0}
  BY SealAssumption
<1>2. \A m \in Nat : CeilDiv(m, PerLeaf) \in Nat
  BY <1>1, CeilOf
<1>3. PICK k \in Nat : k = Leaves(n)
  BY <1>1, <1>2 DEF Leaves
<1>4. IndexBlocks(n) \in Nat
  BY <1>1, <1>2, <1>3 DEF IndexBlocks
<1>5. QED
  BY <1>3, <1>4 DEF TreeBlocks

\* A run is no longer than what its list gives.
LEMMA RunIsPart ==
  ASSUME NEW runs \in Seq(Run), IsFiniteSet(Given(runs)), NEW i \in DOMAIN runs
  PROVE  runs[i].len \in Nat \ {0} /\ runs[i].len <= Cardinality(Given(runs))
<1>1. runs[i] \in Run
  OBVIOUS
<1>2. PICK s \in Nat, n \in Nat \ {0} : s = runs[i].start /\ n = runs[i].len
  BY <1>1 DEF Run
<1>3. BlocksOf(runs[i]) = s .. s + n - 1
  BY <1>2 DEF BlocksOf, RunEnd
<1>4. Cardinality(s .. s + n - 1) = n
  <2>1. s \in Int /\ s + n - 1 \in Int /\ s <= s + n - 1
    BY <1>2
  <2>2. Cardinality(s .. s + n - 1) = (s + n - 1) - s + 1
    BY <2>1, FS_Interval
  <2>3. QED
    BY <1>2, <2>2
<1>5. BlocksOf(runs[i]) \subseteq Given(runs)
  BY DEF Given
<1>6. Cardinality(BlocksOf(runs[i])) <= Cardinality(Given(runs))
  BY <1>5, FS_Subset
<1>7. QED
  BY <1>2, <1>3, <1>4, <1>6

LEMMA SinglesAreSingle ==
  ASSUME NEW S \in SUBSET Nat, IsFiniteSet(S), NEW i \in DOMAIN Singles(S)
  PROVE  Singles(S)[i].len = 1
<1>1. Singles(S) \in Seq(Run)
  BY SinglesFacts
<1>2. Singles(S)[i] \in Run
  BY <1>1
<1>3. PICK n \in Nat \ {0} : n = Singles(S)[i].len
  BY <1>2 DEF Run
<1>4. n <= 1
  <2>1. RunsOf(S, {}, 1)[i].len <= 1
    BY RunsAreShort DEF Singles
  <2>2. QED
    BY <1>3, <2>1 DEF Singles
<1>5. QED
  BY <1>3, <1>4

\* What fits has its attribute block and all its tree blocks, one by one.
LEMMA PlaceCounts ==
  ASSUME input \in Inputs, cursor \in Nat, NEW acl, NEW sizes \in Seq(Nat), NEW p, p = Place(acl, sizes),
         p.fits
  PROVE  /\ Cardinality(Given(Singles(p.front))) = IF acl THEN 1 ELSE 0
         /\ Cardinality(Given(Singles(p.tree))) = TreeBlocks(Len(p.runs))
         /\ \A i \in DOMAIN Singles(p.front) : Singles(p.front)[i].len = 1
         /\ \A i \in DOMAIN Singles(p.tree) : Singles(p.tree)[i].len = 1
<1>1. PICK free : free = FreeFrom(cursor, AllReserved)
  OBVIOUS
<1>2. PICK a : a = IF acl THEN 1 ELSE 0
  OBVIOUS
<1>3. PICK front : front = Lowest(a, free)
  OBVIOUS
<1>4. PICK rest : rest = free \ front
  OBVIOUS
<1>5. PICK n \in Nat : n = Total(sizes)
  BY TotalType
<1>6. PICK body : body = Lowest(n, rest)
  OBVIOUS
<1>7. PICK firsts : firsts = {Nth(body, 1 + SumOf(sizes, 1 .. k - 1)) : k \in DOMAIN sizes}
  OBVIOUS
<1>8. PICK room : room = Cardinality(free) - Cardinality(front)
  OBVIOUS
<1>9. PICK runs : runs = IF n <= room THEN RunsOf(body, firsts, MaxExtent) ELSE <<>>
  OBVIOUS
<1>10. PICK m : m = TreeBlocks(Len(runs))
  OBVIOUS
<1>11. PICK tree : tree = Lowest(m, free \ (front \cup body))
  OBVIOUS
<1>12. /\ p.runs = runs /\ p.front = front /\ p.tree = tree
       /\ Cardinality(front) = a /\ n + m <= room
  BY <1>1, <1>2, <1>3, <1>4, <1>5, <1>6, <1>7, <1>8, <1>9, <1>10, <1>11 DEF Place
<1>13. m \in Nat
  <2>1. p.runs \in Seq(Run)
    BY PlaceFacts
  <2>2. Len(runs) \in Nat
    BY <1>12, <2>1
  <2>3. QED
    BY <1>10, <2>2, TreeBlocksType
<1>14. free \in SUBSET Nat /\ IsFiniteSet(free)
  BY <1>1, FreeType
<1>15. front \in SUBSET free /\ front \in SUBSET Nat /\ IsFiniteSet(front)
  <2>1. front \in SUBSET free
    BY <1>3, LowestIsPart, Zenon
  <2>2. QED
    BY <1>14, <2>1, FS_Subset
<1>16. /\ rest \in SUBSET Nat /\ IsFiniteSet(rest) /\ Cardinality(rest) = room /\ room \in Nat
  <2>1. IsFiniteSet(rest) /\ Cardinality(rest) = Cardinality(free) - Cardinality(free \cap front)
    BY <1>4, <1>14, FS_Difference
  <2>2. free \cap front = front
    BY <1>15
  <2>3. Cardinality(rest) = room
    BY <1>8, <2>1, <2>2
  <2>4. QED
    BY <1>4, <1>14, <2>1, <2>3, FS_CardinalityType
<1>17. body \in SUBSET rest /\ IsFiniteSet(body) /\ Cardinality(body) = n
  <2>1. body \in SUBSET rest
    BY <1>6, LowestIsPart, Zenon
  <2>2. n <= room
    BY <1>5, <1>12, <1>13, <1>16
  <2>3. Cardinality(body) = n
    BY <1>6, <1>16, <2>2, LowestSize
  <2>4. QED
    BY <1>16, <2>1, <2>3, FS_Subset
<1>18. PICK left : left = rest \ body
  OBVIOUS
<1>19. left = free \ (front \cup body)
  BY <1>4, <1>18
<1>20. left \in SUBSET Nat /\ IsFiniteSet(left) /\ Cardinality(left) = room - n
  <2>1. IsFiniteSet(left) /\ Cardinality(left) = Cardinality(rest) - Cardinality(rest \cap body)
    BY <1>16, <1>18, FS_Difference
  <2>2. rest \cap body = body
    BY <1>17
  <2>3. QED
    BY <1>16, <1>17, <1>18, <2>1, <2>2
<1>21. tree = Lowest(m, left)
  BY <1>11, <1>19
<1>22. m <= Cardinality(left)
  BY <1>5, <1>12, <1>13, <1>16, <1>20
<1>23. Cardinality(tree) = m
  BY <1>13, <1>20, <1>21, <1>22, LowestSize
<1>24. tree \in SUBSET Nat /\ IsFiniteSet(tree)
  <2>1. tree \in SUBSET left
    BY <1>21, LowestIsPart, Zenon
  <2>2. QED
    BY <1>20, <2>1, FS_Subset
<1>25. Given(Singles(front)) = front /\ Given(Singles(tree)) = tree
  BY <1>15, <1>24, SinglesFacts
<1>26. /\ \A i \in DOMAIN Singles(front) : Singles(front)[i].len = 1
       /\ \A i \in DOMAIN Singles(tree) : Singles(tree)[i].len = 1
  BY <1>15, <1>24, SinglesAreSingle
<1>27. /\ Cardinality(Given(Singles(p.front))) = a
       /\ Cardinality(Given(Singles(p.tree))) = TreeBlocks(Len(p.runs))
  BY <1>10, <1>12, <1>23, <1>25
<1>28. /\ \A i \in DOMAIN Singles(p.front) : Singles(p.front)[i].len = 1
       /\ \A i \in DOMAIN Singles(p.tree) : Singles(p.tree)[i].len = 1
  BY <1>12, <1>26
<1>29. QED
  BY <1>2, <1>27, <1>28
-----------------------------------------------------------------------------
(* The invariant of the counts. *)

OutBlocks == UNION {Given(Out[k]) : k \in 1 .. 5}
JournalShare ==
  IF pc \in Early \cup {"journal"} THEN 0 ELSE input.journal + TreeBlocks(Len(journal_runs))

\* i_blocks, and the journal's share, count what has been given out so far.
Charged ==
  /\ blocks512 \in [Slots \cup {0} -> Nat]
  /\ pc \in Early \cup {"journal", "lost_found"} => \A s \in Slots \cup {0} : blocks512[s] = 0
  /\ pc = "metadata" => slot # 0 /\ \A s \in Slots : slot <= s => blocks512[s] = 0
  /\ Cardinality(OutBlocks) = JournalShare + SumOf(blocks512, Slots \cup {0})
CountInv ==
  pc # "refused" =>
    /\ pc \notin Early => groups <= leader
    /\ \A i \in DOMAIN segments : segments[i].len = 1
    /\ Charged

LEMMA GivenByFive ==
  ASSUME NEW lists
  PROVE  UNION {Given(lists[k]) : k \in 1 .. 5}
           = Given(lists[1]) \cup Given(lists[2]) \cup Given(lists[3]) \cup Given(lists[4])
               \cup Given(lists[5])
<1>1. 1 .. 5 = {1, 2, 3, 4, 5}
  OBVIOUS
<1>2. QED
  BY <1>1

LEMMA OutBlocksAre ==
  OutBlocks = Given(journal_runs) \cup Given(lf_runs) \cup Given(dir_runs) \cup Given(data_runs)
                \cup Given(segments)
<1>1. /\ Out[1] = journal_runs /\ Out[2] = lf_runs /\ Out[3] = dir_runs
      /\ Out[4] = data_runs /\ Out[5] = segments
  BY DEF Out
<1>2. OutBlocks = Given(Out[1]) \cup Given(Out[2]) \cup Given(Out[3]) \cup Given(Out[4]) \cup Given(Out[5])
  BY GivenByFive DEF OutBlocks
<1>3. QED
  BY <1>1, <1>2, Zenon

LEMMA SlotsType ==
  ASSUME input \in Inputs
  PROVE  /\ Slots = 1 .. Len(input.inodes) /\ Len(input.inodes) \in Nat
         /\ IsFiniteSet(Slots \cup {0}) /\ \A s \in Slots : s \in Nat \ {0} /\ input.inodes[s] \in Inode
<1>1. input.inodes \in Seq(Inode)
  BY Parameters
<1>2. Slots = 1 .. Len(input.inodes) /\ Len(input.inodes) \in Nat
  BY <1>1 DEF Slots
<1>3. IsFiniteSet(Slots)
  BY <1>2, FS_Interval
<1>4. IsFiniteSet(Slots \cup {0})
  BY <1>3, FS_AddElement
<1>5. QED
  BY <1>1, <1>2, <1>4

LEMMA NothingCharged ==
  ASSUME input \in Inputs, NEW g, \A s \in Slots \cup {0} : g[s] = 0
  PROVE  SumOf(g, Slots \cup {0}) = 0
<1>1. PICK S : S = Slots \cup {0}
  OBVIOUS
<1>2. IsFiniteSet(S)
  BY <1>1, SlotsType
<1>3. SumOf(g, S) = Cardinality(S) * 0 /\ Cardinality(S) \in Nat
  BY <1>1, <1>2, SumOfSame, FS_CardinalityType
<1>4. QED
  BY <1>1, <1>3

\* N is what was given out and A, B and C, which are new and apart.
Fresh(to, A, B, C, N) ==
  /\ A \subseteq NewRoom(to) /\ B \subseteq NewRoom(to) /\ C \subseteq NewRoom(to)
  /\ A \cap B = {} /\ A \cap C = {} /\ B \cap C = {}
  /\ N = ((OutBlocks \cup A) \cup B) \cup C

\* What is given out anew was not given out before.
LEMMA CountOfMore ==
  ASSUME input \in Inputs, cursor \in Nat, OutIn(Out, PassedRoom),
         NEW to, NEW A, NEW B, NEW C, NEW N, Fresh(to, A, B, C, N)
  PROVE  /\ Cardinality(OutBlocks) \in Nat /\ Cardinality(A) \in Nat /\ Cardinality(B) \in Nat
         /\ Cardinality(C) \in Nat
         /\ Cardinality(N) = Cardinality(OutBlocks) + Cardinality(A) + Cardinality(B) + Cardinality(C)
<1>0. /\ A \subseteq NewRoom(to) /\ B \subseteq NewRoom(to) /\ C \subseteq NewRoom(to)
      /\ A \cap B = {} /\ A \cap C = {} /\ B \cap C = {}
      /\ N = ((OutBlocks \cup A) \cup B) \cup C
  BY DEF Fresh
<1>1. PICK O : O = OutBlocks
  OBVIOUS
<1>2. PICK W : W = NewRoom(to)
  OBVIOUS
<1>3. /\ IsFiniteSet(FreeFrom(0, AllReserved)) /\ IsFiniteSet(FreeFrom(cursor, AllReserved))
      /\ FreeFrom(0, AllReserved) \in SUBSET Nat
      /\ \A b \in FreeFrom(cursor, AllReserved) : b \in Nat /\ cursor <= b
  BY FreeType
<1>4. OutBlocks \subseteq PassedRoom
  BY DEF OutIn, OutBlocks
<1>5. IsFiniteSet(O)
  <2>1. O \subseteq FreeFrom(0, AllReserved)
    BY <1>1, <1>4 DEF PassedRoom
  <2>2. QED
    BY <1>3, <2>1, FS_Subset
<1>6. O \cap W = {}
  <2>1. \A b \in O : b \in Nat /\ b < cursor
    BY <1>1, <1>3, <1>4 DEF PassedRoom
  <2>2. \A b \in W : b \in Nat /\ cursor <= b
    BY <1>2, <1>3 DEF NewRoom
  <2>3. ASSUME NEW b \in O, b \in W PROVE FALSE
    BY <2>1, <2>2, <2>3
  <2>4. QED
    BY <2>3
<1>7. IsFiniteSet(A) /\ IsFiniteSet(B) /\ IsFiniteSet(C)
  <2>1. W \subseteq FreeFrom(cursor, AllReserved)
    BY <1>2 DEF NewRoom
  <2>2. IsFiniteSet(W)
    BY <1>3, <2>1, FS_Subset
  <2>3. QED
    BY <1>0, <1>2, <2>2, FS_Subset
<1>8. O \cap A = {} /\ (O \cup A) \cap B = {} /\ ((O \cup A) \cup B) \cap C = {}
  BY <1>0, <1>2, <1>6
<1>9. /\ IsFiniteSet(O \cup A) /\ Cardinality(O) \in Nat /\ Cardinality(A) \in Nat
      /\ Cardinality(O \cup A) = Cardinality(O) + Cardinality(A)
  BY <1>5, <1>7, <1>8, SizeOfUnion
<1>10. /\ IsFiniteSet((O \cup A) \cup B) /\ Cardinality(B) \in Nat
       /\ Cardinality((O \cup A) \cup B) = Cardinality(O \cup A) + Cardinality(B)
  BY <1>7, <1>8, <1>9, SizeOfUnion
<1>11. /\ Cardinality(C) \in Nat
       /\ Cardinality(((O \cup A) \cup B) \cup C) = Cardinality((O \cup A) \cup B) + Cardinality(C)
  BY <1>7, <1>8, <1>10, SizeOfUnion
<1>12. Cardinality(N) = Cardinality(O) + Cardinality(A) + Cardinality(B) + Cardinality(C)
  BY <1>0, <1>1, <1>9, <1>10, <1>11
<1>13. QED
  BY <1>1, <1>9, <1>10, <1>11, <1>12

LEMMA CountsAtFirst ==
  ASSUME Init
  PROVE  CountInv
<1>1. /\ input \in Inputs /\ pc = "geometry" /\ journal_runs = <<>> /\ lf_runs = <<>>
      /\ dir_runs = <<>> /\ segments = <<>> /\ data_runs = <<>>
      /\ blocks512 = [s \in Slots \cup {0} |-> 0]
  BY DEF Init
<1>2. OutBlocks = {}
  BY <1>1, NoRuns, OutBlocksAre
<1>3. Cardinality(OutBlocks) = 0
  BY <1>2, FS_EmptySet
<1>4. SumOf(blocks512, Slots \cup {0}) = 0
  BY <1>1, NothingCharged
<1>5. pc \in Early /\ pc # "metadata" /\ JournalShare = 0
  BY <1>1 DEF Early, JournalShare
<1>6. blocks512 \in [Slots \cup {0} -> Nat] /\ \A s \in Slots \cup {0} : blocks512[s] = 0
  BY <1>1
<1>7. Charged
  BY <1>3, <1>4, <1>5, <1>6 DEF Charged
<1>8. QED
  BY <1>1, <1>5, <1>7 DEF CountInv

\* Steps that give nothing out.
LEMMA OtherStepsKeepCounts ==
  ASSUME IInv, CountInv,
         \/ CheckGeometry \/ PlaceBitmaps \/ PlaceTable \/ SpansDone \/ MetadataDone \/ Sealed
         \/ UNCHANGED vars
  PROVE  CountInv'
<1>1. input' = input /\ UNCHANGED outVars
  BY DEF CheckGeometry, PlaceBitmaps, PlaceTable, SpansDone, MetadataDone, Sealed, vars
<1>2. /\ segments' = segments /\ blocks512' = blocks512 /\ Slots' = Slots
      /\ Out' = Out /\ journal_runs' = journal_runs
  BY <1>1 DEF outVars, Slots, Out
<1>3. OutBlocks' = OutBlocks
  BY <1>2 DEF OutBlocks
<1>4. CASE UNCHANGED vars
  <2>1. pc' = pc /\ slot' = slot /\ leader' = leader /\ groups' = groups
    BY <1>1, <1>4 DEF vars, leader, groups
  <2>2. JournalShare' = JournalShare
    BY <1>1, <1>2, <2>1 DEF JournalShare
  <2>3. QED
    BY <1>2, <1>3, <2>1, <2>2 DEF CountInv, Charged
<1>5. CASE ~UNCHANGED vars
  <2>1. /\ pc \in Early /\ pc' \in Early
        \/ /\ pc = "bitmaps" /\ leader >= groups /\ pc' = "journal" /\ span' = span
        \/ /\ pc \in {"metadata", "data"} /\ pc' \in {"data", "sealed"} /\ span' = span
    BY <1>5 DEF CheckGeometry, PlaceBitmaps, PlaceTable, SpansDone, MetadataDone, Sealed, Early
  <2>2. pc # "refused" /\ JournalShare' = JournalShare
    BY <1>1, <1>2, <2>1 DEF Early, JournalShare
  <2>3. pc' \notin Early => groups' <= leader'
    <3>1. span' = span => leader' = leader /\ groups' = groups
      BY <1>1 DEF leader, groups
    <3>2. leader >= groups => groups <= leader
      <4>1. leader \in Nat /\ groups \in Nat
        BY SpanNumbers, GroupsHoldImage DEF IInv
      <4>2. QED
        BY <4>1
    <3>3. pc \in {"metadata", "data"} => groups <= leader
      BY <2>2 DEF CountInv, Early
    <3>4. QED
      BY <2>1, <3>1, <3>2, <3>3
  <2>4. pc' # "metadata" /\ (pc' \in Early \cup {"journal", "lost_found"}
                               => pc \in Early \cup {"journal", "lost_found"})
    BY <2>1 DEF Early
  <2>5. Charged'
    <3>1. Charged
      BY <2>2 DEF CountInv
    <3>2. QED
      BY <1>2, <1>3, <2>2, <2>4, <3>1 DEF Charged
  <2>6. QED
    BY <1>2, <2>2, <2>3, <2>5 DEF CountInv
<1>6. QED
  BY <1>4, <1>5

LEMMA StillSingle ==
  ASSUME NEW s \in Seq(Run), NEW t \in Seq(Run),
         \A i \in DOMAIN s : s[i].len = 1, \A i \in DOMAIN t : t[i].len = 1,
         NEW i \in DOMAIN (s \o t)
  PROVE  (s \o t)[i].len = 1
<1>1. \/ i \in DOMAIN s /\ (s \o t)[i] = s[i]
      \/ \E k \in DOMAIN t : i = Len(s) + k /\ (s \o t)[i] = t[k]
  BY IndexOfAppended
<1>2. QED
  BY <1>1

\* Content and its tree blocks, each counted once.
LEMMA ContentCounted ==
  ASSUME IInv, pc \in Phases \ Early, NEW acl, NEW sizes \in Seq(Nat), NEW p, p = Place(acl, sizes), p.fits,
         NEW n \in 1 .. 4, BothExtended(Out, n, p.runs, Singles(p.tree), Out'),
         \A i \in DOMAIN segments : segments[i].len = 1
  PROVE  /\ Cardinality(OutBlocks) \in Nat /\ Total(sizes) \in Nat /\ TreeBlocks(Len(p.runs)) \in Nat
         /\ Cardinality(OutBlocks') = Cardinality(OutBlocks) + Total(sizes) + TreeBlocks(Len(p.runs))
         /\ \A i \in DOMAIN segments' : segments'[i].len = 1
<1>1. input \in Inputs /\ cursor \in Nat /\ OutIn(Out, PassedRoom)
  BY DEF IInv, OutInv, Phases
<1>2. PICK t : t = Singles(p.tree)
  OBVIOUS
<1>3. /\ p.runs \in Seq(Run) /\ t \in Seq(Run)
      /\ Given(p.runs) \subseteq NewRoom(p.cursor) /\ Given(t) \subseteq NewRoom(p.cursor)
      /\ Given(p.runs) \cap Given(t) = {}
  BY <1>1, <1>2, PlaceFacts
<1>4. /\ Cardinality(Given(t)) = TreeBlocks(Len(p.runs)) /\ \A i \in DOMAIN t : t[i].len = 1
      /\ Cardinality(Given(p.runs)) = Total(sizes)
  BY <1>1, <1>2, PlaceCounts, PlacedInFull
<1>5. \A k \in 1 .. 5 : Out[k] \in Seq(Run)
  BY <1>1 DEF OutIn
<1>6. /\ Out'[n] = Out[n] \o p.runs /\ Out'[5] = Out[5] \o t
      /\ \A k \in 1 .. 4 : k # n => Out'[k] = Out[k]
  BY <1>2 DEF BothExtended
<1>7. n \in 1 .. 5 /\ 5 \in 1 .. 5 /\ \A k \in 1 .. 5 : k \in 1 .. 4 \/ k = 5
  OBVIOUS
<1>8. /\ Given(Out'[n]) = Given(Out[n]) \cup Given(p.runs)
      /\ Given(Out'[5]) = Given(Out[5]) \cup Given(t)
      /\ \A k \in 1 .. 4 : k # n => Given(Out'[k]) = Given(Out[k])
  <2>1. Given(Out[n] \o p.runs) = Given(Out[n]) \cup Given(p.runs)
    BY <1>3, <1>5, <1>7, GivenByBoth
  <2>2. Given(Out[5] \o t) = Given(Out[5]) \cup Given(t)
    BY <1>3, <1>5, <1>7, GivenByBoth
  <2>3. QED
    BY <1>6, <2>1, <2>2
<1>9. OutBlocks' = ((OutBlocks \cup Given(p.runs)) \cup Given(t)) \cup {}
  <2>1. PICK G : G = [k \in 1 .. 5 |-> Given(Out[k])]
    OBVIOUS
  <2>2. PICK H : H = [k \in 1 .. 5 |-> Given(Out'[k])]
    OBVIOUS
  <2>3. OutBlocks = UNION {G[k] : k \in 1 .. 5} /\ OutBlocks' = UNION {H[k] : k \in 1 .. 5}
    BY <2>1, <2>2 DEF OutBlocks
  <2>4. PICK A : A = Given(p.runs)
    OBVIOUS
  <2>5. PICK B : B = Given(t)
    OBVIOUS
  <2>6. H[n] = G[n] \cup A /\ H[5] = G[5] \cup B /\ \A k \in 1 .. 4 : k # n => H[k] = G[k]
    BY <1>7, <1>8, <2>1, <2>2, <2>4, <2>5
  <2>7. UNION {H[k] : k \in 1 .. 5} = (UNION {G[k] : k \in 1 .. 5}) \cup A \cup B
    BY <1>7, <2>6
  <2>8. QED
    BY <2>3, <2>4, <2>5, <2>7
<1>10. PICK A, B, C, to : A = Given(p.runs) /\ B = Given(t) /\ C = {} /\ to = p.cursor
  OBVIOUS
<1>11. /\ Cardinality(OutBlocks) \in Nat /\ Cardinality(Given(p.runs)) \in Nat /\ Cardinality(Given(t)) \in Nat
       /\ Cardinality(OutBlocks')
            = Cardinality(OutBlocks) + Cardinality(Given(p.runs)) + Cardinality(Given(t)) + Cardinality({})
  <2>1. /\ A \subseteq NewRoom(to) /\ B \subseteq NewRoom(to) /\ C \subseteq NewRoom(to)
        /\ A \cap B = {} /\ A \cap C = {} /\ B \cap C = {}
    BY <1>3, <1>10
  <2>2. PICK N : N = OutBlocks'
    OBVIOUS
  <2>3. Fresh(to, A, B, C, N)
    BY <1>9, <1>10, <2>1, <2>2 DEF Fresh
  <2>4. /\ Cardinality(OutBlocks) \in Nat /\ Cardinality(A) \in Nat /\ Cardinality(B) \in Nat
        /\ Cardinality(N) = Cardinality(OutBlocks) + Cardinality(A) + Cardinality(B) + Cardinality(C)
    BY <1>1, <2>3, CountOfMore
  <2>5. QED
    BY <1>10, <2>2, <2>4, Zenon
<1>12. Cardinality({}) = 0 /\ \A c \in Nat : c + 0 = c
  BY FS_EmptySet
<1>13. \A i \in DOMAIN segments' : segments'[i].len = 1
  <2>1. segments' = segments \o t /\ segments \in Seq(Run)
    BY <1>5, <1>6, <1>7 DEF Out
  <2>2. QED
    BY <1>3, <1>4, <2>1, StillSingle
<1>14. QED
  BY <1>4, <1>11, <1>12, <1>13

LEMMA JournalKeepsCounts ==
  ASSUME IInv, CountInv, PlaceJournal
  PROVE  CountInv'
<1>1. PICK sizes : sizes = <<input.journal>>
  OBVIOUS
<1>2. PICK acl : acl = FALSE
  OBVIOUS
<1>3. PICK p : p = Place(acl, sizes)
  OBVIOUS
<1>4. /\ input \in Inputs /\ cursor \in Nat /\ OutInv /\ pc = "journal" /\ pc' = "lost_found"
      /\ UNCHANGED <<input, span, blocks512>>
      /\ lf_runs' = lf_runs /\ dir_runs' = dir_runs /\ data_runs' = data_runs
  BY DEF IInv, PlaceJournal
<1>5. p.fits /\ journal_runs' = p.runs /\ segments' = segments \o Singles(p.tree)
  <2>1. p = Place(FALSE, <<input.journal>>)
    BY <1>1, <1>2, <1>3
  <2>2. QED
    BY <2>1 DEF PlaceJournal
<1>6. input.journal \in Nat
  BY <1>4, Parameters
<1>7. sizes \in Seq(Nat) /\ Total(sizes) = input.journal
  BY <1>1, <1>6, TotalOfOne
<1>8. journal_runs = <<>> /\ \A k \in 1 .. 5 : Out[k] = <<>>
  BY <1>4 DEF OutInv, Out
<1>9. p.runs \in Seq(Run)
  BY <1>3, <1>4, PlaceFacts
<1>10. BothExtended(Out, 1, p.runs, Singles(p.tree), Out')
  <2>1. Out'[1] = Out[1] \o p.runs /\ Out'[5] = Out[5] \o Singles(p.tree)
    BY <1>5, <1>8, <1>9 DEF Out
  <2>2. QED
    BY <1>4, <2>1 DEF Out, BothExtended
<1>11. Charged /\ groups <= leader /\ \A i \in DOMAIN segments : segments[i].len = 1
  BY <1>4 DEF CountInv, Early
<1>12. /\ TreeBlocks(Len(p.runs)) \in Nat
       /\ Cardinality(OutBlocks') = Cardinality(OutBlocks) + Total(sizes) + TreeBlocks(Len(p.runs))
       /\ \A i \in DOMAIN segments' : segments'[i].len = 1
  <2>1. pc \in Phases \ Early /\ 1 \in 1 .. 4
    BY <1>4 DEF Phases, Early
  <2>2. QED
    BY <1>3, <1>5, <1>7, <1>10, <1>11, <2>1, ContentCounted
<1>13. Slots' = Slots /\ blocks512' = blocks512
  BY <1>4 DEF Slots
<1>14. /\ blocks512 \in [Slots \cup {0} -> Nat] /\ \A s \in Slots \cup {0} : blocks512[s] = 0
       /\ Cardinality(OutBlocks) = JournalShare + SumOf(blocks512, Slots \cup {0})
  BY <1>4, <1>11 DEF Charged
<1>15. SumOf(blocks512, Slots \cup {0}) = 0
  BY <1>4, <1>14, NothingCharged
<1>16. JournalShare = 0
  BY <1>4 DEF JournalShare
<1>17. JournalShare' = input.journal + TreeBlocks(Len(p.runs))
  BY <1>4, <1>5 DEF JournalShare, Early
<1>18. Cardinality(OutBlocks') = JournalShare' + SumOf(blocks512, Slots \cup {0})
  BY <1>6, <1>7, <1>12, <1>14, <1>15, <1>16, <1>17
<1>19. Charged'
  BY <1>4, <1>13, <1>14, <1>18 DEF Charged
<1>20. groups' <= leader'
  BY <1>4, <1>11 DEF groups, leader
<1>21. QED
  BY <1>4, <1>12, <1>19, <1>20 DEF CountInv

\* A step that charges slot s with k blocks more, and gives out k.
LEMMA MoreIsCharged ==
  ASSUME IInv, Charged, pc \in Phases \ (Early \cup {"journal"}), pc' \in Phases \ (Early \cup {"journal"}),
         UNCHANGED <<input, journal_runs>>, NEW s \in Slots \cup {0}, NEW k \in Nat,
         blocks512' = [blocks512 EXCEPT ![s] = blocks512[s] + k],
         Cardinality(OutBlocks') = Cardinality(OutBlocks) + k,
         JournalShare \in Nat,
         pc' # "lost_found",
         pc' = "metadata" => slot' # 0 /\ \A t \in Slots : slot' <= t => t # s /\ blocks512[t] = 0
  PROVE  Charged'
<1>1. input \in Inputs
  BY DEF IInv
<1>2. PICK S : S = Slots \cup {0}
  OBVIOUS
<1>3. Slots' = Slots
  BY DEF Slots
<1>4. IsFiniteSet(S) /\ s \in S /\ Slots \subseteq S
  BY <1>1, <1>2, SlotsType
<1>5. blocks512 \in [S -> Nat] /\ Cardinality(OutBlocks) = JournalShare + SumOf(blocks512, S)
  BY <1>2 DEF Charged
<1>6. blocks512' \in [S -> Nat] /\ \A t \in S : blocks512'[t] = IF t = s THEN blocks512[s] + k ELSE blocks512[t]
  BY <1>4, <1>5
<1>7. PICK g : g = blocks512
  OBVIOUS
<1>8. PICK h : h = blocks512'
  OBVIOUS
<1>9. /\ \A t \in S : g[t] \in Nat /\ h[t] \in Nat /\ (t # s => h[t] = g[t])
      /\ h[s] = g[s] + k
  BY <1>4, <1>5, <1>6, <1>7, <1>8
<1>10. SumOf(h, S) + g[s] = SumOf(g, S) + h[s] /\ SumOf(g, S) \in Nat /\ SumOf(h, S) \in Nat
  BY <1>4, <1>9, SumOfOneChanged
<1>11. SumOf(h, S) = SumOf(g, S) + k
  BY <1>4, <1>9, <1>10
<1>12. JournalShare' = JournalShare
  BY DEF JournalShare, Early
<1>13. Cardinality(OutBlocks') = JournalShare' + SumOf(blocks512', S)
  BY <1>5, <1>7, <1>8, <1>10, <1>11, <1>12
<1>14. pc' = "metadata" => slot' # 0 /\ \A t \in Slots : slot' <= t => blocks512'[t] = 0
  BY <1>4, <1>6
<1>15. QED
  BY <1>2, <1>3, <1>6, <1>13, <1>14 DEF Charged, Phases, Early

LEMMA JournalShareType ==
  ASSUME IInv, pc \in Phases \ Early
  PROVE  JournalShare \in Nat
<1>1. OutIn(Out, PassedRoom) /\ Out[1] = journal_runs /\ 1 \in 1 .. 5
  BY DEF IInv, OutInv, Phases, Out
<1>2. journal_runs \in Seq(Run)
  BY <1>1 DEF OutIn
<1>3. Len(journal_runs) \in Nat
  BY <1>2
<1>4. TreeBlocks(Len(journal_runs)) \in Nat
  BY <1>3, TreeBlocksType
<1>5. input.journal \in Nat
  BY Parameters DEF IInv
<1>6. QED
  BY <1>4, <1>5 DEF JournalShare

LEMMA LostFoundKeepsCounts ==
  ASSUME IInv, CountInv, PlaceLostFound
  PROVE  CountInv'
<1>1. PICK sizes : sizes = <<LostFoundBlocks>>
  OBVIOUS
<1>2. PICK acl : acl = FALSE
  OBVIOUS
<1>3. PICK p : p = Place(acl, sizes)
  OBVIOUS
<1>4. /\ input \in Inputs /\ cursor \in Nat /\ OutInv /\ pc = "lost_found" /\ pc' = "metadata"
      /\ slot' = 1 /\ UNCHANGED <<input, span, journal_runs, dir_runs, data_runs>>
  BY DEF IInv, PlaceLostFound
<1>5. /\ p.fits /\ lf_runs' = p.runs /\ segments' = segments \o Singles(p.tree)
      /\ blocks512' = [blocks512 EXCEPT ![0] = LostFoundBlocks + TreeBlocks(Len(p.runs))]
  <2>1. p = Place(FALSE, <<LostFoundBlocks>>)
    BY <1>1, <1>2, <1>3
  <2>2. QED
    BY <2>1 DEF PlaceLostFound
<1>6. LostFoundBlocks \in Nat
  BY <1>4, Parameters
<1>7. sizes \in Seq(Nat) /\ Total(sizes) = LostFoundBlocks
  BY <1>1, <1>6, TotalOfOne
<1>8. lf_runs = <<>> /\ p.runs \in Seq(Run)
  BY <1>3, <1>4, PlaceFacts DEF OutInv
<1>9. BothExtended(Out, 2, p.runs, Singles(p.tree), Out')
  <2>1. Out'[2] = Out[2] \o p.runs /\ Out'[5] = Out[5] \o Singles(p.tree)
    BY <1>5, <1>8 DEF Out
  <2>2. QED
    BY <1>4, <2>1 DEF Out, BothExtended
<1>10. Charged /\ groups <= leader /\ \A i \in DOMAIN segments : segments[i].len = 1
  BY <1>4 DEF CountInv, Early
<1>11. pc \in Phases \ Early /\ pc \in Phases \ (Early \cup {"journal"})
       /\ pc' \in Phases \ (Early \cup {"journal"}) /\ 2 \in 1 .. 4
  BY <1>4 DEF Phases, Early
<1>12. /\ TreeBlocks(Len(p.runs)) \in Nat /\ Cardinality(OutBlocks) \in Nat
       /\ Cardinality(OutBlocks') = Cardinality(OutBlocks) + Total(sizes) + TreeBlocks(Len(p.runs))
       /\ \A i \in DOMAIN segments' : segments'[i].len = 1
  BY <1>3, <1>5, <1>7, <1>9, <1>10, <1>11, ContentCounted
<1>13. PICK k \in Nat : k = LostFoundBlocks + TreeBlocks(Len(p.runs))
  BY <1>6, <1>12
<1>14. Cardinality(OutBlocks') = Cardinality(OutBlocks) + k
  BY <1>6, <1>7, <1>12, <1>13
<1>15. \A s \in Slots \cup {0} : blocks512[s] = 0
  BY <1>4, <1>10 DEF Charged
<1>16. blocks512' = [blocks512 EXCEPT ![0] = blocks512[0] + k]
  <2>1. blocks512[0] = 0
    BY <1>15
  <2>2. blocks512[0] + k = LostFoundBlocks + TreeBlocks(Len(p.runs))
    BY <1>13, <2>1
  <2>3. QED
    BY <1>5, <2>2, Zenon
<1>17. \A t \in Slots : t # 0 /\ blocks512[t] = 0
  BY <1>4, <1>15, SlotsType
<1>18. Charged'
  <2>1. JournalShare \in Nat /\ 0 \in Slots \cup {0} /\ slot' # 0 /\ pc' # "lost_found"
    BY <1>4, <1>11, JournalShareType
  <2>2. QED
    BY <1>4, <1>10, <1>11, <1>14, <1>16, <1>17, <2>1, MoreIsCharged
<1>19. groups' <= leader'
  BY <1>4, <1>10 DEF groups, leader
<1>20. QED
  BY <1>12, <1>18, <1>19 DEF CountInv

LEMMA DataKeepsCounts ==
  ASSUME IInv, CountInv, PlaceData
  PROVE  CountInv'
<1>1. PICK sizes : sizes = DataBlocks(TheInode)
  OBVIOUS
<1>2. PICK acl : acl = FALSE
  OBVIOUS
<1>3. PICK p : p = Place(acl, sizes)
  OBVIOUS
<1>4. /\ input \in Inputs /\ cursor \in Nat /\ pc = "data" /\ pc' = "data" /\ slot \in Slots
      /\ UNCHANGED <<input, span, journal_runs, lf_runs, dir_runs>>
  BY DEF IInv, PlaceData
<1>5. /\ p.fits /\ data_runs' = data_runs \o p.runs /\ segments' = segments \o Singles(p.tree)
      /\ blocks512' = [blocks512 EXCEPT ![slot] =
                         blocks512[slot] + Total(sizes) + TreeBlocks(Len(p.runs))]
  <2>1. p = PlaceOfData
    BY <1>1, <1>2, <1>3 DEF PlaceOfData
  <2>2. QED
    BY <1>1, <2>1 DEF PlaceData
<1>6. sizes \in Seq(Nat)
  BY <1>1, <1>4, DataSizes DEF TheInode
<1>7. BothExtended(Out, 4, p.runs, Singles(p.tree), Out')
  BY <1>4, <1>5 DEF Out, BothExtended
<1>8. Charged /\ groups <= leader /\ \A i \in DOMAIN segments : segments[i].len = 1
  BY <1>4 DEF CountInv, Early
<1>9. pc \in Phases \ Early /\ pc \in Phases \ (Early \cup {"journal"})
      /\ pc' \in Phases \ (Early \cup {"journal"}) /\ 4 \in 1 .. 4
  BY <1>4 DEF Phases, Early
<1>10. /\ TreeBlocks(Len(p.runs)) \in Nat /\ Cardinality(OutBlocks) \in Nat /\ Total(sizes) \in Nat
       /\ Cardinality(OutBlocks') = Cardinality(OutBlocks) + Total(sizes) + TreeBlocks(Len(p.runs))
       /\ \A i \in DOMAIN segments' : segments'[i].len = 1
  BY <1>3, <1>5, <1>6, <1>7, <1>8, <1>9, ContentCounted
<1>11. PICK k \in Nat : k = Total(sizes) + TreeBlocks(Len(p.runs))
  BY <1>10
<1>12. Cardinality(OutBlocks') = Cardinality(OutBlocks) + k
  BY <1>10, <1>11
<1>13. blocks512[slot] \in Nat
  BY <1>4, <1>8 DEF Charged
<1>14. blocks512' = [blocks512 EXCEPT ![slot] = blocks512[slot] + k]
  <2>1. blocks512[slot] + Total(sizes) + TreeBlocks(Len(p.runs)) = blocks512[slot] + k
    BY <1>10, <1>11, <1>13
  <2>2. QED
    BY <1>5, <2>1, Zenon
<1>15. Charged'
  <2>1. JournalShare \in Nat /\ slot \in Slots \cup {0} /\ pc' # "metadata" /\ pc' # "lost_found"
    BY <1>4, <1>9, JournalShareType
  <2>2. QED
    BY <1>4, <1>8, <1>9, <1>12, <1>14, <2>1, MoreIsCharged
<1>16. groups' <= leader'
  BY <1>4, <1>8 DEF groups, leader
<1>17. QED
  BY <1>4, <1>10, <1>15, <1>16 DEF CountInv

\* What the metadata of an inode consists of.
LEMMA MetadataSizes ==
  ASSUME input \in Inputs, slot \in Slots
  PROVE  /\ ContentOf(TheInode) \in Seq(Nat) /\ Total(ContentOf(TheInode)) = TheInode.content
         /\ TheInode.kind \in {"dir", "symlink", "file"} /\ TheInode.content \in Nat
         /\ TheInode.kind = "file" => TheInode.content = 0
         /\ TheInode.kind = "symlink" => TheInode.content = 1
<1>1. TheInode \in Inode
  BY SlotsType DEF TheInode
<1>2. /\ TheInode.kind = "file" => TheInode.content = 0
      /\ TheInode.kind = "symlink" => TheInode.content = 1
  BY SealAssumption DEF TheInode, Slots
<1>3. PICK c \in Nat : c = TheInode.content
  BY <1>1 DEF Inode
<1>4. ContentOf(TheInode) = IF c = 0 THEN <<>> ELSE <<c>>
  BY <1>3 DEF ContentOf
<1>5. <<>> \in Seq(Nat) /\ <<c>> \in Seq(Nat)
  OBVIOUS
<1>6. Total(IF c = 0 THEN <<>> ELSE <<c>>) = c
  <2>1. CASE c = 0
    BY <2>1, TotalOfNone
  <2>2. CASE c # 0
    BY <2>2, TotalOfOne
  <2>3. QED
    BY <2>1, <2>2
<1>7. ContentOf(TheInode) \in Seq(Nat) /\ Total(ContentOf(TheInode)) = c
  <2>1. Total(ContentOf(TheInode)) = c
    BY <1>4, <1>6, Zenon
  <2>2. QED
    BY <1>4, <1>5, <2>1
<1>8. QED
  BY <1>1, <1>2, <1>3, <1>7 DEF Inode

LEMMA MetadataKeepsCounts ==
  ASSUME IInv, CountInv, PlaceMetadata
  PROVE  CountInv'
<1>1. PICK sizes : sizes = ContentOf(TheInode)
  OBVIOUS
<1>2. PICK acl : acl = TheInode.acl
  OBVIOUS
<1>3. PICK p : p = Place(acl, sizes)
  OBVIOUS
<1>4. PICK extra : extra = IF TheInode.kind = "symlink" THEN p.runs ELSE <<>>
  OBVIOUS
<1>5. PICK content : content = IF TheInode.kind = "dir" THEN p.runs ELSE <<>>
  OBVIOUS
<1>6. PICK f : f = Singles(p.front)
  OBVIOUS
<1>7. PICK t : t = Singles(p.tree)
  OBVIOUS
<1>8. /\ input \in Inputs /\ cursor \in Nat /\ pc = "metadata" /\ pc' = "metadata" /\ slot \in Slots
      /\ slot' = slot + 1 /\ UNCHANGED <<input, span, journal_runs, lf_runs, data_runs>>
  BY DEF IInv, PlaceMetadata
<1>9. /\ p.fits /\ segments' = (segments \o (f \o extra)) \o t /\ dir_runs' = dir_runs \o content
      /\ blocks512' = [blocks512 EXCEPT ![slot] =
                         Acl(TheInode) + TheInode.content + TreeBlocks(Len(p.runs))]
  <2>1. p = PlaceOfMetadata
    BY <1>1, <1>2, <1>3 DEF PlaceOfMetadata
  <2>2. QED
    BY <1>4, <1>5, <1>6, <1>7, <2>1 DEF PlaceMetadata
<1>10. PICK c \in Nat : c = TheInode.content
  BY <1>8, MetadataSizes
<1>11. /\ sizes \in Seq(Nat) /\ Total(sizes) = c /\ TheInode.kind \in {"dir", "symlink", "file"}
       /\ TheInode.kind = "file" => c = 0
       /\ TheInode.kind = "symlink" => c = 1
  BY <1>1, <1>8, <1>10, MetadataSizes
<1>12. PICK a \in Nat : a = Acl(TheInode) /\ a = IF acl THEN 1 ELSE 0
  BY <1>2 DEF Acl
<1>13. OutIn(Out, PassedRoom) /\ Charged /\ groups <= leader /\ \A i \in DOMAIN segments : segments[i].len = 1
  BY <1>8 DEF CountInv, Early, IInv, OutInv
<1>14. /\ p.runs \in Seq(Run) /\ f \in Seq(Run) /\ t \in Seq(Run)
       /\ Given(p.runs) \subseteq NewRoom(p.cursor) /\ Given(f) \subseteq NewRoom(p.cursor)
       /\ Given(t) \subseteq NewRoom(p.cursor) /\ Given(p.runs) \cap Given(f) = {}
       /\ Given(p.runs) \cap Given(t) = {} /\ Given(f) \cap Given(t) = {}
  BY <1>3, <1>6, <1>7, <1>8, PlaceFacts
<1>15. /\ Cardinality(Given(f)) = IF acl THEN 1 ELSE 0
       /\ Cardinality(Given(t)) = TreeBlocks(Len(p.runs))
       /\ \A i \in DOMAIN f : f[i].len = 1
       /\ \A j \in DOMAIN t : t[j].len = 1
       /\ Cardinality(Given(p.runs)) = Total(sizes)
  <2>1. /\ \A i \in DOMAIN f : f[i].len = 1
        /\ \A j \in DOMAIN t : t[j].len = 1
        /\ Cardinality(Given(f)) = IF acl THEN 1 ELSE 0
        /\ Cardinality(Given(t)) = TreeBlocks(Len(p.runs))
    BY <1>3, <1>6, <1>7, <1>8, <1>9, <1>11, PlaceCounts
  <2>2. Cardinality(Given(p.runs)) = Total(sizes)
    BY <1>3, <1>8, <1>9, <1>11, PlacedInFull
  <2>3. QED
    BY <2>1, <2>2
<1>16. IsFiniteSet(Given(p.runs))
  <2>1. IsFiniteSet(FreeFrom(cursor, AllReserved))
    BY <1>8, FreeType
  <2>2. Given(p.runs) \subseteq FreeFrom(cursor, AllReserved)
    BY <1>14 DEF NewRoom
  <2>3. QED
    BY <2>1, <2>2, FS_Subset
<1>17. TheInode.kind = "file" => Given(p.runs) = {}
  BY <1>11, <1>15, <1>16, FS_EmptySet
<1>18. extra \in Seq(Run) /\ content \in Seq(Run) /\ Given(extra) \cup Given(content) = Given(p.runs)
  <2>1. <<>> \in Seq(Run) /\ Given(<<>>) = {}
    BY NoRuns
  <2>2. CASE TheInode.kind = "dir"
    BY <1>4, <1>5, <1>14, <2>1, <2>2
  <2>3. CASE TheInode.kind = "symlink"
    BY <1>4, <1>5, <1>14, <2>1, <2>3
  <2>4. CASE TheInode.kind = "file"
    BY <1>4, <1>5, <1>17, <2>1, <2>4
  <2>5. QED
    BY <1>11, <2>2, <2>3, <2>4
<1>19. \A i \in DOMAIN extra : extra[i].len = 1
  <2>1. SUFFICES ASSUME NEW i \in DOMAIN extra PROVE extra[i].len = 1
    OBVIOUS
  <2>2. TheInode.kind = "symlink" /\ extra = p.runs
    BY <1>4
  <2>3. Cardinality(Given(p.runs)) = 1
    BY <1>11, <1>15, <2>2
  <2>4. PICK n \in Nat \ {0} : n = extra[i].len /\ n <= 1
    BY <1>14, <1>16, <2>2, <2>3, RunIsPart
  <2>5. QED
    BY <2>4
<1>20. segments \in Seq(Run) /\ dir_runs \in Seq(Run)
  <2>1. Out[5] = segments /\ Out[3] = dir_runs /\ 3 \in 1 .. 5 /\ 5 \in 1 .. 5
    BY DEF Out
  <2>2. QED
    BY <1>13, <2>1 DEF OutIn
<1>21. f \o extra \in Seq(Run) /\ segments \o (f \o extra) \in Seq(Run)
  BY <1>14, <1>18, <1>20
<1>22. \A i \in DOMAIN segments' : segments'[i].len = 1
  <2>1. \A i \in DOMAIN (f \o extra) : (f \o extra)[i].len = 1
    BY <1>14, <1>15, <1>18, <1>19, StillSingle
  <2>2. PICK s : s = segments \o (f \o extra)
    OBVIOUS
  <2>3. s \in Seq(Run) /\ \A i \in DOMAIN s : s[i].len = 1
    <3>1. PICK own : own = f \o extra
      OBVIOUS
    <3>2. own \in Seq(Run) /\ s = segments \o own /\ \A i \in DOMAIN own : own[i].len = 1
      BY <1>21, <2>1, <2>2, <3>1
    <3>3. \A i \in DOMAIN (segments \o own) : (segments \o own)[i].len = 1
      BY <1>13, <1>20, <3>2, StillSingle
    <3>4. QED
      BY <1>21, <2>2, <3>2, <3>3
  <2>4. \A i \in DOMAIN (s \o t) : (s \o t)[i].len = 1
    BY <1>14, <1>15, <2>3, StillSingle
  <2>5. QED
    BY <1>9, <2>2, <2>4
<1>23. /\ Given(segments') = Given(segments) \cup Given(f) \cup Given(extra) \cup Given(t)
       /\ Given(dir_runs') = Given(dir_runs) \cup Given(content)
  <2>1. Given(f \o extra) = Given(f) \cup Given(extra)
    BY <1>14, <1>18, GivenByBoth
  <2>2. Given(segments \o (f \o extra)) = Given(segments) \cup Given(f \o extra)
    BY <1>20, <1>21, GivenByBoth
  <2>3. Given((segments \o (f \o extra)) \o t) = Given(segments \o (f \o extra)) \cup Given(t)
    BY <1>14, <1>21, GivenByBoth
  <2>4. Given(dir_runs \o content) = Given(dir_runs) \cup Given(content)
    BY <1>18, <1>20, GivenByBoth
  <2>5. Given(segments') = Given((segments \o (f \o extra)) \o t) /\ Given(dir_runs') = Given(dir_runs \o content)
    BY <1>9, Zenon
  <2>6. QED
    BY <2>1, <2>2, <2>3, <2>4, <2>5
<1>24. PICK A, B, C, to, N : A = Given(f) /\ B = Given(p.runs) /\ C = Given(t) /\ to = p.cursor
                             /\ N = OutBlocks'
  OBVIOUS
<1>25. N = ((OutBlocks \cup A) \cup B) \cup C
  <2>1. OutBlocks' = Given(journal_runs') \cup Given(lf_runs') \cup Given(dir_runs') \cup Given(data_runs')
                       \cup Given(segments')
    <3>1. /\ Out'[1] = journal_runs' /\ Out'[2] = lf_runs' /\ Out'[3] = dir_runs'
          /\ Out'[4] = data_runs' /\ Out'[5] = segments'
      BY DEF Out
    <3>2. OutBlocks' = Given(Out'[1]) \cup Given(Out'[2]) \cup Given(Out'[3]) \cup Given(Out'[4])
                         \cup Given(Out'[5])
      BY GivenByFive DEF OutBlocks
    <3>3. QED
      BY <3>1, <3>2, Zenon
  <2>2. Given(journal_runs') = Given(journal_runs) /\ Given(lf_runs') = Given(lf_runs)
        /\ Given(data_runs') = Given(data_runs)
    BY <1>8
  <2>3. OutBlocks = Given(journal_runs) \cup Given(lf_runs) \cup Given(dir_runs) \cup Given(data_runs)
                      \cup Given(segments)
    BY OutBlocksAre
  <2>4. QED
    BY <1>18, <1>23, <1>24, <2>1, <2>2, <2>3
<1>26. Fresh(to, A, B, C, N)
  BY <1>14, <1>24, <1>25 DEF Fresh
<1>27. /\ Cardinality(OutBlocks) \in Nat /\ Cardinality(A) \in Nat /\ Cardinality(B) \in Nat
       /\ Cardinality(C) \in Nat
       /\ Cardinality(N) = Cardinality(OutBlocks) + Cardinality(A) + Cardinality(B) + Cardinality(C)
  BY <1>8, <1>13, <1>26, CountOfMore
<1>28. Cardinality(A) = a /\ Cardinality(B) = c /\ Cardinality(C) = TreeBlocks(Len(p.runs))
  BY <1>11, <1>12, <1>15, <1>24
<1>29. PICK k \in Nat : k = Acl(TheInode) + TheInode.content + TreeBlocks(Len(p.runs))
                        /\ k = a + c + Cardinality(C)
  BY <1>10, <1>12, <1>27, <1>28
<1>30. Cardinality(OutBlocks') = Cardinality(OutBlocks) + k
  BY <1>24, <1>27, <1>28, <1>29
<1>31. /\ slot \in Nat \ {0} /\ blocks512[slot] = 0
       /\ \A s \in Slots : slot + 1 <= s => s # slot /\ blocks512[s] = 0
  <2>1. \A s \in Slots : slot <= s => blocks512[s] = 0
    BY <1>8, <1>13 DEF Charged
  <2>2. \A s \in Slots : s \in Nat \ {0}
    BY <1>8, SlotsType
  <2>3. QED
    BY <1>8, <2>1, <2>2
<1>32. blocks512' = [blocks512 EXCEPT ![slot] = blocks512[slot] + k]
  <2>1. blocks512[slot] + k = Acl(TheInode) + TheInode.content + TreeBlocks(Len(p.runs))
    BY <1>29, <1>31
  <2>2. QED
    BY <1>9, <2>1, Zenon
<1>33. Charged'
  <2>1. pc \in Phases \ (Early \cup {"journal"}) /\ pc' \in Phases \ (Early \cup {"journal"})
        /\ pc \in Phases \ Early
    BY <1>8 DEF Phases, Early
  <2>2. JournalShare \in Nat /\ slot \in Slots \cup {0} /\ slot' # 0 /\ pc' # "lost_found"
    <3>1. JournalShare \in Nat
      BY <2>1, JournalShareType
    <3>2. QED
      BY <1>8, <1>31, <3>1
  <2>3. \A s \in Slots : slot' <= s => s # slot /\ blocks512[s] = 0
    BY <1>8, <1>31
  <2>4. QED
    BY <1>8, <1>13, <1>30, <1>32, <2>1, <2>2, <2>3, MoreIsCharged
<1>34. groups' <= leader'
  BY <1>8, <1>13 DEF groups, leader
<1>35. QED
  BY <1>8, <1>22, <1>33, <1>34 DEF CountInv

\* The counts at every step.
LEMMA CountsInvariance == Spec => []CountInv
<1>1. Init => CountInv
  BY CountsAtFirst
<1>2. IInv /\ CountInv /\ [Next]_vars => CountInv'
  <2>1. SUFFICES ASSUME IInv, CountInv, [Next]_vars PROVE CountInv'
    OBVIOUS
  <2>2. CASE \/ CheckGeometry \/ PlaceBitmaps \/ PlaceTable \/ SpansDone \/ MetadataDone \/ Sealed
             \/ UNCHANGED vars
    BY <2>1, <2>2, OtherStepsKeepCounts
  <2>3. CASE PlaceJournal
    BY <2>1, <2>3, JournalKeepsCounts
  <2>4. CASE PlaceLostFound
    BY <2>1, <2>4, LostFoundKeepsCounts
  <2>5. CASE PlaceMetadata
    BY <2>1, <2>5, MetadataKeepsCounts
  <2>6. CASE PlaceData
    BY <2>1, <2>6, DataKeepsCounts
  <2>7. CASE Refused
    BY <2>7 DEF Refused, CountInv
  <2>8. QED
    BY <2>1, <2>2, <2>3, <2>4, <2>5, <2>6, <2>7 DEF Next
<1>3. QED
  BY <1>1, <1>2, Invariance, PTL DEF Spec
-----------------------------------------------------------------------------
(* The bitmap, block by block. *)

SuperBlocks == UNION {BlocksOf(r) : r \in SuperRuns}
AllMeta == UNION {MetaBlocks(g) : g \in DOMAIN group_meta}

LEMMA MarkedAre == Marked = SuperMarks \cup MetaMarks \cup OutMarks
<1>1. Marked \subseteq SuperMarks \cup MetaMarks \cup OutMarks
  BY ThreeSorts
<1>2. SuperMarks \subseteq Marked /\ MetaMarks \subseteq Marked
  BY DEF Marked, SuperMarks, MetaMarks
<1>3. OutMarks \subseteq Marked
  <2>1. /\ OutNames[1] = "journal" /\ OutNames[2] = "lost+found" /\ OutNames[3] = "dir"
        /\ OutNames[4] = "data" /\ OutNames[5] = "segment"
        /\ Out[1] = journal_runs /\ Out[2] = lf_runs /\ Out[3] = dir_runs
        /\ Out[4] = data_runs /\ Out[5] = segments
    BY DEF OutNames, Out
  <2>2. /\ Listed(OutNames[1], Out[1]) \subseteq Marked /\ Listed(OutNames[2], Out[2]) \subseteq Marked
        /\ Listed(OutNames[3], Out[3]) \subseteq Marked /\ Listed(OutNames[4], Out[4]) \subseteq Marked
        /\ Listed(OutNames[5], Out[5]) \subseteq Marked
    BY <2>1 DEF Marked
  <2>3. 1 .. 5 = {1, 2, 3, 4, 5}
    OBVIOUS
  <2>4. QED
    BY <2>2, <2>3 DEF OutMarks
<1>4. QED
  BY <1>1, <1>2, <1>3

\* What is marked has a first block and a length.
LEMMA MarkType ==
  ASSUME IInv, pc \in Phases \ Early, NEW m \in Marked
  PROVE  m[3].start \in Nat /\ m[3].len \in Nat
<1>1. input \in Inputs /\ group_meta \in Seq(GroupMeta) /\ OutIn(Out, PassedRoom) /\ input.itable \in Nat
  BY Parameters DEF IInv, SpanInv, SpanShape, OutInv, Phases
<1>2. CASE m \in SuperMarks
  <2>1. PICK r \in SuperRuns : m = <<"super", r.start, r>>
    BY <1>2 DEF SuperMarks
  <2>2. PICK g \in Nat : r.start = group_start(g) /\ r.len = 1 + GdtBlocks
    BY <1>1, SuperShape
  <2>3. group_start(g) \in Nat /\ GdtBlocks \in Nat
    BY <1>1, StartType, Parameters
  <2>4. QED
    BY <2>1, <2>2, <2>3
<1>3. CASE m \in MetaMarks
  <2>1. PICK g \in DOMAIN group_meta :
          m[3] \in {One(group_meta[g].bb), One(group_meta[g].ib),
                    [start |-> group_meta[g].it, len |-> input.itable]}
    BY <1>3 DEF MetaMarks, Listed
  <2>2. group_meta[g].bb \in Nat /\ group_meta[g].ib \in Nat /\ group_meta[g].it \in Nat
    <3>1. group_meta[g] \in GroupMeta
      BY <1>1
    <3>2. QED
      BY <3>1 DEF GroupMeta
  <2>3. QED
    BY <1>1, <2>1, <2>2 DEF One
<1>4. CASE m \in OutMarks
  <2>1. PICK k \in 1 .. 5 : \E i \in DOMAIN Out[k] : m[3] = Out[k][i]
    BY <1>4, OutMark
  <2>2. Out[k] \in Seq(Run)
    BY <1>1 DEF OutIn
  <2>3. m[3] \in Run
    BY <2>1, <2>2
  <2>4. QED
    BY <2>3 DEF Run
<1>5. QED
  BY <1>2, <1>3, <1>4, ThreeSorts

LEMMA ListedIsFinite ==
  ASSUME NEW what, NEW runs, IsFiniteSet(DOMAIN runs)
  PROVE  IsFiniteSet(Listed(what, runs))
<1> DEFINE f == [i \in DOMAIN runs |-> <<what, i, runs[i]>>]
<1>1. \A t \in Listed(what, runs) : \E i \in DOMAIN runs : f[i] = t
  BY DEF Listed
<1> HIDE DEF f
<1>2. QED
  BY <1>1, ImageIsFinite

LEMMA SupersFinite ==
  ASSUME input \in Inputs
  PROVE  IsFiniteSet({0} \cup backup_groups) /\ IsFiniteSet(SuperRuns)
<1>1. groups \in Nat
  BY GroupsHoldImage
<1>2. IsFiniteSet(0 .. groups - 1) /\ backup_groups \in SUBSET (0 .. groups - 1)
  BY <1>1, FS_Interval DEF backup_groups
<1>3. IsFiniteSet(backup_groups)
  BY <1>2, FS_Subset
<1>4. IsFiniteSet(backup_groups \cup {0})
  BY <1>3, FS_AddElement
<1>5. PICK S : S = {0} \cup backup_groups
  OBVIOUS
<1>6. S = backup_groups \cup {0}
  BY <1>5
<1> DEFINE f == [g \in S |-> [start |-> group_start(g), len |-> 1 + GdtBlocks]]
<1>7. \A r \in SuperRuns : \E g \in S : f[g] = r
  BY <1>5 DEF SuperRuns
<1> HIDE DEF f
<1>8. IsFiniteSet(SuperRuns)
  BY <1>4, <1>6, <1>7, ImageIsFinite
<1>9. QED
  BY <1>4, <1>5, <1>6, <1>8

LEMMA MarksFinite ==
  ASSUME IInv, pc \in Phases \ Early
  PROVE  IsFiniteSet(Marked)
<1>1. input \in Inputs /\ group_meta \in Seq(GroupMeta) /\ OutIn(Out, PassedRoom)
  BY DEF IInv, SpanInv, SpanShape, OutInv, Phases
<1>2. IsFiniteSet(SuperMarks)
  <2> DEFINE f == [r \in SuperRuns |-> <<"super", r.start, r>>]
  <2>1. \A t \in SuperMarks : \E r \in SuperRuns : f[r] = t
    BY DEF SuperMarks
  <2> HIDE DEF f
  <2>2. QED
    BY <1>1, <2>1, SupersFinite, ImageIsFinite
<1>3. IsFiniteSet(MetaMarks)
  <2>1. PICK D : D = DOMAIN group_meta
    OBVIOUS
  <2>2. IsFiniteSet(D)
    <3>1. D = 1 .. Len(group_meta) /\ Len(group_meta) \in Nat
      BY <1>1, <2>1
    <3>2. QED
      BY <3>1, FS_Interval
  <2>3. PICK a : a = [g \in D |-> One(group_meta[g].bb)]
    OBVIOUS
  <2>4. PICK b : b = [g \in D |-> One(group_meta[g].ib)]
    OBVIOUS
  <2>5. PICK c : c = [g \in D |-> [start |-> group_meta[g].it, len |-> input.itable]]
    OBVIOUS
  <2>6. DOMAIN a = D /\ DOMAIN b = D /\ DOMAIN c = D
    BY <2>3, <2>4, <2>5
  <2>7. IsFiniteSet(Listed("bb", a)) /\ IsFiniteSet(Listed("ib", b)) /\ IsFiniteSet(Listed("it", c))
    BY <2>2, <2>6, ListedIsFinite
  <2>8. IsFiniteSet((Listed("bb", a) \cup Listed("ib", b)) \cup Listed("it", c))
    BY <2>7, FS_Union
  <2>9. MetaMarks = (Listed("bb", a) \cup Listed("ib", b)) \cup Listed("it", c)
    BY <2>1, <2>3, <2>4, <2>5 DEF MetaMarks
  <2>10. QED
    BY <2>8, <2>9
<1>4. IsFiniteSet(OutMarks)
  <2>1. ASSUME NEW k \in 1 .. 5 PROVE IsFiniteSet(Listed(OutNames[k], Out[k]))
    <3>1. Out[k] \in Seq(Run)
      BY <1>1 DEF OutIn
    <3>2. DOMAIN Out[k] = 1 .. Len(Out[k]) /\ Len(Out[k]) \in Nat
      BY <3>1
    <3>3. IsFiniteSet(DOMAIN Out[k])
      BY <3>2, FS_Interval
    <3>4. QED
      BY <3>3, ListedIsFinite
  <2>2. PICK L : L = [k \in 1 .. 5 |-> Listed(OutNames[k], Out[k])]
    OBVIOUS
  <2>3. \A k \in 1 .. 5 : IsFiniteSet(L[k])
    BY <2>1, <2>2
  <2>4. IsFiniteSet((((L[1] \cup L[2]) \cup L[3]) \cup L[4]) \cup L[5])
    <3>1. IsFiniteSet(L[1]) /\ IsFiniteSet(L[2]) /\ IsFiniteSet(L[3]) /\ IsFiniteSet(L[4]) /\ IsFiniteSet(L[5])
      BY <2>3
    <3>2. IsFiniteSet(L[1] \cup L[2])
      BY <3>1, FS_Union
    <3>3. IsFiniteSet((L[1] \cup L[2]) \cup L[3])
      BY <3>1, <3>2, FS_Union
    <3>4. IsFiniteSet(((L[1] \cup L[2]) \cup L[3]) \cup L[4])
      BY <3>1, <3>3, FS_Union
    <3>5. QED
      BY <3>1, <3>4, FS_Union
  <2>5. OutMarks \subseteq (((L[1] \cup L[2]) \cup L[3]) \cup L[4]) \cup L[5]
    <3>1. 1 .. 5 = {1, 2, 3, 4, 5}
      OBVIOUS
    <3>2. QED
      BY <2>2, <3>1 DEF OutMarks
  <2>6. QED
    BY <2>4, <2>5, FS_Subset
<1>5. IsFiniteSet((SuperMarks \cup MetaMarks) \cup OutMarks)
  <2>1. IsFiniteSet(SuperMarks \cup MetaMarks)
    BY <1>2, <1>3, FS_Union
  <2>2. QED
    BY <1>4, <2>1, FS_Union
<1>6. QED
  BY <1>5, MarkedAre

\* As many blocks are in use as the marked runs are long.
LEMMA UsedIsBitmap ==
  ASSUME IInv, pc = "sealed"
  PROVE  IsFiniteSet(bitmap) /\ used_blocks = Cardinality(bitmap) /\ bitmap \in SUBSET Nat
<1>0. pc \in Phases \ Early
  BY DEF Phases, Early
<1>1. PICK M : M = Marked
  OBVIOUS
<1>2. PICK part : part = [m \in M |-> BlocksOf(m[3])]
  OBVIOUS
<1>3. PICK g : g = [m \in M |-> m[3].len]
  OBVIOUS
<1>4. ASSUME NEW m \in M
      PROVE  part[m] \in SUBSET Nat /\ IsFiniteSet(part[m]) /\ g[m] = Cardinality(part[m])
  <2>1. PICK s \in Nat, n \in Nat : s = m[3].start /\ n = m[3].len
    BY <1>0, <1>1, MarkType
  <2>2. part[m] = s .. s + n - 1 /\ g[m] = n
    BY <1>2, <1>3, <2>1 DEF BlocksOf, RunEnd
  <2>3. s \in Int /\ s + n - 1 \in Int
    BY <2>1
  <2>4. /\ IsFiniteSet(s .. s + n - 1)
        /\ Cardinality(s .. s + n - 1) = IF s > s + n - 1 THEN 0 ELSE (s + n - 1) - s + 1
    BY <2>3, FS_Interval
  <2>5. Cardinality(s .. s + n - 1) = n
    BY <2>1, <2>4
  <2>6. QED
    BY <2>1, <2>2, <2>4, <2>5
<1>5. \A m, n \in M : m # n => part[m] \cap part[n] = {}
  <2>1. \A m, n \in Marked : m # n => BlocksOf(m[3]) \cap BlocksOf(n[3]) = {}
    BY ApartWhenInvariant DEF MarkedOnce
  <2>2. QED
    BY <1>1, <1>2, <2>1
<1>6. IsFiniteSet(M)
  BY <1>0, <1>1, MarksFinite
<1>7. PICK W : W = UNION {part[m] : m \in M}
  OBVIOUS
<1>8. IsFiniteSet(W) /\ Cardinality(W) = SumOf(g, M)
  <2>1. \A m \in M : part[m] \in SUBSET Nat /\ IsFiniteSet(part[m])
    BY <1>4
  <2>2. \A m \in M : g[m] = Cardinality(part[m])
    BY <1>4
  <2>3. /\ IsFiniteSet(UNION {part[m] : m \in M})
        /\ Cardinality(UNION {part[m] : m \in M}) = SumOf(g, M)
    BY <1>5, <1>6, <2>1, <2>2, SizeOfParts
  <2>4. QED
    BY <1>7, <2>3
<1>9. bitmap = W
  BY <1>1, <1>2, <1>7 DEF bitmap
<1>10. used_blocks = SumOf(g, M)
  BY <1>1, <1>3, Zenon DEF used_blocks
<1>11. bitmap \in SUBSET Nat
  BY <1>4, <1>7, <1>9
<1>12. QED
  BY <1>8, <1>9, <1>10, <1>11

\* What the bitmap has: superblock copies, the metadata of the groups, and what
\* the second allocator has given out.
LEMMA BitmapIs ==
  ASSUME IInv, pc \in Phases \ Early
  PROVE  bitmap = (SuperBlocks \cup AllMeta) \cup OutBlocks
<1>1. input \in Inputs /\ group_meta \in Seq(GroupMeta) /\ ~Open
  BY DEF IInv, SpanInv, SpanShape, Open, Phases, Early
<1>2. bitmap = UNION {BlocksOf(m[3]) : m \in SuperMarks \cup MetaMarks \cup OutMarks}
  BY MarkedAre DEF bitmap
<1>3. UNION {BlocksOf(m[3]) : m \in SuperMarks} = SuperBlocks
  <2>1. ASSUME NEW b, b \in UNION {BlocksOf(m[3]) : m \in SuperMarks} PROVE b \in SuperBlocks
    BY <2>1 DEF SuperMarks, SuperBlocks
  <2>2. ASSUME NEW b \in SuperBlocks PROVE b \in UNION {BlocksOf(m[3]) : m \in SuperMarks}
    <3>1. PICK r \in SuperRuns : b \in BlocksOf(r)
      BY <2>2 DEF SuperBlocks
    <3>2. PICK m : m = <<"super", r.start, r>>
      OBVIOUS
    <3>3. m \in SuperMarks /\ m[3] = r
      BY <3>2 DEF SuperMarks
    <3>4. QED
      BY <3>1, <3>3
  <2>3. QED
    BY <2>1, <2>2
<1>4. UNION {BlocksOf(m[3]) : m \in MetaMarks} = AllMeta
  <2>1. ASSUME NEW b, b \in UNION {BlocksOf(m[3]) : m \in MetaMarks} PROVE b \in AllMeta
    <3>1. PICK m \in MetaMarks : b \in BlocksOf(m[3])
      BY <2>1
    <3>2. PICK what \in {"bb", "ib", "it"}, g \in DOMAIN group_meta : BlocksOf(m[3]) = MetaPart(what, g)
      BY MetaMark
    <3>3. MetaPart(what, g) \subseteq MetaBlocks(g)
      BY DEF MetaPart, MetaBlocks
    <3>4. QED
      BY <3>1, <3>2, <3>3 DEF AllMeta
  <2>2. ASSUME NEW b \in AllMeta PROVE b \in UNION {BlocksOf(m[3]) : m \in MetaMarks}
    <3>1. PICK g \in DOMAIN group_meta : b \in MetaBlocks(g)
      BY <2>2 DEF AllMeta
    <3>2. group_meta[g] \in GroupMeta /\ g \in 1 .. Len(group_meta)
      BY <1>1
    <3>3. PICK bb \in Nat, ib \in Nat : bb = group_meta[g].bb /\ ib = group_meta[g].ib
      BY <3>2 DEF GroupMeta
    <3>4. b = bb \/ b = ib \/ b \in TableBlocks(g)
      BY <3>1, <3>3 DEF MetaBlocks
    <3>5. CASE b = bb
      <4>1. PICK m : m = <<"bb", g, One(bb)>>
        OBVIOUS
      <4>2. m \in MetaMarks /\ m[3] = One(bb)
        BY <3>3, <4>1 DEF MetaMarks, Listed
      <4>3. bb \in BlocksOf(One(bb))
        BY <3>3 DEF One, BlocksOf, RunEnd
      <4>4. QED
        BY <3>5, <4>2, <4>3
    <3>6. CASE b = ib
      <4>1. PICK m : m = <<"ib", g, One(ib)>>
        OBVIOUS
      <4>2. m \in MetaMarks /\ m[3] = One(ib)
        BY <3>3, <4>1 DEF MetaMarks, Listed
      <4>3. ib \in BlocksOf(One(ib))
        BY <3>3 DEF One, BlocksOf, RunEnd
      <4>4. QED
        BY <3>6, <4>2, <4>3
    <3>7. CASE b \in TableBlocks(g)
      <4>1. PICK r : r = [start |-> group_meta[g].it, len |-> input.itable]
        OBVIOUS
      <4>2. PICK m : m = <<"it", g, r>>
        OBVIOUS
      <4>3. m \in MetaMarks /\ m[3] = r
        BY <4>1, <4>2 DEF MetaMarks, Listed
      <4>4. b \in BlocksOf(r)
        <5>1. r.start = group_meta[g].it /\ r.len = input.itable
          BY <4>1
        <5>2. group_meta[g].it \in Nat /\ input.itable \in Nat
          BY <1>1, <3>2, Parameters DEF GroupMeta
        <5>3. b \in group_meta[g].it .. group_meta[g].it + input.itable - 1
          BY <3>7 DEF TableBlocks
        <5>4. b \in r.start .. (r.start + r.len) - 1
          BY <5>1, <5>2, <5>3
        <5>5. QED
          BY <5>4 DEF BlocksOf, RunEnd
      <4>5. QED
        BY <4>3, <4>4
    <3>8. QED
      BY <3>4, <3>5, <3>6, <3>7
  <2>3. QED
    BY <2>1, <2>2
<1>5. UNION {BlocksOf(m[3]) : m \in OutMarks} = OutBlocks
  <2>1. ASSUME NEW b, b \in UNION {BlocksOf(m[3]) : m \in OutMarks} PROVE b \in OutBlocks
    <3>1. PICK m \in OutMarks : b \in BlocksOf(m[3])
      BY <2>1
    <3>2. PICK k \in 1 .. 5 : \E i \in DOMAIN Out[k] : m[3] = Out[k][i]
      BY OutMark
    <3>3. b \in Given(Out[k])
      BY <3>1, <3>2 DEF Given
    <3>4. QED
      BY <3>3 DEF OutBlocks
  <2>2. ASSUME NEW b \in OutBlocks PROVE b \in UNION {BlocksOf(m[3]) : m \in OutMarks}
    <3>1. PICK k \in 1 .. 5 : b \in Given(Out[k])
      BY <2>2 DEF OutBlocks
    <3>2. PICK i \in DOMAIN Out[k] : b \in BlocksOf(Out[k][i])
      BY <3>1 DEF Given
    <3>3. PICK m : m = <<OutNames[k], i, Out[k][i]>>
      OBVIOUS
    <3>4. m \in OutMarks /\ m[3] = Out[k][i]
      BY <3>3 DEF OutMarks, Listed
    <3>5. QED
      BY <3>2, <3>4
  <2>3. QED
    BY <2>1, <2>2
<1>6. PICK A, B, C : A = SuperMarks /\ B = MetaMarks /\ C = OutMarks
  OBVIOUS
<1>7. UNION {BlocksOf(m[3]) : m \in A \cup B \cup C}
        = (UNION {BlocksOf(m[3]) : m \in A}) \cup (UNION {BlocksOf(m[3]) : m \in B})
            \cup (UNION {BlocksOf(m[3]) : m \in C})
  OBVIOUS
<1>8. QED
  BY <1>2, <1>3, <1>4, <1>5, <1>6, <1>7, Zenon

LEMMA SizeOfSupers ==
  ASSUME input \in Inputs
  PROVE  /\ IsFiniteSet(SuperBlocks) /\ Cardinality(backup_groups) \in Nat
         /\ Cardinality(SuperBlocks) = (1 + Cardinality(backup_groups)) * (1 + GdtBlocks)
<1>1. PICK S : S = {0} \cup backup_groups
  OBVIOUS
<1>2. PICK part : part = [g \in S |-> group_start(g) .. group_start(g) + GdtBlocks]
  OBVIOUS
<1>3. PICK n \in Nat : n = 1 + GdtBlocks
  BY Parameters
<1>4. PICK k : k = [g \in S |-> n]
  OBVIOUS
<1>5. S \in SUBSET Nat /\ IsFiniteSet(S)
  BY <1>1, SupersFinite DEF backup_groups
<1>6. ASSUME NEW g \in S
      PROVE  part[g] \in SUBSET Nat /\ IsFiniteSet(part[g]) /\ k[g] = Cardinality(part[g])
  <2>1. PICK a \in Nat : a = group_start(g)
    BY <1>5, StartType
  <2>2. part[g] = a .. a + GdtBlocks /\ k[g] = n
    BY <1>2, <1>4, <2>1
  <2>3. GdtBlocks \in Nat /\ a \in Int /\ a + GdtBlocks \in Int
    BY <2>1, Parameters
  <2>4. /\ IsFiniteSet(a .. a + GdtBlocks)
        /\ Cardinality(a .. a + GdtBlocks) = IF a > a + GdtBlocks THEN 0 ELSE (a + GdtBlocks) - a + 1
    BY <2>3, FS_Interval
  <2>5. Cardinality(a .. a + GdtBlocks) = n
    BY <1>3, <2>1, <2>3, <2>4
  <2>6. QED
    BY <2>1, <2>2, <2>4, <2>5
<1>7. ASSUME NEW g \in S, NEW h \in S, g # h PROVE part[g] \cap part[h] = {}
  <2>1. g < h \/ h < g
    BY <1>5, <1>7
  <2>2. PICK a \in Nat, b \in Nat : a = group_start(g) /\ b = group_start(h)
    BY <1>5, StartType
  <2>3. a + GroupBlocks <= b \/ b + GroupBlocks <= a
    BY <1>5, <2>1, <2>2, GroupStarts
  <2>4. GdtBlocks \in Nat /\ GroupBlocks \in Nat /\ GdtBlocks < GroupBlocks
    <3>1. 3 + GdtBlocks + 2 * input.itable < GroupBlocks /\ input.itable \in Nat /\ GdtBlocks \in Nat
          /\ GroupBlocks \in Nat
      BY Parameters
    <3>2. QED
      BY <3>1
  <2>5. part[g] = a .. a + GdtBlocks /\ part[h] = b .. b + GdtBlocks
    BY <1>2, <2>2
  <2>6. QED
    BY <2>2, <2>3, <2>4, <2>5
<1>8. PICK W : W = UNION {part[g] : g \in S}
  OBVIOUS
<1>9. IsFiniteSet(W) /\ Cardinality(W) = SumOf(k, S)
  <2>1. \A s \in S : part[s] \in SUBSET Nat /\ IsFiniteSet(part[s])
    BY <1>6
  <2>2. \A s, t \in S : s # t => part[s] \cap part[t] = {}
    BY <1>7
  <2>3. \A s \in S : k[s] = Cardinality(part[s])
    BY <1>6
  <2>4. IsFiniteSet(UNION {part[s] : s \in S}) /\ Cardinality(UNION {part[s] : s \in S}) = SumOf(k, S)
    BY <1>5, <2>1, <2>2, <2>3, SizeOfParts
  <2>5. QED
    BY <1>8, <2>4
<1>10. SumOf(k, S) = Cardinality(S) * n
  BY <1>3, <1>4, <1>5, SumOfSame
<1>11. Cardinality(backup_groups) \in Nat /\ Cardinality(S) = 1 + Cardinality(backup_groups)
  <2>1. IsFiniteSet(backup_groups)
    BY <1>1, <1>5, FS_Subset
  <2>2. 0 \notin backup_groups
    BY DEF backup_groups, has_backup
  <2>3. Cardinality(backup_groups \cup {0}) = Cardinality(backup_groups) + 1
    BY <2>1, <2>2, FS_AddElement
  <2>4. S = backup_groups \cup {0}
    BY <1>1
  <2>5. Cardinality(backup_groups) \in Nat
    BY <2>1, FS_CardinalityType
  <2>6. QED
    BY <2>3, <2>4, <2>5
<1>12. SuperBlocks = W
  <2>1. ASSUME NEW b \in SuperBlocks PROVE b \in W
    <3>1. PICK r \in SuperRuns : b \in BlocksOf(r)
      BY <2>1 DEF SuperBlocks
    <3>2. PICK g \in S : r = [start |-> group_start(g), len |-> 1 + GdtBlocks]
      BY <1>1 DEF SuperRuns
    <3>3. BlocksOf(r) = group_start(g) .. (group_start(g) + (1 + GdtBlocks)) - 1
      <4>1. r.start = group_start(g) /\ r.len = 1 + GdtBlocks
        BY <3>2
      <4>2. BlocksOf(r) = r.start .. (r.start + r.len) - 1
        BY DEF BlocksOf, RunEnd
      <4>3. QED
        BY <4>1, <4>2
    <3>4. (group_start(g) + (1 + GdtBlocks)) - 1 = group_start(g) + GdtBlocks
      <4>1. PICK a \in Nat : a = group_start(g)
        BY <1>5, StartType
      <4>2. PICK m \in Nat : m = GdtBlocks
        BY Parameters
      <4>3. (a + (1 + m)) - 1 = a + m
        BY <4>1, <4>2
      <4>4. QED
        BY <4>1, <4>2, <4>3
    <3>5. QED
      BY <1>2, <1>8, <3>1, <3>3, <3>4
  <2>2. ASSUME NEW g \in S, NEW b \in part[g] PROVE b \in SuperBlocks
    <3>1. PICK r : r = [start |-> group_start(g), len |-> 1 + GdtBlocks]
      OBVIOUS
    <3>2. r \in SuperRuns
      BY <1>1, <3>1 DEF SuperRuns
    <3>3. BlocksOf(r) = group_start(g) .. (group_start(g) + (1 + GdtBlocks)) - 1
      <4>1. r.start = group_start(g) /\ r.len = 1 + GdtBlocks
        BY <3>1
      <4>2. BlocksOf(r) = r.start .. (r.start + r.len) - 1
        BY DEF BlocksOf, RunEnd
      <4>3. QED
        BY <4>1, <4>2
    <3>4. (group_start(g) + (1 + GdtBlocks)) - 1 = group_start(g) + GdtBlocks
      <4>1. PICK a \in Nat : a = group_start(g)
        BY <1>5, StartType
      <4>2. PICK m \in Nat : m = GdtBlocks
        BY Parameters
      <4>3. (a + (1 + m)) - 1 = a + m
        BY <4>1, <4>2
      <4>4. QED
        BY <4>1, <4>2, <4>3
    <3>5. b \in BlocksOf(r)
      BY <1>2, <2>2, <3>3, <3>4
    <3>6. QED
      BY <3>2, <3>5 DEF SuperBlocks
  <2>3. QED
    BY <1>8, <2>1, <2>2
<1>13. QED
  BY <1>3, <1>9, <1>10, <1>11, <1>12

\* Two bitmaps and a table for every group.
LEMMA SizeOfMeta ==
  ASSUME IInv, CountInv, pc \in Phases \ Early
  PROVE  /\ IsFiniteSet(AllMeta)
         /\ Cardinality(AllMeta) = groups * (2 + input.itable)
<1>1. /\ input \in Inputs /\ group_meta \in Seq(GroupMeta) /\ ~Open /\ MetaApart
      /\ Len(group_meta) = Finished /\ groups <= leader /\ span \in Nat
  BY DEF IInv, SpanInv, SpanShape, Open, Phases, Early, CountInv
<1>2. Len(group_meta) = groups /\ groups \in Nat
  <2>1. leader \in Nat /\ groups \in Nat
    BY <1>1, SpanNumbers, GroupsHoldImage
  <2>2. QED
    BY <1>1, <2>1 DEF Finished
<1>3. PICK D : D = DOMAIN group_meta
  OBVIOUS
<1>4. D = 1 .. groups /\ IsFiniteSet(D) /\ Cardinality(D) = groups
  <2>1. D = 1 .. groups
    BY <1>1, <1>2, <1>3
  <2>2. IsFiniteSet(1 .. groups) /\ Cardinality(1 .. groups) = IF 1 > groups THEN 0 ELSE groups - 1 + 1
    BY <1>2, FS_Interval
  <2>3. QED
    BY <1>2, <2>1, <2>2
<1>5. PICK part : part = [g \in D |-> MetaBlocks(g)]
  OBVIOUS
<1>6. PICK n \in Nat : n = 2 + input.itable
  BY <1>1, Parameters
<1>7. PICK k : k = [g \in D |-> n]
  OBVIOUS
<1>8. ASSUME NEW g \in D
      PROVE  part[g] \in SUBSET Nat /\ IsFiniteSet(part[g]) /\ k[g] = Cardinality(part[g])
  <2>1. group_meta[g] \in GroupMeta /\ g <= Tables
    BY <1>1, <1>2, <1>3, <1>4 DEF Tables
  <2>2. PICK b \in Nat, i \in Nat, t \in Nat : b = group_meta[g].bb /\ i = group_meta[g].ib /\ t = group_meta[g].it
    BY <2>1 DEF GroupMeta
  <2>3. PICK m \in Nat : m = input.itable
    BY <1>1, Parameters
  <2>4. PICK T : T = TableBlocks(g)
    OBVIOUS
  <2>5. T = t .. t + m - 1
    BY <2>1, <2>2, <2>3, <2>4 DEF TableBlocks
  <2>6. IsFiniteSet(T) /\ Cardinality(T) = m
    <3>1. t \in Int /\ t + m - 1 \in Int
      BY <2>2, <2>3
    <3>2. IsFiniteSet(T) /\ Cardinality(T) = IF t > t + m - 1 THEN 0 ELSE (t + m - 1) - t + 1
      BY <2>5, <3>1, FS_Interval
    <3>3. QED
      BY <2>2, <2>3, <3>2
  <2>7. b # i /\ b \notin T /\ i \notin T
    BY <1>1, <1>3, <2>2, <2>4 DEF MetaApart
  <2>8. IsFiniteSet(T \cup {b}) /\ Cardinality(T \cup {b}) = m + 1
    BY <2>6, <2>7, FS_AddElement
  <2>9. i \notin T \cup {b}
    BY <2>7
  <2>10. IsFiniteSet((T \cup {b}) \cup {i}) /\ Cardinality((T \cup {b}) \cup {i}) = (m + 1) + 1
    BY <2>8, <2>9, FS_AddElement
  <2>11. part[g] = (T \cup {b}) \cup {i} /\ k[g] = n
    BY <1>5, <1>7, <2>2, <2>4 DEF MetaBlocks
  <2>12. (T \cup {b}) \cup {i} \in SUBSET Nat
    BY <2>2, <2>3, <2>5
  <2>13. n = (m + 1) + 1
    BY <1>6, <2>3
  <2>14. QED
    BY <2>10, <2>11, <2>12, <2>13
<1>9. \A g, h \in D : g # h => part[g] \cap part[h] = {}
  BY <1>1, <1>3, <1>5 DEF MetaApart
<1>10. PICK W : W = UNION {part[g] : g \in D}
  OBVIOUS
<1>11. IsFiniteSet(W) /\ Cardinality(W) = SumOf(k, D)
  <2>1. \A s \in D : part[s] \in SUBSET Nat /\ IsFiniteSet(part[s])
    BY <1>8
  <2>2. \A s \in D : k[s] = Cardinality(part[s])
    BY <1>8
  <2>3. \A s, t \in D : s # t => part[s] \cap part[t] = {}
    BY <1>9
  <2>4. IsFiniteSet(D)
    BY <1>4
  <2>5. IsFiniteSet(UNION {part[s] : s \in D}) /\ Cardinality(UNION {part[s] : s \in D}) = SumOf(k, D)
    BY <2>1, <2>2, <2>3, <2>4, SizeOfParts
  <2>6. QED
    BY <1>10, <2>5
<1>12. SumOf(k, D) = Cardinality(D) * n
  BY <1>4, <1>6, <1>7, SumOfSame
<1>13. AllMeta = W
  BY <1>3, <1>5, <1>10 DEF AllMeta
<1>14. QED
  BY <1>4, <1>6, <1>11, <1>12, <1>13

\* No block is of two of the three sorts.
LEMMA SortsApart ==
  ASSUME IInv, pc \in Phases \ Early
  PROVE  /\ SuperBlocks \cap AllMeta = {} /\ (SuperBlocks \cup AllMeta) \cap OutBlocks = {}
         /\ IsFiniteSet(OutBlocks)
<1>1. /\ input \in Inputs /\ ~Open /\ MetaApart /\ MetaCovered /\ OutIn(Out, PassedRoom)
  BY DEF IInv, SpanInv, OutInv, Open, Phases, Early
<1>2. \A b \in FreeFrom(0, SuperRuns) : \A r \in SuperRuns : b \notin BlocksOf(r)
  BY <1>1, FreeType
<1>3. \A b \in FreeFrom(0, AllReserved) : \A r \in AllReserved : b \notin BlocksOf(r)
  BY <1>1, FreeType
<1>4. SuperBlocks \cap AllMeta = {}
  <2>1. \A g \in DOMAIN group_meta : MetaBlocks(g) \subseteq FreeFrom(0, SuperRuns)
    BY <1>1 DEF MetaApart
  <2>2. QED
    BY <1>2, <2>1 DEF SuperBlocks, AllMeta
<1>5. AllMeta \subseteq Flexed
  <2>1. OpenBlocks = {}
    BY <1>1 DEF OpenBlocks
  <2>2. \A g \in DOMAIN group_meta : MetaBlocks(g) \subseteq Flexed
    BY <1>1, <2>1 DEF MetaCovered
  <2>3. QED
    BY <2>2 DEF AllMeta
<1>6. OutBlocks \subseteq FreeFrom(0, AllReserved)
  BY <1>1 DEF OutBlocks, OutIn, PassedRoom
<1>7. \A b \in SuperBlocks \cup Flexed : \E r \in AllReserved : b \in BlocksOf(r)
  BY DEF SuperBlocks, Flexed, AllReserved
<1>8. (SuperBlocks \cup AllMeta) \cap OutBlocks = {}
  BY <1>3, <1>5, <1>6, <1>7
<1>9. IsFiniteSet(OutBlocks)
  <2>1. IsFiniteSet(FreeFrom(0, AllReserved))
    BY <1>1, FreeType
  <2>2. QED
    BY <1>6, <2>1, FS_Subset
<1>10. QED
  BY <1>4, <1>8, <1>9

LEMMA AccountsAdd ==
  ASSUME IInv, CountInv, pc = "sealed"
  PROVE  AccountsBalance
<1>1. pc \in Phases \ Early /\ input \in Inputs
  BY DEF Phases, Early, IInv
<1>2. PICK A, B, C : A = SuperBlocks /\ B = AllMeta /\ C = OutBlocks
  OBVIOUS
<1>3. PICK s \in Nat, d \in Nat : s = Cardinality(backup_groups) /\ d = GdtBlocks
  BY <1>1, SizeOfSupers, Parameters
<1>4. PICK n \in Nat, t \in Nat, j \in Nat : n = groups /\ t = input.itable /\ j = input.journal
  BY <1>1, GroupsHoldImage, Parameters
<1>5. IsFiniteSet(A) /\ Cardinality(A) = (1 + s) * (1 + d)
  BY <1>1, <1>2, <1>3, SizeOfSupers
<1>6. IsFiniteSet(B) /\ Cardinality(B) = n * (2 + t)
  BY <1>1, <1>2, <1>4, SizeOfMeta
<1>7. IsFiniteSet(C) /\ A \cap B = {} /\ (A \cup B) \cap C = {}
  BY <1>1, <1>2, SortsApart
<1>8. IsFiniteSet(A \cup B) /\ Cardinality(A \cup B) = Cardinality(A) + Cardinality(B)
  BY <1>5, <1>6, <1>7, SizeOfUnion
<1>9. Cardinality((A \cup B) \cup C) = Cardinality(A \cup B) + Cardinality(C) /\ Cardinality(C) \in Nat
  BY <1>7, <1>8, SizeOfUnion
<1>10. used_blocks = Cardinality((A \cup B) \cup C)
  BY <1>1, <1>2, UsedIsBitmap, BitmapIs
<1>11. PICK S : S = Slots \cup {0}
  OBVIOUS
<1>12. Charged
  BY DEF CountInv
<1>13. DOMAIN blocks512 = S /\ Cardinality(C) = JournalShare + SumOf(blocks512, S)
  BY <1>2, <1>11, <1>12 DEF Charged
<1>14. JournalShare = j + TreeBlocks(Len(journal_runs))
  BY <1>4 DEF JournalShare, Early
<1>15. PICK x : x = TreeBlocks(Len(journal_runs))
  OBVIOUS
<1>16. PICK y : y = SumOf(blocks512, S)
  OBVIOUS
<1>17. x \in Nat /\ y \in Nat
  <2>1. journal_runs \in Seq(Run)
    <3>1. OutIn(Out, PassedRoom) /\ Out[1] = journal_runs /\ 1 \in 1 .. 5
      BY <1>1 DEF IInv, OutInv, Phases, Out
    <3>2. QED
      BY <3>1 DEF OutIn
  <2>2. x \in Nat
    BY <1>15, <2>1, TreeBlocksType
  <2>3. IsFiniteSet(S) /\ \A r \in S : blocks512[r] \in Nat
    BY <1>1, <1>11, <1>12, SlotsType DEF Charged
  <2>4. y \in Nat
    <3>1. Cardinality(Units(blocks512, S)) \in Nat
      BY <2>3, UnitsFinite
    <3>2. QED
      BY <1>16, <3>1 DEF SumOf, Units
  <2>5. QED
    BY <2>2, <2>4
<1>18. used_blocks = ((1 + s) * (1 + d) + n * (2 + t)) + ((j + x) + y)
  BY <1>5, <1>6, <1>8, <1>9, <1>10, <1>13, <1>14, <1>15, <1>16
<1>19. overhead = 1 + d + s * (1 + d) + 2 * n + n * t + j
  BY <1>3, <1>4 DEF overhead
<1>20. (1 + s) * (1 + d) = 1 + d + s * (1 + d) /\ n * (2 + t) = 2 * n + n * t
  OBVIOUS
<1>21. s * (1 + d) \in Nat /\ n * t \in Nat
  OBVIOUS
<1>22. PICK v \in Nat, w \in Nat : v = s * (1 + d) /\ w = n * t
  BY <1>21
<1>23. used_blocks = overhead + x + y
  BY <1>17, <1>18, <1>19, <1>20, <1>22
<1>24. QED
  BY <1>13, <1>15, <1>16, <1>23 DEF AccountsBalance

\* Every used block is accounted for once: the overhead formula, the journal's
\* tree blocks and i_blocks of all inodes add up to what the bitmap has set.
THEOREM AccountsAreBalanced == Spec => []AccountsBalance
<1>1. IInv /\ CountInv => AccountsBalance
  BY AccountsAdd DEF AccountsBalance
<1>2. QED
  BY <1>1, Invariance, CountsInvariance, PTL
-----------------------------------------------------------------------------
(* The bitmap against the layout. *)

\* What SegmentSorts says the segments are, they are all.
LEMMA InLayout ==
  /\ \A r \in SuperRuns : /\ Bytes(r.start, 1) \in LayoutSegments
                          /\ Bytes(r.start + 1, GdtBlocks) \in LayoutSegments
  /\ \A g \in DOMAIN group_meta : /\ Bytes(group_meta[g].bb, 1) \in LayoutSegments
                                  /\ Bytes(group_meta[g].ib, 1) \in LayoutSegments
                                  /\ TableSeg(g) \in LayoutSegments
  /\ \A b \in Given(lf_runs) \cup Given(dir_runs) : Bytes(b, 1) \in LayoutSegments
  /\ \A i \in DOMAIN segments : Bytes(segments[i].start, 1) \in LayoutSegments
<1>1. ASSUME NEW r \in SuperRuns
      PROVE  Bytes(r.start, 1) \in LayoutSegments /\ Bytes(r.start + 1, GdtBlocks) \in LayoutSegments
  BY DEF LayoutSegments
<1>2. ASSUME NEW g \in DOMAIN group_meta,
             NEW x \in {Bytes(group_meta[g].bb, 1), Bytes(group_meta[g].ib, 1), TableSeg(g)}
      PROVE  x \in LayoutSegments
  BY DEF LayoutSegments, TableSeg
<1>3. ASSUME NEW b \in Given(lf_runs) \cup Given(dir_runs) PROVE Bytes(b, 1) \in LayoutSegments
  <2>1. b \in UNION {BlocksOf(r) : r \in {lf_runs[i] : i \in DOMAIN lf_runs}
                                     \cup {dir_runs[i] : i \in DOMAIN dir_runs}}
    BY <1>3 DEF Given
  <2>2. QED
    BY <2>1 DEF LayoutSegments
<1>4. ASSUME NEW i \in DOMAIN segments PROVE Bytes(segments[i].start, 1) \in LayoutSegments
  BY DEF LayoutSegments
<1>5. QED
  BY <1>1, <1>2, <1>3, <1>4

\* The blocks of the image that content is emitted for.
Emitted == UNION {SegBlocks(s) : s \in LayoutSegments}

LEMMA EmittedOne ==
  ASSUME NEW b \in Nat, Bytes(b, 1) \in LayoutSegments
  PROVE  b \in Emitted
<1>1. 1 \in Nat \ {0} /\ b \in b .. b + 1 - 1
  OBVIOUS
<1>2. b \in SegBlocks(Bytes(b, 1))
  BY <1>1, BytesShape
<1>3. QED
  BY <1>2 DEF Emitted

LEMMA EmittedIsMarked ==
  ASSUME IInv, FileInv, pc = "sealed", NEW c \in Emitted
  PROVE  c \in (SuperBlocks \cup AllMeta) \cup OutBlocks
<1>1. PICK x \in LayoutSegments : c \in SegBlocks(x)
  BY DEF Emitted
<1>2. input \in Inputs /\ GdtBlocks \in Nat
  BY AtTheEnd, Parameters
<1>3. ASSUME NEW r \in SuperRuns PROVE r.start \in BlocksOf(r) /\ GdtOf(r) \subseteq BlocksOf(r)
  <2>1. r.start \in Nat /\ BlocksOf(r) = r.start .. r.start + GdtBlocks
    BY <1>2, SuperShape, StartType
  <2>2. QED
    BY <1>2, <2>1 DEF GdtOf
<1>4. OutSingles \subseteq OutBlocks
  <2>1. OutIn(Out, PassedRoom) /\ journal_runs # <<>>
    BY DEF IInv, OutInv, Early, FileInv
  <2>2. Out[1] = journal_runs /\ Out[5] = segments /\ 1 \in 1 .. 5 /\ 5 \in 1 .. 5
    BY DEF Out
  <2>3. journal_runs \in Seq(Run) /\ segments \in Seq(Run)
    BY <2>1, <2>2 DEF OutIn
  <2>4. ASSUME NEW runs \in Seq(Run), NEW i \in DOMAIN runs PROVE runs[i].start \in Given(runs)
    <3>1. runs[i] \in Run
      OBVIOUS
    <3>2. runs[i].start \in BlocksOf(runs[i])
      BY <3>1, RunEnds
    <3>3. QED
      BY <3>2 DEF Given
  <2>5. 1 \in DOMAIN journal_runs
    BY <2>1, <2>3
  <2>6. journal_runs[1].start \in Given(journal_runs)
    BY <2>3, <2>4, <2>5
  <2>7. \A i \in DOMAIN segments : segments[i].start \in Given(segments)
    BY <2>3, <2>4
  <2>8. QED
    BY <2>6, <2>7, OutBlocksAre DEF OutSingles
<1>5. CASE IsSingle(x)
  <2>1. c \in SuperStarts \cup BitmapBlocks \cup OutSingles
    BY <1>1, <1>5 DEF IsSingle
  <2>2. SuperStarts \subseteq SuperBlocks
    BY <1>3 DEF SuperStarts, SuperBlocks
  <2>3. BitmapBlocks \subseteq AllMeta
    BY DEF BitmapBlocks, AllMeta, MetaBlocks
  <2>4. QED
    BY <1>4, <2>1, <2>2, <2>3
<1>6. CASE IsGdt(x)
  BY <1>1, <1>3, <1>6 DEF IsGdt, SuperBlocks
<1>7. CASE IsTable(x)
  BY <1>1, <1>7 DEF IsTable, AllMeta, MetaBlocks
<1>8. QED
  BY <1>5, <1>6, <1>7, SegmentShape

LEMMA MarkedIsEmitted ==
  ASSUME IInv, FileInv, CountInv, pc = "sealed",
         NEW b \in (SuperBlocks \cup AllMeta) \cup OutBlocks
  PROVE  b \in Emitted \/ b \in Given(data_runs) \/ b \in Given(journal_runs)
<1>1. input \in Inputs /\ GdtBlocks \in Nat \ {0}
  BY AtTheEnd, Parameters
<1>2. CASE b \in SuperBlocks
  <2>1. PICK r \in SuperRuns : b \in BlocksOf(r)
    BY <1>2 DEF SuperBlocks
  <2>2. r.start \in Nat /\ BlocksOf(r) = r.start .. r.start + GdtBlocks
    BY <1>1, SuperShape, StartType
  <2>3. CASE b = r.start
    BY <2>2, <2>3, InLayout, EmittedOne
  <2>4. CASE b # r.start
    <3>1. PICK a \in Nat, n \in Nat \ {0} : a = r.start + 1 /\ n = GdtBlocks
      BY <1>1, <2>2
    <3>2. Bytes(a, n) \in LayoutSegments
      BY <3>1, InLayout
    <3>3. SegBlocks(Bytes(a, n)) = a .. a + n - 1
      BY BytesShape
    <3>4. b \in a .. a + n - 1
      BY <2>1, <2>2, <2>4, <3>1
    <3>5. QED
      BY <3>2, <3>3, <3>4 DEF Emitted
  <2>5. QED
    BY <2>3, <2>4
<1>3. CASE b \in AllMeta
  <2>1. PICK g \in DOMAIN group_meta : b \in MetaBlocks(g)
    BY <1>3 DEF AllMeta
  <2>2. b \in Nat /\ TableBlocks(g) = group_meta[g].it .. group_meta[g].it + input.itable - 1
    BY <2>1, AtTheEnd
  <2>3. CASE b = group_meta[g].bb \/ b = group_meta[g].ib
    <3>1. Bytes(group_meta[g].bb, 1) \in LayoutSegments /\ Bytes(group_meta[g].ib, 1) \in LayoutSegments
      BY InLayout
    <3>2. Bytes(b, 1) \in LayoutSegments
      BY <2>3, <3>1
    <3>3. QED
      BY <2>2, <3>2, EmittedOne
  <2>4. CASE b \in TableBlocks(g)
    <3>1. PICK x : x = TableSeg(g)
      OBVIOUS
    <3>2. x.block = group_meta[g].it /\ x.len = input.itable
      BY <3>1 DEF TableSeg
    <3>3. SegBlocks(x) = TableBlocks(g)
      BY <2>2, <3>2 DEF SegBlocks
    <3>4. x \in LayoutSegments
      BY <3>1, InLayout
    <3>5. QED
      BY <2>4, <3>3, <3>4 DEF Emitted
  <2>5. QED
    BY <2>1, <2>3, <2>4 DEF MetaBlocks
<1>4. CASE b \in OutBlocks
  <2>1. OutIn(Out, PassedRoom)
    BY DEF IInv, OutInv, Early
  <2>2. Out[5] = segments /\ 5 \in 1 .. 5
    BY DEF Out
  <2>3. segments \in Seq(Run) /\ Given(segments) \subseteq PassedRoom
    BY <2>1, <2>2 DEF OutIn
  <2>4. CASE b \in Given(lf_runs) \cup Given(dir_runs)
    <3>1. b \in Nat
      <4>1. b \in OutSingles
        BY <2>4 DEF OutSingles
      <4>2. QED
        BY <4>1, SingleNumbers
    <3>2. QED
      BY <2>4, <3>1, InLayout, EmittedOne
  <2>5. CASE b \in Given(segments)
    <3>1. PICK i \in DOMAIN segments : b \in BlocksOf(segments[i])
      BY <2>5 DEF Given
    <3>2. segments[i].len = 1 /\ segments[i] \in Run
      BY <2>3, <3>1 DEF CountInv
    <3>3. PICK a \in Nat : a = segments[i].start
      BY <3>2 DEF Run
    <3>4. BlocksOf(segments[i]) = a .. (a + 1) - 1
      BY <3>2, <3>3 DEF BlocksOf, RunEnd
    <3>5. b = a
      BY <3>1, <3>3, <3>4
    <3>6. Bytes(b, 1) \in LayoutSegments
      BY <3>3, <3>5, InLayout
    <3>7. QED
      BY <3>3, <3>5, <3>6, EmittedOne
  <2>6. b \in Given(journal_runs) \/ b \in Given(lf_runs) \cup Given(dir_runs) \/ b \in Given(data_runs)
          \/ b \in Given(segments)
    BY <1>4, OutBlocksAre
  <2>7. QED
    BY <2>4, <2>5, <2>6
<1>5. QED
  BY <1>2, <1>3, <1>4

\* A block is in use if a segment, a file or the journal has it.
LEMMA BitmapIsLayout ==
  ASSUME IInv, FileInv, CountInv, pc = "sealed"
  PROVE  bitmap = Emitted \cup Given(data_runs) \cup Given(journal_runs)
<1>1. bitmap = (SuperBlocks \cup AllMeta) \cup OutBlocks
  BY BitmapIs DEF Phases, Early
<1>2. Given(data_runs) \subseteq OutBlocks /\ Given(journal_runs) \subseteq OutBlocks
  BY OutBlocksAre
<1>3. QED
  BY <1>1, <1>2, EmittedIsMarked, MarkedIsEmitted

\* Nothing outside the image is in use.
LEMMA BitmapInside ==
  ASSUME IInv, FileInv, CopiesFit, pc = "sealed"
  PROVE  bitmap \subseteq 0 .. input.blocks - 1
<1>1. input \in Inputs /\ input.blocks \in Nat /\ pc \in Phases \ Early /\ GdtBlocks \in Nat
  BY AtTheEnd, Parameters DEF Phases, Early
<1>2. bitmap = (SuperBlocks \cup AllMeta) \cup OutBlocks /\ bitmap \in SUBSET Nat
  BY <1>1, BitmapIs, UsedIsBitmap
<1>3. ASSUME NEW b \in SuperBlocks PROVE b < input.blocks
  <2>1. PICK r \in SuperRuns : b \in BlocksOf(r)
    BY DEF SuperBlocks
  <2>2. BlocksOf(r) = r.start .. r.start + GdtBlocks
    BY <1>1, SuperShape
  <2>3. r.start \in Nat /\ r.start + GdtBlocks < input.blocks
    BY <1>1, CopiesInside
  <2>4. QED
    BY <1>1, <2>1, <2>2, <2>3
<1>4. ASSUME NEW b \in AllMeta PROVE b < input.blocks
  BY AtTheEnd DEF AllMeta
<1>5. ASSUME NEW b \in OutBlocks PROVE b < input.blocks
  <2>1. OutIn(Out, PassedRoom)
    BY DEF IInv, OutInv, Early
  <2>2. b \in PassedRoom
    BY <2>1 DEF OutIn, OutBlocks
  <2>3. QED
    BY <2>2, AtTheEnd
<1>6. QED
  BY <1>1, <1>2, <1>3, <1>4, <1>5

\* The groups cut the image up.
GroupBody(g) == group_start(g) .. (group_start(g) + blocks_in_group(g)) - 1

LEMMA GroupBodyIs ==
  ASSUME input \in Inputs, NEW g \in 0 .. groups - 1
  PROVE  /\ group_start(g) \in Nat /\ blocks_in_group(g) \in Nat
         /\ \A b \in Nat : b \in GroupBody(g) <=>
              b < input.blocks /\ group_start(g) <= b /\ b < group_start(g) + GroupBlocks
<1>1. GroupBlocks \in Nat \ {0} /\ input.blocks \in Nat /\ groups \in Nat
  BY Parameters, GroupsHoldImage
<1>2. g \in Nat /\ groups - 1 \in Nat /\ g <= groups - 1
  BY <1>1
<1>3. PICK a \in Nat, n \in Nat, s \in Nat : a = group_start(g) /\ n = input.blocks /\ s = GroupBlocks
  BY <1>1, <1>2, StartType
<1>4. a < n
  <2>1. a <= group_start(groups - 1) /\ group_start(groups - 1) < n /\ group_start(groups - 1) \in Nat
    BY <1>2, <1>3, GroupStarts, LastGroupStarts, StartType
  <2>2. QED
    BY <1>3, <2>1
<1>5. blocks_in_group(g) = Least(n - a, s)
  BY <1>3 DEF blocks_in_group
<1>6. PICK k \in Nat : k = blocks_in_group(g) /\ (k = n - a \/ k = s) /\ k <= n - a /\ k <= s
  BY <1>3, <1>4, <1>5 DEF Least
<1>7. GroupBody(g) = a .. (a + k) - 1
  BY <1>3, <1>6 DEF GroupBody
<1>8. QED
  BY <1>3, <1>6, <1>7, SMTT(30)

LEMMA GroupOf ==
  ASSUME input \in Inputs, NEW b \in Nat, b < input.blocks
  PROVE  \E g \in 0 .. groups - 1 : b \in GroupBody(g)
<1>1. GroupBlocks \in Nat \ {0} /\ groups \in Nat /\ input.blocks \in Nat
  BY Parameters, GroupsHoldImage
<1>2. PICK s \in Nat \ {0}, n \in Nat : s = GroupBlocks /\ n = groups
  BY <1>1
<1>3. PICK d \in Nat, m \in 0 .. s - 1 : b = s * d + m
  <2>1. b \div s \in Nat /\ b % s \in 0 .. s - 1 /\ b = s * (b \div s) + (b % s)
    BY <1>2, QuotientAndRest
  <2>2. QED
    BY <2>1
<1>4. s * d = d * s /\ d * s \in Nat
  BY <1>2
<1>5. PICK a \in Nat : a = group_start(d) /\ a = d * s
  BY <1>2, <1>4 DEF group_start
<1>6. a <= b /\ b < a + s
  BY <1>2, <1>3, <1>4, <1>5
<1>7. d < n
  <2>1. SUFFICES ASSUME n <= d PROVE FALSE
    BY <1>2
  <2>2. group_start(n) <= a /\ group_start(n) \in Nat
    BY <1>2, <1>5, <2>1, GroupStarts, StartType
  <2>3. input.blocks <= group_start(n)
    BY <1>2, GroupsHoldImage
  <2>4. QED
    BY <1>1, <1>5, <1>6, <2>2, <2>3
<1>8. d \in 0 .. groups - 1
  BY <1>2, <1>7
<1>9. QED
  BY <1>2, <1>5, <1>6, <1>8, GroupBodyIs

LEMMA GroupBodiesApart ==
  ASSUME input \in Inputs, NEW g \in 0 .. groups - 1, NEW h \in 0 .. groups - 1, g # h
  PROVE  GroupBody(g) \cap GroupBody(h) = {}
<1>1. GroupBlocks \in Nat /\ groups \in Nat
  BY Parameters, GroupsHoldImage
<1>2. g \in Nat /\ h \in Nat /\ (g < h \/ h < g)
  BY <1>1
<1>3. PICK a \in Nat, c \in Nat, s \in Nat : a = group_start(g) /\ c = group_start(h) /\ s = GroupBlocks
  BY <1>1, <1>2, StartType
<1>4. a + s <= c \/ c + s <= a
  BY <1>2, <1>3, GroupStarts
<1>5. ASSUME NEW b \in GroupBody(g), b \in GroupBody(h) PROVE FALSE
  <2>1. b \in Nat
    BY GroupBodyIs DEF GroupBody
  <2>2. a <= b /\ b < a + s /\ c <= b /\ b < c + s
    BY <1>3, <1>5, <2>1, GroupBodyIs
  <2>3. QED
    BY <1>3, <1>4, <2>1, <2>2
<1>6. QED
  BY <1>5

\* A descriptor counts the blocks of its group that are not in the bitmap.
LEMMA FreeOfGroup ==
  ASSUME input \in Inputs, NEW g \in 0 .. groups - 1, NEW B, B = GroupBody(g) \ bitmap
  PROVE  /\ B \in SUBSET Nat /\ IsFiniteSet(B)
         /\ free_blocks_count(g) = Cardinality(B)
<1>1. PICK a \in Nat, k \in Nat : a = group_start(g) /\ k = blocks_in_group(g)
  BY GroupBodyIs
<1>2. PICK F : F = {i \in 0 .. k - 1 : a + i \notin bitmap}
  OBVIOUS
<1>3. GroupBody(g) = a .. (a + k) - 1
  BY <1>1 DEF GroupBody
<1>4. IsFiniteSet(F)
  <2>1. IsFiniteSet(0 .. k - 1)
    BY <1>1, FS_Interval
  <2>2. QED
    BY <1>2, <2>1, FS_Subset
<1>5. PICK f : f = [i \in F |-> a + i]
  OBVIOUS
<1>6. f \in [F -> B]
  <2>1. ASSUME NEW i \in F PROVE a + i \in B
    <3>1. i \in 0 .. k - 1 /\ a + i \notin bitmap
      BY <1>2
    <3>2. a + i \in a .. (a + k) - 1
      BY <1>1, <3>1
    <3>3. QED
      BY <1>3, <3>1, <3>2
  <2>2. QED
    BY <1>5, <2>1
<1>7. \A x, y \in F : f[x] = f[y] => x = y
  BY <1>1, <1>2, <1>5
<1>8. ASSUME NEW t \in B PROVE \E x \in F : f[x] = t
  <2>1. t \in a .. (a + k) - 1 /\ t \notin bitmap
    BY <1>3
  <2>2. PICK i \in Nat : i = t - a /\ t = a + i /\ i \in 0 .. k - 1
    BY <1>1, <2>1
  <2>3. i \in F
    BY <1>2, <2>1, <2>2
  <2>4. QED
    BY <1>5, <2>2, <2>3
<1>9. IsFiniteSet(B) /\ Cardinality(B) = Cardinality(F)
  BY <1>4, <1>6, <1>7, <1>8, SameSize
<1>10. free_blocks_count(g) = Cardinality(F)
  BY <1>1, <1>2 DEF free_blocks_count
<1>11. B \in SUBSET Nat
  BY <1>1, <1>3
<1>12. QED
  BY <1>9, <1>10, <1>11

\* The free counts of the groups add up to what is left.
LEMMA FreeCountsAdd ==
  ASSUME IInv, FileInv, CopiesFit, pc = "sealed"
  PROVE  SumOf([g \in 0 .. groups - 1 |-> free_blocks_count(g)], 0 .. groups - 1)
           = input.blocks - used_blocks
<1>1. input \in Inputs /\ input.blocks \in Nat /\ pc \in Phases \ Early /\ groups \in Nat
  BY AtTheEnd, Parameters, GroupsHoldImage DEF Phases, Early
<1>2. PICK S : S = 0 .. groups - 1
  OBVIOUS
<1>3. IsFiniteSet(S)
  BY <1>1, <1>2, FS_Interval
<1>4. PICK part : part = [g \in S |-> GroupBody(g) \ bitmap]
  OBVIOUS
<1>5. PICK k : k = [g \in S |-> free_blocks_count(g)]
  OBVIOUS
<1>6. ASSUME NEW g \in S
      PROVE  part[g] \in SUBSET Nat /\ IsFiniteSet(part[g]) /\ k[g] = Cardinality(part[g])
  <2>1. part[g] = GroupBody(g) \ bitmap /\ k[g] = free_blocks_count(g)
    BY <1>4, <1>5
  <2>2. QED
    BY <1>1, <1>2, <2>1, FreeOfGroup
<1>7. PICK W : W = UNION {part[g] : g \in S}
  OBVIOUS
<1>8. IsFiniteSet(W) /\ Cardinality(W) = SumOf(k, S)
  <2>1. \A s \in S : part[s] \in SUBSET Nat /\ IsFiniteSet(part[s])
    BY <1>6
  <2>2. \A s \in S : k[s] = Cardinality(part[s])
    BY <1>6
  <2>3. ASSUME NEW s \in S, NEW t \in S, s # t PROVE part[s] \cap part[t] = {}
    <3>1. GroupBody(s) \cap GroupBody(t) = {}
      BY <1>1, <1>2, <2>3, GroupBodiesApart
    <3>2. QED
      BY <1>4, <3>1
  <2>4. \A s, t \in S : s # t => part[s] \cap part[t] = {}
    BY <2>3
  <2>5. IsFiniteSet(UNION {part[s] : s \in S}) /\ Cardinality(UNION {part[s] : s \in S}) = SumOf(k, S)
    BY <1>3, <2>1, <2>2, <2>4, SizeOfParts
  <2>6. QED
    BY <1>7, <2>5
<1>9. PICK All : All = 0 .. input.blocks - 1
  OBVIOUS
<1>10. W = All \ bitmap
  <2>1. ASSUME NEW b \in W PROVE b \in All \ bitmap
    <3>1. PICK g \in S : b \in GroupBody(g) \ bitmap
      BY <1>4, <1>7
    <3>2. b \in Nat
      BY <1>1, <1>2, <3>1, GroupBodyIs DEF GroupBody
    <3>3. b < input.blocks
      BY <1>1, <1>2, <3>1, <3>2, GroupBodyIs
    <3>4. QED
      BY <1>1, <1>9, <3>1, <3>2, <3>3
  <2>2. ASSUME NEW b \in All \ bitmap PROVE b \in W
    <3>1. b \in Nat /\ b < input.blocks
      BY <1>1, <1>9
    <3>2. PICK g \in S : b \in GroupBody(g)
      BY <1>1, <1>2, <3>1, GroupOf
    <3>3. QED
      BY <1>4, <1>7, <3>2
  <2>3. QED
    BY <2>1, <2>2
<1>11. PICK M : M = bitmap
  OBVIOUS
<1>12. IsFiniteSet(M) /\ used_blocks = Cardinality(M) /\ M \subseteq All
  BY <1>1, <1>9, <1>11, UsedIsBitmap, BitmapInside
<1>13. All = M \cup W /\ M \cap W = {}
  BY <1>10, <1>11, <1>12
<1>14. Cardinality(All) = Cardinality(M) + Cardinality(W) /\ Cardinality(M) \in Nat /\ Cardinality(W) \in Nat
  <2>1. Cardinality(M \cup W) = Cardinality(M) + Cardinality(W) /\ Cardinality(M) \in Nat /\ Cardinality(W) \in Nat
    BY <1>8, <1>12, <1>13, SizeOfUnion
  <2>2. QED
    BY <1>13, <2>1
<1>15. Cardinality(All) = input.blocks
  <2>1. PICK n \in Nat : n = input.blocks
    BY <1>1
  <2>2. PICK m \in Int : m = n - 1
    OBVIOUS
  <2>3. Cardinality(0 .. m) = IF 0 > m THEN 0 ELSE m - 0 + 1
    BY FS_Interval
  <2>4. Cardinality(0 .. m) = n
    BY <2>1, <2>2, <2>3
  <2>5. QED
    BY <1>9, <2>1, <2>2, <2>4
<1>16. SumOf(k, S) = input.blocks - used_blocks
  BY <1>1, <1>8, <1>12, <1>14, <1>15
<1>17. QED
  BY <1>2, <1>5, <1>16, Zenon

\* The bitmap is the final map of the image: it has the blocks of the segments,
\* of the files and of the journal and no others; and the free counts of the
\* group descriptors add up to the blocks it leaves, if the last copy fits.
THEOREM BitmapMatchesLayout == Spec => [](CopiesFit => BitmapIsFinalMap)
<1>1. IInv /\ FileInv /\ CountInv => (CopiesFit => BitmapIsFinalMap)
  <2>1. SUFFICES ASSUME IInv, FileInv, CountInv, CopiesFit, pc = "sealed"
                 PROVE  BitmapIsFinalMap
    BY DEF BitmapIsFinalMap
  <2>2. bitmap = (UNION {SegBlocks(s) : s \in LayoutSegments})
                   \cup (UNION {BlocksOf(data_runs[i]) : i \in DOMAIN data_runs})
                   \cup (UNION {BlocksOf(journal_runs[i]) : i \in DOMAIN journal_runs})
    BY <2>1, BitmapIsLayout DEF Emitted, Given
  <2>3. QED
    BY <2>1, <2>2, FreeCountsAdd DEF BitmapIsFinalMap
<1>2. QED
  BY <1>1, Invariance, FilesInvariance, CountsInvariance, PTL
==============================================================================
