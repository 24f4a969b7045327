---------------------------- MODULE ExtentsProofs ----------------------------
(***************************************************************************)
(* Proofs about Extents, for every image, every set of reserved blocks,    *)
(* every segment map and all capacities of the nodes: the tree is minimal, *)
(* the reader finds in it what was planned or reports that a block is      *)
(* missing, and, of a file whose blocks the logical block numbers can      *)
(* tell apart, the search by key ends at each extent, the extents ascend   *)
(* and what is read is what was declared.                                  *)
(*                                                                         *)
(* The invariant has three parts.  DataInv: the data segments are the data *)
(* of the declaration, and the extents lie apart.  TreeInv: some map from  *)
(* the tree blocks to the extents below them fits every node, and the      *)
(* reader's stack.  LogicalInv: where in its data segment each extent is.  *)
(***************************************************************************)
EXTENDS Extents, BasicFacts, SequenceTheorems

-----------------------------------------------------------------------------
(* file_sparse(): the rounds of its loop. *)

\* Nothing has no length.
LEMMA NoLength ==
  ASSUME NEW s, s = <<>>
  PROVE  Lengths(s) = 0
<1>1. DOMAIN s = {} /\ Len(s) = 0
  OBVIOUS
<1>2. PICK n \in Nat : n = 0
  OBVIOUS
<1>3. 1 .. n = {}
  BY <1>2
<1>4. DOMAIN s = 1 .. n /\ \A k \in 1 .. n : s[k].len \in Nat
  BY <1>1, <1>3
<1>5. Before(s, 1) = 0
  BY <1>4, BeforeGrows
<1>6. QED
  BY <1>1, <1>5 DEF Lengths

DataSeg == [offset : Nat, len : Nat \ {0}]
Round == [segs : Seq(DataSeg), offset : Nat]
Whole(x) == x % BlockUnits = 0
SegEndsAt(d) == d.offset + d.len

LEMMA WholeSum ==
  ASSUME NEW x \in Nat, NEW y \in Nat, Whole(x), Whole(y)
  PROVE  Whole(x + y)
<1>1. BlockUnits \in Nat \ {0}
  BY BlockUnitsAssumption
<1>2. PICK b \in Nat \ {0} : b = BlockUnits
  BY <1>1
<1>3. PICK q \in Nat : x = b * q
  <2>1. x \div b \in Nat /\ x = b * (x \div b) + (x % b)
    BY QuotientAndRest
  <2>2. x = b * (x \div b)
    BY <1>2, <2>1 DEF Whole
  <2>3. QED
    BY <2>1, <2>2
<1>4. PICK r \in Nat : y = b * r
  <2>1. y \div b \in Nat /\ y = b * (y \div b) + (y % b)
    BY QuotientAndRest
  <2>2. y = b * (y \div b)
    BY <1>2, <2>1 DEF Whole
  <2>3. QED
    BY <2>1, <2>2
<1>5. x + y = b * (q + r)
  BY <1>3, <1>4
<1>6. (b * (q + r)) % b = 0
  OBVIOUS
<1>7. QED
  BY <1>2, <1>5, <1>6 DEF Whole

LEMMA MergeType ==
  ASSUME NEW acc \in Round, NEW seg \in Seg, seg.len > 0
  PROVE  /\ MergeData(acc, seg) \in Round
         /\ MergeData(acc, seg).offset = acc.offset + seg.len
<1>1. acc.segs \in Seq(DataSeg) /\ acc.offset \in Nat /\ Len(acc.segs) \in Nat
  BY DEF Round
<1>2. seg.len \in Nat \ {0} /\ seg.data \in BOOLEAN
  BY DEF Seg
<1> DEFINE k == Len(acc.segs)
           touches == k > 0 /\ acc.segs[k].offset + acc.segs[k].len = acc.offset
           longer == [acc.segs EXCEPT ![k].len = @ + seg.len]
           more == Append(acc.segs, [offset |-> acc.offset, len |-> seg.len])
<1>3. MergeData(acc, seg) = [segs |-> CASE ~seg.data -> acc.segs
                                        [] seg.data /\ touches -> longer
                                        [] OTHER -> more,
                             offset |-> acc.offset + seg.len]
  BY DEF MergeData
<1>4. more \in Seq(DataSeg)
  <2>1. [offset |-> acc.offset, len |-> seg.len] \in DataSeg
    BY <1>1, <1>2 DEF DataSeg
  <2>2. QED
    BY <1>1, <2>1
<1>5. k > 0 => longer \in Seq(DataSeg)
  <2>1. SUFFICES ASSUME k > 0 PROVE longer \in Seq(DataSeg)
    OBVIOUS
  <2>2. k \in 1 .. Len(acc.segs) /\ acc.segs[k] \in DataSeg
    BY <1>1, <2>1
  <2>3. [acc.segs[k] EXCEPT !.len = @ + seg.len] \in DataSeg
    BY <1>2, <2>2 DEF DataSeg
  <2>4. longer = [acc.segs EXCEPT ![k] = [acc.segs[k] EXCEPT !.len = @ + seg.len]]
    BY <1>1, <2>2
  <2>5. QED
    BY <1>1, <2>2, <2>3, <2>4, ExceptSeq
<1>6. MergeData(acc, seg).segs \in {acc.segs, more} \/ (k > 0 /\ MergeData(acc, seg).segs = longer)
  <2> HIDE DEF longer, more
  <2>1. CASE ~seg.data
    BY <1>3, <2>1
  <2>2. CASE seg.data /\ touches
    BY <1>3, <2>2
  <2>3. CASE seg.data /\ ~touches
    BY <1>3, <2>3
  <2>4. QED
    BY <2>1, <2>2, <2>3
<1>7. MergeData(acc, seg).segs \in Seq(DataSeg)
  <2> HIDE DEF longer, more
  <2> QED BY <1>1, <1>4, <1>5, <1>6
<1>8. QED
  BY <1>1, <1>2, <1>3, <1>7 DEF Round

LEMMA RoundsAre ==
  ASSUME NEW segs \in Seq(Seg), \A i \in DOMAIN segs : segs[i].len > 0
  PROVE  /\ Rounds(segs)[0] = [segs |-> <<>>, offset |-> 0]
         /\ \A k \in 1 .. Len(segs) :
              Rounds(segs)[k] = MergeData(Rounds(segs)[k - 1], segs[k])
<1>1. PICK n \in Nat : n = Len(segs) /\ DOMAIN segs = 1 .. n
  OBVIOUS
<1>2. PICK base : base = [segs |-> <<>>, offset |-> 0]
  OBVIOUS
<1>3. base \in Round
  BY <1>2 DEF Round
<1>14. PICK step : step = [p \in Round \X (1 .. n) |-> MergeData(p[1], segs[p[2]])]
  OBVIOUS
<1>4. step \in [Round \X (1 .. n) -> Round]
  <2>1. ASSUME NEW p \in Round \X (1 .. n) PROVE MergeData(p[1], segs[p[2]]) \in Round
    <3>1. p[1] \in Round /\ segs[p[2]] \in Seg /\ segs[p[2]].len > 0
      BY <1>1
    <3>2. QED
      BY <3>1, MergeType
  <2>2. QED
    BY <1>14, <2>1
<1>5. PICK f \in [0 .. n -> Round] : f[0] = base /\ \A k \in 1 .. n : f[k] = step[<<f[k - 1], k>>]
  <2>1. step \in Steps(Round, n)
    BY <1>4 DEF Steps
  <2>2. PICK f : Iterates(f, Round, base, n, step)
    BY <1>3, <2>1, RecursionExists
  <2>3. QED
    BY <2>2 DEF Iterates
<1>6. \A k \in 1 .. n : step[<<f[k - 1], k>>] = MergeData(f[k - 1], segs[k])
  <2>1. ASSUME NEW k \in 1 .. n PROVE <<f[k - 1], k>> \in Round \X (1 .. n)
    <3>1. k - 1 \in 0 .. n
      OBVIOUS
    <3>2. QED
      BY <3>1
  <2>2. QED
    BY <1>14, <2>1
<1>7. f = [k \in 0 .. Len(segs) |-> IF k = 0 THEN [segs |-> <<>>, offset |-> 0]
                                    ELSE MergeData(f[k - 1], segs[k])]
  <2>1. \A k \in 0 .. n : f[k] = IF k = 0 THEN base ELSE MergeData(f[k - 1], segs[k])
    <3>1. ASSUME NEW k \in 0 .. n PROVE f[k] = IF k = 0 THEN base ELSE MergeData(f[k - 1], segs[k])
      <4>1. k # 0 => k \in 1 .. n
        OBVIOUS
      <4>2. QED
        BY <1>5, <1>6, <4>1
    <3>2. QED
      BY <3>1
  <2>2. f = [k \in 0 .. n |-> f[k]]
    BY <1>5
  <2>3. QED
    BY <1>1, <1>2, <2>1, <2>2
<1>8. Rounds(segs) = [k \in 0 .. Len(segs) |-> IF k = 0 THEN [segs |-> <<>>, offset |-> 0]
                                    ELSE MergeData(Rounds(segs)[k - 1], segs[k])]
  BY <1>7 DEF Rounds
<1>9. PICK r : r = Rounds(segs)
  OBVIOUS
<1>10. r = [k \in 0 .. n |-> IF k = 0 THEN base ELSE MergeData(r[k - 1], segs[k])]
  BY <1>1, <1>2, <1>8, <1>9
<1>11. r[0] = base
  BY <1>10
<1>12. \A k \in 1 .. n : r[k] = MergeData(r[k - 1], segs[k])
  <2>1. ASSUME NEW k \in 1 .. n PROVE r[k] = MergeData(r[k - 1], segs[k])
    <3>1. k \in 0 .. n /\ k # 0
      OBVIOUS
    <3>2. r[k] = IF k = 0 THEN base ELSE MergeData(r[k - 1], segs[k])
      BY <1>10, <3>1
    <3>3. QED
      BY <3>1, <3>2
  <2>2. QED
    BY <2>1
<1>13. QED
  BY <1>1, <1>2, <1>9, <1>11, <1>12

SegUnits(d) == d.offset .. SegEndsAt(d) - 1
InSegs(ds, u) == \E j \in DOMAIN ds : u \in SegUnits(ds[j])
Spaced(ds, offset) ==
  /\ \A j \in DOMAIN ds : /\ Whole(ds[j].offset) /\ SegEndsAt(ds[j]) <= offset
                          /\ Whole(SegEndsAt(ds[j])) \/ SegEndsAt(ds[j]) = offset
  /\ \A i, j \in DOMAIN ds : i < j => SegEndsAt(ds[i]) <= ds[j].offset

\* One round: what is merged or appended is the segment at the offset.
LEMMA MergeSpaced ==
  ASSUME NEW acc \in Round, NEW seg \in Seg, seg.len > 0, Whole(acc.offset), Spaced(acc.segs, acc.offset),
         NEW new, new = MergeData(acc, seg)
  PROVE  /\ Spaced(new.segs, new.offset)
         /\ \A u \in Int : InSegs(new.segs, u) <=>
              InSegs(acc.segs, u) \/ (seg.data /\ u \in acc.offset .. new.offset - 1)
<1>1. PICK ds \in Seq(DataSeg), at \in Nat : ds = acc.segs /\ at = acc.offset
  BY DEF Round
<1>2. PICK len \in Nat \ {0} : len = seg.len
  BY DEF Seg
<1>3. PICK k \in Nat : k = Len(ds) /\ DOMAIN ds = 1 .. k
  OBVIOUS
<1>4. \A j \in 1 .. k : ds[j] \in DataSeg
  BY <1>3
<1>5. \A j \in 1 .. k : ds[j].offset \in Nat /\ ds[j].len \in Nat \ {0} /\ SegEndsAt(ds[j]) = ds[j].offset + ds[j].len
  BY <1>4 DEF DataSeg, SegEndsAt
<1>6. /\ \A j \in 1 .. k : /\ Whole(ds[j].offset) /\ SegEndsAt(ds[j]) <= at
                           /\ Whole(SegEndsAt(ds[j])) \/ SegEndsAt(ds[j]) = at
      /\ \A i, j \in 1 .. k : i < j => SegEndsAt(ds[i]) <= ds[j].offset
      /\ Whole(at)
  BY <1>1, <1>3 DEF Spaced
<1>7. new.offset = at + len
  BY <1>1, <1>2, MergeType
<1>8. \A j \in 1 .. k : Whole(SegEndsAt(ds[j])) /\ SegEndsAt(ds[j]) <= at + len
  <2>1. \A j \in 1 .. k : Whole(SegEndsAt(ds[j]))
    BY <1>6
  <2>2. \A j \in 1 .. k : SegEndsAt(ds[j]) <= at + len
    BY <1>5, <1>6
  <2>3. QED
    BY <2>1, <2>2
<1>9. CASE ~seg.data
  <2>1. new.segs = ds
    BY <1>1, <1>9 DEF MergeData
  <2>2. QED
    BY <1>1, <1>3, <1>6, <1>7, <1>8, <1>9, <2>1 DEF Spaced
<1>10. CASE seg.data /\ k > 0 /\ ds[k].offset + ds[k].len = at
  <2>1. new.segs = [ds EXCEPT ![k].len = @ + len]
    BY <1>1, <1>2, <1>3, <1>10 DEF MergeData
  <2>2. k \in 1 .. k
    BY <1>10
  <2>3. PICK last : last = [ds[k] EXCEPT !.len = @ + len]
    OBVIOUS
  <2>4. last.offset = ds[k].offset /\ SegEndsAt(last) = at + len
    <3>1. ds[k] \in DataSeg
      BY <1>4, <2>2
    <3>2. last.offset = ds[k].offset /\ last.len = ds[k].len + len
      BY <2>3, <3>1 DEF DataSeg
    <3>3. PICK o \in Nat, n \in Nat : o = ds[k].offset /\ n = ds[k].len
      BY <1>5, <2>2
    <3>4. SegEndsAt(last) = o + (n + len) /\ o + n = at
      BY <1>10, <3>2, <3>3 DEF SegEndsAt
    <3>5. QED
      BY <3>2, <3>4
  <2>5. DOMAIN new.segs = 1 .. k /\ \A j \in 1 .. k : new.segs[j] = IF j = k THEN last ELSE ds[j]
    BY <1>3, <2>1, <2>2, <2>3
  <2>6. Spaced(new.segs, new.offset)
    <3>1. ASSUME NEW j \in 1 .. k
          PROVE  /\ Whole(new.segs[j].offset) /\ SegEndsAt(new.segs[j]) <= at + len
                 /\ Whole(SegEndsAt(new.segs[j])) \/ SegEndsAt(new.segs[j]) = at + len
      <4>1. CASE j = k
        BY <1>6, <2>2, <2>4, <2>5, <4>1
      <4>2. CASE j # k
        BY <1>6, <1>8, <2>5, <4>2
      <4>3. QED
        BY <4>1, <4>2
    <3>2. ASSUME NEW i \in 1 .. k, NEW j \in 1 .. k, i < j
          PROVE  SegEndsAt(new.segs[i]) <= new.segs[j].offset
      <4>1. i # k
        BY <3>2
      <4>2. new.segs[i] = ds[i] /\ new.segs[j].offset = ds[j].offset
        BY <2>4, <2>5, <4>1
      <4>3. QED
        BY <1>6, <3>2, <4>2
    <3>3. QED
      BY <1>7, <2>5, <3>1, <3>2 DEF Spaced
  <2>7. ASSUME NEW u \in Int
        PROVE  InSegs(new.segs, u) <=> InSegs(ds, u) \/ u \in at .. (at + len) - 1
    <3>1. u \in SegUnits(last) <=> u \in SegUnits(ds[k]) \/ u \in at .. (at + len) - 1
      <4>1. SegUnits(last) = ds[k].offset .. (at + len) - 1
        BY <2>4 DEF SegUnits
      <4>2. SegUnits(ds[k]) = ds[k].offset .. at - 1
        BY <1>5, <1>10, <2>2 DEF SegUnits
      <4>3. PICK o \in Nat : o = ds[k].offset /\ o <= at
        BY <1>5, <1>10, <2>2
      <4>4. QED
        BY <4>1, <4>2, <4>3
    <3>2. \A j \in 1 .. k : j # k => new.segs[j] = ds[j]
      BY <2>5
    <3>3. new.segs[k] = last
      BY <2>2, <2>5
    <3>4. QED
      BY <1>3, <2>2, <2>5, <3>1, <3>2, <3>3 DEF InSegs
  <2>8. QED
    BY <1>1, <1>7, <1>10, <2>6, <2>7
<1>11. CASE seg.data /\ ~(k > 0 /\ ds[k].offset + ds[k].len = at)
  <2>1. PICK last : last = [offset |-> at, len |-> len]
    OBVIOUS
  <2>2. new.segs = Append(ds, last)
    BY <1>1, <1>2, <1>3, <1>11, <2>1 DEF MergeData
  <2>3. DOMAIN new.segs = 1 .. k + 1 /\ new.segs[k + 1] = last /\ \A j \in 1 .. k : new.segs[j] = ds[j]
    BY <1>3, <2>2
  <2>4. last.offset = at /\ SegEndsAt(last) = at + len
    BY <2>1 DEF SegEndsAt
  <2>5. \A j \in 1 .. k + 1 : j \in 1 .. k \/ j = k + 1
    OBVIOUS
  <2>6. Spaced(new.segs, new.offset)
    <3>1. ASSUME NEW j \in 1 .. k + 1
          PROVE  /\ Whole(new.segs[j].offset) /\ SegEndsAt(new.segs[j]) <= at + len
                 /\ Whole(SegEndsAt(new.segs[j])) \/ SegEndsAt(new.segs[j]) = at + len
      <4>1. CASE j = k + 1
        BY <1>6, <2>3, <2>4, <4>1
      <4>2. CASE j \in 1 .. k
        BY <1>6, <1>8, <2>3, <4>2
      <4>3. QED
        BY <2>5, <4>1, <4>2
    <3>2. ASSUME NEW i \in 1 .. k + 1, NEW j \in 1 .. k + 1, i < j
          PROVE  SegEndsAt(new.segs[i]) <= new.segs[j].offset
      <4>1. i \in 1 .. k
        BY <3>2
      <4>2. new.segs[i] = ds[i]
        BY <2>3, <4>1
      <4>3. CASE j = k + 1
        BY <1>6, <2>3, <2>4, <4>1, <4>2, <4>3
      <4>4. CASE j \in 1 .. k
        BY <1>6, <2>3, <3>2, <4>1, <4>2, <4>4
      <4>5. QED
        BY <2>5, <4>3, <4>4
    <3>3. QED
      BY <1>7, <2>3, <3>1, <3>2 DEF Spaced
  <2>7. ASSUME NEW u \in Int
        PROVE  InSegs(new.segs, u) <=> InSegs(ds, u) \/ u \in at .. (at + len) - 1
    <3>1. SegUnits(last) = at .. (at + len) - 1
      BY <2>4 DEF SegUnits
    <3>2. 1 .. k \subseteq 1 .. k + 1 /\ k + 1 \in 1 .. k + 1
      OBVIOUS
    <3>3. QED
      BY <1>3, <2>3, <2>5, <3>1, <3>2 DEF InSegs
  <2>8. QED
    BY <1>1, <1>7, <1>11, <2>6, <2>7
<1>12. QED
  BY <1>9, <1>10, <1>11

Accepts(segs) == segs \in Seq(Seg) /\ Accepted(segs)
InData(segs, k, u) ==
  \E i \in 1 .. k : segs[i].data /\ u \in Before(segs, i) .. Before(segs, i + 1) - 1

RoundOK(segs, k, acc) ==
  /\ acc \in Round
  /\ acc.offset = Before(segs, k + 1)
  /\ k < Len(segs) => Whole(acc.offset)
  /\ Spaced(acc.segs, acc.offset)
  /\ \A u \in Int : InSegs(acc.segs, u) <=> InData(segs, k, u)

LEMMA RoundsOK ==
  ASSUME NEW segs, Accepts(segs)
  PROVE  RoundOK(segs, Len(segs), Rounds(segs)[Len(segs)])
<1>1. PICK n \in Nat : n = Len(segs) /\ DOMAIN segs = 1 .. n
  BY DEF Accepts
<1>2. PICK r : r = Rounds(segs)
  OBVIOUS
<1>3. /\ segs \in Seq(Seg)
      /\ \A i \in 1 .. n : segs[i] \in Seg /\ segs[i].len \in Nat /\ segs[i].len > 0
      /\ \A i \in 1 .. n : i < n => Whole(segs[i].len)
  <2>1. segs \in Seq(Seg) /\ Accepted(segs)
    BY DEF Accepts
  <2>2. \A i \in 1 .. n : segs[i] \in Seg
    BY <1>1, <2>1
  <2>3. \A i \in 1 .. n : segs[i].len \in Nat
    BY <2>2 DEF Seg
  <2>4. \A i \in 1 .. n : segs[i].len > 0 /\ (i < n => Whole(segs[i].len))
    BY <1>1, <2>1 DEF Accepted, Whole
  <2>5. QED
    BY <2>1, <2>2, <2>3, <2>4
<1>4. r[0] = [segs |-> <<>>, offset |-> 0] /\ \A k \in 1 .. n : r[k] = MergeData(r[k - 1], segs[k])
  BY <1>1, <1>2, <1>3, RoundsAre
<1>5. /\ Before(segs, 1) = 0
      /\ \A i \in 1 .. n + 1 : Before(segs, i) \in Nat
      /\ \A i \in 1 .. n : Before(segs, i + 1) = Before(segs, i) + segs[i].len
  BY <1>1, <1>3, BeforeGrows
<1> DEFINE OK == {k \in 0 .. n : RoundOK(segs, k, r[k])}
<1>6. 0 \in OK
  <2>1. r[0] \in Round /\ r[0].offset = 0 /\ r[0].segs = <<>> /\ DOMAIN r[0].segs = {}
    BY <1>4 DEF Round
  <2>2. Whole(0)
    BY BlockUnitsAssumption DEF Whole
  <2>3. Spaced(r[0].segs, r[0].offset)
    BY <2>1 DEF Spaced
  <2>4. \A u \in Int : ~InSegs(r[0].segs, u) /\ ~InData(segs, 0, u)
    BY <2>1 DEF InSegs, InData
  <2>5. RoundOK(segs, 0, r[0])
    BY <1>5, <2>1, <2>2, <2>3, <2>4 DEF RoundOK
  <2>6. QED
    BY <2>5
<1>7. ASSUME NEW k \in 1 .. n, k - 1 \in OK PROVE k \in OK
  <2>1. PICK acc : acc = r[k - 1]
    OBVIOUS
  <2>2. RoundOK(segs, k - 1, acc)
    BY <1>7, <2>1
  <2>3. PICK new : new = r[k]
    OBVIOUS
  <2>4. new = MergeData(acc, segs[k])
    BY <1>4, <2>1, <2>3
  <2>5. acc \in Round /\ Spaced(acc.segs, acc.offset) /\ segs[k] \in Seg /\ segs[k].len > 0
    BY <1>3, <2>2 DEF RoundOK
  <2>6. (k - 1) + 1 = k /\ k - 1 < n /\ k \in 1 .. n + 1
    OBVIOUS
  <2>7. acc.offset = Before(segs, k) /\ Whole(acc.offset)
    BY <1>1, <2>2, <2>6 DEF RoundOK
  <2>8. new \in Round /\ new.offset = acc.offset + segs[k].len
    BY <2>4, <2>5, MergeType
  <2>9. /\ Spaced(new.segs, new.offset)
        /\ \A u \in Int : InSegs(new.segs, u) <=>
             InSegs(acc.segs, u) \/ (segs[k].data /\ u \in acc.offset .. new.offset - 1)
    BY <2>4, <2>5, <2>7, MergeSpaced
  <2>10. new.offset = Before(segs, k + 1)
    BY <1>5, <2>7, <2>8
  <2>11. k < n => Whole(new.offset)
    <3>1. acc.offset \in Nat /\ segs[k].len \in Nat
      BY <1>3, <1>5, <2>6, <2>7
    <3>2. QED
      BY <1>3, <2>7, <2>8, <3>1, WholeSum
  <2>12. ASSUME NEW u \in Int
         PROVE  InData(segs, k, u) <=> InData(segs, k - 1, u)
                  \/ (segs[k].data /\ u \in Before(segs, k) .. Before(segs, k + 1) - 1)
    <3>1. \A i : i \in 1 .. k <=> i \in 1 .. k - 1 \/ i = k
      OBVIOUS
    <3>2. QED
      BY <3>1 DEF InData
  <2>13. \A u \in Int : InSegs(new.segs, u) <=> InData(segs, k, u)
    <3>1. \A u \in Int : InSegs(acc.segs, u) <=> InData(segs, k - 1, u)
      BY <2>2 DEF RoundOK
    <3>2. QED
      BY <2>7, <2>9, <2>10, <2>12, <3>1
  <2>14. RoundOK(segs, k, new)
    BY <1>1, <2>8, <2>9, <2>10, <2>11, <2>13 DEF RoundOK
  <2>15. QED
    BY <2>3, <2>14
<1>8. \A k \in 0 .. n : k \in OK
  <2> HIDE DEF OK
  <2> QED BY <1>6, <1>7, StepByStep
<1>9. n \in OK
  <2>1. n \in 0 .. n
    OBVIOUS
  <2> HIDE DEF OK
  <2>2. QED
    BY <1>8, <2>1
<1>10. QED
  BY <1>1, <1>2, <1>9

-----------------------------------------------------------------------------
(* The blocks an allocation takes. *)

LEMMA MaxOf ==
  ASSUME NEW S \in SUBSET Nat, IsFiniteSet(S), S # {}
  PROVE  Max(S) \in S /\ \A x \in S : x <= Max(S)
<1>1. PICK m \in S : \A x \in S : x <= m
  BY GreatestOfFinite
<1>2. \A x \in S : m >= x
  BY <1>1
<1>3. \E y \in S : \A x \in S : y >= x
  BY <1>2
<1>4. Max(S) \in S /\ \A x \in S : Max(S) >= x
  BY <1>3 DEF Max
<1>5. QED
  BY <1>4

LEMMA TakeFacts ==
  ASSUME cursor \in Nat, NEW n \in Nat, NEW taken, taken = Lowest(n, Free)
  PROVE  /\ taken \in SUBSET Nat /\ IsFiniteSet(taken) /\ Cardinality(taken) \in Nat
         /\ \A b \in taken : b >= cursor /\ b \notin reserved
         /\ CursorPast(taken) \in Nat /\ cursor <= CursorPast(taken)
         /\ \A b \in taken : b < CursorPast(taken)
<1>1. Blocks \in Nat
  BY ExtentsAssumption
<1>2. Free \in SUBSET Nat /\ \A b \in Free : b >= cursor /\ b \notin reserved
  <2>1. \A b \in cursor .. Blocks - 1 : b \in Nat /\ b >= cursor
    OBVIOUS
  <2>2. QED
    BY <2>1 DEF Free
<1>3. IsFiniteSet(Free)
  <2>1. PICK m \in Int : m = Blocks - 1
    BY <1>1
  <2>2. IsFiniteSet(cursor .. m)
    BY FS_Interval
  <2>3. Free \in SUBSET (cursor .. m)
    BY <2>1 DEF Free
  <2>4. QED
    BY <2>2, <2>3, FS_Subset
<1>4. taken \in SUBSET Free
  BY <1>2, <1>3, LowestComeFirst
<1>5. IsFiniteSet(taken) /\ Cardinality(taken) \in Nat
  BY <1>2, <1>3, LowestSize
<1>6. taken \in SUBSET Nat /\ \A b \in taken : b >= cursor /\ b \notin reserved
  BY <1>2, <1>4
<1>7. CASE taken = {}
  BY <1>5, <1>6, <1>7 DEF CursorPast
<1>8. CASE taken # {}
  <2>1. Max(taken) \in taken /\ \A x \in taken : x <= Max(taken)
    BY <1>5, <1>6, <1>8, MaxOf
  <2>2. PICK m \in Nat : m = Max(taken)
    BY <1>6, <2>1
  <2>3. m >= cursor /\ CursorPast(taken) = m + 1
    BY <1>6, <1>8, <2>1, <2>2 DEF CursorPast
  <2>4. \A b \in taken : b < m + 1
    BY <1>6, <2>1, <2>2
  <2>5. QED
    BY <1>5, <1>6, <2>3, <2>4
<1>9. QED
  BY <1>7, <1>8

\* The runs an allocation is answered with.
LEMMA RunsTaken ==
  ASSUME NEW taken \in SUBSET Nat, IsFiniteSet(taken), NEW longest \in Nat \ {0},
         NEW runs, runs = RunsOf(taken, {}, longest)
  PROVE  /\ Tiles(runs, taken)
         /\ \A i \in DOMAIN runs : runs[i].len \in 1 .. longest
         /\ Before(runs, Len(runs) + 1) = Cardinality(taken)
<1>1. Tiles(runs, taken)
  BY RunsTile
<1>2. ASSUME NEW i \in DOMAIN runs PROVE runs[i].len \in 1 .. longest
  <2>1. runs[i] \in Run
    BY <1>1 DEF Tiles
  <2>2. runs[i].len \in Nat \ {0}
    BY <2>1 DEF Run
  <2>3. runs[i].len <= longest
    BY RunsAreShort
  <2>4. QED
    BY <2>2, <2>3
<1>3. QED
  BY <1>1, <1>2, TilesSum

-----------------------------------------------------------------------------
(* The data of the file and where it is placed. *)

Ext == [logical : Nat, start : Nat, len : 1 .. MaxExtent]
PlacingDone == {"leaves", "index", "sealed", "walk", "walked", "corrupt", "too deep"}
PCs == {"declare", "place", "image full"} \cup PlacingDone

\* data_segs are the data units of the declaration.
SegsHoldData ==
  /\ data_segs \in Seq(DataSeg) /\ size \in Nat
  /\ size = Lengths(declared)
  /\ Spaced(data_segs, size)
  /\ \A u \in Int : InSegs(data_segs, u) <=> u \in DataUnits

\* Extents lie apart and behind the cursor.
ExtentsApart ==
  /\ pc \in PCs /\ cursor \in Nat /\ Len(level) \in Nat
  /\ placed \in 0 .. Len(data_segs)
  /\ pc = "declare" => extents = <<>> /\ placed = 0
  /\ pc \in PlacingDone => placed = Len(data_segs)
  /\ extents \in Seq(Ext)
  /\ \A i, j \in DOMAIN extents : i < j => RunEnd(extents[i]) <= extents[j].start
  /\ \A i \in DOMAIN extents : RunEnd(extents[i]) <= cursor /\ BlocksOf(extents[i]) \cap reserved = {}

DataInv == SegsHoldData /\ ExtentsApart

LEMMA DeclaresWell ==
  ASSUME DataInv, DeclareFile
  PROVE  SegsHoldData'
<1>1. PICK segs \in Declarations :
        /\ Accepted(segs) /\ declared' = segs
        /\ data_segs' = Rounds(segs)[Len(segs)].segs
        /\ size' = Rounds(segs)[Len(segs)].offset
  BY DEF DeclareFile
<1>2. Accepts(segs)
  BY <1>1, ExtentsAssumption DEF Accepts
<1>3. PICK acc : acc = Rounds(segs)[Len(segs)]
  OBVIOUS
<1>4. RoundOK(segs, Len(segs), acc)
  BY <1>2, <1>3, RoundsOK
<1>5. data_segs' = acc.segs /\ size' = acc.offset /\ declared' = segs
  BY <1>1, <1>3
<1>6. acc.segs \in Seq(DataSeg) /\ acc.offset \in Nat
  BY <1>4 DEF RoundOK, Round
<1>7. size' = Lengths(declared')
  BY <1>4, <1>5 DEF RoundOK, Lengths
<1>8. Spaced(data_segs', size')
  BY <1>4, <1>5 DEF RoundOK
<1>9. \A u \in Int : InSegs(data_segs', u) <=> u \in DataUnits'
  <2>1. \A u \in Int : InSegs(data_segs', u) <=> InData(segs, Len(segs), u)
    BY <1>4, <1>5 DEF RoundOK
  <2>2. DOMAIN segs = 1 .. Len(segs)
    BY <1>2 DEF Accepts
  <2>3. ASSUME NEW u \in Int PROVE InData(segs, Len(segs), u) <=> u \in DataUnits'
    BY <1>5, <2>2 DEF InData, DataUnits
  <2>4. QED
    BY <2>1, <2>3
<1>10. QED
  BY <1>5, <1>6, <1>7, <1>8, <1>9 DEF SegsHoldData

\* What one segment adds.
NewRuns == RunsOf(Lowest(CeilDiv(data_segs[placed + 1].len, BlockUnits), Free), {}, MaxExtent)

LEMMA NewExtents ==
  ASSUME DataInv, PlaceSegment,
         NEW seg, seg = data_segs[placed + 1], NEW nblocks, nblocks = CeilDiv(seg.len, BlockUnits),
         NEW runs, runs = NewRuns, NEW new, new = WithLogical(seg.offset \div BlockUnits, runs)
  PROVE  /\ seg \in DataSeg /\ placed + 1 \in DOMAIN data_segs /\ nblocks \in Nat
         /\ Len(runs) \in Nat /\ DOMAIN runs = 1 .. Len(runs)
         /\ \A i \in 1 .. Len(runs) : runs[i] \in Run /\ runs[i].len \in 1 .. MaxExtent
         /\ Before(runs, Len(runs) + 1) = nblocks
         /\ new \in Seq(Ext) /\ Len(new) = Len(runs)
         /\ \A i, j \in DOMAIN new : i < j => RunEnd(new[i]) <= new[j].start
         /\ \A i \in DOMAIN new : /\ cursor <= new[i].start /\ RunEnd(new[i]) <= cursor'
                                  /\ BlocksOf(new[i]) \cap reserved = {}
         /\ extents' = extents \o new /\ cursor' \in Nat /\ cursor <= cursor'
<1>1. placed + 1 \in DOMAIN data_segs
  BY DEF DataInv, SegsHoldData, ExtentsApart, PlaceSegment, SegmentsLeft
<1>2. seg \in DataSeg
  BY <1>1 DEF DataInv, SegsHoldData
<1>3. seg.offset \in Nat /\ seg.len \in Nat
  BY <1>2 DEF DataSeg
<1>4. nblocks \in Nat
  <2>1. nblocks = (seg.len + BlockUnits - 1) \div BlockUnits
    BY DEF CeilDiv
  <2>2. QED
    BY <1>3, <2>1, BlockUnitsAssumption, RoundedUp
<1>5. PICK taken : taken = Lowest(nblocks, Free)
  OBVIOUS
<1>6. /\ Cardinality(taken) = nblocks /\ cursor' = CursorPast(taken)
      /\ runs = RunsOf(taken, {}, MaxExtent)
      /\ extents' = extents \o new
  BY <1>5 DEF PlaceSegment, NewRuns
<1>7. /\ taken \in SUBSET Nat /\ IsFiniteSet(taken)
      /\ \A b \in taken : b >= cursor /\ b \notin reserved
      /\ cursor' \in Nat /\ cursor <= cursor'
      /\ \A b \in taken : b < cursor'
  BY <1>4, <1>5, <1>6, TakeFacts, ZenonT(30) DEF DataInv, ExtentsApart
<1>8. MaxExtent \in Nat \ {0}
  BY ExtentsAssumption
<1>9. /\ Tiles(runs, taken)
      /\ \A i \in DOMAIN runs : runs[i].len \in 1 .. MaxExtent
      /\ Before(runs, Len(runs) + 1) = nblocks
  BY <1>6, <1>7, <1>8, RunsTaken
<1>10. PICK n \in Nat : n = Len(runs) /\ DOMAIN runs = 1 .. n
  BY <1>9 DEF Tiles
<1>11. \A i \in 1 .. n : runs[i] \in Run /\ runs[i].len \in 1 .. MaxExtent /\ BlocksOf(runs[i]) \in SUBSET taken
  BY <1>9, <1>10 DEF Tiles
<1>12. \A i, j \in 1 .. n : i < j => RunEnd(runs[i]) <= runs[j].start
  BY <1>9, <1>10 DEF Tiles
<1>13. \A i \in 1 .. n + 1 : Before(runs, i) \in Nat
  <2>1. \A i \in 1 .. n : runs[i].len \in Nat
    BY <1>11 DEF Run
  <2>2. QED
    BY <1>10, <2>1, BeforeGrows
<1>14. DOMAIN new = 1 .. n /\ \A i \in 1 .. n : new[i].start = runs[i].start /\ new[i].len = runs[i].len
  BY <1>10 DEF WithLogical
<1>15. \A i \in 1 .. n : new[i] \in Ext
  <2>1. ASSUME NEW i \in 1 .. n PROVE new[i] \in Ext
    <3>1. PICK first \in Nat, off \in Nat : first = seg.offset \div BlockUnits /\ off = Before(runs, i)
      <4>1. seg.offset \div BlockUnits \in Nat
        BY <1>3, BlockUnitsAssumption, QuotientAndRest
      <4>2. QED
        BY <1>13, <4>1
    <3>2. LogicalSpan \in Nat \ {0}
      BY ExtentsAssumption
    <3>3. (first + off) % LogicalSpan \in Nat
      BY <3>2, QuotientAndRest
    <3>4. new[i] = [logical |-> (first + off) % LogicalSpan, start |-> runs[i].start, len |-> runs[i].len]
      BY <1>10, <3>1 DEF WithLogical
    <3>5. runs[i].start \in Nat /\ runs[i].len \in 1 .. MaxExtent
      BY <1>11 DEF Run
    <3>6. QED
      BY <3>3, <3>4, <3>5 DEF Ext
  <2>2. QED
    BY <2>1
<1>16. new \in Seq(Ext) /\ Len(new) = n
  <2>1. new = [i \in 1 .. n |-> new[i]]
    BY <1>10 DEF WithLogical
  <2>2. new \in [1 .. n -> Ext]
    BY <1>15, <2>1
  <2>3. QED
    BY <2>2
<1>17. \A i \in 1 .. n : RunEnd(new[i]) = RunEnd(runs[i]) /\ BlocksOf(new[i]) = BlocksOf(runs[i])
  BY <1>14 DEF RunEnd, BlocksOf
<1>18. \A i, j \in 1 .. n : i < j => RunEnd(new[i]) <= new[j].start
  BY <1>12, <1>14, <1>17
<1>19. ASSUME NEW i \in 1 .. n
       PROVE  cursor <= new[i].start /\ RunEnd(new[i]) <= cursor' /\ BlocksOf(new[i]) \cap reserved = {}
  <2>1. PICK a \in Nat, l \in Nat \ {0} : a = runs[i].start /\ l = runs[i].len
    BY <1>11 DEF Run
  <2>2. RunEnd(runs[i]) = a + l /\ BlocksOf(runs[i]) = a .. (a + l) - 1
    BY <2>1 DEF BlocksOf, RunEnd
  <2>3. a \in BlocksOf(runs[i]) /\ (a + l) - 1 \in BlocksOf(runs[i])
    BY <2>2
  <2>4. a >= cursor /\ (a + l) - 1 < cursor'
    BY <1>7, <1>11, <2>3
  <2>5. cursor \in Nat
    BY DEF DataInv, ExtentsApart
  <2>6. BlocksOf(runs[i]) \cap reserved = {}
    BY <1>7, <1>11
  <2>7. new[i].start = a /\ RunEnd(new[i]) = a + l
    BY <1>14, <1>17, <2>1, <2>2
  <2>8. BlocksOf(new[i]) \cap reserved = {}
    BY <1>17, <2>6
  <2>9. PICK c \in Nat : c = cursor'
    BY <1>7
  <2>10. cursor <= a /\ a + l <= c
    BY <2>4, <2>5, <2>9
  <2>11. QED
    BY <2>7, <2>8, <2>9, <2>10
<1>20. \A i \in 1 .. Len(runs) : runs[i] \in Run /\ runs[i].len \in 1 .. MaxExtent
  BY <1>10, <1>11
<1>21. DOMAIN new = 1 .. n
  BY <1>14
<1>22. \A i, j \in DOMAIN new : i < j => RunEnd(new[i]) <= new[j].start
  BY <1>18, <1>21
<1>23. \A i \in DOMAIN new : /\ cursor <= new[i].start /\ RunEnd(new[i]) <= cursor'
                             /\ BlocksOf(new[i]) \cap reserved = {}
  BY <1>19, <1>21
<1>24. QED
  BY <1>1, <1>2, <1>4, <1>6, <1>7, <1>9, <1>10, <1>16, <1>20, <1>22, <1>23, Zenon

LEMMA PlacesWell ==
  ASSUME DataInv, PlaceSegment
  PROVE  ExtentsApart'
<1>1. PICK runs, seg, new, nblocks :
        /\ runs = NewRuns /\ seg = data_segs[placed + 1]
        /\ new = WithLogical(seg.offset \div BlockUnits, runs)
        /\ nblocks = CeilDiv(seg.len, BlockUnits)
  OBVIOUS
<1>2. /\ placed + 1 \in DOMAIN data_segs
      /\ new \in Seq(Ext)
      /\ \A i, j \in DOMAIN new : i < j => RunEnd(new[i]) <= new[j].start
      /\ \A i \in DOMAIN new : /\ cursor <= new[i].start /\ RunEnd(new[i]) <= cursor'
                               /\ BlocksOf(new[i]) \cap reserved = {}
      /\ extents' = extents \o new /\ cursor' \in Nat /\ cursor <= cursor'
  BY <1>1, NewExtents, SMTT(30)
<1>3. /\ pc = "place" /\ pc' = "place" /\ placed' = placed + 1 /\ data_segs' = data_segs
      /\ reserved' = reserved /\ level' = level /\ Len(level) \in Nat
  BY DEF PlaceSegment, declVars, DataInv, ExtentsApart
<1>4. /\ cursor \in Nat /\ extents \in Seq(Ext) /\ placed \in 0 .. Len(data_segs)
      /\ \A i, j \in DOMAIN extents : i < j => RunEnd(extents[i]) <= extents[j].start
      /\ \A i \in DOMAIN extents : RunEnd(extents[i]) <= cursor /\ BlocksOf(extents[i]) \cap reserved = {}
  BY DEF DataInv, ExtentsApart
<1>5. PICK m \in Nat, n \in Nat : m = Len(extents) /\ n = Len(new) /\ DOMAIN extents = 1 .. m /\ DOMAIN new = 1 .. n
  BY <1>2, <1>4
<1>6. /\ extents' \in Seq(Ext) /\ DOMAIN extents' = 1 .. m + n
      /\ \A i \in 1 .. m + n : extents'[i] = IF i <= m THEN extents[i] ELSE new[i - m]
  <2>1. Len(extents \o new) = m + n /\ extents \o new \in Seq(Ext)
    BY <1>2, <1>4, <1>5, ConcatProperties
  <2>2. DOMAIN (extents \o new) = 1 .. m + n
    BY <2>1
  <2>3. \A i \in 1 .. Len(extents) + Len(new) : (extents \o new)[i] =
                     IF i <= Len(extents) THEN extents[i] ELSE new[i - Len(extents)]
    BY <1>2, <1>4, ConcatProperties
  <2>4. QED
    BY <1>2, <1>5, <2>1, <2>2, <2>3
<1>7. \A i \in 1 .. m + n : i \in 1 .. m \/ (~(i <= m) /\ i - m \in 1 .. n)
  OBVIOUS
<1>8. ASSUME NEW e \in Ext PROVE e.start \in Nat /\ RunEnd(e) \in Nat
  BY ExtentsAssumption DEF Ext, RunEnd
<1>9. ASSUME NEW i \in DOMAIN extents'
      PROVE  RunEnd(extents'[i]) <= cursor' /\ BlocksOf(extents'[i]) \cap reserved' = {}
  <2>1. CASE i \in 1 .. m
    <3>1. extents'[i] = extents[i] /\ RunEnd(extents[i]) \in Nat
      BY <1>4, <1>5, <1>6, <1>8, <2>1
    <3>2. RunEnd(extents[i]) <= cursor /\ BlocksOf(extents[i]) \cap reserved = {}
      BY <1>4, <1>5, <2>1
    <3>3. RunEnd(extents[i]) <= cursor'
      BY <1>2, <1>4, <3>1, <3>2
    <3>4. QED
      BY <1>3, <3>1, <3>2, <3>3
  <2>2. CASE ~(i <= m) /\ i - m \in 1 .. n
    BY <1>2, <1>3, <1>5, <1>6, <2>2
  <2>3. QED
    BY <1>6, <1>7, <2>1, <2>2
<1>10. ASSUME NEW i \in DOMAIN extents', NEW j \in DOMAIN extents', i < j
       PROVE  RunEnd(extents'[i]) <= extents'[j].start
  <2>1. CASE i \in 1 .. m /\ j \in 1 .. m
    BY <1>4, <1>5, <1>6, <1>10, <2>1
  <2>2. CASE i \in 1 .. m /\ ~(j <= m) /\ j - m \in 1 .. n
    <3>1. extents'[i] = extents[i] /\ extents'[j] = new[j - m]
      BY <1>6, <2>2
    <3>2. RunEnd(extents[i]) <= cursor /\ cursor <= new[j - m].start
      BY <1>2, <1>4, <1>5, <2>2
    <3>3. RunEnd(extents[i]) \in Nat /\ new[j - m].start \in Nat
      <4>1. extents[i] \in Ext /\ new[j - m] \in Ext
        BY <1>2, <1>4, <1>5, <2>2
      <4>2. QED
        BY <1>8, <4>1
    <3>4. QED
      BY <1>4, <3>1, <3>2, <3>3
  <2>3. CASE ~(i <= m) /\ i - m \in 1 .. n /\ ~(j <= m) /\ j - m \in 1 .. n
    <3>1. i - m < j - m
      BY <1>6, <1>10
    <3>2. RunEnd(new[i - m]) <= new[j - m].start
      BY <1>2, <1>5, <2>3, <3>1
    <3>3. QED
      BY <1>6, <2>3, <3>2
  <2>4. CASE ~(i <= m) /\ j \in 1 .. m
    BY <1>6, <1>10, <2>4
  <2>5. QED
    BY <1>6, <1>7, <2>1, <2>2, <2>3, <2>4
<1>11. placed' \in 0 .. Len(data_segs')
  <2>1. placed + 1 \in 1 .. Len(data_segs)
    BY <1>2 DEF DataInv, SegsHoldData
  <2>2. QED
    BY <1>3, <2>1
<1>12. QED
  BY <1>2, <1>3, <1>6, <1>9, <1>10, <1>11 DEF ExtentsApart, PCs, PlacingDone

\* The other steps leave the data alone and move the cursor forward.
DataStays == UNCHANGED <<declared, data_segs, size, reserved, placed, extents>>

LEMMA CursorMoves ==
  ASSUME cursor \in Nat, NEW entries, NEW depth, Len(Chunks(entries)) \in Nat, BuildLevel(entries, depth)
  PROVE  cursor' \in Nat /\ cursor <= cursor'
<1>1. PICK taken : taken = Lowest(Len(Chunks(entries)), Free)
  OBVIOUS
<1>2. taken \in SUBSET Nat /\ IsFiniteSet(taken)
  BY <1>1, TakeFacts
<1>3. PICK blocks : blocks = Singles(taken)
  OBVIOUS
<1>4. Tiles(blocks, taken)
  BY <1>2, <1>3, RunsTile DEF Singles
<1>5. {blocks[i].start : i \in DOMAIN blocks} \in SUBSET taken
  <2>1. ASSUME NEW i \in DOMAIN blocks PROVE blocks[i].start \in BlocksOf(blocks[i])
    <3>1. blocks[i] \in Run
      BY <1>4 DEF Tiles
    <3>2. QED
      BY <3>1 DEF Run, BlocksOf, RunEnd
  <2>2. QED
    BY <1>4, <2>1 DEF Tiles
<1>6. PICK S : S = {blocks[i].start : i \in DOMAIN blocks}
  OBVIOUS
<1>7. cursor' = CursorPast(S)
  BY <1>1, <1>3, <1>6 DEF BuildLevel
<1>8. S \in SUBSET taken /\ IsFiniteSet(S)
  BY <1>2, <1>5, <1>6, FS_Subset
<1>9. CASE S = {}
  BY <1>7, <1>9 DEF CursorPast
<1>10. CASE S # {}
  <2>1. Max(S) \in S
    BY <1>2, <1>8, <1>10, MaxOf
  <2>2. Max(S) \in Nat /\ Max(S) >= cursor
    BY <1>1, <1>2, <1>8, <2>1, TakeFacts
  <2>3. cursor' = Max(S) + 1
    BY <1>7, <1>10 DEF CursorPast
  <2>4. QED
    BY <2>2, <2>3
<1>11. QED
  BY <1>9, <1>10

LEMMA ChunksCount ==
  ASSUME NEW s, Len(s) \in Nat
  PROVE  Len(Chunks(s)) = CeilDiv(Len(s), NodeCapacity) /\ Len(Chunks(s)) \in Nat
         /\ DOMAIN Chunks(s) = 1 .. Len(Chunks(s))
<1>1. NodeCapacity \in Nat \ {0}
  BY ExtentsAssumption
<1>2. PICK c : c = CeilDiv(Len(s), NodeCapacity)
  OBVIOUS
<1>3. c \in Nat
  <2>1. PICK m \in Nat : m = Len(s)
    OBVIOUS
  <2>2. c = (m + NodeCapacity - 1) \div NodeCapacity
    BY <1>2, <2>1 DEF CeilDiv
  <2>3. QED
    BY <1>1, <2>2, RoundedUp
<1>4. DOMAIN Chunks(s) = 1 .. c
  BY <1>2 DEF Chunks
<1>5. Len(Chunks(s)) = c
  <2>1. Chunks(s) = [i \in 1 .. c |-> SubSeq(s, (i - 1) * NodeCapacity + 1, Min({i * NodeCapacity, Len(s)}))]
    BY <1>2 DEF Chunks
  <2>2. QED
    BY <1>3, <2>1
<1>6. QED
  BY <1>2, <1>3, <1>4, <1>5

LEMMA LevelGrowsWell ==
  ASSUME DataInv, NEW entries, NEW depth, Len(entries) \in Nat, BuildLevel(entries, depth)
  PROVE  cursor' \in Nat /\ cursor <= cursor' /\ Len(level') \in Nat
<1>1. Len(Chunks(entries)) \in Nat /\ DOMAIN Chunks(entries) = 1 .. Len(Chunks(entries))
  BY ChunksCount
<1>2. cursor' \in Nat /\ cursor <= cursor'
  BY <1>1, CursorMoves DEF DataInv, ExtentsApart
<1>3. Len(level') \in Nat
  <2>1. PICK parts, blocks : level' = Keys(parts, blocks) /\ DOMAIN parts = 1 .. Len(Chunks(entries))
    BY <1>1, SMTT(30) DEF BuildLevel
  <2>2. PICK n \in Nat : n = Len(Chunks(entries))
    BY <1>1
  <2>3. level' = [i \in 1 .. n |-> [logical |-> parts[i][1].logical, leaf |-> blocks[i].start]]
    BY <2>1, <2>2 DEF Keys
  <2>4. QED
    BY <2>3
<1>4. QED
  BY <1>2, <1>3

LEMMA ExtentsStayApart ==
  ASSUME DataInv, DataStays, pc' \in PCs, pc' # "declare",
         cursor' \in Nat, cursor <= cursor', Len(level') \in Nat,
         pc' \in PlacingDone => placed = Len(data_segs)
  PROVE  DataInv'
<1>1. SegsHoldData'
  BY DEF DataInv, DataStays, SegsHoldData, DataUnits
<1>2. ASSUME NEW i \in DOMAIN extents
      PROVE  RunEnd(extents[i]) <= cursor'
  <2>1. extents[i] \in Ext /\ RunEnd(extents[i]) <= cursor /\ cursor \in Nat
    BY DEF DataInv, ExtentsApart
  <2>2. RunEnd(extents[i]) \in Nat
    BY <2>1, ExtentsAssumption DEF Ext, RunEnd
  <2>3. QED
    BY <2>1, <2>2
<1>3. ExtentsApart'
  BY <1>2 DEF DataInv, DataStays, ExtentsApart
<1>4. QED
  BY <1>1, <1>3 DEF DataInv

LEMMA DataStep == DataInv /\ [Next]_vars => DataInv'
<1> SUFFICES ASSUME DataInv, [Next]_vars PROVE DataInv'
  OBVIOUS
<1>1. cursor \in Nat /\ Len(level) \in Nat /\ Len(extents) \in Nat /\ placed \in 0 .. Len(data_segs)
      /\ Len(data_segs) \in Nat /\ pc \in PCs
  <2>1. extents \in Seq(Ext) /\ data_segs \in Seq(DataSeg)
    BY DEF DataInv, ExtentsApart, SegsHoldData
  <2>2. QED
    BY <2>1 DEF DataInv, ExtentsApart
<1>2. CASE DeclareFile
  <2>1. SegsHoldData'
    BY <1>2, DeclaresWell
  <2>2. extents = <<>> /\ placed = 0
    BY <1>2 DEF DeclareFile, DataInv, ExtentsApart
  <2>3. extents' = <<>> /\ placed' = 0 /\ pc' = "place" /\ cursor' = cursor /\ level' = level
    BY <1>2, <2>2 DEF DeclareFile, treeVars
  <2>4. 0 \in 0 .. Len(data_segs')
    BY <2>1 DEF SegsHoldData
  <2>5. <<>> \in Seq(Ext) /\ DOMAIN <<>> = {}
    OBVIOUS
  <2>6. ExtentsApart'
    BY <1>1, <2>3, <2>4, <2>5 DEF ExtentsApart, PCs, PlacingDone
  <2>7. QED
    BY <2>1, <2>6 DEF DataInv
<1>3. CASE PlaceSegment
  <2>1. SegsHoldData'
    BY <1>3 DEF PlaceSegment, DataInv, SegsHoldData, DataUnits, declVars
  <2>2. ExtentsApart'
    BY <1>3, PlacesWell
  <2>3. QED
    BY <2>1, <2>2 DEF DataInv
<1>4. ASSUME ~SegmentsLeft PROVE placed = Len(data_segs)
  BY <1>1, <1>4 DEF SegmentsLeft
<1>5. ASSUME pc \in PlacingDone PROVE placed = Len(data_segs)
  BY <1>5 DEF DataInv, ExtentsApart
<1>6. cursor <= cursor
  BY <1>1
<1>7. CASE PlanInline
  <2>1. DataStays /\ cursor' = cursor /\ level' = level /\ pc' = "sealed" /\ ~SegmentsLeft
    BY <1>7 DEF PlanInline, DataStays, declVars, treeVars, readVars, PlacingDone
  <2>2. QED
    BY <1>1, <1>4, <1>6, <2>1, ExtentsStayApart DEF PCs, PlacingDone
<1>8. CASE PlanLeaves
  <2>1. DataStays /\ BuildLevel(LeafEntries, 0) /\ pc' = "leaves" /\ ~SegmentsLeft
    BY <1>8 DEF PlanLeaves, DataStays, declVars, treeVars, readVars, PlacingDone
  <2>2. Len(LeafEntries) \in Nat
    <3>1. PICK n \in Nat : DOMAIN extents = 1 .. n
      <4>1. extents \in Seq(Ext)
        BY DEF DataInv, ExtentsApart
      <4>2. QED
        BY <4>1
    <3>2. LeafEntries = [i \in 1 .. n |-> Encoded(extents[i])]
      BY <3>1 DEF LeafEntries
    <3>3. QED
      BY <3>2
  <2>3. cursor' \in Nat /\ cursor <= cursor' /\ Len(level') \in Nat
    BY <2>1, <2>2, LevelGrowsWell
  <2>4. QED
    BY <1>4, <2>1, <2>3, ExtentsStayApart DEF PCs, PlacingDone
<1>9. CASE PlanIndex
  <2>1. DataStays /\ BuildLevel(level, 1) /\ pc' = "index" /\ pc = "leaves"
    BY <1>9 DEF PlanIndex, DataStays, declVars, treeVars, readVars, PlacingDone
  <2>2. cursor' \in Nat /\ cursor <= cursor' /\ Len(level') \in Nat
    BY <1>1, <2>1, LevelGrowsWell
  <2>3. QED
    BY <1>5, <2>1, <2>2, ExtentsStayApart DEF PCs, PlacingDone
<1>10. CASE PlanRoot
  <2>1. DataStays /\ cursor' = cursor /\ level' = level /\ pc' = "sealed" /\ pc \in PlacingDone
    BY <1>10 DEF PlanRoot, DataStays, declVars, treeVars, readVars, PlacingDone
  <2>2. QED
    BY <1>1, <1>5, <1>6, <2>1, ExtentsStayApart DEF PCs, PlacingDone
<1>11. CASE TooDeep
  <2>1. DataStays /\ cursor' = cursor /\ level' = level /\ pc' = "too deep" /\ pc \in PlacingDone
    BY <1>11 DEF TooDeep, DataStays, declVars, treeVars, readVars, PlacingDone
  <2>2. QED
    BY <1>1, <1>5, <1>6, <2>1, ExtentsStayApart DEF PCs, PlacingDone
<1>12. CASE ImageFull
  <2>1. DataStays /\ cursor' = cursor /\ level' = level /\ pc' = "image full"
    BY <1>12 DEF ImageFull, DataStays, declVars, treeVars, readVars, PlacingDone
  <2>2. QED
    BY <1>1, <1>6, <2>1, ExtentsStayApart DEF PCs, PlacingDone
<1>13. CASE Emitted \/ VisitExtent \/ Descend \/ Corrupt \/ Return
  <2>1. DataStays /\ cursor' = cursor /\ level' = level
    BY <1>13 DEF Emitted, VisitExtent, Descend, Corrupt, Return, DataStays, declVars, treeVars, readVars, PlacingDone
  <2>2. pc' \in {"walk", "walked", "corrupt"} /\ pc \in PlacingDone
    BY <1>13 DEF Emitted, VisitExtent, Descend, Corrupt, Return, DataStays, declVars, treeVars, readVars, PlacingDone
  <2>3. QED
    BY <1>1, <1>5, <1>6, <2>1, <2>2, ExtentsStayApart DEF PCs, PlacingDone
<1>14. CASE UNCHANGED vars
  <2>1. DataStays /\ cursor' = cursor /\ level' = level /\ pc' = pc
    BY <1>14 DEF vars, DataStays, declVars, treeVars, readVars
  <2>2. QED
    BY <2>1 DEF DataInv, SegsHoldData, ExtentsApart, DataUnits, DataStays
<1>15. QED
  BY <1>2, <1>3, <1>7, <1>8, <1>9, <1>10, <1>11, <1>12, <1>13, <1>14 DEF Next

LEMMA DataInit == Init => DataInv
<1> SUFFICES ASSUME Init PROVE DataInv
  OBVIOUS
<1>1. /\ declared = <<>> /\ data_segs = <<>> /\ size = 0 /\ extents = <<>> /\ level = <<>>
      /\ cursor = 0 /\ placed = 0 /\ pc = "declare"
  BY DEF Init
<1>2. Len(<<>>) = 0 /\ DOMAIN <<>> = {} /\ <<>> \in Seq(DataSeg) /\ <<>> \in Seq(Ext)
  OBVIOUS
<1>3. Lengths(declared) = 0
  <2>1. PICK s : s = declared
    OBVIOUS
  <2>2. s = <<>>
    BY <1>1, <2>1
  <2>3. QED
    BY <2>1, <2>2, NoLength
<1>4. \A u \in Int : ~InSegs(data_segs, u) /\ u \notin DataUnits
  BY <1>1, <1>2 DEF InSegs, DataUnits
<1>5. SegsHoldData
  BY <1>1, <1>2, <1>3, <1>4 DEF SegsHoldData, Spaced
<1>6. ExtentsApart
  BY <1>1, <1>2 DEF ExtentsApart, PCs, PlacingDone
<1>7. QED
  BY <1>5, <1>6 DEF DataInv

-----------------------------------------------------------------------------
(* The entries of a level in nodes: chunk i has those from Opens(i) to     *)
(* Closes(i, n).                                                           *)

Opens(i) == (i - 1) * NodeCapacity + 1
Closes(i, n) == Min({i * NodeCapacity, n})

LEMMA MinOfTwo ==
  ASSUME NEW a \in Int, NEW b \in Int
  PROVE  Min({a, b}) = IF a <= b THEN a ELSE b
<1>1. PICK m \in {a, b} : m = IF a <= b THEN a ELSE b
  OBVIOUS
<1>2. \A x \in {a, b} : m <= x
  BY <1>1
<1>3. \A y \in {a, b} : (\A x \in {a, b} : y <= x) => y = m
  BY <1>1, <1>2
<1>4. Min({a, b}) \in {a, b} /\ \A x \in {a, b} : Min({a, b}) <= x
  BY <1>2 DEF Min
<1>5. QED
  BY <1>1, <1>3, <1>4

LEMMA ChunkBounds ==
  ASSUME NEW n \in Nat, NEW c, c = CeilDiv(n, NodeCapacity)
  PROVE  /\ c \in Nat /\ (n > 0 => c > 0) /\ Opens(1) = 1
         /\ \A i \in 1 .. c : /\ Opens(i) \in 1 .. n /\ Closes(i, n) \in Opens(i) .. n
                              /\ (Closes(i, n) - Opens(i)) + 1 <= NodeCapacity
         /\ c > 0 => Closes(c, n) = n
         /\ \A i \in 1 .. c - 1 : Opens(i + 1) = Closes(i, n) + 1
         /\ \A i, j \in 1 .. c : i < j => Closes(i, n) < Opens(j)
         /\ \A k \in 1 .. n : \E i \in 1 .. c : k \in Opens(i) .. Closes(i, n)
<1>1. PICK N \in Nat \ {0} : N = NodeCapacity
  BY ExtentsAssumption
<1>2. c = (n + N - 1) \div N
  BY <1>1 DEF CeilDiv
<1>3. /\ c \in Nat /\ n <= c * N
      /\ \A k \in Nat : c <= k <=> n <= k * N
      /\ n > 0 => c > 0 /\ (c - 1) * N < n
  BY <1>2, RoundedUp
<1>4. \A i \in Nat : i * N \in Nat
  OBVIOUS
<1>5. \A i \in 1 .. c : Closes(i, n) = IF i * N <= n THEN i * N ELSE n
  <2>1. ASSUME NEW i \in 1 .. c PROVE Closes(i, n) = IF i * N <= n THEN i * N ELSE n
    <3>1. PICK a \in Int : a = i * N
      OBVIOUS
    <3>2. Closes(i, n) = Min({a, n})
      BY <1>1, <3>1 DEF Closes
    <3>3. QED
      BY <3>1, <3>2, MinOfTwo
  <2>2. QED
    BY <2>1
<1>6. Opens(1) = 1
  BY <1>1 DEF Opens
<1>7. ASSUME NEW i \in 1 .. c
      PROVE  /\ (i - 1) * N < n /\ i * N = (i - 1) * N + N /\ (i - 1) * N \in Nat
             /\ i < c => i * N < n
  <2>1. PICK j \in Nat : j = i - 1
    OBVIOUS
  <2>2. ~(c <= j)
    BY <1>3, <2>1
  <2>3. ~(n <= j * N) /\ j * N \in Nat
    BY <1>3, <2>2
  <2>4. i = j + 1 /\ (j + 1) * N = j * N + N
    BY <2>1
  <2>5. i < c => ~(n <= i * N) /\ i * N \in Nat
    BY <1>3
  <2>6. QED
    BY <2>1, <2>3, <2>4, <2>5
<1>8. ASSUME NEW i \in 1 .. c
      PROVE  /\ Opens(i) \in 1 .. n /\ Closes(i, n) \in Opens(i) .. n
             /\ (Closes(i, n) - Opens(i)) + 1 <= NodeCapacity
  <2>1. PICK a \in Nat : a = (i - 1) * N
    BY <1>7
  <2>2. a < n /\ Opens(i) = a + 1 /\ Closes(i, n) = IF a + N <= n THEN a + N ELSE n
    BY <1>1, <1>5, <1>7, <2>1 DEF Opens
  <2>3. QED
    BY <1>1, <2>2
<1>9. ASSUME c > 0 PROVE Closes(c, n) = n
  <2>1. c \in 1 .. c
    BY <1>3, <1>9
  <2>2. QED
    BY <1>3, <1>4, <1>5, <2>1
<1>10. ASSUME NEW i \in 1 .. c - 1 PROVE Opens(i + 1) = Closes(i, n) + 1
  <2>1. i \in 1 .. c /\ i < c /\ (i + 1) - 1 = i
    BY <1>3
  <2>2. i * N < n /\ i * N \in Nat
    BY <1>4, <1>7, <2>1
  <2>3. QED
    BY <1>1, <1>5, <2>1, <2>2 DEF Opens
<1>11. ASSUME NEW i \in 1 .. c, NEW j \in 1 .. c, i < j PROVE Closes(i, n) < Opens(j)
  <2>1. i <= j - 1 /\ j - 1 \in Int
    BY <1>11
  <2>2. i * N <= (j - 1) * N
    BY <2>1, TimesKeepsOrder
  <2>3. PICK a \in Nat, b \in Nat : a = i * N /\ b = (j - 1) * N /\ a <= b
    BY <1>4, <1>7, <2>2
  <2>4. Closes(i, n) <= a
    BY <1>5, <2>3
  <2>5. Opens(j) = b + 1
    BY <1>1, <2>3 DEF Opens
  <2>6. Closes(i, n) \in Int
    BY <1>8
  <2>7. QED
    BY <2>3, <2>4, <2>5, <2>6
<1>12. ASSUME NEW k \in 1 .. n PROVE \E i \in 1 .. c : k \in Opens(i) .. Closes(i, n)
  <2>1. PICK u \in Nat : u = k - 1
    OBVIOUS
  <2>2. PICK d \in Nat : d = u \div N
    BY QuotientAndRest
  <2>3. u < (d + 1) * N /\ ~(u < d * N) /\ d < c
    <3>1. u < (d + 1) * N <=> d < d + 1
      BY <2>2, BelowBlock
    <3>2. u < d * N <=> d < d
      BY <2>2, BelowBlock
    <3>3. u < c * N
      BY <1>3, <1>4, <2>1
    <3>4. u < c * N <=> d < c
      BY <1>3, <2>2, BelowBlock
    <3>5. QED
      BY <1>3, <3>1, <3>2, <3>3, <3>4
  <2>4. PICK i \in 1 .. c : i = d + 1
    BY <1>3, <2>3
  <2>5. PICK a \in Nat, b \in Nat : a = d * N /\ b = i * N
    BY <1>4
  <2>6. d = i - 1 /\ Opens(i) = a + 1 /\ Closes(i, n) = IF b <= n THEN b ELSE n
    BY <1>1, <1>5, <2>4, <2>5 DEF Opens
  <2>7. u < b /\ a <= u
    BY <2>3, <2>4, <2>5
  <2>8. QED
    BY <2>1, <2>6, <2>7
<1>13. QED
  BY <1>3, <1>6, <1>8, <1>9, <1>10, <1>11, <1>12

LEMMA ChunkEntries ==
  ASSUME NEW s, NEW n \in Nat, Len(s) = n, DOMAIN s = 1 .. n, NEW i \in 1 .. CeilDiv(n, NodeCapacity),
         NEW part, part = Chunks(s)[i]
  PROVE  /\ Len(part) = (Closes(i, n) - Opens(i)) + 1
         /\ DOMAIN part = 1 .. Len(part)
         /\ \A k \in 1 .. Len(part) : part[k] = s[(Opens(i) + k) - 1]
<1>1. part = SubSeq(s, Opens(i), Closes(i, n))
  BY DEF Chunks, Opens, Closes
<1>2. Opens(i) \in 1 .. n /\ Closes(i, n) \in Opens(i) .. n
  BY ChunkBounds
<1>3. PICK a \in Int, b \in Int : a = Opens(i) /\ b = Closes(i, n) /\ a <= b /\ a >= 1 /\ b <= n
  BY <1>2
<1> DEFINE S == {s[k] : k \in 1 .. n}
<1>4. \A k \in a .. b : s[k] \in S
  BY <1>3
<1>5. /\ SubSeq(s, a, b) \in Seq(S)
      /\ Len(SubSeq(s, a, b)) = IF a <= b THEN b - a + 1 ELSE 0
      /\ \A k \in 1 .. b - a + 1 : SubSeq(s, a, b)[k] = s[a + k - 1]
  <2> HIDE DEF S
  <2> QED BY <1>4, SubSeqProperties
<1>6. part \in Seq(S) /\ Len(part) = (b - a) + 1 /\ DOMAIN part = 1 .. Len(part)
  BY <1>1, <1>3, <1>5
<1>7. \A k \in 1 .. (b - a) + 1 : part[k] = s[(a + k) - 1]
  BY <1>1, <1>3, <1>5
<1>8. QED
  BY <1>3, <1>6, <1>7

-----------------------------------------------------------------------------
(* A level of nodes, in the blocks at[1], at[2], ... *)

BuiltIn(entries, depth, n, c, at) ==
  /\ c = CeilDiv(n, NodeCapacity)
  /\ at \in [1 .. c -> Nat]
  /\ \A i, j \in 1 .. c : i < j => at[i] < at[j]
  /\ \A i \in 1 .. c : cursor <= at[i] /\ at[i] < cursor' /\ at[i] \notin reserved
  /\ Len(level') = c /\ DOMAIN level' = 1 .. c
  /\ \A i \in 1 .. c : level'[i] = [logical |-> entries[Opens(i)].logical, leaf |-> at[i]]
  /\ \A b : b \in DOMAIN disk' <=> b \in DOMAIN disk \/ \E i \in 1 .. c : at[i] = b
  /\ \A b \in DOMAIN disk : disk'[b] = disk[b]
  /\ \A i \in 1 .. c : disk'[at[i]] = Node(Chunks(entries)[i], NodeCapacity, depth)

LEMMA LevelBuilt ==
  ASSUME cursor \in Nat, NEW entries, NEW depth, NEW n \in Nat, Len(entries) = n, DOMAIN entries = 1 .. n,
         BuildLevel(entries, depth), \A b \in DOMAIN disk : b \in Nat /\ b < cursor
  PROVE  \E at : BuiltIn(entries, depth, n, CeilDiv(n, NodeCapacity), at)
<1>0. PICK parts, c : parts = Chunks(entries) /\ c = CeilDiv(n, NodeCapacity)
  OBVIOUS
<1>1. parts = Chunks(entries) /\ c = CeilDiv(n, NodeCapacity) /\ c \in Nat
  BY <1>0, ChunkBounds
<1>2. DOMAIN parts = 1 .. c /\ Len(parts) = c
  <2>1. Len(entries) \in Nat
    OBVIOUS
  <2>2. Len(Chunks(entries)) = CeilDiv(Len(entries), NodeCapacity)
        /\ DOMAIN Chunks(entries) = 1 .. Len(Chunks(entries))
    BY <2>1, ChunksCount
  <2>3. QED
    BY <1>1, <2>2
<1>3. PICK taken : taken = Lowest(c, Free)
  OBVIOUS
<1>4. /\ taken \in SUBSET Nat /\ IsFiniteSet(taken)
      /\ \A b \in taken : b >= cursor /\ b \notin reserved
      /\ CursorPast(taken) \in Nat
      /\ \A b \in taken : b < CursorPast(taken)
  BY <1>1, <1>3, TakeFacts, ZenonT(30)
<1>5. PICK blocks : blocks = Singles(taken)
  OBVIOUS
<1>6. Tiles(blocks, taken) /\ \A i \in DOMAIN blocks : blocks[i].len \in 1 .. 1
  <2>1. blocks = RunsOf(taken, {}, 1) /\ 1 \in Nat \ {0}
    BY <1>5 DEF Singles
  <2>2. QED
    BY <1>4, <2>1, RunsTaken
<1>7. /\ Len(blocks) = Len(parts)
      /\ disk' = [b \in DOMAIN disk \cup {blocks[i].start : i \in DOMAIN blocks} |->
                    IF b \in {blocks[i].start : i \in DOMAIN blocks}
                    THEN Node(parts[CHOOSE i \in DOMAIN blocks : blocks[i].start = b], NodeCapacity, depth)
                    ELSE disk[b]]
      /\ level' = Keys(parts, blocks)
      /\ cursor' = CursorPast({blocks[i].start : i \in DOMAIN blocks})
  BY <1>1, <1>2, <1>3, <1>5 DEF BuildLevel
<1>8. DOMAIN blocks = 1 .. c
  BY <1>2, <1>6, <1>7 DEF Tiles
<1> DEFINE at == [i \in 1 .. c |-> blocks[i].start]
<1>9. ASSUME NEW i \in 1 .. c
      PROVE  blocks[i] \in Run /\ at[i] \in Nat /\ RunEnd(blocks[i]) = at[i] + 1 /\ BlocksOf(blocks[i]) = {at[i]}
  <2>1. blocks[i] \in Run /\ blocks[i].len = 1
    <3>1. i \in DOMAIN blocks
      BY <1>8
    <3>2. blocks[i] \in Run /\ blocks[i].len \in 1 .. 1
      BY <1>6, <3>1 DEF Tiles
    <3>3. QED
      BY <3>2
  <2>2. PICK a \in Nat : a = blocks[i].start
    BY <2>1 DEF Run
  <2>3. RunEnd(blocks[i]) = a + 1 /\ BlocksOf(blocks[i]) = a .. (a + 1) - 1
    BY <2>1, <2>2 DEF RunEnd, BlocksOf
  <2>4. a .. (a + 1) - 1 = {a}
    OBVIOUS
  <2>5. QED
    BY <2>1, <2>2, <2>3, <2>4
<1>10. ASSUME NEW i \in 1 .. c PROVE at[i] \in taken
  <2>1. BlocksOf(blocks[i]) \in SUBSET taken
    BY <1>6, <1>8 DEF Tiles
  <2>2. QED
    BY <1>9, <2>1
<1>11. ASSUME NEW i \in 1 .. c, NEW j \in 1 .. c, i < j PROVE at[i] < at[j]
  <2>1. RunEnd(blocks[i]) <= blocks[j].start
    BY <1>6, <1>8, <1>11 DEF Tiles
  <2>2. QED
    BY <1>9, <2>1
<1>12. \A i, j \in 1 .. c : at[i] = at[j] => i = j
  <2>1. ASSUME NEW i \in 1 .. c, NEW j \in 1 .. c, at[i] = at[j] PROVE i = j
    <3>1. at[i] \in Nat /\ at[j] \in Nat
      BY <1>9
    <3>2. ~(i < j) /\ ~(j < i)
      BY <1>11, <2>1, <3>1
    <3>3. QED
      BY <3>2
  <2>2. QED
    BY <2>1
<1>13. PICK S : S = {blocks[i].start : i \in DOMAIN blocks}
  OBVIOUS
<1>14. \A b : b \in S <=> \E i \in 1 .. c : at[i] = b
  BY <1>8, <1>13
<1>15. S = taken
  <2>1. \A b \in taken : \E i \in 1 .. c : b \in BlocksOf(blocks[i])
    BY <1>6, <1>8 DEF Tiles
  <2>2. \A b \in taken : b \in S
    BY <1>9, <1>14, <2>1
  <2>3. \A b \in S : b \in taken
    BY <1>10, <1>14
  <2>4. QED
    BY <2>2, <2>3
<1>16. cursor' = CursorPast(taken)
  BY <1>7, <1>13, <1>15
<1>17. disk' = [b \in DOMAIN disk \cup S |->
                  IF b \in S
                  THEN Node(parts[CHOOSE i \in DOMAIN blocks : blocks[i].start = b], NodeCapacity, depth)
                  ELSE disk[b]]
  BY <1>7, <1>13
<1>18. DOMAIN disk' = DOMAIN disk \cup S
  BY <1>17
<1>19. \A b \in DOMAIN disk : b \notin S /\ disk'[b] = disk[b]
  <2>1. \A b \in DOMAIN disk : b \notin S
    BY <1>4, <1>15
  <2>2. QED
    BY <1>17, <2>1
<1>20. ASSUME NEW i \in 1 .. c
       PROVE  disk'[at[i]] = Node(parts[i], NodeCapacity, depth)
  <2>1. at[i] \in S
    BY <1>14
  <2>2. (CHOOSE k \in DOMAIN blocks : blocks[k].start = at[i]) = i
    BY <1>8, <1>12
  <2>3. PICK b : b = at[i]
    OBVIOUS
  <2>4. b \in S /\ (CHOOSE k \in DOMAIN blocks : blocks[k].start = b) = i
    BY <2>1, <2>2, <2>3
  <2>5. disk'[b] = Node(parts[i], NodeCapacity, depth)
    BY <1>17, <2>4
  <2>6. QED
    BY <2>3, <2>5
<1>21. Len(level') = c /\ DOMAIN level' = 1 .. c
       /\ \A i \in 1 .. c : level'[i] = [logical |-> parts[i][1].logical, leaf |-> at[i]]
  <2>1. level' = [i \in 1 .. c |-> [logical |-> parts[i][1].logical, leaf |-> blocks[i].start]]
    BY <1>2, <1>7 DEF Keys
  <2>2. Len(level') = c /\ DOMAIN level' = 1 .. c
    <3>1. PICK f : f = [i \in 1 .. c |-> [logical |-> parts[i][1].logical, leaf |-> blocks[i].start]]
      OBVIOUS
    <3>2. DOMAIN f = 1 .. c /\ Len(f) = c
      BY <1>1, <3>1
    <3>3. QED
      BY <2>1, <3>1, <3>2
  <2>3. QED
    BY <2>1, <2>2
<1>22. ASSUME NEW i \in 1 .. c PROVE parts[i][1] = entries[Opens(i)]
  <2>1. Opens(i) \in 1 .. n /\ Closes(i, n) \in Opens(i) .. n
    BY <1>1, ChunkBounds
  <2>2. PICK part : part = parts[i]
    OBVIOUS
  <2>3. /\ Len(part) = (Closes(i, n) - Opens(i)) + 1
        /\ \A k \in 1 .. Len(part) : part[k] = entries[(Opens(i) + k) - 1]
    <3>1. i \in 1 .. CeilDiv(n, NodeCapacity)
      BY <1>1
    <3>2. part = Chunks(entries)[i]
      BY <1>1, <2>2
    <3>3. Len(entries) = n /\ DOMAIN entries = 1 .. n
      OBVIOUS
    <3>4. QED
      BY <3>1, <3>2, <3>3, ChunkEntries
  <2>4. 1 \in 1 .. Len(part) /\ (Opens(i) + 1) - 1 = Opens(i)
    BY <2>1, <2>3
  <2>5. QED
    BY <2>2, <2>3, <2>4
<1>23. \A i \in 1 .. c : cursor <= at[i] /\ at[i] < cursor' /\ at[i] \notin reserved
  BY <1>4, <1>10, <1>16
<1>24. at \in [1 .. c -> Nat]
  BY <1>9
<1>25. \A b : b \in DOMAIN disk' <=> b \in DOMAIN disk \/ \E i \in 1 .. c : at[i] = b
  BY <1>14, <1>18
<1>26. \A b \in DOMAIN disk : disk'[b] = disk[b]
  BY <1>19
<1> HIDE DEF at
<1>27. \A i \in 1 .. c : level'[i] = [logical |-> entries[Opens(i)].logical, leaf |-> at[i]]
  BY <1>21, <1>22
<1>28. BuiltIn(entries, depth, n, c, at)
  BY <1>1, <1>11, <1>20, <1>21, <1>23, <1>24, <1>25, <1>26, <1>27 DEF BuiltIn
<1>29. QED
  BY <1>1, <1>28

-----------------------------------------------------------------------------
(* The extents a node is for: those from `from` up to, and without, `upto`. *)
(* A cover gives these, and the depth of the node, for every tree block,    *)
(* the ones that were not emitted included.                                 *)

Cover == [from : Nat, upto : Nat, depth : {0, 1}]

\* The nodes the entries point at are next to one another, from lo up to hi.
Chain(entries, cov, depth, lo, hi) ==
  /\ Len(entries) \in Nat \ {0} /\ DOMAIN entries = 1 .. Len(entries)
  /\ \A i \in 1 .. Len(entries) :
       /\ entries[i].leaf \in DOMAIN cov
       /\ cov[entries[i].leaf].depth = depth
       /\ entries[i].logical = extents[cov[entries[i].leaf].from].logical
  /\ cov[entries[1].leaf].from = lo
  /\ cov[entries[Len(entries)].leaf].upto = hi
  /\ \A i \in 1 .. Len(entries) - 1 : cov[entries[i + 1].leaf].from = cov[entries[i].leaf].upto
  /\ \A i, j \in 1 .. Len(entries) : i < j => cov[entries[i].leaf].upto <= cov[entries[j].leaf].from

Listed(entries, lo, hi) ==
  /\ Len(entries) = hi - lo /\ DOMAIN entries = 1 .. hi - lo
  /\ \A i \in 1 .. hi - lo : entries[i] = Encoded(extents[(lo + i) - 1])

Over(node, cov, lo, hi) ==
  /\ node.magic = TRUE /\ node.depth \in 0 .. 2
  /\ node.depth = 0 => Listed(node.entries, lo, hi)
  /\ node.depth > 0 => Chain(node.entries, cov, node.depth - 1, lo, hi)

\* A tree block holds no data, and its node if it was emitted.
InPlace(b) ==
  /\ b \in Nat /\ b < cursor /\ b \notin reserved
  /\ \A i \in DOMAIN extents : b \notin BlocksOf(extents[i])

Holding(node, cov, c) ==
  /\ node.depth = c.depth /\ node.max = NodeCapacity /\ Len(node.entries) <= NodeCapacity
  /\ Over(node, cov, c.from, c.upto)

Covers(cov) ==
  /\ cov \in [DOMAIN disk -> Cover]
  /\ \A b \in DOMAIN disk : 1 <= cov[b].from /\ cov[b].from < cov[b].upto /\ cov[b].upto <= Len(extents) + 1
  /\ \A a, b \in DOMAIN disk : a # b /\ cov[a].depth = cov[b].depth =>
       cov[a].upto <= cov[b].from \/ cov[b].upto <= cov[a].from

TreeOK(cov) ==
  /\ Covers(cov)
  /\ \A b \in DOMAIN disk : InPlace(b)
  /\ \A b \in DOMAIN disk : disk[b].magic = FALSE \/ Holding(disk[b], cov, cov[b])

Intact == \A b \in DOMAIN disk : disk[b].magic = TRUE

\* A cover of more blocks.
Extends(new, cov, at, c, rec) ==
  /\ \A b \in DOMAIN cov : b \in DOMAIN new /\ new[b] = cov[b]
  /\ \A i \in 1 .. c : at[i] \in DOMAIN new /\ new[at[i]] = rec[i]

LEMMA CoverGrows ==
  ASSUME NEW D, NEW cov \in [D -> Cover], NEW c \in Nat, NEW at \in [1 .. c -> Nat],
         \A i, j \in 1 .. c : i < j => at[i] < at[j],
         \A i \in 1 .. c : at[i] \notin D,
         NEW rec \in [1 .. c -> Cover], NEW E, \A b : b \in E <=> b \in D \/ \E i \in 1 .. c : at[i] = b
  PROVE  \E new \in [E -> Cover] : Extends(new, cov, at, c, rec)
<1> DEFINE w(b) == CHOOSE i \in 1 .. c : at[i] = b
           new == [b \in E |-> IF b \in D THEN cov[b] ELSE rec[w(b)]]
<1>1. ASSUME NEW i \in 1 .. c PROVE w(at[i]) = i
  <2>1. ASSUME NEW j \in 1 .. c, at[j] = at[i] PROVE j = i
    <3>1. at[i] \in Nat /\ at[j] \in Nat
      OBVIOUS
    <3>2. ~(i < j) /\ ~(j < i)
      BY <2>1, <3>1
    <3>3. QED
      BY <3>2
  <2>2. QED
    BY <2>1
<1>2. ASSUME NEW b \in E PROVE new[b] \in Cover
  <2>1. CASE b \in D
    BY <2>1
  <2>2. CASE b \notin D
    <3>1. PICK i \in 1 .. c : at[i] = b
      BY <2>2
    <3>2. w(b) \in 1 .. c
      BY <3>1, <1>1
    <3>3. QED
      BY <2>2, <3>2
  <2>3. QED
    BY <2>1, <2>2
<1>3. new \in [E -> Cover]
  BY <1>2
<1>4. \A b \in D : b \in E /\ new[b] = cov[b]
  OBVIOUS
<1>5. ASSUME NEW i \in 1 .. c PROVE at[i] \in E /\ new[at[i]] = rec[i]
  BY <1>1
<1> HIDE DEF new
<1>6. Extends(new, cov, at, c, rec)
  BY <1>3, <1>4, <1>5 DEF Extends
<1>7. QED
  BY <1>3, <1>6

\* What the nodes of a new level cover together.
Parted(rec, c, depth, hi) ==
  /\ rec \in [1 .. c -> Cover]
  /\ \A i \in 1 .. c : rec[i].depth = depth /\ 1 <= rec[i].from /\ rec[i].from < rec[i].upto /\ rec[i].upto <= hi
  /\ rec[1].from = 1 /\ rec[c].upto = hi
  /\ \A i \in 1 .. c - 1 : rec[i + 1].from = rec[i].upto
  /\ \A i, j \in 1 .. c : i < j => rec[i].upto <= rec[j].from

KeyedBy(entries, rec, c) ==
  \A i \in 1 .. c : entries[Opens(i)].logical = extents[rec[i].from].logical

LEMMA LevelIsChain ==
  ASSUME NEW entries, NEW depth \in {0, 1}, NEW n \in Nat \ {0}, NEW c \in Nat \ {0}, NEW at,
         BuiltIn(entries, depth, n, c, at), NEW hi, NEW rec, Parted(rec, c, depth, hi), KeyedBy(entries, rec, c),
         NEW new, NEW cov, Extends(new, cov, at, c, rec), NEW l, l = level'
  PROVE  Chain(l, new, depth, 1, hi)
<1>1. /\ \A i \in 1 .. c : entries[Opens(i)].logical = extents[rec[i].from].logical
      /\ \A i \in 1 .. c : at[i] \in DOMAIN new /\ new[at[i]] = rec[i]
  BY DEF KeyedBy, Extends
<1>2. /\ Len(l) = c /\ DOMAIN l = 1 .. c
      /\ \A i \in 1 .. c : l[i] = [logical |-> entries[Opens(i)].logical, leaf |-> at[i]]
  BY DEF BuiltIn
<1>3. \A i \in 1 .. c : l[i].leaf = at[i] /\ l[i].logical = extents[rec[i].from].logical
  BY <1>1, <1>2
<1>4. \A i \in 1 .. c : l[i].leaf \in DOMAIN new /\ new[l[i].leaf] = rec[i]
  BY <1>1, <1>3
<1>5. 1 \in 1 .. c /\ c \in 1 .. c
  OBVIOUS
<1>6. new[l[1].leaf].from = 1 /\ new[l[Len(l)].leaf].upto = hi
  BY <1>2, <1>4, <1>5 DEF Parted
<1>7. \A i \in 1 .. c : new[l[i].leaf].depth = depth /\ l[i].logical = extents[new[l[i].leaf].from].logical
  BY <1>3, <1>4 DEF Parted
<1>8. ASSUME NEW i \in 1 .. c - 1 PROVE new[l[i + 1].leaf].from = new[l[i].leaf].upto
  <2>1. i \in 1 .. c /\ i + 1 \in 1 .. c
    OBVIOUS
  <2>2. rec[i + 1].from = rec[i].upto
    BY DEF Parted
  <2>3. QED
    BY <1>4, <2>1, <2>2
<1>9. \A i, j \in 1 .. c : i < j => new[l[i].leaf].upto <= new[l[j].leaf].from
  BY <1>4 DEF Parted
<1>10. QED
  BY <1>2, <1>4, <1>6, <1>7, <1>8, <1>9 DEF Chain

\* A level leaves the tree in order, if its new nodes are.
LEMMA LevelKeepsTree ==
  ASSUME DataInv, DataInv', NEW entries, NEW depth \in {0, 1}, NEW n \in Nat \ {0}, NEW c \in Nat \ {0}, NEW at,
         BuiltIn(entries, depth, n, c, at), extents' = extents, reserved' = reserved, cursor <= cursor',
         NEW rec, Parted(rec, c, depth, Len(extents) + 1),
         NEW cov, TreeOK(cov), Intact, \A b \in DOMAIN disk : cov[b].depth = 0 /\ depth = 1,
         NEW new \in [DOMAIN disk' -> Cover], Extends(new, cov, at, c, rec),
         \A i \in 1 .. c : Holding(Node(Chunks(entries)[i], NodeCapacity, depth), new, rec[i])
  PROVE  TreeOK(new)' /\ Intact'
<1>1. /\ \A i \in 1 .. c : cursor <= at[i] /\ at[i] < cursor' /\ at[i] \notin reserved /\ at[i] \in Nat
      /\ \A i, j \in 1 .. c : i < j => at[i] < at[j]
      /\ \A b : b \in DOMAIN disk' <=> b \in DOMAIN disk \/ \E i \in 1 .. c : at[i] = b
      /\ \A b \in DOMAIN disk : disk'[b] = disk[b]
      /\ \A i \in 1 .. c : disk'[at[i]] = Node(Chunks(entries)[i], NodeCapacity, depth)
  BY DEF BuiltIn
<1>2. /\ cursor \in Nat /\ cursor' \in Nat /\ extents \in Seq(Ext)
      /\ \A i \in DOMAIN extents : RunEnd(extents[i]) <= cursor
  BY DEF DataInv, ExtentsApart
<1>3. /\ cov \in [DOMAIN disk -> Cover]
      /\ \A b \in DOMAIN disk : 1 <= cov[b].from /\ cov[b].from < cov[b].upto /\ cov[b].upto <= Len(extents) + 1
      /\ \A a, b \in DOMAIN disk : a # b /\ cov[a].depth = cov[b].depth =>
           cov[a].upto <= cov[b].from \/ cov[b].upto <= cov[a].from
      /\ \A b \in DOMAIN disk : InPlace(b)
      /\ \A b \in DOMAIN disk : disk[b].magic = FALSE \/ Holding(disk[b], cov, cov[b])
  BY DEF TreeOK, Covers
<1>4. \A b \in DOMAIN disk : b \in DOMAIN disk' /\ new[b] = cov[b] /\ new[b].depth = 0 /\ depth = 1
  BY <1>3 DEF Extends
<1>5. \A i \in 1 .. c : at[i] \in DOMAIN disk' /\ new[at[i]] = rec[i]
  BY DEF Extends
<1>6. \A b \in DOMAIN disk' : b \in DOMAIN disk \/ \E i \in 1 .. c : at[i] = b
  BY <1>1
<1>7. /\ \A i \in 1 .. c : rec[i].depth = depth /\ 1 <= rec[i].from /\ rec[i].from < rec[i].upto
                           /\ rec[i].upto <= Len(extents) + 1
      /\ \A i, j \in 1 .. c : i < j => rec[i].upto <= rec[j].from
  BY DEF Parted
<1>8. ASSUME NEW b \in DOMAIN disk'
      PROVE  1 <= new[b].from /\ new[b].from < new[b].upto /\ new[b].upto <= Len(extents) + 1
  <2>1. CASE b \in DOMAIN disk
    BY <1>3, <1>4, <2>1
  <2>2. ASSUME NEW i \in 1 .. c, at[i] = b
        PROVE  1 <= new[b].from /\ new[b].from < new[b].upto /\ new[b].upto <= Len(extents) + 1
    BY <1>5, <1>7, <2>2
  <2>3. QED
    BY <1>6, <2>1, <2>2
<1>9. ASSUME NEW a \in DOMAIN disk', NEW b \in DOMAIN disk', a # b, new[a].depth = new[b].depth
      PROVE  new[a].upto <= new[b].from \/ new[b].upto <= new[a].from
  <2>1. CASE a \in DOMAIN disk /\ b \in DOMAIN disk
    BY <1>3, <1>4, <1>9, <2>1
  <2>2. ASSUME NEW i \in 1 .. c, NEW j \in 1 .. c, at[i] = a, at[j] = b
        PROVE  new[a].upto <= new[b].from \/ new[b].upto <= new[a].from
    <3>1. i < j \/ j < i
      BY <1>9, <2>2
    <3>2. new[a] = rec[i] /\ new[b] = rec[j]
      BY <1>5, <2>2
    <3>3. QED
      BY <1>7, <3>1, <3>2
  <2>3. ASSUME NEW i \in 1 .. c, at[i] = a PROVE b \notin DOMAIN disk
    BY <1>4, <1>5, <1>7, <1>9, <2>3
  <2>4. ASSUME NEW j \in 1 .. c, at[j] = b PROVE a \notin DOMAIN disk
    BY <1>4, <1>5, <1>7, <1>9, <2>4
  <2>5. QED
    BY <1>6, <2>1, <2>2, <2>3, <2>4
<1>10. Covers(new)'
  BY <1>8, <1>9 DEF Covers
<1>11. ASSUME NEW b \in DOMAIN disk' PROVE InPlace(b)'
  <2>1. CASE b \in DOMAIN disk
    <3>1. b \in Nat /\ b < cursor /\ b \notin reserved /\ \A i \in DOMAIN extents : b \notin BlocksOf(extents[i])
      BY <1>3, <2>1 DEF InPlace
    <3>2. b < cursor'
      BY <1>2, <3>1
    <3>3. QED
      BY <3>1, <3>2 DEF InPlace
  <2>2. ASSUME NEW i \in 1 .. c, at[i] = b PROVE InPlace(b)'
    <3>1. b \in Nat /\ cursor <= b /\ b < cursor' /\ b \notin reserved
      BY <1>1, <2>2
    <3>2. ASSUME NEW k \in DOMAIN extents PROVE b \notin BlocksOf(extents[k])
      <4>1. extents[k] \in Ext /\ RunEnd(extents[k]) <= cursor
        BY <1>2
      <4>2. RunEnd(extents[k]) \in Nat
        BY <4>1, ExtentsAssumption DEF Ext, RunEnd
      <4>3. QED
        BY <1>2, <3>1, <4>1, <4>2 DEF BlocksOf
    <3>3. QED
      BY <3>1, <3>2 DEF InPlace
  <2>3. QED
    BY <1>6, <2>1, <2>2
<1>12. ASSUME NEW b \in DOMAIN disk'
       PROVE  disk'[b].magic = TRUE /\ Holding(disk'[b], new, new[b])
  <2>1. CASE b \in DOMAIN disk
    <3>1. disk'[b] = disk[b] /\ disk[b].magic = TRUE /\ new[b] = cov[b] /\ cov[b].depth = 0
      BY <1>1, <1>4, <2>1 DEF Intact
    <3>2. Holding(disk[b], cov, cov[b])
      BY <1>3, <2>1, <3>1
    <3>3. disk[b].depth = 0
      BY <3>1, <3>2 DEF Holding
    <3>4. Over(disk[b], new, cov[b].from, cov[b].upto)
      BY <3>2, <3>3 DEF Holding, Over
    <3>5. Holding(disk[b], new, new[b])
      BY <3>1, <3>2, <3>4 DEF Holding
    <3>6. QED
      BY <3>1, <3>5
  <2>2. ASSUME NEW i \in 1 .. c, at[i] = b
        PROVE  disk'[b].magic = TRUE /\ Holding(disk'[b], new, new[b])
    <3>1. disk'[b] = Node(Chunks(entries)[i], NodeCapacity, depth) /\ new[b] = rec[i]
      BY <1>1, <1>5, <2>2
    <3>2. Holding(disk'[b], new, new[b])
      BY <3>1
    <3>3. disk'[b].magic = TRUE
      BY <3>1, SMTT(30) DEF Node
    <3>4. QED
      BY <3>2, <3>3
  <2>3. QED
    BY <1>6, <2>1, <2>2
<1>14. (\A b \in DOMAIN disk : Holding(disk[b], new, new[b]))'
  <2>1. \A b \in DOMAIN disk' : Holding(disk'[b], new, new[b])
    BY <1>12
  <2>2. QED
    BY <2>1 DEF Holding, Over, Chain, Listed
<1>15. Intact'
  BY <1>12 DEF Intact
<1>16. TreeOK(new)'
  BY <1>10, <1>11, <1>14 DEF TreeOK
<1>17. QED
  BY <1>15, <1>16

\* plan_extents(): the leaves.
LeafParts(rec, n, c) ==
  rec = [i \in 1 .. c |-> [from |-> Opens(i), upto |-> Closes(i, n) + 1, depth |-> 0]]

LEMMA LeavesHold ==
  ASSUME NEW n \in Nat \ {0}, n = Len(extents), extents \in Seq(Ext), NEW c \in Nat \ {0}, c = CeilDiv(n, NodeCapacity),
         NEW rec, LeafParts(rec, n, c)
  PROVE  /\ Parted(rec, c, 0, n + 1)
         /\ KeyedBy(LeafEntries, rec, c)
         /\ \A i \in 1 .. c : \A new : Holding(Node(Chunks(LeafEntries)[i], NodeCapacity, 0), new, rec[i])
<1>1. /\ \A i \in 1 .. c : /\ Opens(i) \in 1 .. n /\ Closes(i, n) \in Opens(i) .. n
                           /\ (Closes(i, n) - Opens(i)) + 1 <= NodeCapacity
      /\ Opens(1) = 1 /\ Closes(c, n) = n
      /\ \A i \in 1 .. c - 1 : Opens(i + 1) = Closes(i, n) + 1
      /\ \A i, j \in 1 .. c : i < j => Closes(i, n) < Opens(j)
  <2>1. n \in Nat /\ c > 0
    OBVIOUS
  <2>2. /\ \A i \in 1 .. c : /\ Opens(i) \in 1 .. n /\ Closes(i, n) \in Opens(i) .. n
                             /\ (Closes(i, n) - Opens(i)) + 1 <= NodeCapacity
        /\ Opens(1) = 1 /\ (c > 0 => Closes(c, n) = n)
        /\ \A i \in 1 .. c - 1 : Opens(i + 1) = Closes(i, n) + 1
        /\ \A i, j \in 1 .. c : i < j => Closes(i, n) < Opens(j)
    BY <2>1, ChunkBounds
  <2>3. QED
    BY <2>1, <2>2
<1>2. /\ rec = [i \in 1 .. c |-> [from |-> Opens(i), upto |-> Closes(i, n) + 1, depth |-> 0]]
      /\ \A i \in 1 .. c : rec[i] = [from |-> Opens(i), upto |-> Closes(i, n) + 1, depth |-> 0]
  BY DEF LeafParts
<1>3. \A i \in 1 .. c : rec[i].from = Opens(i) /\ rec[i].upto = Closes(i, n) + 1 /\ rec[i].depth = 0
  BY <1>2
<1>4. \A i \in 1 .. c : Opens(i) \in Nat /\ Closes(i, n) \in Nat /\ Opens(i) <= Closes(i, n) /\ 1 <= Opens(i)
                        /\ Closes(i, n) <= n
  BY <1>1
<1>5. Parted(rec, c, 0, n + 1)
  <2>1. rec \in [1 .. c -> Cover]
    BY <1>2, <1>4 DEF Cover
  <2>2. \A i \in 1 .. c : rec[i].depth = 0 /\ 1 <= rec[i].from /\ rec[i].from < rec[i].upto /\ rec[i].upto <= n + 1
    BY <1>3, <1>4
  <2>3. 1 \in 1 .. c /\ c \in 1 .. c
    OBVIOUS
  <2>4. rec[1].from = 1 /\ rec[c].upto = n + 1
    BY <1>1, <1>3, <2>3
  <2>5. ASSUME NEW i \in 1 .. c - 1 PROVE rec[i + 1].from = rec[i].upto
    <3>1. i \in 1 .. c /\ i + 1 \in 1 .. c
      OBVIOUS
    <3>2. QED
      BY <1>1, <1>3, <3>1
  <2>6. ASSUME NEW i \in 1 .. c, NEW j \in 1 .. c, i < j PROVE rec[i].upto <= rec[j].from
    <3>1. PICK a \in Nat, b \in Nat : a = Closes(i, n) /\ b = Opens(j)
      BY <1>4
    <3>2. a < b
      BY <1>1, <2>6, <3>1
    <3>3. rec[i].upto = a + 1 /\ rec[j].from = b
      BY <1>3, <3>1
    <3>4. QED
      BY <3>2, <3>3
  <2>7. QED
    BY <2>1, <2>2, <2>4, <2>5, <2>6 DEF Parted
<1>6. PICK leaves : leaves = LeafEntries
  OBVIOUS
<1>7. DOMAIN leaves = 1 .. n /\ Len(leaves) = n /\ \A i \in 1 .. n : leaves[i] = Encoded(extents[i])
  <2>1. DOMAIN extents = 1 .. n
    OBVIOUS
  <2>2. leaves = [i \in 1 .. n |-> Encoded(extents[i])]
    BY <1>6, <2>1 DEF LeafEntries
  <2>3. QED
    BY <2>2
<1>8. ASSUME NEW i \in 1 .. c PROVE leaves[Opens(i)].logical = extents[rec[i].from].logical
  BY <1>1, <1>3, <1>7 DEF Encoded
<1>9. ASSUME NEW i \in 1 .. c, NEW new
      PROVE  Holding(Node(Chunks(leaves)[i], NodeCapacity, 0), new, rec[i])
  <2>1. PICK part : part = Chunks(leaves)[i]
    OBVIOUS
  <2>2. PICK a \in Nat, b \in Nat : a = Opens(i) /\ b = Closes(i, n)
    BY <1>4
  <2>3. part = Chunks(leaves)[i] /\ a = Opens(i) /\ b = Closes(i, n)
    BY <2>1, <2>2
  <2>4. /\ Len(part) = (Closes(i, n) - Opens(i)) + 1 /\ DOMAIN part = 1 .. Len(part)
        /\ \A k \in 1 .. Len(part) : part[k] = leaves[(Opens(i) + k) - 1]
    <3>1. i \in 1 .. CeilDiv(n, NodeCapacity)
      OBVIOUS
    <3>2. n \in Nat /\ Len(leaves) = n /\ DOMAIN leaves = 1 .. n
      BY <1>7
    <3>3. QED
      BY <2>1, <3>1, <3>2, ChunkEntries
  <2>5. /\ Len(part) = (b - a) + 1 /\ DOMAIN part = 1 .. Len(part)
        /\ \A k \in 1 .. Len(part) : part[k] = leaves[(a + k) - 1]
    BY <2>2, <2>4
  <2>6. a >= 1 /\ a <= b /\ b <= n /\ (b - a) + 1 <= NodeCapacity
    BY <1>1, <1>4, <2>3
  <2>7. \A k \in 1 .. (b - a) + 1 : part[k] = Encoded(extents[(a + k) - 1])
    <3>1. ASSUME NEW k \in 1 .. (b - a) + 1 PROVE (a + k) - 1 \in 1 .. n
      BY <2>6
    <3>2. QED
      BY <1>7, <2>5, <3>1
  <2>8. (b + 1) - a = (b - a) + 1
    OBVIOUS
  <2>9. Listed(part, a, b + 1)
    BY <2>5, <2>7, <2>8 DEF Listed
  <2>10. PICK node : node = Node(part, NodeCapacity, 0)
    OBVIOUS
  <2>11. node.magic = TRUE /\ node.entries = part /\ node.max = NodeCapacity /\ node.depth = 0
    BY <2>10 DEF Node
  <2>12. Over(node, new, a, b + 1)
    BY <2>9, <2>11 DEF Over
  <2>13. rec[i].from = a /\ rec[i].upto = b + 1 /\ rec[i].depth = 0
    BY <1>3, <2>3
  <2>14. Len(part) <= NodeCapacity
    BY <2>5, <2>6
  <2>15. Holding(node, new, rec[i])
    BY <2>11, <2>12, <2>13, <2>14 DEF Holding
  <2>16. QED
    BY <2>3, <2>10, <2>15
<1>10. QED
  BY <1>5, <1>6, <1>8, <1>9 DEF KeyedBy

\* plan_extents(): the nodes above them.
IndexParts(rec, cov, entries, n, c) ==
  rec = [i \in 1 .. c |-> [from |-> cov[entries[Opens(i)].leaf].from,
                           upto |-> cov[entries[Closes(i, n)].leaf].upto, depth |-> 1]]

Indexed(m, cov, entries, n, c, rec) ==
  /\ m \in Nat /\ m = Len(extents) /\ Covers(cov) /\ Chain(entries, cov, 0, 1, m + 1)
  /\ n \in Nat \ {0} /\ n = Len(entries) /\ c \in Nat \ {0} /\ c = CeilDiv(n, NodeCapacity)
  /\ IndexParts(rec, cov, entries, n, c)

LEMMA IndexHolds ==
  ASSUME NEW m, NEW cov, NEW entries, NEW n, NEW c, NEW rec, Indexed(m, cov, entries, n, c, rec)
  PROVE  /\ Parted(rec, c, 1, m + 1)
         /\ KeyedBy(entries, rec, c)
         /\ \A i \in 1 .. c : \A new :
              (\A b \in DOMAIN cov : b \in DOMAIN new /\ new[b] = cov[b])
                => Holding(Node(Chunks(entries)[i], NodeCapacity, 1), new, rec[i])
<1>0. /\ m \in Nat /\ m = Len(extents) /\ Covers(cov) /\ Chain(entries, cov, 0, 1, m + 1)
      /\ n \in Nat \ {0} /\ n = Len(entries) /\ c \in Nat \ {0} /\ c = CeilDiv(n, NodeCapacity)
      /\ IndexParts(rec, cov, entries, n, c)
  BY DEF Indexed
<1> USE <1>0
<1>1. /\ \A i \in 1 .. c : /\ Opens(i) \in 1 .. n /\ Closes(i, n) \in Opens(i) .. n
                           /\ (Closes(i, n) - Opens(i)) + 1 <= NodeCapacity
      /\ Opens(1) = 1 /\ Closes(c, n) = n
      /\ \A i \in 1 .. c - 1 : Opens(i + 1) = Closes(i, n) + 1
      /\ \A i, j \in 1 .. c : i < j => Closes(i, n) < Opens(j)
  <2>1. n \in Nat /\ c > 0
    OBVIOUS
  <2>2. /\ \A i \in 1 .. c : /\ Opens(i) \in 1 .. n /\ Closes(i, n) \in Opens(i) .. n
                             /\ (Closes(i, n) - Opens(i)) + 1 <= NodeCapacity
        /\ Opens(1) = 1 /\ (c > 0 => Closes(c, n) = n)
        /\ \A i \in 1 .. c - 1 : Opens(i + 1) = Closes(i, n) + 1
        /\ \A i, j \in 1 .. c : i < j => Closes(i, n) < Opens(j)
    BY <2>1, ChunkBounds
  <2>3. QED
    BY <2>1, <2>2
<1>2. \A i \in 1 .. c : Opens(i) \in 1 .. n /\ Closes(i, n) \in 1 .. n /\ Opens(i) <= Closes(i, n)
  BY <1>1
<1>3. PICK F, U : F = [k \in 1 .. n |-> cov[entries[k].leaf].from] /\ U = [k \in 1 .. n |-> cov[entries[k].leaf].upto]
  OBVIOUS
<1>4. \A k \in 1 .. n : F[k] = cov[entries[k].leaf].from /\ U[k] = cov[entries[k].leaf].upto
  BY <1>3
<1>5. /\ DOMAIN entries = 1 .. n
      /\ \A k \in 1 .. n : /\ entries[k].leaf \in DOMAIN cov /\ cov[entries[k].leaf].depth = 0
                           /\ entries[k].logical = extents[F[k]].logical
      /\ \A k \in 1 .. n - 1 : F[k + 1] = U[k]
      /\ \A k, l \in 1 .. n : k < l => U[k] <= F[l]
      /\ F[1] = 1 /\ U[n] = m + 1
  <2>1. DOMAIN entries = 1 .. n /\ 1 \in 1 .. n /\ n \in 1 .. n
    BY DEF Chain
  <2>2. \A k \in 1 .. n : /\ entries[k].leaf \in DOMAIN cov /\ cov[entries[k].leaf].depth = 0
                          /\ entries[k].logical = extents[F[k]].logical
    BY <1>4 DEF Chain
  <2>3. \A k, l \in 1 .. n : k < l => U[k] <= F[l]
    BY <1>4 DEF Chain
  <2>4. F[1] = 1 /\ U[n] = m + 1
    BY <1>4, <2>1 DEF Chain
  <2>5. ASSUME NEW k \in 1 .. n - 1 PROVE F[k + 1] = U[k]
    <3>1. k \in 1 .. n /\ k + 1 \in 1 .. n
      OBVIOUS
    <3>2. cov[entries[k + 1].leaf].from = cov[entries[k].leaf].upto
      BY DEF Chain
    <3>3. QED
      BY <1>4, <3>1, <3>2
  <2>6. QED
    BY <2>1, <2>2, <2>3, <2>4, <2>5
<1>6. \A k \in 1 .. n : F[k] \in Nat /\ U[k] \in Nat /\ 1 <= F[k] /\ F[k] < U[k] /\ U[k] <= m + 1
  <2>1. ASSUME NEW k \in 1 .. n PROVE F[k] \in Nat /\ U[k] \in Nat /\ 1 <= F[k] /\ F[k] < U[k] /\ U[k] <= m + 1
    <3>1. PICK b \in DOMAIN disk : b = entries[k].leaf
      BY <1>5 DEF Covers
    <3>2. cov[b] \in Cover /\ 1 <= cov[b].from /\ cov[b].from < cov[b].upto /\ cov[b].upto <= m + 1
      BY DEF Covers
    <3>3. QED
      BY <1>4, <3>1, <3>2 DEF Cover
  <2>2. QED
    BY <2>1
<1>7. /\ DOMAIN rec = 1 .. c /\ rec = [i \in 1 .. c |-> rec[i]]
      /\ \A i \in 1 .. c : rec[i] = [from |-> F[Opens(i)], upto |-> U[Closes(i, n)], depth |-> 1]
      /\ \A i \in 1 .. c : rec[i].from = F[Opens(i)] /\ rec[i].upto = U[Closes(i, n)] /\ rec[i].depth = 1
  BY <1>2, <1>4 DEF IndexParts
<1>8. Parted(rec, c, 1, m + 1)
  <2>2. rec \in [1 .. c -> Cover]
    <3>1. ASSUME NEW i \in 1 .. c PROVE rec[i] \in Cover
      <4>1. F[Opens(i)] \in Nat /\ U[Closes(i, n)] \in Nat
        BY <1>2, <1>6
      <4>2. QED
        BY <1>7, <4>1 DEF Cover
    <3>2. QED
      BY <1>7, <3>1
  <2>3. ASSUME NEW i \in 1 .. c
        PROVE  rec[i].depth = 1 /\ 1 <= rec[i].from /\ rec[i].from < rec[i].upto /\ rec[i].upto <= m + 1
    <3>1. PICK a \in 1 .. n, b \in 1 .. n : a = Opens(i) /\ b = Closes(i, n) /\ a <= b
      BY <1>2
    <3>2. rec[i].from = F[a] /\ rec[i].upto = U[b] /\ rec[i].depth = 1
      BY <1>7, <3>1
    <3>3. F[a] < U[b]
      <4>1. CASE a = b
        BY <1>6, <4>1
      <4>2. CASE a < b
        <5>1. U[a] <= F[b]
          BY <1>5, <4>2
        <5>2. F[a] < U[a] /\ F[b] < U[b] /\ F[a] \in Nat /\ U[a] \in Nat /\ F[b] \in Nat /\ U[b] \in Nat
          BY <1>6
        <5>3. QED
          BY <5>1, <5>2
      <4>3. QED
        BY <3>1, <4>1, <4>2
    <3>4. QED
      BY <1>6, <3>2, <3>3
  <2>4. 1 \in 1 .. c /\ c \in 1 .. c
    OBVIOUS
  <2>5. rec[1].from = 1 /\ rec[c].upto = m + 1
    <3>1. rec[1].from = F[Opens(1)] /\ rec[c].upto = U[Closes(c, n)]
      BY <1>7, <2>4
    <3>2. QED
      BY <1>1, <1>5, <3>1
  <2>6. ASSUME NEW i \in 1 .. c - 1 PROVE rec[i + 1].from = rec[i].upto
    <3>1. i \in 1 .. c /\ i + 1 \in 1 .. c
      OBVIOUS
    <3>2. PICK b \in 1 .. n : b = Closes(i, n)
      BY <1>2, <3>1
    <3>3. Opens(i + 1) = b + 1 /\ b + 1 \in 1 .. n
      BY <1>1, <1>2, <3>1, <3>2
    <3>4. F[b + 1] = U[b]
      BY <1>5, <3>3
    <3>5. QED
      BY <1>7, <3>1, <3>2, <3>3, <3>4
  <2>7. ASSUME NEW i \in 1 .. c, NEW j \in 1 .. c, i < j PROVE rec[i].upto <= rec[j].from
    <3>1. PICK a \in 1 .. n, b \in 1 .. n : a = Closes(i, n) /\ b = Opens(j)
      BY <1>2
    <3>2. a < b
      BY <1>1, <2>7, <3>1
    <3>3. U[a] <= F[b]
      BY <1>5, <3>2
    <3>4. QED
      BY <1>7, <3>1, <3>3
  <2>8. QED
    BY <2>2, <2>3, <2>5, <2>6, <2>7 DEF Parted
<1>9. KeyedBy(entries, rec, c)
  BY <1>2, <1>5, <1>7 DEF KeyedBy
<1>10. ASSUME NEW i \in 1 .. c, NEW new, \A b \in DOMAIN cov : b \in DOMAIN new /\ new[b] = cov[b]
       PROVE  Holding(Node(Chunks(entries)[i], NodeCapacity, 1), new, rec[i])
  <2>1. PICK part : part = Chunks(entries)[i]
    OBVIOUS
  <2>2. PICK a \in Nat, b \in Nat : /\ a = Opens(i) /\ b = Closes(i, n) /\ 1 <= a /\ a <= b /\ b <= n
                                    /\ (b - a) + 1 <= NodeCapacity
    BY <1>1, <1>2
  <2>3. /\ Len(part) = (Closes(i, n) - Opens(i)) + 1 /\ DOMAIN part = 1 .. Len(part)
        /\ \A k \in 1 .. Len(part) : part[k] = entries[(Opens(i) + k) - 1]
    <3>1. i \in 1 .. CeilDiv(n, NodeCapacity)
      OBVIOUS
    <3>2. n \in Nat /\ Len(entries) = n /\ DOMAIN entries = 1 .. n
      BY <1>5
    <3>3. QED
      BY <2>1, <3>1, <3>2, ChunkEntries
  <2>4. PICK l \in Nat \ {0} : l = (b - a) + 1
    BY <2>2
  <2>5. Len(part) = l /\ DOMAIN part = 1 .. l
    BY <2>2, <2>3, <2>4
  <2>6. ASSUME NEW k \in 1 .. l
        PROVE  (a + k) - 1 \in 1 .. n /\ part[k] = entries[(a + k) - 1]
    <3>1. (a + k) - 1 \in 1 .. n
      BY <2>2, <2>4, SMTT(30)
    <3>2. k \in 1 .. Len(part)
      BY <2>5
    <3>3. part[k] = entries[(Opens(i) + k) - 1]
      BY <2>3, <3>2, Zenon
    <3>4. QED
      BY <2>2, <3>1, <3>3
  <2>7. ASSUME NEW k \in 1 .. l
        PROVE  /\ part[k].leaf \in DOMAIN new /\ new[part[k].leaf].depth = 0
               /\ part[k].logical = extents[new[part[k].leaf].from].logical
               /\ new[part[k].leaf].from = F[(a + k) - 1] /\ new[part[k].leaf].upto = U[(a + k) - 1]
    <3>1. PICK h \in 1 .. n : h = (a + k) - 1 /\ part[k] = entries[h]
      BY <2>6
    <3>2. entries[h].leaf \in DOMAIN cov /\ new[entries[h].leaf] = cov[entries[h].leaf]
      BY <1>5, <1>10
    <3>3. QED
      BY <1>4, <1>5, <1>10, <3>1, <3>2
  <2>8. new[part[1].leaf].from = rec[i].from
    <3>1. PICK k \in 1 .. l : k = 1 /\ (a + k) - 1 = a
      OBVIOUS
    <3>2. new[part[k].leaf].from = F[a]
      BY <2>7, <3>1
    <3>3. rec[i].from = F[a]
      BY <1>7, <2>2
    <3>4. QED
      BY <3>1, <3>2, <3>3
  <2>9. new[part[l].leaf].upto = rec[i].upto
    <3>1. l \in 1 .. l /\ (a + l) - 1 = b
      BY <2>4
    <3>2. new[part[l].leaf].upto = U[b]
      BY <2>7, <3>1
    <3>3. rec[i].upto = U[b]
      BY <1>7, <2>2
    <3>4. QED
      BY <3>2, <3>3
  <2>10. ASSUME NEW k \in 1 .. l - 1 PROVE new[part[k + 1].leaf].from = new[part[k].leaf].upto
    <3>1. k \in 1 .. l /\ k + 1 \in 1 .. l
      OBVIOUS
    <3>2. (a + k) - 1 \in 1 .. n /\ (a + (k + 1)) - 1 \in 1 .. n
      BY <2>6, <3>1
    <3>3. PICK h \in 1 .. n : h = (a + k) - 1 /\ h + 1 = (a + (k + 1)) - 1 /\ h + 1 \in 1 .. n
      BY <3>2
    <3>4. h \in 1 .. n - 1
      BY <3>3
    <3>5. F[h + 1] = U[h]
      BY <1>5, <3>4
    <3>6. QED
      BY <2>7, <3>1, <3>3, <3>5
  <2>11. ASSUME NEW k \in 1 .. l, NEW j \in 1 .. l, k < j
         PROVE  new[part[k].leaf].upto <= new[part[j].leaf].from
    <3>1. PICK g \in 1 .. n, h \in 1 .. n : g = (a + k) - 1 /\ h = (a + j) - 1
      BY <2>6
    <3>2. g < h
      BY <2>11, <3>1
    <3>3. U[g] <= F[h]
      BY <1>5, <3>2
    <3>4. QED
      BY <2>7, <3>1, <3>3
  <2>12. Chain(part, new, 0, rec[i].from, rec[i].upto)
    BY <2>5, <2>7, <2>8, <2>9, <2>10, <2>11 DEF Chain
  <2>13. PICK node : node = Node(part, NodeCapacity, 1)
    OBVIOUS
  <2>14. node.magic = TRUE /\ node.entries = part /\ node.max = NodeCapacity /\ node.depth = 1
    BY <2>13 DEF Node
  <2>15. 1 \in 0 .. 2 /\ 1 # 0 /\ 1 - 1 = 0
    OBVIOUS
  <2>16. Over(node, new, rec[i].from, rec[i].upto)
    BY <2>12, <2>14, <2>15 DEF Over
  <2>17. Holding(node, new, rec[i])
    BY <1>7, <2>2, <2>4, <2>5, <2>14, <2>16 DEF Holding
  <2>18. QED
    BY <2>1, <2>13, <2>17
<1>11. QED
  BY <1>8, <1>9, <1>10

-----------------------------------------------------------------------------
(* The tree as it is built and read. *)

Named(entries, b) == \E i \in DOMAIN entries : entries[i].leaf = b
InIndex(b) == \E c \in DOMAIN disk : disk[c].depth = 1 /\ Named(disk[c].entries, b)

\* The last level covers the file and points at each of its nodes, which
\* point at each of those below.
LevelOK(cov, depth) ==
  /\ Intact
  /\ Chain(level, cov, depth, 1, Len(extents) + 1)
  /\ \A b \in DOMAIN disk : \/ cov[b].depth = depth /\ Named(level, b)
                            \/ cov[b].depth = 0 /\ depth = 1 /\ InIndex(b)
LeavesFit ==
  Len(extents) > RootCapacity /\ Len(level) = CeilDiv(Len(extents), NodeCapacity)
IndexFits ==
  /\ Len(extents) > RootCapacity * NodeCapacity
  /\ Len(extents) <= RootCapacity * (NodeCapacity * NodeCapacity)
  /\ Len(level) <= RootCapacity

RootOK(cov) ==
  /\ Over(root, cov, 1, Len(extents) + 1)
  /\ root.max = RootCapacity /\ Len(root.entries) <= RootCapacity
  /\ \A b \in DOMAIN disk : cov[b].depth < root.depth
  /\ Len(extents) <= Holds(root.depth)
  /\ root.depth > 0 => Len(extents) > Holds(root.depth - 1)

Reachable(cov) ==
  \A b \in DOMAIN disk : \/ cov[b].depth = root.depth - 1 /\ Named(root.entries, b)
                         \/ cov[b].depth = 0 /\ root.depth = 2 /\ InIndex(b)

TreeShape(cov) ==
  /\ TreeOK(cov)
  /\ pc \in {"declare", "place"} => DOMAIN disk = {}
  /\ pc = "leaves" => LevelOK(cov, 0) /\ LeavesFit
  /\ pc = "index" => LevelOK(cov, 1) /\ IndexFits
  /\ pc = "sealed" => Intact /\ Reachable(cov)
  /\ pc \in {"sealed", "walk", "walked", "corrupt"} => RootOK(cov)
  /\ pc = "too deep" => Len(extents) > Holds(2)

LEMMA TreeFrame ==
  ASSUME NEW cov, TreeOK(cov), UNCHANGED <<disk, extents, reserved, cursor>>
  PROVE  TreeOK(cov)'
<1>1. Covers(cov)'
  BY DEF TreeOK, Covers
<1>2. \A b \in DOMAIN disk' : InPlace(b)'
  BY DEF TreeOK, InPlace
<1>3. \A b \in DOMAIN disk : disk[b].magic = FALSE \/ Holding(disk[b], cov, cov[b])
  BY DEF TreeOK
<1>4. (\A b \in DOMAIN disk : disk[b].magic = FALSE \/ Holding(disk[b], cov, cov[b]))'
  BY <1>3 DEF Holding, Over, Chain, Listed
<1>5. QED
  BY <1>1, <1>2, <1>4 DEF TreeOK

\* With no tree block there is nothing to keep in order.
LEMMA EmptyTree ==
  ASSUME NEW cov, DOMAIN disk = {}, cov \in [DOMAIN disk -> Cover]
  PROVE  TreeOK(cov) /\ Intact
BY DEF TreeOK, Covers, Intact

LEMMA HoldsAre ==
  /\ Holds(0) = RootCapacity /\ Holds(1) = RootCapacity * NodeCapacity
  /\ Holds(2) = RootCapacity * (NodeCapacity * NodeCapacity)
  /\ RootCapacity \in Nat \ {0} /\ NodeCapacity \in Nat \ {0}
<1>1. RootCapacity \in Nat \ {0} /\ NodeCapacity \in Nat \ {0}
  BY ExtentsAssumption
<1>2. PICK below : below = <<1, NodeCapacity, NodeCapacity * NodeCapacity>>
  OBVIOUS
<1>3. below[0 + 1] = 1 /\ below[1 + 1] = NodeCapacity /\ below[2 + 1] = NodeCapacity * NodeCapacity
  BY <1>2
<1>4. \A d : Holds(d) = RootCapacity * below[d + 1]
  BY <1>2 DEF Holds
<1>5. Holds(0) = RootCapacity * 1 /\ Holds(1) = RootCapacity * NodeCapacity
      /\ Holds(2) = RootCapacity * (NodeCapacity * NodeCapacity)
  BY <1>3, <1>4
<1>6. RootCapacity * 1 = RootCapacity
  BY <1>1
<1>7. QED
  BY <1>1, <1>5, <1>6

LEMMA FitsBelow ==
  ASSUME NEW m \in Nat, NEW k \in Nat
  PROVE  CeilDiv(m, NodeCapacity) \in Nat /\ (CeilDiv(m, NodeCapacity) <= k <=> m <= k * NodeCapacity)
<1>1. NodeCapacity \in Nat \ {0}
  BY ExtentsAssumption
<1>2. PICK c : c = CeilDiv(m, NodeCapacity)
  OBVIOUS
<1>3. c = (m + NodeCapacity - 1) \div NodeCapacity
  BY <1>2 DEF CeilDiv
<1>4. c \in Nat /\ (c <= k <=> m <= k * NodeCapacity)
  BY <1>1, <1>3, RoundedUp
<1>5. QED
  BY <1>2, <1>4

LEMMA LeavesStep ==
  ASSUME DataInv, DataInv', NEW cov, TreeShape(cov), PlanLeaves
  PROVE  \E new : TreeShape(new)'
<1>1. /\ pc = "place" /\ Len(extents) > RootCapacity /\ BuildLevel(LeafEntries, 0) /\ pc' = "leaves"
      /\ extents' = extents /\ reserved' = reserved
  BY DEF PlanLeaves, declVars
<1>2. extents \in Seq(Ext) /\ cursor \in Nat
  BY DEF DataInv, ExtentsApart
<1>3. PICK n \in Nat : n = Len(extents) /\ DOMAIN extents = 1 .. n
  BY <1>2
<1>4. n \in Nat \ {0} /\ n > RootCapacity
  BY <1>1, <1>3, HoldsAre
<1>5. DOMAIN disk = {} /\ TreeOK(cov)
  BY <1>1 DEF TreeShape
<1>6. PICK leaves : leaves = LeafEntries
  OBVIOUS
<1>7. DOMAIN leaves = 1 .. n /\ Len(leaves) = n
  <2>1. leaves = [i \in 1 .. n |-> Encoded(extents[i])]
    BY <1>3, <1>6 DEF LeafEntries
  <2>2. QED
    BY <2>1
<1>8. PICK c : c = CeilDiv(n, NodeCapacity)
  OBVIOUS
<1>9. c \in Nat \ {0}
  BY <1>4, <1>8, ChunkBounds
<1>10. PICK at : BuiltIn(leaves, 0, n, c, at)
  <2>1. BuildLevel(leaves, 0)
    BY <1>1, <1>6
  <2>2. \A b \in DOMAIN disk : b \in Nat /\ b < cursor
    BY <1>5
  <2>3. \E at : BuiltIn(leaves, 0, n, CeilDiv(n, NodeCapacity), at)
    BY <1>2, <1>7, <2>1, <2>2, LevelBuilt
  <2>4. QED
    BY <1>8, <2>3
<1>11. PICK rec : LeafParts(rec, n, c)
  BY DEF LeafParts
<1>12. /\ Parted(rec, c, 0, n + 1)
       /\ KeyedBy(leaves, rec, c)
       /\ \A i \in 1 .. c : \A new : Holding(Node(Chunks(leaves)[i], NodeCapacity, 0), new, rec[i])
  <2>1. /\ Parted(rec, c, 0, n + 1)
        /\ KeyedBy(LeafEntries, rec, c)
        /\ \A i \in 1 .. c : \A new : Holding(Node(Chunks(LeafEntries)[i], NodeCapacity, 0), new, rec[i])
    BY <1>2, <1>3, <1>4, <1>8, <1>9, <1>11, LeavesHold
  <2>2. QED
    BY <1>6, <2>1
<1>13. PICK new \in [DOMAIN disk' -> Cover] : Extends(new, cov, at, c, rec)
  <2>1. cov \in [DOMAIN disk -> Cover]
    BY <1>5 DEF TreeOK, Covers
  <2>2. at \in [1 .. c -> Nat] /\ \A i, j \in 1 .. c : i < j => at[i] < at[j]
    BY <1>10 DEF BuiltIn
  <2>3. \A b : b \in DOMAIN disk' <=> b \in DOMAIN disk \/ \E i \in 1 .. c : at[i] = b
    BY <1>10 DEF BuiltIn
  <2>4. \A i \in 1 .. c : at[i] \notin DOMAIN disk
    BY <1>5
  <2>5. c \in Nat /\ rec \in [1 .. c -> Cover]
    BY <1>9, <1>12 DEF Parted
  <2>6. QED
    BY <2>1, <2>2, <2>3, <2>4, <2>5, CoverGrows
<1>14. cursor <= cursor'
  BY <1>1, <1>6, <1>7, LevelGrowsWell
<1>15. TreeOK(new)' /\ Intact'
  <2>1. Intact /\ \A b \in DOMAIN disk : cov[b].depth = 0 /\ 0 = 1
    BY <1>5 DEF Intact
  <2>2. \A i \in 1 .. c : Holding(Node(Chunks(leaves)[i], NodeCapacity, 0), new, rec[i])
    BY <1>12
  <2>3. 0 \in {0, 1} /\ Parted(rec, c, 0, Len(extents) + 1)
    BY <1>3, <1>12
  <2>4. QED
    BY <1>1, <1>4, <1>5, <1>9, <1>10, <1>13, <1>14, <2>1, <2>2, <2>3, LevelKeepsTree
<1>16. Chain(level', new, 0, 1, Len(extents) + 1)
  <2>1. 0 \in {0, 1} /\ Parted(rec, c, 0, n + 1) /\ KeyedBy(leaves, rec, c)
    BY <1>12
  <2>2. Extends(new, cov, at, c, rec)
    BY <1>13
  <2>3. Chain(level', new, 0, 1, n + 1)
    BY <1>4, <1>9, <1>10, <2>1, <2>2, LevelIsChain
  <2>4. QED
    BY <1>3, <2>3
<1>17. Chain(level, new, 0, 1, Len(extents) + 1)'
  BY <1>1, <1>16 DEF Chain
<1>18. ASSUME NEW b \in DOMAIN disk' PROVE new[b].depth = 0 /\ Named(level', b)
  <2>1. PICK i \in 1 .. c : at[i] = b
    BY <1>5, <1>10 DEF BuiltIn
  <2>2. level'[i].leaf = b /\ i \in DOMAIN level'
    BY <1>10, <2>1 DEF BuiltIn
  <2>3. new[b] = rec[i] /\ rec[i].depth = 0
    BY <1>12, <1>13, <2>1 DEF Extends, Parted
  <2>4. QED
    BY <2>2, <2>3 DEF Named
<1>19. LevelOK(new, 0)'
  BY <1>15, <1>17, <1>18 DEF LevelOK
<1>20. LeavesFit'
  BY <1>1, <1>3, <1>8, <1>10 DEF LeavesFit, BuiltIn
<1>21. TreeShape(new)'
  BY <1>1, <1>15, <1>19, <1>20 DEF TreeShape
<1>22. QED
  BY <1>21

LEMMA IndexStep ==
  ASSUME DataInv, DataInv', NEW cov, TreeShape(cov), PlanIndex
  PROVE  \E new : TreeShape(new)'
<1>1. /\ pc = "leaves" /\ Len(level) > RootCapacity /\ CeilDiv(Len(level), NodeCapacity) <= RootCapacity
      /\ BuildLevel(level, 1) /\ pc' = "index" /\ extents' = extents /\ reserved' = reserved
  BY DEF PlanIndex, declVars
<1>2. extents \in Seq(Ext) /\ cursor \in Nat
  BY DEF DataInv, ExtentsApart
<1>3. PICK m \in Nat : m = Len(extents)
  BY <1>2
<1>4. TreeOK(cov) /\ LevelOK(cov, 0) /\ LeavesFit
  BY <1>1 DEF TreeShape
<1>5. Covers(cov) /\ Intact /\ Chain(level, cov, 0, 1, m + 1)
  <2>1. Covers(cov)
    BY <1>4 DEF TreeOK
  <2>2. Intact /\ Chain(level, cov, 0, 1, Len(extents) + 1)
    BY <1>4, ZenonT(30) DEF LevelOK
  <2>3. QED
    BY <1>3, <2>1, <2>2
<1>6. PICK n \in Nat \ {0} : n = Len(level) /\ DOMAIN level = 1 .. n
  <2>1. Len(level) \in Nat \ {0} /\ DOMAIN level = 1 .. Len(level)
    BY <1>5, Zenon DEF Chain
  <2>2. QED
    BY <2>1
<1>7. PICK c : c = CeilDiv(n, NodeCapacity)
  OBVIOUS
<1>8. c \in Nat \ {0} /\ c <= RootCapacity
  BY <1>1, <1>6, <1>7, ChunkBounds
<1>9. PICK at : BuiltIn(level, 1, n, c, at)
  <2>1. \A b \in DOMAIN disk : b \in Nat /\ b < cursor
    BY <1>4 DEF TreeOK, InPlace
  <2>2. n \in Nat /\ Len(level) = n /\ DOMAIN level = 1 .. n /\ BuildLevel(level, 1)
    BY <1>1, <1>6
  <2>3. \E at : BuiltIn(level, 1, n, CeilDiv(n, NodeCapacity), at)
    BY <1>2, <2>1, <2>2, LevelBuilt
  <2>4. QED
    BY <1>7, <2>3
<1>10. PICK rec : IndexParts(rec, cov, level, n, c)
  BY DEF IndexParts
<1>11. /\ Parted(rec, c, 1, m + 1)
       /\ KeyedBy(level, rec, c)
       /\ \A i \in 1 .. c : \A new :
            (\A b \in DOMAIN cov : b \in DOMAIN new /\ new[b] = cov[b])
              => Holding(Node(Chunks(level)[i], NodeCapacity, 1), new, rec[i])
  <2>1. PICK entries : entries = level
    OBVIOUS
  <2>2. Chain(entries, cov, 0, 1, m + 1) /\ n = Len(entries) /\ IndexParts(rec, cov, entries, n, c)
    BY <1>5, <1>6, <1>10, <2>1
  <2>3. n \in Nat \ {0} /\ c \in Nat \ {0} /\ c = CeilDiv(n, NodeCapacity) /\ m \in Nat /\ m = Len(extents)
    BY <1>3, <1>6, <1>7, <1>8
  <2>4. /\ Parted(rec, c, 1, m + 1)
        /\ KeyedBy(entries, rec, c)
        /\ \A i \in 1 .. c : \A new :
             (\A b \in DOMAIN cov : b \in DOMAIN new /\ new[b] = cov[b])
               => Holding(Node(Chunks(entries)[i], NodeCapacity, 1), new, rec[i])
    <3>1. Indexed(m, cov, entries, n, c, rec)
      BY <1>5, <2>2, <2>3 DEF Indexed
    <3>2. QED
      BY <3>1, IndexHolds
  <2>5. QED
    BY <2>1, <2>4
<1>12. PICK new \in [DOMAIN disk' -> Cover] : Extends(new, cov, at, c, rec)
  <2>1. cov \in [DOMAIN disk -> Cover]
    BY <1>5 DEF Covers
  <2>2. at \in [1 .. c -> Nat] /\ \A i, j \in 1 .. c : i < j => at[i] < at[j]
    BY <1>9 DEF BuiltIn
  <2>3. \A b : b \in DOMAIN disk' <=> b \in DOMAIN disk \/ \E i \in 1 .. c : at[i] = b
    BY <1>9 DEF BuiltIn
  <2>4. ASSUME NEW i \in 1 .. c PROVE at[i] \notin DOMAIN disk
    <3>1. cursor <= at[i] /\ at[i] \in Nat
      BY <1>9 DEF BuiltIn
    <3>2. \A b \in DOMAIN disk : b \in Nat /\ b < cursor
      BY <1>4 DEF TreeOK, InPlace
    <3>3. QED
      BY <1>2, <3>1, <3>2
  <2>5. c \in Nat /\ rec \in [1 .. c -> Cover]
    BY <1>8, <1>11 DEF Parted
  <2>6. QED
    BY <2>1, <2>2, <2>3, <2>4, <2>5, CoverGrows
<1>13. cursor <= cursor'
  BY <1>1, <1>6, LevelGrowsWell
<1>14. \A b \in DOMAIN disk : cov[b].depth = 0 /\ Named(level, b)
  BY <1>4 DEF LevelOK
<1>15. TreeOK(new)' /\ Intact'
  <2>1. \A b \in DOMAIN disk : cov[b].depth = 0 /\ 1 = 1
    BY <1>14
  <2>2. \A b \in DOMAIN cov : b \in DOMAIN new /\ new[b] = cov[b]
    BY <1>12 DEF Extends
  <2>3. \A i \in 1 .. c : Holding(Node(Chunks(level)[i], NodeCapacity, 1), new, rec[i])
    BY <1>11, <2>2
  <2>4. 1 \in {0, 1} /\ Parted(rec, c, 1, Len(extents) + 1)
    BY <1>3, <1>11
  <2>5. QED
    BY <1>1, <1>4, <1>5, <1>8, <1>9, <1>12, <1>13, <2>1, <2>3, <2>4, LevelKeepsTree
<1>16. Chain(level', new, 1, 1, Len(extents) + 1)
  <2>1. 1 \in {0, 1} /\ Parted(rec, c, 1, m + 1) /\ KeyedBy(level, rec, c)
    BY <1>11
  <2>2. Chain(level', new, 1, 1, m + 1)
    BY <1>8, <1>9, <1>12, <2>1, LevelIsChain
  <2>3. QED
    BY <1>3, <2>2
<1>17. Chain(level, new, 1, 1, Len(extents) + 1)'
  BY <1>1, <1>16 DEF Chain
<1>18. /\ Len(level') = c /\ DOMAIN level' = 1 .. c
       /\ \A i \in 1 .. c : level'[i].leaf = at[i]
       /\ \A i \in 1 .. c : at[i] \in DOMAIN disk' /\ disk'[at[i]] = Node(Chunks(level)[i], NodeCapacity, 1)
       /\ \A b \in DOMAIN disk' : b \in DOMAIN disk \/ \E i \in 1 .. c : at[i] = b
  BY <1>9 DEF BuiltIn
<1>19. ASSUME NEW b \in DOMAIN disk, Named(level, b) PROVE InIndex(b)'
  <2>1. PICK k \in 1 .. n : level[k].leaf = b
    BY <1>6, <1>19 DEF Named
  <2>2. PICK i \in 1 .. c : k \in Opens(i) .. Closes(i, n)
    BY <1>7, ChunkBounds
  <2>3. PICK part : part = Chunks(level)[i]
    OBVIOUS
  <2>4. Opens(i) \in 1 .. n /\ Closes(i, n) \in Opens(i) .. n
    BY <1>7, ChunkBounds
  <2>5. /\ Len(part) = (Closes(i, n) - Opens(i)) + 1 /\ DOMAIN part = 1 .. Len(part)
        /\ \A j \in 1 .. Len(part) : part[j] = level[(Opens(i) + j) - 1]
    <3>1. i \in 1 .. CeilDiv(n, NodeCapacity)
      BY <1>7
    <3>2. n \in Nat /\ Len(level) = n /\ DOMAIN level = 1 .. n
      BY <1>6
    <3>3. QED
      BY <2>3, <3>1, <3>2, ChunkEntries
  <2>6. PICK j \in Nat : j \in 1 .. Len(part) /\ (Opens(i) + j) - 1 = k
    <3>1. PICK a \in Nat, z \in Nat : a = Opens(i) /\ z = Closes(i, n) /\ a <= k /\ k <= z
      BY <2>2, <2>4
    <3>2. PICK j \in Nat : j = (k - a) + 1
      BY <3>1
    <3>3. j \in 1 .. (z - a) + 1 /\ (a + j) - 1 = k
      BY <2>2, <3>1, <3>2
    <3>5. Len(part) = (z - a) + 1
      BY <2>5, <3>1
    <3>4. QED
      BY <3>1, <3>3, <3>5
  <2>7. part[j].leaf = b /\ j \in DOMAIN part
    BY <2>1, <2>5, <2>6
  <2>8. disk'[at[i]].entries = part /\ disk'[at[i]].depth = 1 /\ at[i] \in DOMAIN disk'
    <3>1. disk'[at[i]] = Node(part, NodeCapacity, 1) /\ at[i] \in DOMAIN disk'
      BY <1>18, <2>3
    <3>2. PICK node : node = Node(part, NodeCapacity, 1)
      OBVIOUS
    <3>3. node.entries = part /\ node.depth = 1
      BY <3>2 DEF Node
    <3>4. QED
      BY <3>1, <3>2, <3>3
  <2>9. QED
    BY <2>7, <2>8 DEF InIndex, Named
<1>20. ASSUME NEW b \in DOMAIN disk'
       PROVE  \/ new[b].depth = 1 /\ Named(level', b)
              \/ new[b].depth = 0 /\ 1 = 1 /\ InIndex(b)'
  <2>1. CASE b \in DOMAIN disk
    <3>1. new[b] = cov[b]
      BY <1>5, <1>12, <2>1 DEF Extends, Covers
    <3>2. QED
      BY <1>14, <1>19, <2>1, <3>1
  <2>2. ASSUME NEW i \in 1 .. c, at[i] = b PROVE new[b].depth = 1 /\ Named(level', b)
    <3>1. new[b] = rec[i] /\ rec[i].depth = 1
      BY <1>11, <1>12, <2>2 DEF Extends, Parted
    <3>2. QED
      BY <1>18, <2>2, <3>1 DEF Named
  <2>3. QED
    BY <1>18, <2>1, <2>2
<1>21. LevelOK(new, 1)'
  BY <1>15, <1>17, <1>20 DEF LevelOK
<1>22. IndexFits'
  <2>1. n = CeilDiv(m, NodeCapacity) /\ ~(n <= RootCapacity)
    BY <1>1, <1>3, <1>4, <1>6, HoldsAre DEF LeavesFit
  <2>2. PICK R \in Nat, N \in Nat : R = RootCapacity /\ N = NodeCapacity
    BY HoldsAre
  <2>3. R * N \in Nat /\ R * (N * N) = (R * N) * N
    OBVIOUS
  <2>4. ~(m <= R * N)
    BY <2>1, <2>2, FitsBelow
  <2>5. n <= R * N
    BY <1>7, <1>8, <2>2, FitsBelow
  <2>6. m <= (R * N) * N
    BY <2>1, <2>2, <2>3, <2>5, FitsBelow
  <2>7. m > R * N
    BY <2>3, <2>4
  <2>8. QED
    BY <1>1, <1>3, <1>8, <1>18, <2>2, <2>3, <2>6, <2>7 DEF IndexFits
<1>23. TreeShape(new)'
  BY <1>1, <1>15, <1>21, <1>22 DEF TreeShape
<1>24. QED
  BY <1>23

-----------------------------------------------------------------------------
(* Lists of anything. *)

IsList(s) == Len(s) \in Nat /\ s \in [1 .. Len(s) -> {s[k] : k \in 1 .. Len(s)}]

LEMMA ListOf ==
  ASSUME NEW n \in Nat, NEW s, DOMAIN s = 1 .. n, s = [k \in 1 .. n |-> s[k]]
  PROVE  IsList(s) /\ Len(s) = n
<1>1. s \in [1 .. n -> {s[k] : k \in 1 .. n}]
  OBVIOUS
<1>2. Len(s) = n
  BY <1>1
<1>3. QED
  BY <1>1, <1>2 DEF IsList

Pushed(s, e, t) == t = Append(s, e)
Replaced(s, i, e, t) == t = [s EXCEPT ![i] = e]
Popped(s, t) == t = Front(s)

LEMMA ListAppend ==
  ASSUME NEW s, IsList(s), NEW e, NEW t, Pushed(s, e, t)
  PROVE  /\ IsList(t) /\ Len(t) = Len(s) + 1 /\ Len(s) \in Nat
         /\ \A k \in 1 .. Len(s) : t[k] = s[k]
         /\ t[Len(s) + 1] = e
<1>1. PICK n \in Nat : n = Len(s) /\ DOMAIN s = 1 .. n
  BY DEF IsList
<1> DEFINE S == {s[k] : k \in 1 .. n} \cup {e}
<1>2. s \in [1 .. n -> S]
  BY <1>1 DEF IsList
<1>3. e \in S
  OBVIOUS
<1> HIDE DEF S
<1>4. s \in Seq(S)
  BY <1>2, SequenceOf
<1>5. /\ Append(s, e) \in Seq(S) /\ Len(Append(s, e)) = Len(s) + 1
      /\ \A k \in 1 .. Len(s) : Append(s, e)[k] = s[k]
      /\ Append(s, e)[Len(s) + 1] = e
  BY <1>3, <1>4, AppendProperties
<1>6. PICK m \in Nat : m = n + 1
  OBVIOUS
<1>7. t \in Seq(S) /\ Len(t) = m
  BY <1>1, <1>5, <1>6 DEF Pushed
<1>8. t \in [1 .. m -> S]
  BY <1>7, LenProperties
<1>9. DOMAIN t = 1 .. m /\ t = [k \in 1 .. m |-> t[k]]
  BY <1>8
<1>10. IsList(t)
  BY <1>9, ListOf
<1>11. QED
  BY <1>1, <1>5, <1>6, <1>7, <1>10 DEF Pushed

LEMMA ListFront ==
  ASSUME NEW s, IsList(s), Len(s) > 0, NEW t, Popped(s, t)
  PROVE  /\ IsList(t) /\ Len(t) = Len(s) - 1
         /\ \A k \in 1 .. Len(s) - 1 : t[k] = s[k]
<1>1. PICK n \in Nat : n = Len(s) /\ DOMAIN s = 1 .. n
  BY DEF IsList
<1>2. t = SubSeq(s, 1, n - 1) /\ n >= 1
  BY <1>1 DEF Front, Popped
<1> DEFINE S == {s[k] : k \in 1 .. n}
<1>3. \A k \in 1 .. n - 1 : s[k] \in S
  OBVIOUS
<1>4. /\ SubSeq(s, 1, n - 1) \in Seq(S)
      /\ Len(SubSeq(s, 1, n - 1)) = IF 1 <= n - 1 THEN (n - 1) - 1 + 1 ELSE 0
      /\ \A k \in 1 .. (n - 1) - 1 + 1 : SubSeq(s, 1, n - 1)[k] = s[1 + k - 1]
  <2> HIDE DEF S
  <2>1. 1 \in Int /\ n - 1 \in Int
    OBVIOUS
  <2>2. QED
    BY <1>3, <2>1, SubSeqProperties
<1>5. t \in Seq(S) /\ Len(t) = n - 1 /\ n - 1 \in Nat
  BY <1>2, <1>4
<1>6. DOMAIN t = 1 .. n - 1 /\ t = [k \in 1 .. n - 1 |-> t[k]]
  BY <1>5
<1>7. IsList(t)
  BY <1>5, <1>6, ListOf
<1>8. \A k \in 1 .. n - 1 : t[k] = s[k]
  <2>1. ASSUME NEW k \in 1 .. n - 1 PROVE t[k] = s[k]
    <3>1. k \in 1 .. (n - 1) - 1 + 1 /\ 1 + k - 1 = k
      OBVIOUS
    <3>2. QED
      BY <1>2, <1>4, <3>1
  <2>2. QED
    BY <2>1
<1>9. QED
  BY <1>1, <1>5, <1>7, <1>8

\* One item replaced.
LEMMA ListExcept ==
  ASSUME NEW s, IsList(s), NEW i \in 1 .. Len(s), NEW e, NEW t, Replaced(s, i, e, t)
  PROVE  /\ IsList(t) /\ Len(t) = Len(s)
         /\ \A k \in 1 .. Len(s) : t[k] = IF k = i THEN e ELSE s[k]
<1>1. PICK n \in Nat : n = Len(s) /\ DOMAIN s = 1 .. n
  BY DEF IsList
<1>2. DOMAIN t = 1 .. n /\ t = [k \in 1 .. n |-> t[k]]
  BY <1>1 DEF Replaced
<1>3. IsList(t) /\ Len(t) = n
  BY <1>2, ListOf
<1>4. \A k \in 1 .. n : t[k] = IF k = i THEN e ELSE s[k]
  BY <1>1 DEF Replaced
<1>5. QED
  BY <1>1, <1>3, <1>4

-----------------------------------------------------------------------------
(* The walk.  `path` gives the blocks of the nodes on the way: the k-th is  *)
(* for the extents from Lo(.., k) up to Hi(.., k).                          *)

Lo(cov, path, k) == IF k = 1 THEN 1 ELSE cov[path[k]].from
Hi(cov, path, k) == IF k = 1 THEN Len(extents) + 1 ELSE cov[path[k]].upto

\* The extent the next entry of a node leads to, or the first one behind it.
At(node, next, cov, lo, hi) ==
  IF node.depth = 0 THEN (lo + next) - 1
  ELSE IF next <= Len(node.entries) THEN cov[node.entries[next].leaf].from ELSE hi

Frame(cov, path, k) ==
  /\ stack[k].node.depth = (root.depth + 1) - k
  /\ stack[k].next \in 1 .. Len(stack[k].node.entries) + 1
  /\ k = 1 => stack[k].node = root
  /\ k # 1 => /\ path[k] \in DOMAIN disk /\ disk[path[k]].magic = TRUE /\ stack[k].node = disk[path[k]]
              /\ Lo(cov, path, k - 1) <= Lo(cov, path, k) /\ Hi(cov, path, k) <= Hi(cov, path, k - 1)

Position(cov, path, k) == At(stack[k].node, stack[k].next, cov, Lo(cov, path, k), Hi(cov, path, k))

Walking(cov, path) ==
  /\ IsList(stack) /\ Len(stack) > 0
  /\ \A k \in 1 .. Len(stack) : Frame(cov, path, k)
  /\ \A k \in 2 .. Len(stack) : Position(cov, path, k - 1) = Hi(cov, path, k)
  /\ Position(cov, path, Len(stack)) = Len(found) + 1

FoundSoFar(cov) ==
  /\ IsList(found) /\ Len(found) <= Len(extents)
  /\ \A i \in 1 .. Len(found) : found[i] = Decoded(Encoded(extents[i]))
  /\ \A b \in DOMAIN disk : cov[b].from <= Len(found) => disk[b].magic = TRUE

ReadShape(cov) ==
  /\ pc \in {"walk", "walked", "corrupt"} => FoundSoFar(cov)
  /\ pc \notin {"walk", "walked", "corrupt"} => found = <<>>
  /\ pc = "walk" => \E path : Walking(cov, path)
  /\ pc = "walked" => Len(found) = Len(extents)
  /\ pc = "corrupt" => Lost # {}

TreeInv == \E cov : TreeShape(cov) /\ ReadShape(cov)

\* What a node on the way has below it.
LEMMA FrameSpans ==
  ASSUME DataInv, NEW cov, TreeOK(cov), RootOK(cov), NEW path, NEW k \in Nat \ {0}, Frame(cov, path, k)
  PROVE  /\ Over(stack[k].node, cov, Lo(cov, path, k), Hi(cov, path, k))
         /\ Lo(cov, path, k) \in Nat /\ Hi(cov, path, k) \in Nat /\ 1 <= Lo(cov, path, k)
         /\ Lo(cov, path, k) <= Hi(cov, path, k) /\ Hi(cov, path, k) <= Len(extents) + 1
         /\ root.depth \in 0 .. 2 /\ stack[k].node.depth \in 0 .. 2
         /\ k # 1 => cov[path[k]].depth = stack[k].node.depth
<1>1. Len(extents) \in Nat
  BY DEF DataInv, ExtentsApart
<1>2. Over(root, cov, 1, Len(extents) + 1)
  BY DEF RootOK
<1>3. CASE k = 1
  BY <1>1, <1>2, <1>3 DEF Frame, Lo, Hi, Over
<1>4. CASE k # 1
  <2>1. PICK b \in DOMAIN disk : b = path[k] /\ disk[b].magic = TRUE /\ stack[k].node = disk[b]
    BY <1>4 DEF Frame
  <2>2. Holding(disk[b], cov, cov[b])
    BY <2>1 DEF TreeOK
  <2>3. cov[b] \in Cover /\ 1 <= cov[b].from /\ cov[b].from < cov[b].upto /\ cov[b].upto <= Len(extents) + 1
    BY <2>1 DEF TreeOK, Covers
  <2>4. Lo(cov, path, k) = cov[b].from /\ Hi(cov, path, k) = cov[b].upto
    BY <1>4, <2>1 DEF Lo, Hi
  <2>5. QED
    BY <1>1, <1>2, <2>1, <2>2, <2>3, <2>4 DEF Holding, Over, Cover
<1>5. QED
  BY <1>3, <1>4

\* Over a node speaks of the extents only.
LEMMA OverFrame ==
  ASSUME NEW node, NEW cov, NEW lo, NEW hi, extents' = extents
  PROVE  Over(node, cov, lo, hi)' <=> Over(node, cov, lo, hi)
BY DEF Over, Chain, Listed

LEMMA InlineStep ==
  ASSUME DataInv, NEW cov, TreeShape(cov), PlanInline
  PROVE  TreeShape(cov)'
<1>1. /\ pc = "place" /\ Len(extents) <= RootCapacity /\ root' = Node(LeafEntries, RootCapacity, 0) /\ pc' = "sealed"
      /\ UNCHANGED <<disk, extents, reserved, cursor>>
  BY DEF PlanInline, declVars
<1>2. DOMAIN disk = {} /\ TreeOK(cov)
  BY <1>1 DEF TreeShape
<1>3. TreeOK(cov)'
  BY <1>1, <1>2, TreeFrame
<1>4. Intact' /\ Reachable(cov)'
  BY <1>1, <1>2 DEF Intact, Reachable
<1>5. extents \in Seq(Ext)
  BY DEF DataInv, ExtentsApart
<1>6. PICK n \in Nat : n = Len(extents) /\ DOMAIN extents = 1 .. n
  BY <1>5
<1>7. PICK node : node = root'
  OBVIOUS
<1>8. node.magic = TRUE /\ node.max = RootCapacity /\ node.depth = 0 /\ node.entries = LeafEntries
  BY <1>1, <1>7 DEF Node
<1>9. PICK leaves : leaves = LeafEntries
  OBVIOUS
<1>10. leaves = [i \in 1 .. n |-> Encoded(extents[i])]
  BY <1>6, <1>9 DEF LeafEntries
<1>11. Len(leaves) = n /\ DOMAIN leaves = 1 .. n /\ \A i \in 1 .. n : leaves[i] = Encoded(extents[i])
  BY <1>10
<1>12. Listed(leaves, 1, n + 1)
  <2>1. (n + 1) - 1 = n /\ \A i \in 1 .. n : (1 + i) - 1 = i
    OBVIOUS
  <2>2. QED
    BY <1>11, <2>1 DEF Listed
<1>13. Over(node, cov, 1, n + 1)
  BY <1>8, <1>9, <1>12 DEF Over
<1>14. Over(node, cov, 1, n + 1)'
  BY <1>1, <1>13, OverFrame
<1>15. Over(root, cov, 1, Len(extents) + 1)'
  BY <1>1, <1>6, <1>7, <1>14 DEF Over, Chain, Listed
<1>16. Len(extents) <= Holds(0)
  BY <1>1, HoldsAre
<1>17. RootOK(cov)'
  BY <1>1, <1>2, <1>6, <1>7, <1>8, <1>9, <1>11, <1>15, <1>16 DEF RootOK, Holds
<1>18. QED
  BY <1>1, <1>3, <1>4, <1>17 DEF TreeShape

LEMMA RootStep ==
  ASSUME DataInv, NEW cov, TreeShape(cov), PlanRoot
  PROVE  TreeShape(cov)'
<1>1. /\ pc' = "sealed" /\ UNCHANGED <<disk, extents, reserved, cursor, level>>
      /\ \/ pc = "leaves" /\ Len(level) <= RootCapacity
         \/ pc = "index"
  BY DEF PlanRoot, declVars
<1>2. PICK d : d = IF pc = "leaves" THEN 1 ELSE 2
  OBVIOUS
<1>3. d \in 1 .. 2 /\ d - 1 \in {0, 1} /\ root' = Node(level, RootCapacity, d)
  BY <1>2 DEF PlanRoot
<1>4. TreeOK(cov) /\ LevelOK(cov, d - 1)
  <2>1. CASE pc = "leaves"
    <3>1. d - 1 = 0 /\ LevelOK(cov, 0) /\ TreeOK(cov)
      BY <1>2, <2>1 DEF TreeShape
    <3>2. QED
      BY <3>1
  <2>2. CASE pc = "index"
    <3>1. d - 1 = 1 /\ LevelOK(cov, 1) /\ TreeOK(cov)
      BY <1>2, <2>2 DEF TreeShape
    <3>2. QED
      BY <3>1
  <2>3. QED
    BY <1>1, <2>1, <2>2
<1>5. Len(extents) \in Nat
  BY DEF DataInv, ExtentsApart
<1>6. Len(level) <= RootCapacity /\ Len(extents) <= Holds(d) /\ Len(extents) > Holds(d - 1)
  <2>1. CASE pc = "leaves"
    <3>1. LeavesFit /\ Len(level) <= RootCapacity /\ d = 1
      BY <1>1, <1>2, <2>1 DEF TreeShape
    <3>2. Len(extents) <= RootCapacity * NodeCapacity
      BY <1>5, <3>1, FitsBelow, HoldsAre DEF LeavesFit
    <3>3. QED
      BY <3>1, <3>2, HoldsAre DEF LeavesFit
  <2>2. CASE pc # "leaves"
    <3>1. IndexFits /\ d = 2
      BY <1>1, <1>2, <2>2 DEF TreeShape
    <3>2. QED
      BY <3>1, HoldsAre DEF IndexFits
  <2>3. QED
    BY <2>1, <2>2
<1>7. PICK node : node = root'
  OBVIOUS
<1>8. node.magic = TRUE /\ node.max = RootCapacity /\ node.depth = d /\ node.entries = level
  BY <1>3, <1>7 DEF Node
<1>9. Chain(level, cov, d - 1, 1, Len(extents) + 1) /\ Intact
  BY <1>4 DEF LevelOK
<1>10. Over(node, cov, 1, Len(extents) + 1)
  BY <1>3, <1>8, <1>9 DEF Over
<1>11. Over(root, cov, 1, Len(extents) + 1)'
  BY <1>1, <1>7, <1>10 DEF Over, Chain, Listed
<1>12. \A b \in DOMAIN disk : \/ cov[b].depth = d - 1 /\ Named(level, b)
                              \/ cov[b].depth = 0 /\ d - 1 = 1 /\ InIndex(b)
  BY <1>4 DEF LevelOK
<1>13. \A b \in DOMAIN disk : cov[b].depth < d
  BY <1>3, <1>12
<1>14. RootOK(cov)'
  <2>1. Len(extents)' = Len(extents) /\ root'.depth = d /\ root'.max = RootCapacity /\ root'.entries = level
    BY <1>1, <1>7, <1>8
  <2>2. Holds(d)' = Holds(d) /\ Holds(d - 1)' = Holds(d - 1)
    BY DEF Holds
  <2>3. QED
    BY <1>1, <1>6, <1>11, <1>13, <2>1 DEF RootOK, Holds
<1>15. Reachable(cov)'
  <2>1. root'.depth = d /\ root'.entries = level
    BY <1>7, <1>8
  <2>2. ASSUME NEW b \in DOMAIN disk'
        PROVE  \/ cov[b].depth = root'.depth - 1 /\ Named(root'.entries, b)
               \/ cov[b].depth = 0 /\ root'.depth = 2 /\ InIndex(b)'
    <3>1. InIndex(b)' <=> InIndex(b)
      BY <1>1 DEF InIndex, Named
    <3>2. d - 1 = 1 => d = 2
      BY <1>3
    <3>3. QED
      BY <1>1, <1>12, <2>1, <3>1, <3>2
  <2>3. QED
    BY <2>2 DEF Reachable
<1>16. Intact'
  BY <1>1, <1>9 DEF Intact
<1>17. TreeOK(cov)'
  BY <1>1, <1>4, TreeFrame
<1>18. QED
  BY <1>1, <1>14, <1>15, <1>16, <1>17 DEF TreeShape

LEMMA TooDeepStep ==
  ASSUME DataInv, NEW cov, TreeShape(cov), TooDeep
  PROVE  TreeShape(cov)'
<1>1. /\ pc = "leaves" /\ ~(CeilDiv(Len(level), NodeCapacity) <= RootCapacity) /\ pc' = "too deep"
      /\ UNCHANGED <<disk, extents, reserved, cursor, level>>
  <2>1. CeilDiv(Len(level), NodeCapacity) > RootCapacity
    BY DEF TooDeep
  <2>2. CeilDiv(Len(level), NodeCapacity) \in Nat /\ RootCapacity \in Nat
    BY FitsBelow, HoldsAre DEF DataInv, ExtentsApart
  <2>3. ~(CeilDiv(Len(level), NodeCapacity) <= RootCapacity)
    BY <2>1, <2>2
  <2>4. QED
    BY <2>3 DEF TooDeep, declVars, treeVars
<1>2. PICK n \in Nat, m \in Nat : n = Len(level) /\ m = Len(extents)
  BY DEF DataInv, ExtentsApart
<1>3. PICK R \in Nat, N \in Nat : R = RootCapacity /\ N = NodeCapacity
  BY HoldsAre
<1>4. n = CeilDiv(m, NodeCapacity) /\ TreeOK(cov)
  BY <1>1, <1>2 DEF TreeShape, LeavesFit
<1>5. ~(n <= R * N)
  BY <1>1, <1>2, <1>3, FitsBelow
<1>6. R * N \in Nat /\ R * (N * N) = (R * N) * N /\ (R * N) * N \in Nat
  OBVIOUS
<1>7. ~(m <= (R * N) * N)
  BY <1>3, <1>4, <1>5, <1>6, FitsBelow
<1>8. Len(extents) > Holds(2)
  BY <1>2, <1>3, <1>6, <1>7, HoldsAre
<1>9. TreeOK(cov)'
  BY <1>1, <1>4, TreeFrame
<1>10. (Len(extents) > Holds(2))'
  BY <1>1, <1>8 DEF Holds
<1>11. QED
  BY <1>1, <1>9, <1>10 DEF TreeShape

\* What walk_extent_node() finds in a tree that was planned.
LEMMA RootIsSound ==
  ASSUME NEW cov, RootOK(cov)
  PROVE  Sound(root, RootCapacity)
<1>1. root.magic = TRUE /\ root.depth \in 0 .. 2
  BY DEF RootOK, Over
<1>2. root.depth <= MaxDepth
  BY <1>1 DEF MaxDepth
<1>3. RootCapacity <= RootCapacity
  BY HoldsAre
<1>4. QED
  BY <1>1, <1>2, <1>3 DEF RootOK, Sound

\* finish() or a crash: blocks that were not emitted are blank.
LEMMA EmittedStep ==
  ASSUME DataInv, NEW cov, TreeShape(cov), ReadShape(cov), Emitted
  PROVE  TreeShape(cov)' /\ ReadShape(cov)'
<1>1. /\ pc = "sealed" /\ UNCHANGED <<extents, reserved, cursor, level, root, found>>
      /\ DOMAIN disk' = DOMAIN disk /\ \A b \in DOMAIN disk : disk'[b] = disk[b] \/ disk'[b] = Blank
  BY DEF Emitted, declVars
<1>2. TreeOK(cov) /\ RootOK(cov) /\ found = <<>>
  BY <1>1 DEF TreeShape, ReadShape
<1>3. pc' = "walk" /\ stack' = <<[node |-> root, next |-> 1]>>
  BY <1>2, RootIsSound DEF Emitted
<1>4. Len(extents) \in Nat
  BY DEF DataInv, ExtentsApart
<1>5. TreeOK(cov)'
  <2>1. Covers(cov)'
    BY <1>1, <1>2 DEF TreeOK, Covers
  <2>2. \A b \in DOMAIN disk' : InPlace(b)'
    BY <1>1, <1>2 DEF TreeOK, InPlace
  <2>3. \A b \in DOMAIN disk' : disk'[b].magic = FALSE \/ Holding(disk'[b], cov, cov[b])
    <3>1. Blank.magic = FALSE
      BY DEF Blank
    <3>2. QED
      BY <1>1, <1>2, <3>1 DEF TreeOK
  <2>4. (\A b \in DOMAIN disk : disk[b].magic = FALSE \/ Holding(disk[b], cov, cov[b]))'
    BY <1>1, <2>3 DEF Holding, Over, Chain, Listed
  <2>5. QED
    BY <2>1, <2>2, <2>4 DEF TreeOK
<1>6. RootOK(cov)'
  BY <1>1, <1>2 DEF RootOK, Over, Chain, Listed, Holds
<1>7. IsList(found) /\ Len(found) = 0
  <2>1. <<>> = [k \in 1 .. 0 |-> <<>>[k]] /\ DOMAIN <<>> = 1 .. 0
    OBVIOUS
  <2>2. IsList(<<>>) /\ Len(<<>>) = 0
    BY <2>1, ListOf
  <2>3. QED
    BY <1>2, <2>2
<1>8. FoundSoFar(cov)'
  <2>1. IsList(found)' /\ Len(found)' = 0
    BY <1>1, <1>7 DEF IsList
  <2>2. \A b \in DOMAIN disk : ~(cov[b].from <= 0)
    <3>1. ASSUME NEW b \in DOMAIN disk PROVE ~(cov[b].from <= 0)
      <4>1. cov[b] \in Cover /\ 1 <= cov[b].from
        BY <1>2 DEF TreeOK, Covers
      <4>2. QED
        BY <4>1 DEF Cover
    <3>2. QED
      BY <3>1
  <2>3. QED
    BY <1>1, <1>4, <2>1, <2>2 DEF FoundSoFar
<1>9. PICK path : path = <<>>
  OBVIOUS
<1>10. Walking(cov, path)'
  <2>1. PICK s : s = stack'
    OBVIOUS
  <2>2. Len(s) = 1 /\ DOMAIN s = 1 .. 1 /\ s[1].node = root /\ s[1].next = 1 /\ s = [k \in 1 .. 1 |-> s[k]]
    BY <1>3, <2>1
  <2>3. IsList(s)
    BY <2>2, ListOf
  <2>4. Over(root, cov, 1, Len(extents) + 1)
    BY <1>2 DEF RootOK
  <2>5. PICK n \in Nat : n = Len(root.entries) /\ (root.depth = 0 => n = (Len(extents) + 1) - 1)
    BY <1>4, <2>4 DEF Over, Listed, Chain
  <2>6. root.depth = (root.depth + 1) - 1
    BY <2>4 DEF Over
  <2>7. Frame(cov, path, 1)'
    BY <1>1, <2>1, <2>2, <2>5, <2>6 DEF Frame
  <2>8. 1 .. 1 = {1} /\ 2 .. 1 = {}
    OBVIOUS
  <2>9. At(root, 1, cov, 1, Len(extents) + 1) = 1
    <3>1. CASE root.depth = 0
      BY <3>1 DEF At
    <3>2. CASE root.depth # 0
      <4>1. Chain(root.entries, cov, root.depth - 1, 1, Len(extents) + 1)
        BY <2>4, <3>2 DEF Over
      <4>2. 1 <= Len(root.entries) /\ cov[root.entries[1].leaf].from = 1
        BY <4>1 DEF Chain
      <4>3. QED
        BY <3>2, <4>2 DEF At
    <3>3. QED
      BY <3>1, <3>2
  <2>10. Position(cov, path, 1)' = 1
    BY <1>1, <2>1, <2>2, <2>9 DEF Position, Lo, Hi, At
  <2>11. Len(found)' + 1 = 1
    BY <1>1, <1>7
  <2>12. Len(stack)' = 1 /\ IsList(stack)'
    BY <2>1, <2>2, <2>3 DEF IsList
  <2>13. QED
    BY <2>7, <2>8, <2>10, <2>11, <2>12 DEF Walking
<1>11. TreeShape(cov)'
  BY <1>3, <1>5, <1>6 DEF TreeShape
<1>12. QED
  BY <1>3, <1>8, <1>10, <1>11 DEF ReadShape

\* What the entries of a node lead to.
LEMMA EntryOfLeaf ==
  ASSUME NEW node, NEW cov, NEW lo \in Nat, NEW hi \in Nat, lo <= hi, Over(node, cov, lo, hi), node.depth = 0,
         NEW next \in 1 .. Len(node.entries) + 1
  PROVE  /\ Len(node.entries) \in Nat /\ next \in Nat
         /\ next <= Len(node.entries) =>
              /\ At(node, next, cov, lo, hi) \in lo .. hi - 1
              /\ node.entries[next] = Encoded(extents[At(node, next, cov, lo, hi)])
              /\ At(node, next + 1, cov, lo, hi) = At(node, next, cov, lo, hi) + 1
              /\ next + 1 \in 1 .. Len(node.entries) + 1
         /\ ~(next <= Len(node.entries)) => At(node, next, cov, lo, hi) = hi
<1>1. Listed(node.entries, lo, hi)
  BY DEF Over
<1>2. PICK n \in Nat : n = hi - lo /\ Len(node.entries) = n
  BY <1>1 DEF Listed
<1>3. At(node, next, cov, lo, hi) = (lo + next) - 1 /\ At(node, next + 1, cov, lo, hi) = (lo + (next + 1)) - 1
  BY DEF At
<1>4. \A i \in 1 .. n : node.entries[i] = Encoded(extents[(lo + i) - 1])
  BY <1>1, <1>2 DEF Listed
<1>5. PICK k \in 1 .. n + 1, x \in Nat : k = next /\ x = (lo + k) - 1
  <2>1. PICK k \in 1 .. n + 1 : k = next
    BY <1>2
  <2>2. (lo + k) - 1 \in Nat
    OBVIOUS
  <2>3. QED
    BY <2>1, <2>2
<1>6. At(node, next, cov, lo, hi) = x /\ At(node, next + 1, cov, lo, hi) = x + 1
  <2>1. (lo + (k + 1)) - 1 = x + 1
    BY <1>5
  <2>2. QED
    BY <1>3, <1>5, <2>1
<1>7. ASSUME k <= n
      PROVE  x \in lo .. hi - 1 /\ k + 1 \in 1 .. n + 1 /\ node.entries[k] = Encoded(extents[x])
  <2>1. k \in 1 .. n
    BY <1>7
  <2>2. node.entries[k] = Encoded(extents[(lo + k) - 1])
    BY <1>4, <2>1
  <2>3. x \in lo .. hi - 1 /\ k + 1 \in 1 .. n + 1
    BY <1>2, <1>5, <2>1
  <2>4. QED
    BY <1>5, <2>2, <2>3
<1>8. ~(k <= n) => x = hi
  BY <1>2, <1>5
<1>9. ASSUME next <= Len(node.entries)
      PROVE  /\ At(node, next, cov, lo, hi) \in lo .. hi - 1
             /\ node.entries[next] = Encoded(extents[At(node, next, cov, lo, hi)])
             /\ At(node, next + 1, cov, lo, hi) = At(node, next, cov, lo, hi) + 1
             /\ next + 1 \in 1 .. Len(node.entries) + 1
  <2>1. k <= n
    BY <1>2, <1>5, <1>9
  <2>2. x \in lo .. hi - 1 /\ k + 1 \in 1 .. n + 1 /\ node.entries[k] = Encoded(extents[x])
    BY <1>7, <2>1
  <2>3. QED
    BY <1>2, <1>5, <1>6, <2>2
<1>10. ~(next <= Len(node.entries)) => At(node, next, cov, lo, hi) = hi
  BY <1>2, <1>5, <1>6, <1>8
<1>11. Len(node.entries) \in Nat /\ next \in Nat
  BY <1>2, <1>5
<1>12. QED
  BY <1>9, <1>10, <1>11

LEMMA EntryOfIndex ==
  ASSUME NEW node, NEW cov, NEW lo \in Nat, NEW hi \in Nat, Over(node, cov, lo, hi), node.depth # 0,
         Covers(cov), NEW next \in 1 .. Len(node.entries) + 1
  PROVE  /\ Len(node.entries) \in Nat /\ next \in Nat
         /\ next <= Len(node.entries) =>
              /\ node.entries[next].leaf \in DOMAIN disk
              /\ cov[node.entries[next].leaf].depth = node.depth - 1
              /\ At(node, next, cov, lo, hi) = cov[node.entries[next].leaf].from
              /\ At(node, next + 1, cov, lo, hi) = cov[node.entries[next].leaf].upto
              /\ lo <= cov[node.entries[next].leaf].from /\ cov[node.entries[next].leaf].upto <= hi
              /\ next + 1 \in 1 .. Len(node.entries) + 1
         /\ ~(next <= Len(node.entries)) => At(node, next, cov, lo, hi) = hi
<1>1. Chain(node.entries, cov, node.depth - 1, lo, hi)
  BY DEF Over
<1>2. PICK n \in Nat \ {0} : n = Len(node.entries)
  BY <1>1 DEF Chain
<1>3. PICK e : e = node.entries
  OBVIOUS
<1>4. /\ \A i \in 1 .. n : e[i].leaf \in DOMAIN cov /\ cov[e[i].leaf].depth = node.depth - 1
      /\ cov[e[1].leaf].from = lo /\ cov[e[n].leaf].upto = hi
      /\ \A i \in 1 .. n - 1 : cov[e[i + 1].leaf].from = cov[e[i].leaf].upto
      /\ \A i, j \in 1 .. n : i < j => cov[e[i].leaf].upto <= cov[e[j].leaf].from
  BY <1>1, <1>2, <1>3 DEF Chain
<1>5. \A i \in 1 .. n : /\ e[i].leaf \in DOMAIN disk /\ cov[e[i].leaf].from \in Nat /\ cov[e[i].leaf].upto \in Nat
                        /\ cov[e[i].leaf].from < cov[e[i].leaf].upto
  BY <1>4 DEF Covers, Cover
<1>6. CASE next <= n
  <2>1. next \in 1 .. n
    BY <1>2, <1>6
  <2>2. At(node, next, cov, lo, hi) = cov[e[next].leaf].from
    BY <1>2, <1>3, <1>6 DEF At
  <2>3. At(node, next + 1, cov, lo, hi) = cov[e[next].leaf].upto
    <3>1. CASE next + 1 <= n
      <4>1. next \in 1 .. n - 1
        BY <2>1, <3>1
      <4>2. At(node, next + 1, cov, lo, hi) = cov[e[next + 1].leaf].from
        BY <1>2, <1>3, <3>1 DEF At
      <4>3. QED
        BY <1>4, <4>1, <4>2
    <3>2. CASE ~(next + 1 <= n)
      <4>1. next = n
        BY <2>1, <3>2
      <4>2. At(node, next + 1, cov, lo, hi) = hi
        BY <1>2, <3>2 DEF At
      <4>3. QED
        BY <1>4, <4>1, <4>2
    <3>3. QED
      BY <3>1, <3>2
  <2>4. lo <= cov[e[next].leaf].from
    <3>1. CASE next = 1
      BY <1>4, <3>1
    <3>2. CASE next # 1
      <4>1. 1 \in 1 .. n /\ 1 < next
        BY <2>1, <3>2
      <4>2. cov[e[1].leaf].upto <= cov[e[next].leaf].from
        BY <1>4, <2>1, <4>1
      <4>3. QED
        BY <1>4, <1>5, <2>1, <4>1, <4>2
    <3>3. QED
      BY <3>1, <3>2
  <2>5. cov[e[next].leaf].upto <= hi
    <3>1. CASE next = n
      BY <1>4, <3>1
    <3>2. CASE next # n
      <4>1. n \in 1 .. n /\ next < n
        BY <2>1, <3>2
      <4>2. cov[e[next].leaf].upto <= cov[e[n].leaf].from
        BY <1>4, <2>1, <4>1
      <4>3. QED
        BY <1>4, <1>5, <2>1, <4>1, <4>2
    <3>3. QED
      BY <3>1, <3>2
  <2>6. QED
    BY <1>2, <1>3, <1>4, <1>5, <1>6, <2>1, <2>2, <2>3, <2>4, <2>5
<1>7. CASE ~(next <= n)
  BY <1>2, <1>7 DEF At
<1>8. QED
  BY <1>6, <1>7

\* The walk reads the file from the front: a block that covers the next
\* extent is on the way to it.
LEMMA OnTheWay ==
  ASSUME DataInv, NEW cov, TreeOK(cov), RootOK(cov), NEW path, Walking(cov, path), NEW b \in DOMAIN disk,
         NEW k \in Nat \ {0}, k = Len(stack), NEW x \in Nat,
         stack[k].node.depth = 0, Lo(cov, path, k) <= x, x < Hi(cov, path, k), cov[b].from <= x, x < cov[b].upto
  PROVE  disk[b].magic = TRUE
<1>1. \A j \in 1 .. k : Frame(cov, path, j)
  BY DEF Walking
<1>2. k \in 1 .. k /\ Frame(cov, path, k)
  BY <1>1
<1>3. root.depth \in 0 .. 2 /\ k = root.depth + 1
  <2>1. root.depth \in 0 .. 2 /\ stack[k].node.depth = (root.depth + 1) - k
    BY <1>2, FrameSpans DEF Frame
  <2>2. QED
    BY <2>1
<1>4. cov[b] \in Cover /\ cov[b].depth < root.depth
  BY DEF TreeOK, Covers, RootOK
<1>5. k # 1
  BY <1>3, <1>4 DEF Cover
<1>6. PICK a \in DOMAIN disk : a = path[k] /\ disk[a].magic = TRUE
  BY <1>2, <1>5 DEF Frame
<1>7. cov[a].depth = 0 /\ cov[a].from <= x /\ x < cov[a].upto
  <2>1. cov[a].depth = 0
    BY <1>2, <1>5, <1>6, FrameSpans
  <2>2. QED
    BY <1>5, <1>6, <2>1 DEF Lo, Hi
<1>8. ASSUME NEW c \in DOMAIN disk, cov[c].depth = cov[b].depth, cov[c].from <= x, x < cov[c].upto
      PROVE  c = b
  <2>1. c # b => cov[c].upto <= cov[b].from \/ cov[b].upto <= cov[c].from
    BY <1>8 DEF TreeOK, Covers
  <2>2. cov[c] \in Cover
    BY DEF TreeOK, Covers
  <2>3. QED
    BY <1>4, <1>8, <2>1, <2>2 DEF Cover
<1>9. CASE cov[b].depth = 0
  BY <1>6, <1>7, <1>8, <1>9
<1>10. CASE cov[b].depth = 1
  <2>1. root.depth = 2 /\ k = 3 /\ k - 1 = 2
    BY <1>3, <1>4, <1>10
  <2>2. PICK j \in 1 .. k : j = 2
    BY <2>1
  <2>3. Frame(cov, path, j) /\ j # 1 /\ j \in Nat \ {0}
    BY <1>1, <2>2
  <2>4. PICK c \in DOMAIN disk : c = path[j] /\ disk[c].magic = TRUE
    BY <2>3 DEF Frame
  <2>5. cov[c].depth = 1
    <3>1. cov[path[j]].depth = stack[j].node.depth
      BY <2>3, FrameSpans
    <3>2. stack[j].node.depth = (2 + 1) - 2
      BY <2>1, <2>2, <2>3 DEF Frame
    <3>3. QED
      BY <2>4, <3>1, <3>2
  <2>6. Lo(cov, path, k - 1) <= Lo(cov, path, k) /\ Hi(cov, path, k) <= Hi(cov, path, k - 1)
    BY <1>2, <1>5 DEF Frame
  <2>7. Lo(cov, path, k - 1) = cov[c].from /\ Hi(cov, path, k - 1) = cov[c].upto
    BY <2>1, <2>2, <2>4 DEF Lo, Hi
  <2>8. cov[c] \in Cover /\ Lo(cov, path, k) \in Nat /\ Hi(cov, path, k) \in Nat
    BY <1>2, FrameSpans DEF TreeOK, Covers
  <2>9. cov[c].from <= x /\ x < cov[c].upto
    BY <2>6, <2>7, <2>8 DEF Cover
  <2>10. QED
    BY <1>8, <1>10, <2>4, <2>5, <2>9
<1>11. QED
  BY <1>4, <1>9, <1>10 DEF Cover

\* Extent::encode() and back.
LEMMA DecodesBack ==
  ASSUME NEW e \in Ext
  PROVE  Decoded(Encoded(e)) = [logical |-> e.logical, start |-> e.start, unwritten |-> FALSE, len |-> e.len]
<1>1. PICK M \in Nat \ {0} : M = MaxExtent
  BY ExtentsAssumption
<1>2. PICK l \in 1 .. M : l = e.len
  BY <1>1 DEF Ext
<1>3. l % (2 * M) = l
  <2>1. PICK b \in Nat \ {0} : b = 2 * M
    OBVIOUS
  <2>2. l \in 0 .. b - 1
    BY <2>1
  <2>3. l % b = l
    BY <2>2
  <2>4. QED
    BY <2>1, <2>3
<1>4. PICK r : r = Encoded(e)
  OBVIOUS
<1>5. r.logical = e.logical /\ r.raw_len = l /\ r.start = e.start
  BY <1>1, <1>2, <1>3, <1>4 DEF Encoded
<1>6. (r.raw_len > MaxExtent) = FALSE
  BY <1>1, <1>2, <1>5
<1>7. Decoded(r) = [logical |-> r.logical, start |-> r.start, unwritten |-> FALSE, len |-> r.raw_len]
  BY <1>6 DEF Decoded
<1>8. QED
  BY <1>2, <1>4, <1>5, <1>7

\* The frames below the top stay as they are.
LEMMA StackKeeps ==
  ASSUME NEW cov, NEW path, NEW k \in Nat, stack'[k] = stack[k], NEW new, new[k] = path[k], new[k - 1] = path[k - 1],
         UNCHANGED <<extents, disk, root>>, Frame(cov, path, k)
  PROVE  Frame(cov, new, k)' /\ Position(cov, new, k)' = Position(cov, path, k)
<1>1. PICK f : f = stack[k] /\ f = stack'[k]
  OBVIOUS
<1>2. Lo(cov, new, k)' = Lo(cov, path, k) /\ Hi(cov, new, k)' = Hi(cov, path, k)
      /\ Lo(cov, new, k - 1)' = Lo(cov, path, k - 1) /\ Hi(cov, new, k - 1)' = Hi(cov, path, k - 1)
  BY DEF Lo, Hi
<1>3. Frame(cov, new, k)'
  BY <1>1, <1>2 DEF Frame
<1>4. QED
  BY <1>1, <1>2, <1>3 DEF Position, At

LEMMA VisitStep ==
  ASSUME DataInv, NEW cov, TreeShape(cov), ReadShape(cov), VisitExtent
  PROVE  TreeShape(cov)' /\ ReadShape(cov)'
<1>1. /\ pc = "walk" /\ pc' = "walk" /\ EntriesLeft /\ Top.node.depth = 0
      /\ found' = Append(found, Decoded(TopEntry)) /\ stack' = Advanced
      /\ UNCHANGED <<extents, reserved, cursor, level, root, disk>>
  BY DEF VisitExtent, declVars, treeVars
<1>2. TreeOK(cov) /\ RootOK(cov) /\ FoundSoFar(cov)
  BY <1>1 DEF TreeShape, ReadShape
<1>3. PICK path : Walking(cov, path)
  BY <1>1 DEF ReadShape
<1>4. PICK k \in Nat \ {0} : k = Len(stack)
  BY <1>3 DEF Walking, IsList
<1>5. PICK n \in Nat, m \in Nat : n = Len(found) /\ m = Len(extents)
  <2>1. Len(found) \in Nat
    BY <1>2 DEF FoundSoFar, IsList
  <2>2. Len(extents) \in Nat
    BY DEF DataInv, ExtentsApart
  <2>3. QED
    BY <2>1, <2>2
<1>6. PICK f : f = stack[k]
  OBVIOUS
<1>7. Top = f /\ TopEntry = f.node.entries[f.next] /\ f.next <= Len(f.node.entries) /\ f.node.depth = 0
  BY <1>1, <1>4, <1>6 DEF Top, TopEntry, EntriesLeft
<1>8. \A j \in 1 .. k : Frame(cov, path, j)
  BY <1>3, <1>4 DEF Walking
<1>9. k \in 1 .. k /\ Frame(cov, path, k) /\ f.next \in 1 .. Len(f.node.entries) + 1
  BY <1>6, <1>8 DEF Frame
<1>10. PICK lo \in Nat, hi \in Nat : lo = Lo(cov, path, k) /\ hi = Hi(cov, path, k) /\ lo <= hi /\ hi <= m + 1 /\ 1 <= lo
                                     /\ Over(f.node, cov, lo, hi)
  BY <1>2, <1>5, <1>6, <1>9, FrameSpans
<1>11. At(f.node, f.next, cov, lo, hi) = n + 1
  BY <1>3, <1>4, <1>5, <1>6, <1>10 DEF Walking, Position
<1>12. /\ n + 1 \in lo .. hi - 1
       /\ f.node.entries[f.next] = Encoded(extents[n + 1])
       /\ At(f.node, f.next + 1, cov, lo, hi) = (n + 1) + 1
       /\ f.next + 1 \in 1 .. Len(f.node.entries) + 1
  <2>1. PICK node, next : node = f.node /\ next = f.next
    OBVIOUS
  <2>2. Over(node, cov, lo, hi) /\ node.depth = 0 /\ next \in 1 .. Len(node.entries) + 1 /\ next <= Len(node.entries)
        /\ At(node, next, cov, lo, hi) = n + 1
    BY <1>7, <1>9, <1>10, <1>11, <2>1
  <2>3. /\ At(node, next, cov, lo, hi) \in lo .. hi - 1
        /\ node.entries[next] = Encoded(extents[At(node, next, cov, lo, hi)])
        /\ At(node, next + 1, cov, lo, hi) = At(node, next, cov, lo, hi) + 1
        /\ next + 1 \in 1 .. Len(node.entries) + 1
    BY <1>10, <2>2, EntryOfLeaf
  <2>4. QED
    BY <2>1, <2>2, <2>3
<1>13. n + 1 <= m
  BY <1>10, <1>12
<1>14. /\ IsList(found') /\ Len(found') = n + 1 /\ \A i \in 1 .. n : found'[i] = found[i]
       /\ found'[n + 1] = Decoded(Encoded(extents[n + 1]))
  <2>1. PICK e, s, t : e = Decoded(Encoded(extents[n + 1])) /\ s = found /\ t = found'
    OBVIOUS
  <2>2. Pushed(s, e, t) /\ IsList(s) /\ Len(s) = n
    BY <1>1, <1>2, <1>5, <1>7, <1>12, <2>1 DEF FoundSoFar, Pushed
  <2>3. IsList(t) /\ Len(t) = n + 1 /\ (\A i \in 1 .. n : t[i] = s[i]) /\ t[n + 1] = e
    BY <2>2, ListAppend
  <2>4. QED
    BY <2>1, <2>3
<1>15. PICK g : g = [f EXCEPT !.next = @ + 1]
  OBVIOUS
<1>16. IsList(stack') /\ Len(stack') = k /\ \A j \in 1 .. k : stack'[j] = IF j = k THEN g ELSE stack[j]
  <2>1. PICK s, t : s = stack /\ t = stack'
    OBVIOUS
  <2>2. IsList(s) /\ Len(s) = k /\ k \in 1 .. Len(s)
    BY <1>3, <1>4, <2>1 DEF Walking
  <2>3. Replaced(s, k, g, t)
    BY <1>1, <1>4, <1>6, <1>15, <2>1 DEF Advanced, Replaced
  <2>4. IsList(t) /\ Len(t) = Len(s) /\ \A j \in 1 .. Len(s) : t[j] = IF j = k THEN g ELSE s[j]
    BY <2>2, <2>3, ListExcept
  <2>5. QED
    BY <2>1, <2>2, <2>4
<1>17. g.node = f.node /\ g.next = f.next + 1
  BY <1>15
<1>18. FoundSoFar(cov)'
  <2>1. ASSUME NEW i \in 1 .. n + 1 PROVE found'[i] = Decoded(Encoded(extents[i]))
    <3>1. CASE i = n + 1
      BY <1>14, <3>1
    <3>2. CASE i # n + 1
      <4>1. i \in 1 .. n
        BY <3>2
      <4>2. QED
        BY <1>2, <1>5, <1>14, <4>1 DEF FoundSoFar
    <3>3. QED
      BY <3>1, <3>2
  <2>2. ASSUME NEW b \in DOMAIN disk, cov[b].from <= n + 1 PROVE disk[b].magic = TRUE
    <3>1. cov[b] \in Cover /\ cov[b].from < cov[b].upto
      BY <1>2 DEF TreeOK, Covers
    <3>2. CASE cov[b].from <= n
      BY <1>2, <1>5, <3>2 DEF FoundSoFar
    <3>3. CASE ~(cov[b].from <= n)
      <4>1. PICK x \in Nat : x = n + 1
        OBVIOUS
      <4>2. cov[b].from <= x /\ x < cov[b].upto
        BY <2>2, <3>1, <3>3, <4>1 DEF Cover
      <4>3. Lo(cov, path, k) <= x /\ x < Hi(cov, path, k) /\ stack[k].node.depth = 0
        BY <1>6, <1>7, <1>10, <1>12, <4>1
      <4>4. QED
        BY <1>2, <1>3, <1>4, <4>2, <4>3, OnTheWay
    <3>4. QED
      BY <3>2, <3>3
  <2>3. QED
    BY <1>1, <1>5, <1>13, <1>14, <2>1, <2>2 DEF FoundSoFar
<1>19. ASSUME NEW j \in 1 .. k, j # k PROVE Frame(cov, path, j)' /\ Position(cov, path, j)' = Position(cov, path, j)
  <2>1. stack'[j] = stack[j] /\ Frame(cov, path, j) /\ j \in Nat
    BY <1>8, <1>16, <1>19
  <2>2. QED
    BY <1>1, <2>1, StackKeeps
<1>20. Lo(cov, path, k)' = lo /\ Hi(cov, path, k)' = hi /\ stack'[k] = g
  BY <1>1, <1>9, <1>10, <1>16 DEF Lo, Hi
<1>21. Frame(cov, path, k)'
  <2>1. Lo(cov, path, k - 1)' = Lo(cov, path, k - 1) /\ Hi(cov, path, k - 1)' = Hi(cov, path, k - 1)
    BY <1>1 DEF Lo, Hi
  <2>2. QED
    BY <1>1, <1>6, <1>9, <1>10, <1>12, <1>17, <1>20, <2>1 DEF Frame
<1>22. Position(cov, path, k)' = (n + 1) + 1
  BY <1>12, <1>17, <1>20 DEF Position, At
<1>23. \A j \in 2 .. k : Hi(cov, path, j)' = Hi(cov, path, j)
  BY <1>1 DEF Hi
<1>24. Walking(cov, path)'
  <2>1. \A j \in 1 .. k : Frame(cov, path, j)'
    BY <1>19, <1>21
  <2>2. ASSUME NEW j \in 2 .. k PROVE Position(cov, path, j - 1)' = Hi(cov, path, j)'
    <3>1. j - 1 \in 1 .. k /\ j - 1 # k
      OBVIOUS
    <3>2. Position(cov, path, j - 1) = Hi(cov, path, j)
      BY <1>3, <1>4 DEF Walking
    <3>3. QED
      BY <1>19, <1>23, <3>1, <3>2
  <2>3. Position(cov, path, Len(stack))' = Len(found)' + 1
    BY <1>14, <1>16, <1>22
  <2>4. IsList(stack)' /\ Len(stack)' = k
    BY <1>16 DEF IsList
  <2>5. QED
    BY <2>1, <2>2, <2>3, <2>4 DEF Walking
<1>25. TreeOK(cov)'
  BY <1>1, <1>2, TreeFrame
<1>26. RootOK(cov)'
  BY <1>1, <1>2 DEF RootOK, Over, Chain, Listed, Holds
<1>27. TreeShape(cov)'
  BY <1>1, <1>25, <1>26 DEF TreeShape
<1>28. QED
  BY <1>1, <1>18, <1>24, <1>27 DEF ReadShape

LEMMA DescendStep ==
  ASSUME DataInv, NEW cov, TreeShape(cov), ReadShape(cov), Descend
  PROVE  TreeShape(cov)' /\ ReadShape(cov)'
<1>1. /\ pc = "walk" /\ pc' = "walk" /\ EntriesLeft /\ Top.node.depth > 0
      /\ ChildOK(disk[TopEntry.leaf])
      /\ stack' = Append(Advanced, [node |-> disk[TopEntry.leaf], next |-> 1])
      /\ UNCHANGED <<extents, reserved, cursor, level, root, disk, found>>
  BY DEF Descend, declVars, treeVars
<1>2. TreeOK(cov) /\ RootOK(cov) /\ FoundSoFar(cov)
  BY <1>1 DEF TreeShape, ReadShape
<1>3. PICK path : Walking(cov, path)
  BY <1>1 DEF ReadShape
<1>4. PICK k \in Nat \ {0} : k = Len(stack)
  BY <1>3 DEF Walking, IsList
<1>5. PICK n \in Nat : n = Len(found)
  BY <1>2 DEF FoundSoFar, IsList
<1>6. PICK f : f = stack[k]
  BY Zenon
<1>7. Top = f /\ TopEntry = f.node.entries[f.next] /\ f.next <= Len(f.node.entries) /\ f.node.depth > 0
  BY <1>1, <1>4, <1>6 DEF Top, TopEntry, EntriesLeft
<1>8. \A j \in 1 .. k : Frame(cov, path, j)
  BY <1>3, <1>4 DEF Walking
<1>9. k \in 1 .. k /\ Frame(cov, path, k) /\ f.next \in 1 .. Len(f.node.entries) + 1
  BY <1>6, <1>8 DEF Frame
<1>10. PICK lo \in Nat, hi \in Nat : lo = Lo(cov, path, k) /\ hi = Hi(cov, path, k) /\ Over(f.node, cov, lo, hi)
  BY <1>2, <1>6, <1>9, FrameSpans
<1>11. At(f.node, f.next, cov, lo, hi) = n + 1
  BY <1>3, <1>4, <1>5, <1>6, <1>10 DEF Walking, Position
<1>12. PICK b, from, upto : b = f.node.entries[f.next].leaf /\ from = cov[b].from /\ upto = cov[b].upto
  OBVIOUS
<1>13. /\ b \in DOMAIN disk /\ cov[b].depth = f.node.depth - 1
       /\ n + 1 = from /\ At(f.node, f.next + 1, cov, lo, hi) = upto
       /\ lo <= from /\ upto <= hi
       /\ f.next + 1 \in 1 .. Len(f.node.entries) + 1
  <2>1. PICK node, next : node = f.node /\ next = f.next
    OBVIOUS
  <2>2. Over(node, cov, lo, hi) /\ node.depth # 0 /\ next \in 1 .. Len(node.entries) + 1 /\ next <= Len(node.entries)
    BY <1>7, <1>9, <1>10, <2>1
  <2>3. Covers(cov)
    BY <1>2 DEF TreeOK
  <2>4. /\ node.entries[next].leaf \in DOMAIN disk
        /\ cov[node.entries[next].leaf].depth = node.depth - 1
        /\ At(node, next, cov, lo, hi) = cov[node.entries[next].leaf].from
        /\ At(node, next + 1, cov, lo, hi) = cov[node.entries[next].leaf].upto
        /\ lo <= cov[node.entries[next].leaf].from /\ cov[node.entries[next].leaf].upto <= hi
        /\ next + 1 \in 1 .. Len(node.entries) + 1
    BY <2>2, <2>3, EntryOfIndex
  <2>5. QED
    BY <1>11, <1>12, <2>1, <2>4
<1>14. PICK child : child = disk[b]
  OBVIOUS
<1>15. child.magic = TRUE /\ child.depth = f.node.depth - 1 /\ Over(child, cov, from, upto)
  <2>1. TopEntry.leaf = b
    BY <1>7, <1>12
  <2>2. child.magic /\ child.depth = f.node.depth - 1
    BY <1>1, <1>7, <1>14, <2>1 DEF ChildOK, Sound
  <2>3. child.magic # FALSE
    BY <2>2
  <2>4. Holding(child, cov, cov[b])
    BY <1>2, <1>13, <1>14, <2>3 DEF TreeOK
  <2>5. Over(child, cov, from, upto)
    BY <1>12, <2>4 DEF Holding
  <2>6. QED
    BY <2>2, <2>5 DEF Over
<1>16. from \in Nat /\ upto \in Nat /\ from < upto
  BY <1>2, <1>12, <1>13 DEF TreeOK, Covers, Cover
<1>17. Len(child.entries) \in Nat /\ At(child, 1, cov, from, upto) = from
  <2>1. CASE child.depth = 0
    <3>1. Len(child.entries) = upto - from
      BY <1>15, <2>1 DEF Over, Listed
    <3>2. At(child, 1, cov, from, upto) = (from + 1) - 1
      BY <2>1 DEF At
    <3>3. QED
      BY <1>16, <3>1, <3>2
  <2>2. CASE child.depth # 0
    <3>1. Chain(child.entries, cov, child.depth - 1, from, upto)
      BY <1>15, <2>2 DEF Over
    <3>2. Len(child.entries) \in Nat /\ 1 <= Len(child.entries) /\ cov[child.entries[1].leaf].from = from
      BY <3>1 DEF Chain
    <3>3. QED
      BY <2>2, <3>2 DEF At
  <2>3. QED
    BY <2>1, <2>2
<1>18. PICK g, h : g = [f EXCEPT !.next = @ + 1] /\ h = [node |-> child, next |-> 1]
  OBVIOUS
<1>19. g.node = f.node /\ g.next = f.next + 1 /\ h.node = child /\ h.next = 1
  BY <1>18
<1>20. /\ IsList(stack') /\ Len(stack') = k + 1 /\ stack'[k + 1] = h
       /\ \A j \in 1 .. k : stack'[j] = IF j = k THEN g ELSE stack[j]
  <2>1. PICK s, u, t : s = stack /\ u = Advanced /\ t = stack'
    OBVIOUS
  <2>2. IsList(s) /\ Len(s) = k /\ k \in 1 .. Len(s)
    BY <1>3, <1>4, <2>1 DEF Walking
  <2>3. Replaced(s, k, g, u)
    BY <1>4, <1>6, <1>18, <2>1 DEF Advanced, Replaced
  <2>4. IsList(u) /\ Len(u) = Len(s) /\ \A j \in 1 .. Len(s) : u[j] = IF j = k THEN g ELSE s[j]
    BY <2>2, <2>3, ListExcept
  <2>5. TopEntry.leaf = b
    BY <1>7, <1>12
  <2>6. Pushed(u, h, t)
    BY <1>1, <1>14, <1>18, <2>1, <2>5 DEF Pushed
  <2>7. IsList(t) /\ Len(t) = Len(u) + 1 /\ (\A j \in 1 .. Len(u) : t[j] = u[j]) /\ t[Len(u) + 1] = h
    BY <2>4, <2>6, ListAppend
  <2>8. QED
    BY <2>1, <2>2, <2>4, <2>7
<1>21. PICK new : new = [j \in 0 .. k + 1 |-> IF j = k + 1 THEN b ELSE path[j]]
  OBVIOUS
<1>22. new[k + 1] = b /\ \A j \in 0 .. k : new[j] = path[j]
  BY <1>21
<1>23. ASSUME NEW j \in 1 .. k, j # k PROVE Frame(cov, new, j)' /\ Position(cov, new, j)' = Position(cov, path, j)
  <2>1. stack'[j] = stack[j] /\ Frame(cov, path, j) /\ j \in Nat
    BY <1>8, <1>20, <1>23
  <2>2. j \in 0 .. k /\ j - 1 \in 0 .. k
    OBVIOUS
  <2>3. new[j] = path[j] /\ new[j - 1] = path[j - 1]
    BY <1>22, <2>2
  <2>4. QED
    BY <1>1, <2>1, <2>3, StackKeeps
<1>24. \A j \in 1 .. k : Hi(cov, new, j)' = Hi(cov, path, j) /\ Lo(cov, new, j)' = Lo(cov, path, j)
  BY <1>1, <1>22 DEF Hi, Lo
<1>25. stack'[k] = g /\ new[k] = path[k]
  BY <1>9, <1>20, <1>22
<1>26. Frame(cov, new, k)'
  <2>1. k # 1 => /\ Lo(cov, new, k - 1)' = Lo(cov, path, k - 1) /\ Hi(cov, new, k - 1)' = Hi(cov, path, k - 1)
    <3>1. k # 1 => k - 1 \in 1 .. k
      OBVIOUS
    <3>2. QED
      BY <1>24, <3>1
  <2>2. QED
    BY <1>1, <1>6, <1>9, <1>13, <1>19, <1>24, <1>25, <2>1 DEF Frame
<1>27. Position(cov, new, k)' = upto
  <2>1. Lo(cov, new, k)' = lo /\ Hi(cov, new, k)' = hi
    BY <1>9, <1>10, <1>24
  <2>2. Position(cov, new, k)' = At(g.node, g.next, cov, lo, hi)
    BY <1>25, <2>1 DEF Position, At
  <2>3. QED
    BY <1>13, <1>19, <2>2
<1>28. Lo(cov, new, k + 1)' = from /\ Hi(cov, new, k + 1)' = upto
  <2>1. k + 1 # 1
    OBVIOUS
  <2>2. QED
    BY <1>12, <1>22, <2>1 DEF Lo, Hi
<1>29. Frame(cov, new, k + 1)'
  <2>1. (k + 1) - 1 = k /\ k + 1 # 1
    OBVIOUS
  <2>2. Lo(cov, new, k)' = lo /\ Hi(cov, new, k)' = hi
    BY <1>9, <1>10, <1>24
  <2>3. child.depth = (root.depth + 1) - (k + 1)
    <3>1. f.node.depth = (root.depth + 1) - k
      BY <1>6, <1>9 DEF Frame
    <3>2. root.depth \in 0 .. 2
      BY <1>2 DEF RootOK, Over
    <3>3. QED
      BY <1>15, <3>1, <3>2
  <2>4. 1 \in 1 .. Len(child.entries) + 1
    BY <1>17
  <2>5. stack'[k + 1].node = child /\ stack'[k + 1].next = 1
    BY <1>19, <1>20
  <2>6. Lo(cov, new, k)' <= Lo(cov, new, k + 1)' /\ Hi(cov, new, k + 1)' <= Hi(cov, new, k)'
    BY <1>13, <1>28, <2>2
  <2>7. new[k + 1] \in DOMAIN disk' /\ disk'[new[k + 1]].magic = TRUE /\ child = disk'[new[k + 1]]
    BY <1>1, <1>13, <1>14, <1>15, <1>22
  <2>8. QED
    BY <1>1, <2>1, <2>3, <2>4, <2>5, <2>6, <2>7 DEF Frame
<1>30. Position(cov, new, k + 1)' = n + 1
  <2>1. stack'[k + 1].node = child /\ stack'[k + 1].next = 1
    BY <1>19, <1>20
  <2>2. Position(cov, new, k + 1)' = At(child, 1, cov, from, upto)
    BY <1>28, <2>1 DEF Position, At
  <2>3. QED
    BY <1>13, <1>17, <2>2
<1>31. Walking(cov, new)'
  <2>1. \A j \in 1 .. k + 1 : j = k + 1 \/ j = k \/ (j \in 1 .. k /\ j # k)
    OBVIOUS
  <2>2. \A j \in 1 .. k + 1 : Frame(cov, new, j)'
    BY <1>23, <1>26, <1>29, <2>1
  <2>3. ASSUME NEW j \in 2 .. k + 1 PROVE Position(cov, new, j - 1)' = Hi(cov, new, j)'
    <3>1. CASE j = k + 1
      <4>1. j - 1 = k
        BY <3>1
      <4>2. QED
        BY <1>27, <1>28, <3>1, <4>1
    <3>2. CASE j # k + 1
      <4>1. j - 1 \in 1 .. k /\ j - 1 # k /\ j \in 2 .. k /\ j \in 1 .. k
        BY <3>2
      <4>2. Position(cov, path, j - 1) = Hi(cov, path, j)
        BY <1>3, <1>4, <4>1 DEF Walking
      <4>3. QED
        BY <1>23, <1>24, <4>1, <4>2
    <3>3. QED
      BY <3>1, <3>2
  <2>4. Position(cov, new, Len(stack))' = Len(found)' + 1
    BY <1>1, <1>5, <1>20, <1>30
  <2>5. IsList(stack)' /\ Len(stack)' = k + 1 /\ k + 1 > 0
    BY <1>20 DEF IsList
  <2>6. QED
    BY <2>2, <2>3, <2>4, <2>5 DEF Walking
<1>32. FoundSoFar(cov)'
  BY <1>1, <1>2 DEF FoundSoFar, IsList
<1>33. TreeOK(cov)'
  BY <1>1, <1>2, TreeFrame
<1>34. RootOK(cov)'
  BY <1>1, <1>2 DEF RootOK, Over, Chain, Listed, Holds
<1>35. TreeShape(cov)'
  BY <1>1, <1>33, <1>34 DEF TreeShape
<1>36. QED
  BY <1>1, <1>31, <1>32, <1>35 DEF ReadShape

\* A tree that is not found sound has lost a block.
LEMMA CorruptStep ==
  ASSUME DataInv, NEW cov, TreeShape(cov), ReadShape(cov), Corrupt
  PROVE  TreeShape(cov)' /\ ReadShape(cov)'
<1>1. /\ pc = "walk" /\ pc' = "corrupt" /\ EntriesLeft
      /\ Top.node.depth = 0 => Decoded(TopEntry).len = 0
      /\ Top.node.depth # 0 => ~ChildOK(disk[TopEntry.leaf])
      /\ UNCHANGED <<extents, reserved, cursor, level, root, disk, found>>
  BY DEF Corrupt, declVars, treeVars, readVars
<1>2. TreeOK(cov) /\ RootOK(cov) /\ FoundSoFar(cov)
  BY <1>1 DEF TreeShape, ReadShape
<1>3. PICK path : Walking(cov, path)
  BY <1>1 DEF ReadShape
<1>4. PICK k \in Nat \ {0} : k = Len(stack)
  BY <1>3 DEF Walking, IsList
<1>5. PICK m \in Nat : m = Len(extents)
  BY DEF DataInv, ExtentsApart
<1>6. PICK f : f = stack[k]
  OBVIOUS
<1>7. Top = f /\ TopEntry = f.node.entries[f.next] /\ f.next <= Len(f.node.entries)
  BY <1>1, <1>4, <1>6 DEF Top, TopEntry, EntriesLeft
<1>8. Frame(cov, path, k) /\ f.next \in 1 .. Len(f.node.entries) + 1
  <2>1. k \in 1 .. k
    OBVIOUS
  <2>2. Frame(cov, path, k)
    BY <1>3, <1>4, <2>1 DEF Walking
  <2>3. QED
    BY <1>6, <2>2 DEF Frame
<1>9. PICK lo \in Nat, hi \in Nat : lo <= hi /\ hi <= m + 1 /\ 1 <= lo /\ Over(f.node, cov, lo, hi)
  BY <1>2, <1>5, <1>6, <1>8, FrameSpans
<1>10. PICK node, next : node = f.node /\ next = f.next
  OBVIOUS
<1>11. Over(node, cov, lo, hi) /\ next \in 1 .. Len(node.entries) + 1 /\ next <= Len(node.entries)
  BY <1>7, <1>8, <1>9, <1>10
<1>12. node.depth # 0
  <2>1. SUFFICES ASSUME node.depth = 0 PROVE FALSE
    OBVIOUS
  <2>2. PICK x : x = At(node, next, cov, lo, hi)
    OBVIOUS
  <2>3. x \in lo .. hi - 1 /\ node.entries[next] = Encoded(extents[x])
    BY <1>9, <1>11, <2>1, <2>2, EntryOfLeaf
  <2>4. x \in 1 .. m
    BY <1>9, <2>3
  <2>5. PICK e \in Ext : e = extents[x]
    <3>1. extents \in Seq(Ext)
      BY DEF DataInv, ExtentsApart
    <3>2. QED
      BY <1>5, <2>4, <3>1
  <2>6. Decoded(Encoded(e)).len = e.len
    BY DecodesBack
  <2>7. Decoded(TopEntry).len = e.len
    BY <1>7, <1>10, <2>3, <2>5, <2>6
  <2>8. Decoded(TopEntry).len = 0
    BY <1>1, <1>7, <1>10, <2>1
  <2>9. e.len \in 1 .. MaxExtent
    BY DEF Ext
  <2>10. QED
    BY <2>7, <2>8, <2>9, ExtentsAssumption
<1>13. PICK b : b = node.entries[next].leaf
  OBVIOUS
<1>14. b \in DOMAIN disk /\ cov[b].depth = node.depth - 1
  <2>1. Covers(cov)
    BY <1>2 DEF TreeOK
  <2>2. Over(node, cov, lo, hi)
    BY <1>11
  <2>3. next \in 1 .. Len(node.entries) + 1 /\ next <= Len(node.entries)
    BY <1>11
  <2>4. node.depth # 0
    BY <1>12
  <2>5. /\ Len(node.entries) \in Nat /\ next \in Nat
        /\ next <= Len(node.entries) =>
             /\ node.entries[next].leaf \in DOMAIN disk
             /\ cov[node.entries[next].leaf].depth = node.depth - 1
             /\ At(node, next, cov, lo, hi) = cov[node.entries[next].leaf].from
             /\ At(node, next + 1, cov, lo, hi) = cov[node.entries[next].leaf].upto
             /\ lo <= cov[node.entries[next].leaf].from /\ cov[node.entries[next].leaf].upto <= hi
             /\ next + 1 \in 1 .. Len(node.entries) + 1
        /\ ~(next <= Len(node.entries)) => At(node, next, cov, lo, hi) = hi
    BY <2>1, <2>2, <2>3, <2>4, EntryOfIndex
  <2>6. QED
    BY <1>13, <2>3, <2>5
<1>15. disk[b].magic = FALSE
  <2>1. SUFFICES ASSUME disk[b].magic # FALSE PROVE FALSE
    OBVIOUS
  <2>2. Holding(disk[b], cov, cov[b])
    BY <1>2, <1>14, <2>1 DEF TreeOK
  <2>3. /\ disk[b].magic = TRUE /\ disk[b].depth = Top.node.depth - 1 /\ disk[b].depth \in 0 .. 2
        /\ disk[b].max = NodeCapacity /\ Len(disk[b].entries) <= NodeCapacity
    BY <1>7, <1>10, <1>14, <2>2 DEF Holding, Over
  <2>4. NodeCapacity <= NodeCapacity /\ disk[b].depth <= MaxDepth
    BY <2>3, HoldsAre DEF MaxDepth
  <2>5. ChildOK(disk[b])
    BY <2>3, <2>4 DEF ChildOK, Sound
  <2>6. QED
    BY <1>1, <1>7, <1>10, <1>12, <1>13, <2>5
<1>16. (Lost # {})'
  <2>1. b \in Lost
    BY <1>14, <1>15 DEF Lost
  <2>2. QED
    BY <1>1, <2>1 DEF Lost
<1>17. FoundSoFar(cov)'
  BY <1>1, <1>2 DEF FoundSoFar, IsList
<1>18. TreeOK(cov)'
  BY <1>1, <1>2, TreeFrame
<1>19. RootOK(cov)'
  BY <1>1, <1>2 DEF RootOK, Over, Chain, Listed, Holds
<1>20. TreeShape(cov)'
  BY <1>1, <1>18, <1>19 DEF TreeShape
<1>21. QED
  BY <1>1, <1>16, <1>17, <1>20 DEF ReadShape

LEMMA ReturnStep ==
  ASSUME DataInv, NEW cov, TreeShape(cov), ReadShape(cov), Return
  PROVE  TreeShape(cov)' /\ ReadShape(cov)'
<1>1. /\ pc = "walk" /\ pc' = (IF Len(stack) = 1 THEN "walked" ELSE "walk") /\ ~EntriesLeft
      /\ stack' = Front(stack)
      /\ UNCHANGED <<extents, reserved, cursor, level, root, disk, found>>
  BY DEF Return, declVars, treeVars
<1>2. TreeOK(cov) /\ RootOK(cov) /\ FoundSoFar(cov)
  BY <1>1 DEF TreeShape, ReadShape
<1>3. PICK path : Walking(cov, path)
  BY <1>1 DEF ReadShape
<1>4. PICK k \in Nat \ {0} : k = Len(stack)
  BY <1>3 DEF Walking, IsList
<1>5. PICK n \in Nat : n = Len(found)
  BY <1>2 DEF FoundSoFar, IsList
<1>6. PICK m \in Nat : m = Len(extents)
  BY DEF DataInv, ExtentsApart
<1>7. PICK f : f = stack[k]
  OBVIOUS
<1>8. ~(f.next <= Len(f.node.entries))
  BY <1>1, <1>4, <1>7 DEF Top, EntriesLeft
<1>9. \A j \in 1 .. k : Frame(cov, path, j)
  BY <1>3, <1>4 DEF Walking
<1>10. Frame(cov, path, k) /\ f.next \in 1 .. Len(f.node.entries) + 1
  <2>1. k \in 1 .. k
    OBVIOUS
  <2>2. QED
    BY <1>7, <1>9, <2>1 DEF Frame
<1>11. PICK lo \in Nat, hi \in Nat : lo = Lo(cov, path, k) /\ hi = Hi(cov, path, k) /\ lo <= hi /\ Over(f.node, cov, lo, hi)
  BY <1>2, <1>7, <1>10, FrameSpans
<1>12. hi = n + 1
  <2>1. PICK node, next : node = f.node /\ next = f.next
    OBVIOUS
  <2>2. Over(node, cov, lo, hi) /\ next \in 1 .. Len(node.entries) + 1 /\ ~(next <= Len(node.entries))
    BY <1>8, <1>10, <1>11, <2>1
  <2>3. At(node, next, cov, lo, hi) = hi
    <3>1. CASE node.depth = 0
      <4>1. lo <= hi /\ Over(node, cov, lo, hi) /\ node.depth = 0
        BY <1>11, <2>2, <3>1
      <4>2. QED
        BY <2>2, <4>1, EntryOfLeaf
    <3>2. CASE node.depth # 0
      <4>1. Covers(cov)
        BY <1>2 DEF TreeOK
      <4>2. Over(node, cov, lo, hi) /\ node.depth # 0
        BY <2>2, <3>2
      <4>3. QED
        BY <2>2, <4>1, <4>2, EntryOfIndex
    <3>3. QED
      BY <3>1, <3>2
  <2>4. At(node, next, cov, lo, hi) = n + 1
    BY <1>3, <1>4, <1>5, <1>7, <1>11, <2>1 DEF Walking, Position
  <2>5. QED
    BY <2>3, <2>4
<1>13. TreeOK(cov)'
  BY <1>1, <1>2, TreeFrame
<1>14. RootOK(cov)'
  BY <1>1, <1>2 DEF RootOK, Over, Chain, Listed, Holds
<1>15. TreeShape(cov)'
  BY <1>1, <1>13, <1>14 DEF TreeShape
<1>16. FoundSoFar(cov)'
  BY <1>1, <1>2 DEF FoundSoFar, IsList
<1>17. CASE k = 1
  <2>1. hi = m + 1
    BY <1>6, <1>11, <1>17 DEF Hi
  <2>2. n = m
    BY <1>12, <2>1
  <2>3. pc' = "walked" /\ Len(found)' = Len(extents)'
    BY <1>1, <1>4, <1>5, <1>6, <1>17, <2>2
  <2>4. QED
    BY <1>15, <1>16, <2>3 DEF ReadShape
<1>18. CASE k # 1
  <2>1. PICK l \in Nat \ {0} : l = k - 1
    BY <1>18
  <2>2. IsList(stack') /\ Len(stack') = l /\ \A j \in 1 .. l : stack'[j] = stack[j]
    <3>1. PICK s, t : s = stack /\ t = stack'
      OBVIOUS
    <3>2. IsList(s) /\ Len(s) = k /\ Len(s) > 0 /\ Popped(s, t)
      BY <1>1, <1>3, <1>4, <3>1 DEF Walking, Popped
    <3>3. IsList(t) /\ Len(t) = Len(s) - 1 /\ \A j \in 1 .. Len(s) - 1 : t[j] = s[j]
      BY <3>2, ListFront
    <3>4. QED
      BY <2>1, <3>1, <3>2, <3>3
  <2>3. ASSUME NEW j \in 1 .. l PROVE Frame(cov, path, j)' /\ Position(cov, path, j)' = Position(cov, path, j)
    <3>1. j \in 1 .. k /\ j \in Nat
      BY <2>1
    <3>2. stack'[j] = stack[j] /\ Frame(cov, path, j) /\ path[j] = path[j] /\ path[j - 1] = path[j - 1]
      BY <1>9, <2>2, <3>1
    <3>3. QED
      BY <1>1, <3>1, <3>2, StackKeeps
  <2>4. \A j \in 2 .. k : Hi(cov, path, j)' = Hi(cov, path, j)
    BY <1>1 DEF Hi
  <2>5. ASSUME NEW j \in 2 .. l PROVE Position(cov, path, j - 1)' = Hi(cov, path, j)'
    <3>1. j \in 2 .. k /\ j - 1 \in 1 .. l
      BY <2>1
    <3>2. Position(cov, path, j - 1) = Hi(cov, path, j)
      BY <1>3, <1>4, <3>1 DEF Walking
    <3>3. QED
      BY <2>3, <2>4, <3>1, <3>2
  <2>6. Position(cov, path, l)' = n + 1
    <3>1. k \in 2 .. k /\ l \in 1 .. l
      BY <1>18
    <3>2. Position(cov, path, k - 1) = Hi(cov, path, k)
      BY <1>3, <1>4, <3>1 DEF Walking
    <3>3. QED
      BY <1>11, <1>12, <2>1, <2>3, <3>1, <3>2
  <2>7. IsList(stack)' /\ Len(stack)' = l /\ l > 0
    BY <2>2 DEF IsList
  <2>8. Position(cov, path, Len(stack))' = Len(found)' + 1
    BY <1>1, <1>5, <2>6, <2>7
  <2>9. Walking(cov, path)'
    BY <2>3, <2>5, <2>7, <2>8 DEF Walking
  <2>10. pc' = "walk"
    BY <1>1, <1>4, <1>18
  <2>11. QED
    BY <1>15, <1>16, <2>9, <2>10 DEF ReadShape
<1>19. QED
  BY <1>17, <1>18

LEMMA TreeStep == DataInv /\ DataInv' /\ TreeInv /\ [Next]_vars => TreeInv'
<1> SUFFICES ASSUME DataInv, DataInv', TreeInv, [Next]_vars PROVE TreeInv'
  OBVIOUS
<1>1. PICK cov : TreeShape(cov) /\ ReadShape(cov)
  BY DEF TreeInv
<1>2. TreeOK(cov)
  BY <1>1 DEF TreeShape
<1>3. ASSUME pc \notin {"walk", "walked", "corrupt"}, found' = found, pc' \notin {"walk", "walked", "corrupt"}
      PROVE  ReadShape(cov)' /\ \A new : ReadShape(new)'
  BY <1>1, <1>3 DEF ReadShape
<1>4. CASE DeclareFile
  <2>1. /\ pc = "declare" /\ pc' = "place" /\ found' = found
        /\ UNCHANGED <<disk, extents, reserved, cursor>>
    BY <1>4 DEF DeclareFile, treeVars, readVars
  <2>2. DOMAIN disk = {}
    BY <1>1, <2>1 DEF TreeShape
  <2>3. TreeOK(cov)'
    BY <1>2, <2>1, TreeFrame
  <2>4. TreeShape(cov)'
    BY <2>1, <2>2, <2>3 DEF TreeShape
  <2>5. QED
    BY <1>3, <2>1, <2>4 DEF TreeInv
<1>5. CASE PlaceSegment
  <2>1. pc = "place" /\ pc' = "place" /\ found' = found /\ disk' = disk
    BY <1>5 DEF PlaceSegment, readVars
  <2>2. DOMAIN disk = {} /\ cov \in [DOMAIN disk -> Cover]
    BY <1>1, <1>2, <2>1 DEF TreeShape, TreeOK, Covers
  <2>3. TreeOK(cov)'
    BY <2>1, <2>2 DEF TreeOK, Covers
  <2>4. TreeShape(cov)'
    BY <2>1, <2>2, <2>3 DEF TreeShape
  <2>5. QED
    BY <1>3, <2>1, <2>4 DEF TreeInv
<1>6. CASE PlanInline
  <2>1. TreeShape(cov)'
    BY <1>1, <1>6, InlineStep
  <2>2. pc = "place" /\ pc' = "sealed" /\ found' = found
    BY <1>6 DEF PlanInline, readVars
  <2>3. QED
    BY <1>3, <2>1, <2>2 DEF TreeInv
<1>7. CASE PlanLeaves
  <2>1. PICK new : TreeShape(new)'
    BY <1>1, <1>7, LeavesStep
  <2>2. pc = "place" /\ pc' = "leaves" /\ found' = found
    BY <1>7 DEF PlanLeaves, readVars
  <2>3. QED
    BY <1>3, <2>1, <2>2 DEF TreeInv
<1>8. CASE PlanIndex
  <2>1. PICK new : TreeShape(new)'
    BY <1>1, <1>8, IndexStep
  <2>2. pc = "leaves" /\ pc' = "index" /\ found' = found
    BY <1>8 DEF PlanIndex, readVars
  <2>3. QED
    BY <1>3, <2>1, <2>2 DEF TreeInv
<1>9. CASE PlanRoot
  <2>1. TreeShape(cov)'
    BY <1>1, <1>9, RootStep
  <2>2. pc \in {"leaves", "index"} /\ pc' = "sealed" /\ found' = found
    BY <1>9 DEF PlanRoot, readVars
  <2>3. QED
    BY <1>3, <2>1, <2>2 DEF TreeInv
<1>10. CASE TooDeep
  <2>1. TreeShape(cov)'
    BY <1>1, <1>10, TooDeepStep
  <2>2. pc = "leaves" /\ pc' = "too deep" /\ found' = found
    BY <1>10 DEF TooDeep, readVars
  <2>3. QED
    BY <1>3, <2>1, <2>2 DEF TreeInv
<1>11. CASE ImageFull
  <2>1. /\ pc \in {"place", "leaves"} /\ pc' = "image full" /\ found' = found
        /\ UNCHANGED <<disk, extents, reserved, cursor>>
    BY <1>11 DEF ImageFull, declVars, treeVars, readVars
  <2>2. TreeOK(cov)'
    BY <1>2, <2>1, TreeFrame
  <2>3. TreeShape(cov)'
    BY <2>1, <2>2 DEF TreeShape
  <2>4. QED
    BY <1>3, <2>1, <2>3 DEF TreeInv
<1>12. CASE Emitted
  BY <1>1, <1>12, EmittedStep DEF TreeInv
<1>13. CASE VisitExtent
  BY <1>1, <1>13, VisitStep DEF TreeInv
<1>14. CASE Descend
  BY <1>1, <1>14, DescendStep DEF TreeInv
<1>15. CASE Corrupt
  BY <1>1, <1>15, CorruptStep DEF TreeInv
<1>16. CASE Return
  BY <1>1, <1>16, ReturnStep DEF TreeInv
<1>17. CASE UNCHANGED vars
  <2>1. UNCHANGED <<pc, disk, extents, reserved, cursor, level, root, stack, found>>
    BY <1>17 DEF vars, declVars, treeVars, readVars
  <2>2. TreeOK(cov)'
    BY <1>2, <2>1, TreeFrame
  <2>3. LevelOK(cov, 0)' = LevelOK(cov, 0) /\ LevelOK(cov, 1)' = LevelOK(cov, 1)
    BY <2>1 DEF LevelOK, Chain, Named, InIndex, Intact
  <2>4. LeavesFit' = LeavesFit /\ IndexFits' = IndexFits
    BY <2>1 DEF LeavesFit, IndexFits
  <2>5. Intact' = Intact /\ Reachable(cov)' = Reachable(cov)
    BY <2>1 DEF Intact, Reachable, Named, InIndex
  <2>6. RootOK(cov)' = RootOK(cov)
    BY <2>1 DEF RootOK, Over, Chain, Listed, Holds
  <2>7. TreeShape(cov)'
    BY <1>1, <2>1, <2>2, <2>3, <2>4, <2>5, <2>6 DEF TreeShape, Holds
  <2>8. FoundSoFar(cov)' = FoundSoFar(cov) /\ (Lost # {})' = (Lost # {})
    BY <2>1 DEF FoundSoFar, IsList, Lost
  <2>9. ASSUME NEW path PROVE Walking(cov, path)' = Walking(cov, path)
    BY <2>1 DEF Walking, IsList, Frame, Position, At, Lo, Hi
  <2>10. ReadShape(cov)'
    BY <1>1, <2>1, <2>8, <2>9 DEF ReadShape
  <2>11. QED
    BY <2>7, <2>10 DEF TreeInv
<1>18. QED
  BY <1>4, <1>5, <1>6, <1>7, <1>8, <1>9, <1>10, <1>11, <1>12, <1>13, <1>14, <1>15, <1>16, <1>17 DEF Next

LEMMA TreeInit == Init => TreeInv
<1> SUFFICES ASSUME Init PROVE TreeInv
  OBVIOUS
<1>1. pc = "declare" /\ disk = <<>> /\ found = <<>>
  BY DEF Init
<1>2. DOMAIN disk = {}
  BY <1>1
<1>3. PICK cov : cov = [b \in DOMAIN disk |-> [from |-> 0, upto |-> 0, depth |-> 0]]
  OBVIOUS
<1>4. cov \in [DOMAIN disk -> Cover]
  BY <1>2, <1>3
<1>5. TreeOK(cov)
  BY <1>2, <1>4, EmptyTree
<1>6. TreeShape(cov) /\ ReadShape(cov)
  BY <1>1, <1>2, <1>5 DEF TreeShape, ReadShape
<1>7. QED
  BY <1>6 DEF TreeInv

LEMMA TreeInvariance == Spec => [](DataInv /\ TreeInv)
<1>1. Init => DataInv /\ TreeInv
  BY DataInit, TreeInit
<1>2. DataInv /\ TreeInv /\ [Next]_vars => (DataInv /\ TreeInv)'
  BY DataStep, TreeStep
<1>3. QED
  BY <1>1, <1>2, PTL DEF Spec

\* The walk: a report of a corrupt tree means that a block of it is missing,
\* and a walk that ends has found every planned extent, in order, and needed
\* every block of the tree for it.
LEMMA WalkFindsAll == DataInv /\ TreeInv => WalkIsFaithful
<1> SUFFICES ASSUME DataInv, TreeInv PROVE WalkIsFaithful
  OBVIOUS
<1>1. PICK cov : TreeShape(cov) /\ ReadShape(cov)
  BY DEF TreeInv
<1>2. pc = "corrupt" => Lost # {}
  BY <1>1 DEF ReadShape
<1>3. ASSUME pc = "walked"
      PROVE  /\ Lost = {}
             /\ Len(found) = Len(extents)
             /\ \A i \in DOMAIN found :
                  /\ ~found[i].unwritten
                  /\ extents[i] = [logical |-> found[i].logical, start |-> found[i].start,
                                   len |-> found[i].len]
  <2>1. FoundSoFar(cov) /\ Covers(cov) /\ Len(found) = Len(extents)
    BY <1>1, <1>3 DEF ReadShape, TreeShape, TreeOK
  <2>2. PICK m \in Nat : m = Len(extents) /\ extents \in Seq(Ext)
    BY DEF DataInv, ExtentsApart
  <2>3. ASSUME NEW b \in DOMAIN disk PROVE disk[b].magic = TRUE
    <3>1. PICK c \in Cover : c = cov[b]
      BY <2>1 DEF Covers
    <3>2. c.from < c.upto /\ c.upto <= m + 1 /\ c.from \in Nat /\ c.upto \in Nat
      BY <2>1, <2>2, <3>1 DEF Covers, Cover
    <3>3. c.from <= m
      BY <3>2
    <3>4. cov[b].from <= Len(found)
      BY <2>1, <2>2, <3>1, <3>3
    <3>5. QED
      BY <2>1, <3>4 DEF FoundSoFar
  <2>4. Lost = {}
    BY <2>3 DEF Lost
  <2>5. DOMAIN found = 1 .. m
    BY <2>1, <2>2 DEF FoundSoFar, IsList
  <2>6. ASSUME NEW i \in DOMAIN found
        PROVE  /\ ~found[i].unwritten
               /\ extents[i] = [logical |-> found[i].logical, start |-> found[i].start, len |-> found[i].len]
    <3>1. i \in 1 .. m
      BY <2>5
    <3>2. PICK e \in Ext : e = extents[i]
      BY <2>2, <3>1
    <3>3. found[i] = Decoded(Encoded(e))
      BY <2>1, <2>2, <3>1, <3>2 DEF FoundSoFar
    <3>4. PICK d : d = Decoded(Encoded(e))
      OBVIOUS
    <3>5. d.logical = e.logical /\ d.start = e.start /\ d.len = e.len /\ d.unwritten = FALSE
      BY <3>4, DecodesBack
    <3>6. e = [logical |-> e.logical, start |-> e.start, len |-> e.len]
      BY DEF Ext
    <3>7. QED
      BY <3>2, <3>3, <3>4, <3>5, <3>6
  <2>7. QED
    BY <2>1, <2>4, <2>6
<1>4. QED
  BY <1>2, <1>3 DEF WalkIsFaithful

\* The reader reports a corrupt tree only if the writer stopped before a
\* block of the tree was emitted, and otherwise has found the planned
\* extents, all and in order (walk_extent_node against plan_extents).
THEOREM WalkIsAlwaysFaithful == Spec => []WalkIsFaithful
BY TreeInvariance, WalkFindsAll, PTL

-----------------------------------------------------------------------------
(* Each tree block has one parent. *)

Points(node, i, b) == node.depth > 0 /\ i \in DOMAIN node.entries /\ node.entries[i].leaf = b

\* What an index node says of a block it points at.
LEMMA PointsWithin ==
  ASSUME NEW cov, Covers(cov), NEW node, NEW lo \in Nat, NEW hi \in Nat, Over(node, cov, lo, hi),
         NEW i, NEW b, Points(node, i, b)
  PROVE  /\ i \in 1 .. Len(node.entries) /\ Len(node.entries) \in Nat /\ b \in DOMAIN disk
         /\ cov[b].depth = node.depth - 1
         /\ lo <= cov[b].from /\ cov[b].upto <= hi
         /\ \A j : Points(node, j, b) => j = i
<1>1. node.depth > 0 /\ node.depth # 0 /\ node.depth \in 0 .. 2
  BY DEF Points, Over
<1>2. Chain(node.entries, cov, node.depth - 1, lo, hi)
  BY <1>1 DEF Over
<1>3. PICK n \in Nat : n = Len(node.entries) /\ DOMAIN node.entries = 1 .. n
  BY <1>2 DEF Chain
<1>4. i \in 1 .. n /\ node.entries[i].leaf = b
  BY <1>3 DEF Points
<1>5. i \in 1 .. Len(node.entries) + 1 /\ i <= Len(node.entries)
  BY <1>3, <1>4
<1>6. /\ node.entries[i].leaf \in DOMAIN disk
      /\ cov[node.entries[i].leaf].depth = node.depth - 1
      /\ lo <= cov[node.entries[i].leaf].from /\ cov[node.entries[i].leaf].upto <= hi
  <2>1. node.depth # 0
    BY <1>1
  <2>2. i \in 1 .. Len(node.entries) + 1
    BY <1>5
  <2>3. i <= Len(node.entries) =>
          /\ node.entries[i].leaf \in DOMAIN disk
          /\ cov[node.entries[i].leaf].depth = node.depth - 1
          /\ lo <= cov[node.entries[i].leaf].from /\ cov[node.entries[i].leaf].upto <= hi
    BY <2>1, <2>2, EntryOfIndex
  <2>4. QED
    BY <1>5, <2>3
<1>7. b \in DOMAIN disk /\ cov[b].depth = node.depth - 1 /\ lo <= cov[b].from /\ cov[b].upto <= hi
  BY <1>4, <1>6
<1>8. PICK r \in Cover : r = cov[b] /\ r.from < r.upto
  BY <1>7 DEF Covers
<1>9. ASSUME NEW j, Points(node, j, b) PROVE j = i
  <2>1. j \in 1 .. n /\ node.entries[j].leaf = b
    BY <1>3, <1>9 DEF Points
  <2>2. \A k, l \in 1 .. n : k < l => cov[node.entries[k].leaf].upto <= cov[node.entries[l].leaf].from
    BY <1>2, <1>3 DEF Chain
  <2>3. i < j => r.upto <= r.from
    BY <1>4, <1>8, <2>1, <2>2
  <2>4. j < i => r.upto <= r.from
    BY <1>4, <1>8, <2>1, <2>2
  <2>5. r.from \in Nat /\ r.upto \in Nat
    BY DEF Cover
  <2>6. QED
    BY <1>4, <1>8, <2>1, <2>3, <2>4, <2>5
<1>10. QED
  BY <1>3, <1>4, <1>7, <1>9

\* A pointer counts as a parent.
LEMMA ParentsAre ==
  ASSUME DataInv, NEW cov, TreeOK(cov), RootOK(cov), Intact, NEW b
  PROVE  /\ \A i : Points(root, i, b) => <<root, i>> \in Parents(b)
         /\ \A c \in DOMAIN disk : \A i : Points(disk[c], i, b) => <<disk[c], i>> \in Parents(b)
         /\ \A p \in Parents(b) :
              /\ p = <<p[1], p[2]>> /\ Points(p[1], p[2], b)
              /\ p[1] = root \/ \E c \in DOMAIN disk : p[1] = disk[c]
<1>1. PICK nodes, slots : nodes = {root} \cup {disk[c] : c \in DOMAIN disk} /\ slots = 1 .. NodeCapacity + RootCapacity
  OBVIOUS
<1>2. Parents(b) = {p \in nodes \X slots : Points(p[1], p[2], b)}
  BY <1>1 DEF Parents, Points
<1>3. \A c \in DOMAIN disk : Holding(disk[c], cov, cov[c])
  BY DEF TreeOK, Intact
<1>4. Covers(cov) /\ Over(root, cov, 1, Len(extents) + 1) /\ Len(root.entries) <= RootCapacity
  BY DEF TreeOK, RootOK
<1>5. PICK R \in Nat, N \in Nat : R = RootCapacity /\ N = NodeCapacity
  BY ExtentsAssumption
<1>6. PICK hi \in Nat : hi = Len(extents) + 1
  BY DEF DataInv, ExtentsApart
<1>7. ASSUME NEW i, Points(root, i, b) PROVE <<root, i>> \in Parents(b)
  <2>1. i \in 1 .. Len(root.entries) /\ Len(root.entries) \in Nat
    <3>1. 1 \in Nat /\ Over(root, cov, 1, hi)
      BY <1>4, <1>6
    <3>2. QED
      BY <1>4, <1>7, <3>1, PointsWithin
  <2>2. i \in slots
    BY <1>1, <1>4, <1>5, <2>1
  <2>3. <<root, i>> \in nodes \X slots
    BY <1>1, <2>2
  <2>4. QED
    BY <1>2, <1>7, <2>3
<1>8. ASSUME NEW c \in DOMAIN disk, NEW i, Points(disk[c], i, b) PROVE <<disk[c], i>> \in Parents(b)
  <2>1. PICK node, lo, up : node = disk[c] /\ lo = cov[c].from /\ up = cov[c].upto
    OBVIOUS
  <2>2. lo \in Nat /\ up \in Nat
    <3>1. cov[c] \in Cover
      BY <1>4 DEF Covers
    <3>2. QED
      BY <2>1, <3>1 DEF Cover
  <2>3. Over(node, cov, lo, up) /\ Len(node.entries) <= NodeCapacity
    BY <1>3, <2>1 DEF Holding
  <2>4. i \in 1 .. Len(node.entries) /\ Len(node.entries) \in Nat
    BY <1>4, <1>8, <2>1, <2>2, <2>3, PointsWithin
  <2>5. i \in slots
    BY <1>1, <1>5, <2>3, <2>4
  <2>6. <<disk[c], i>> \in nodes \X slots
    BY <1>1, <2>5
  <2>7. QED
    BY <1>2, <1>8, <2>6
<1>9. ASSUME NEW p \in Parents(b)
      PROVE  /\ p = <<p[1], p[2]>> /\ Points(p[1], p[2], b)
             /\ p[1] = root \/ \E c \in DOMAIN disk : p[1] = disk[c]
  <2>1. p \in nodes \X slots /\ Points(p[1], p[2], b)
    BY <1>2
  <2>2. p = <<p[1], p[2]>> /\ p[1] \in nodes
    BY <2>1
  <2>3. QED
    BY <1>1, <2>1, <2>2
<1>10. QED
  BY <1>7, <1>8, <1>9

\* A node other than the root that points at a block is the only one.
LEMMA PointsFromIndex ==
  ASSUME DataInv, NEW cov, TreeOK(cov), Intact, NEW b, NEW c \in DOMAIN disk, NEW i, Points(disk[c], i, b)
  PROVE  /\ b \in DOMAIN disk /\ cov[b].depth = cov[c].depth - 1 /\ disk[c].depth = cov[c].depth
         /\ \A j : Points(disk[c], j, b) => j = i
         /\ \A d \in DOMAIN disk : \A j : Points(disk[d], j, b) => d = c
<1>1. Covers(cov)
  BY DEF TreeOK
<1>2. ASSUME NEW d \in DOMAIN disk, NEW j, Points(disk[d], j, b)
      PROVE  /\ b \in DOMAIN disk /\ cov[b].depth = cov[d].depth - 1 /\ disk[d].depth = cov[d].depth
             /\ cov[d].from <= cov[b].from /\ cov[b].upto <= cov[d].upto
             /\ \A k : Points(disk[d], k, b) => k = j
  <2>1. PICK node, lo, up : node = disk[d] /\ lo = cov[d].from /\ up = cov[d].upto
    OBVIOUS
  <2>2. lo \in Nat /\ up \in Nat
    <3>1. cov[d] \in Cover
      BY <1>1 DEF Covers
    <3>2. QED
      BY <2>1, <3>1 DEF Cover
  <2>3. Holding(node, cov, cov[d])
    BY <2>1 DEF TreeOK, Intact
  <2>4. Over(node, cov, lo, up) /\ node.depth = cov[d].depth
    BY <2>1, <2>3 DEF Holding
  <2>5. Points(node, j, b)
    BY <1>2, <2>1
  <2>6. /\ b \in DOMAIN disk /\ cov[b].depth = node.depth - 1
        /\ lo <= cov[b].from /\ cov[b].upto <= up
        /\ \A k : Points(node, k, b) => k = j
    BY <1>1, <2>2, <2>4, <2>5, PointsWithin
  <2>7. QED
    BY <2>1, <2>4, <2>6
<1>3. /\ b \in DOMAIN disk /\ cov[b].depth = cov[c].depth - 1 /\ disk[c].depth = cov[c].depth
      /\ cov[c].from <= cov[b].from /\ cov[b].upto <= cov[c].upto
      /\ \A k : Points(disk[c], k, b) => k = i
  BY <1>2
<1>4. ASSUME NEW d \in DOMAIN disk, NEW j, Points(disk[d], j, b) PROVE d = c
  <2>1. cov[b].depth = cov[d].depth - 1 /\ cov[d].from <= cov[b].from /\ cov[b].upto <= cov[d].upto
    BY <1>2, <1>4
  <2>2. cov[b] \in Cover /\ cov[c] \in Cover /\ cov[d] \in Cover
    BY <1>1, <1>3 DEF Covers
  <2>3. PICK x \in Cover, y \in Cover, z \in Cover : x = cov[b] /\ y = cov[c] /\ z = cov[d]
    BY <2>2
  <2>4. /\ x.from \in Nat /\ x.upto \in Nat /\ y.from \in Nat /\ y.upto \in Nat /\ z.from \in Nat /\ z.upto \in Nat
        /\ y.depth \in {0, 1} /\ z.depth \in {0, 1} /\ x.depth \in {0, 1}
    BY DEF Cover
  <2>5. x.from < x.upto
    BY <1>1, <1>3, <2>3 DEF Covers
  <2>6. y.depth = z.depth /\ z.from <= x.from /\ x.upto <= z.upto /\ y.from <= x.from /\ x.upto <= y.upto
    BY <1>3, <2>1, <2>3, <2>4
  <2>7. c # d => y.upto <= z.from \/ z.upto <= y.from
    BY <1>1, <2>3, <2>6 DEF Covers
  <2>8. ~(y.upto <= z.from \/ z.upto <= y.from)
    BY <2>4, <2>5, <2>6
  <2>9. QED
    BY <2>7, <2>8
<1>5. QED
  BY <1>3, <1>4

LEMMA OneParent ==
  ASSUME DataInv, NEW cov, TreeOK(cov), RootOK(cov), Intact, Reachable(cov), NEW b \in DOMAIN disk
  PROVE  Cardinality(Parents(b)) = 1
<1>1. Covers(cov) /\ Over(root, cov, 1, Len(extents) + 1)
  BY DEF TreeOK, RootOK
<1>2. PICK hi \in Nat : hi = Len(extents) + 1
  BY DEF DataInv, ExtentsApart
<1>3. \A c \in DOMAIN disk : cov[c].depth < root.depth /\ cov[c].depth \in {0, 1}
  BY <1>1 DEF RootOK, Covers, Cover
<1>4. root.depth \in 0 .. 2
  BY <1>1 DEF Over
<1>5. ASSUME NEW i, Points(root, i, b)
      PROVE  cov[b].depth = root.depth - 1 /\ \A j : Points(root, j, b) => j = i
  <2>1. 1 \in Nat /\ Over(root, cov, 1, hi)
    BY <1>1, <1>2
  <2>2. QED
    BY <1>1, <1>5, <2>1, PointsWithin
<1>6. \E p : Parents(b) = {p}
  <2>1. CASE cov[b].depth = root.depth - 1
    <3>1. Named(root.entries, b)
      <4>1. cov[b].depth = 0 /\ root.depth = 2 => FALSE
        BY <2>1
      <4>2. QED
        BY <4>1 DEF Reachable
    <3>2. PICK i \in DOMAIN root.entries : root.entries[i].leaf = b
      BY <3>1 DEF Named
    <3>3. root.depth > 0
      BY <1>3, <1>4
    <3>4. Points(root, i, b)
      BY <3>2, <3>3 DEF Points
    <3>5. <<root, i>> \in Parents(b)
      BY <3>4, ParentsAre
    <3>6. ASSUME NEW p \in Parents(b) PROVE p = <<root, i>>
      <4>1. /\ p = <<p[1], p[2]>> /\ Points(p[1], p[2], b)
            /\ p[1] = root \/ \E c \in DOMAIN disk : p[1] = disk[c]
        BY <3>6, ParentsAre
      <4>2. ASSUME NEW c \in DOMAIN disk, p[1] = disk[c] PROVE FALSE
        <5>1. Points(disk[c], p[2], b)
          BY <4>1, <4>2
        <5>2. cov[b].depth = cov[c].depth - 1
          BY <5>1, PointsFromIndex
        <5>3. cov[c].depth < root.depth /\ cov[c].depth \in {0, 1}
          BY <1>3
        <5>4. QED
          BY <1>4, <2>1, <5>2, <5>3
      <4>3. p[1] = root
        BY <4>1, <4>2
      <4>4. p[2] = i
        BY <1>5, <3>4, <4>1, <4>3
      <4>5. QED
        BY <4>1, <4>3, <4>4
    <3>7. QED
      BY <3>5, <3>6
  <2>2. CASE cov[b].depth # root.depth - 1
    <3>1. InIndex(b)
      BY <2>2 DEF Reachable
    <3>2. PICK c \in DOMAIN disk : disk[c].depth = 1 /\ Named(disk[c].entries, b)
      BY <3>1 DEF InIndex
    <3>3. PICK i \in DOMAIN disk[c].entries : disk[c].entries[i].leaf = b
      BY <3>2 DEF Named
    <3>4. Points(disk[c], i, b)
      BY <3>2, <3>3 DEF Points
    <3>5. <<disk[c], i>> \in Parents(b)
      BY <3>4, ParentsAre
    <3>6. ASSUME NEW p \in Parents(b) PROVE p = <<disk[c], i>>
      <4>1. /\ p = <<p[1], p[2]>> /\ Points(p[1], p[2], b)
            /\ p[1] = root \/ \E d \in DOMAIN disk : p[1] = disk[d]
        BY <3>6, ParentsAre
      <4>2. p[1] # root
        BY <1>5, <2>2, <4>1
      <4>3. PICK d \in DOMAIN disk : p[1] = disk[d]
        BY <4>1, <4>2
      <4>4. Points(disk[d], p[2], b)
        BY <4>1, <4>3
      <4>5. d = c
        BY <3>4, <4>4, PointsFromIndex
      <4>6. p[2] = i
        BY <3>4, <4>4, <4>5, PointsFromIndex
      <4>7. QED
        BY <4>1, <4>3, <4>5, <4>6
    <3>7. QED
      BY <3>5, <3>6
  <2>3. QED
    BY <2>1, <2>2
<1>7. QED
  BY <1>6, FS_Singleton

LEMMA TreeIsWell == DataInv /\ TreeInv => TreeIsMinimal
<1> SUFFICES ASSUME DataInv, TreeInv PROVE TreeIsMinimal
  OBVIOUS
<1>1. PICK cov : TreeShape(cov) /\ ReadShape(cov)
  BY DEF TreeInv
<1>2. TreeOK(cov)
  BY <1>1 DEF TreeShape
<1>3. pc = "too deep" => Len(extents) > Holds(2)
  BY <1>1 DEF TreeShape
<1>4. ASSUME pc = "sealed"
      PROVE  /\ Len(extents) <= Holds(root.depth)
             /\ root.depth > 0 => Len(extents) > Holds(root.depth - 1)
             /\ \A b \in DOMAIN disk : /\ Cardinality(Parents(b)) = 1
                                       /\ b \notin reserved
                                       /\ \A i \in DOMAIN extents : b \notin BlocksOf(extents[i])
  <2>1. RootOK(cov) /\ Intact /\ Reachable(cov)
    BY <1>1, <1>4 DEF TreeShape
  <2>2. \A b \in DOMAIN disk : Cardinality(Parents(b)) = 1
    BY <1>2, <2>1, OneParent
  <2>3. \A b \in DOMAIN disk : b \notin reserved /\ \A i \in DOMAIN extents : b \notin BlocksOf(extents[i])
    BY <1>2 DEF TreeOK, InPlace
  <2>4. QED
    BY <2>1, <2>2, <2>3 DEF RootOK
<1>5. QED
  BY <1>3, <1>4 DEF TreeIsMinimal

\* The tree of a sealed file has no more levels than its extents need, every
\* block of it has exactly one parent and lies apart from data and reserved
\* blocks, and a third level is refused only when two do not suffice
\* (plan_extents).
THEOREM TreeIsAlwaysMinimal == Spec => []TreeIsMinimal
BY TreeInvariance, TreeIsWell, PTL

-----------------------------------------------------------------------------
(* The logical blocks of the file.  Where the u32 numbers suffice, each     *)
(* extent belongs to one data segment and is as far into it as the extents  *)
(* before it reach beyond the segments before that one.                     *)

NumbersSuffice == size <= LogicalSpan * BlockUnits

FirstBlock(d) == d.offset \div BlockUnits
EndBlock(d) == FirstBlock(d) + CeilDiv(d.len, BlockUnits)
LogicalEnd(e) == e.logical + e.len
Holder(e, l) == e.logical <= l /\ l < LogicalEnd(e)

Belongs(e, before, d, earlier) ==
  /\ FirstBlock(d) <= e.logical /\ LogicalEnd(e) <= EndBlock(d)
  /\ before * BlockUnits = earlier + (e.logical - FirstBlock(d)) * BlockUnits

Mapped ==
  /\ \A i \in DOMAIN extents : \E j \in 1 .. placed :
       Belongs(extents[i], Before(extents, i), data_segs[j], Before(data_segs, j))
  /\ \A j \in 1 .. placed : \A l \in FirstBlock(data_segs[j]) .. EndBlock(data_segs[j]) - 1 :
       \E i \in DOMAIN extents : Holder(extents[i], l)
  /\ \A i, j \in DOMAIN extents : i < j => LogicalEnd(extents[i]) <= extents[j].logical
  /\ placed < Len(data_segs) => Lengths(extents) * BlockUnits = Before(data_segs, placed + 1)

\* The blocks of a data segment.
LEMMA BlocksOfSeg ==
  ASSUME NEW d \in DataSeg, Whole(d.offset), NEW f, f = FirstBlock(d), NEW e, e = EndBlock(d)
  PROVE  /\ f \in Nat /\ e \in Nat /\ f < e
         /\ f * BlockUnits = d.offset /\ CeilDiv(d.len, BlockUnits) = e - f
         /\ SegEndsAt(d) <= e * BlockUnits /\ (e - 1) * BlockUnits < SegEndsAt(d)
         /\ Whole(SegEndsAt(d)) => e * BlockUnits = SegEndsAt(d)
<1>1. PICK B \in Nat \ {0} : B = BlockUnits
  BY BlockUnitsAssumption
<1>2. PICK o \in Nat, n \in Nat \ {0} : o = d.offset /\ n = d.len
  BY DEF DataSeg
<1>3. f \in Nat /\ f * B = o
  <2>1. f = o \div B /\ o % B = 0
    BY <1>1, <1>2 DEF FirstBlock, Whole
  <2>2. f \in Nat /\ o = B * f + 0
    BY <2>1, QuotientAndRest
  <2>3. B * f = f * B
    BY <2>2
  <2>4. QED
    BY <2>2, <2>3
<1>4. PICK k \in Nat : k = CeilDiv(n, B) /\ k > 0 /\ (k - 1) * B < n /\ n <= k * B
  <2>1. PICK k : k = (n + B - 1) \div B
    OBVIOUS
  <2>2. k \in Nat /\ k > 0 /\ (k - 1) * B < n /\ n <= k * B
    BY <2>1, RoundedUp
  <2>3. QED
    BY <2>1, <2>2 DEF CeilDiv
<1>5. e = f + k
  BY <1>1, <1>2, <1>4 DEF EndBlock
<1>6. e * B = f * B + k * B /\ (e - 1) * B = f * B + (k - 1) * B
  <2>1. (f + k) * B = f * B + k * B
    BY <1>3
  <2>2. ((f + k) - 1) * B = f * B + (k - 1) * B
    BY <1>3
  <2>3. QED
    BY <1>5, <2>1, <2>2
<1>7. PICK x \in Int, y \in Int, z \in Int : x = e * B /\ y = (e - 1) * B /\ z = k * B
  BY <1>3, <1>5
<1>8. PICK w \in Int : w = (k - 1) * B
  OBVIOUS
<1>9. SegEndsAt(d) = o + n
  BY <1>2 DEF SegEndsAt
<1>10. o + n <= e * B /\ (e - 1) * B < o + n
  <2>1. x = o + z /\ y = o + w /\ w < n /\ n <= z
    BY <1>3, <1>4, <1>6, <1>7, <1>8
  <2>2. o + n <= x /\ y < o + n
    BY <2>1
  <2>3. QED
    BY <1>7, <2>2
<1>11. ASSUME Whole(SegEndsAt(d)) PROVE e * B = o + n
  <2>1. PICK q \in Nat : o + n = B * q + 0
    <3>1. (o + n) % B = 0 /\ o + n \in Nat
      BY <1>1, <1>9, <1>11 DEF Whole
    <3>2. QED
      BY <3>1, QuotientAndRest
  <2>2. o + n = q * B
    BY <2>1
  <2>3. (e - 1) * B < q * B /\ q * B < (e + 1) * B
    <3>1. (e + 1) * B = e * B + B
      BY <1>3, <1>5
    <3>2. QED
      BY <1>7, <1>10, <2>2, <3>1
  <2>4. e \in Int /\ e - 1 \in Int /\ e + 1 \in Int
    BY <1>3, <1>5
  <2>5. e - 1 < q /\ q < e + 1
    BY <2>3, <2>4, TimesShowsOrder
  <2>6. e = q
    BY <2>4, <2>5
  <2>7. QED
    BY <2>2, <2>6
<1>12. f < e /\ e \in Nat /\ k = e - f
  BY <1>3, <1>4, <1>5
<1>13. QED
  BY <1>1, <1>2, <1>3, <1>4, <1>9, <1>10, <1>11, <1>12

LEMMA SegsKeepApart ==
  ASSUME NEW d \in DataSeg, NEW g \in DataSeg, Whole(d.offset), Whole(g.offset), SegEndsAt(d) <= g.offset
  PROVE  EndBlock(d) <= FirstBlock(g)
<1>1. PICK B \in Nat \ {0} : B = BlockUnits
  BY BlockUnitsAssumption
<1>2. PICK e \in Nat : e = EndBlock(d) /\ (e - 1) * B < SegEndsAt(d)
  BY <1>1, BlocksOfSeg
<1>3. PICK f \in Nat : f = FirstBlock(g) /\ f * B = g.offset
  BY <1>1, BlocksOfSeg
<1>4. SegEndsAt(d) \in Nat /\ g.offset \in Nat
  BY DEF DataSeg, SegEndsAt
<1>5. (e - 1) * B \in Int /\ f * B \in Int
  OBVIOUS
<1>6. (e - 1) * B < f * B
  BY <1>2, <1>3, <1>4, <1>5
<1>7. e - 1 < f
  BY <1>6, TimesShowsOrder
<1>8. e <= f
  BY <1>7
<1>9. QED
  BY <1>2, <1>3, <1>8

\* A unit of the file is in a data segment if its block is in one of its
\* blocks.
LEMMA UnitOfSeg ==
  ASSUME NEW d \in DataSeg, Whole(d.offset), NEW u \in Nat
  PROVE  /\ u \in SegUnits(d) => FirstBlock(d) <= u \div BlockUnits /\ u \div BlockUnits < EndBlock(d)
         /\ \A top \in Nat :
              /\ Whole(SegEndsAt(d)) \/ SegEndsAt(d) = top
              /\ u < top /\ FirstBlock(d) <= u \div BlockUnits /\ u \div BlockUnits < EndBlock(d)
              => u \in SegUnits(d)
<1>1. PICK B \in Nat \ {0} : B = BlockUnits
  BY BlockUnitsAssumption
<1>2. PICK f \in Nat, e \in Nat :
        /\ f = FirstBlock(d) /\ e = EndBlock(d) /\ f * B = d.offset
        /\ SegEndsAt(d) <= e * B
        /\ Whole(SegEndsAt(d)) => e * B = SegEndsAt(d)
  BY <1>1, BlocksOfSeg
<1>3. PICK q \in Nat : q = u \div B
  BY QuotientAndRest
<1>4. (u < f * B <=> q < f) /\ (u < e * B <=> q < e)
  BY <1>3, BelowBlock
<1>5. PICK x \in Nat, y \in Nat, o \in Nat, end \in Nat : x = f * B /\ y = e * B /\ o = d.offset /\ end = SegEndsAt(d)
  <2>1. f * B \in Nat /\ e * B \in Nat
    OBVIOUS
  <2>2. d.offset \in Nat /\ SegEndsAt(d) \in Nat
    BY DEF DataSeg, SegEndsAt
  <2>3. QED
    BY <2>1, <2>2
<1>6. SegUnits(d) = o .. end - 1 /\ x = o /\ end <= y
  BY <1>2, <1>5 DEF SegUnits
<1>7. (u < x <=> q < f) /\ (u < y <=> q < e)
  BY <1>4, <1>5
<1>8. ASSUME u \in SegUnits(d) PROVE f <= q /\ q < e
  BY <1>6, <1>7, <1>8
<1>9. ASSUME NEW top \in Nat, Whole(SegEndsAt(d)) \/ SegEndsAt(d) = top, u < top, f <= q, q < e
      PROVE  u \in SegUnits(d)
  <2>1. Whole(SegEndsAt(d)) => y = end
    BY <1>2, <1>5
  <2>2. y = end \/ end = top
    BY <1>5, <1>9, <2>1
  <2>3. u < end
    BY <1>7, <1>9, <2>2
  <2>4. o <= u
    BY <1>6, <1>7, <1>9
  <2>5. QED
    BY <1>6, <2>3, <2>4
<1>10. QED
  BY <1>1, <1>2, <1>3, <1>8, <1>9

\* Lengths of a concatenation.
Joined(r, s, m, t, n) ==
  /\ DOMAIN s = 1 .. m /\ DOMAIN t = 1 .. n /\ DOMAIN r = 1 .. m + n
  /\ \A i \in 1 .. m : s[i].len \in Nat /\ r[i].len = s[i].len
  /\ \A i \in 1 .. n : t[i].len \in Nat /\ r[m + i].len = t[i].len

LEMMA BeforeInBoth ==
  ASSUME NEW m \in Nat, NEW n \in Nat, NEW s, NEW t, NEW r, Joined(r, s, m, t, n)
  PROVE  /\ \A i \in 1 .. m + 1 : Before(r, i) = Before(s, i)
         /\ \A i \in 1 .. n + 1 : \A k : k = m + i => Before(r, k) = Before(s, m + 1) + Before(t, i)
<1>1. /\ DOMAIN s = 1 .. m /\ DOMAIN t = 1 .. n /\ DOMAIN r = 1 .. m + n
      /\ \A i \in 1 .. m : s[i].len \in Nat /\ r[i].len = s[i].len
      /\ \A i \in 1 .. n : t[i].len \in Nat /\ r[m + i].len = t[i].len
  BY DEF Joined
<1>2. /\ Before(s, 1) = 0
      /\ \A i \in 1 .. m + 1 : Before(s, i) \in Nat
      /\ \A i \in 1 .. m : Before(s, i + 1) = Before(s, i) + s[i].len
  BY <1>1, BeforeGrows
<1>3. /\ Before(t, 1) = 0
      /\ \A i \in 1 .. n + 1 : Before(t, i) \in Nat
      /\ \A i \in 1 .. n : Before(t, i + 1) = Before(t, i) + t[i].len
  BY <1>1, BeforeGrows
<1>4. /\ Before(r, 1) = 0
      /\ \A i \in 1 .. (m + n) : Before(r, i + 1) = Before(r, i) + r[i].len
  <2>1. PICK l \in Nat : l = m + n
    OBVIOUS
  <2>2. \A k \in 1 .. l : r[k].len \in Nat
    <3>1. ASSUME NEW k \in 1 .. l PROVE r[k].len \in Nat
      <4>1. CASE k <= m
        <5>1. k \in 1 .. m
          BY <4>1
        <5>2. QED
          BY <1>1, <5>1
      <4>2. CASE ~(k <= m)
        <5>1. PICK i \in 1 .. n : k = m + i
          <6>1. k - m \in 1 .. n /\ k = m + (k - m)
            BY <2>1, <4>2
          <6>2. QED
            BY <6>1
        <5>2. QED
          BY <1>1, <5>1
      <4>3. QED
        BY <4>1, <4>2
    <3>2. QED
      BY <3>1
  <2>3. DOMAIN r = 1 .. l
    BY <1>1, <2>1
  <2>4. Before(r, 1) = 0 /\ \A i \in 1 .. l : Before(r, i + 1) = Before(r, i) + r[i].len
    BY <2>2, <2>3, BeforeGrows
  <2>5. QED
    BY <2>1, <2>4
<1> DEFINE F == {i \in 0 .. m : Before(r, i + 1) = Before(s, i + 1)}
           G == {i \in 0 .. n : Before(r, (m + i) + 1) = Before(s, m + 1) + Before(t, i + 1)}
<1>5. \A i \in 0 .. m : i \in F
  <2>1. 0 \in F
    BY <1>2, <1>4
  <2>2. ASSUME NEW k \in 1 .. m, k - 1 \in F PROVE k \in F
    <3>1. (k - 1) + 1 = k /\ k \in 0 .. m /\ k \in 1 .. (m + n)
      OBVIOUS
    <3>2. Before(r, k) = Before(s, k)
      BY <2>2, <3>1
    <3>3. Before(r, k + 1) = Before(r, k) + r[k].len /\ Before(s, k + 1) = Before(s, k) + s[k].len
      BY <1>1, <1>2, <1>4, <3>1
    <3>4. QED
      BY <1>1, <3>1, <3>2, <3>3
  <2> HIDE DEF F
  <2>3. QED
    BY <2>1, <2>2, StepByStep
<1>6. ASSUME NEW i \in 1 .. m + 1 PROVE Before(r, i) = Before(s, i)
  <2>1. i - 1 \in 0 .. m /\ (i - 1) + 1 = i
    OBVIOUS
  <2>2. QED
    BY <1>5, <2>1
<1>7. \A i \in 0 .. n : i \in G
  <2>1. 0 \in G
    <3>1. (m + 0) + 1 = m + 1 /\ 0 + 1 = 1 /\ m + 1 \in 1 .. m + 1 /\ 0 \in 0 .. n
      OBVIOUS
    <3>2. Before(s, m + 1) \in Nat /\ Before(r, m + 1) = Before(s, m + 1)
      BY <1>2, <1>6, <3>1
    <3>3. QED
      BY <1>3, <3>1, <3>2
  <2>2. ASSUME NEW k \in 1 .. n, k - 1 \in G PROVE k \in G
    <3>1. (k - 1) + 1 = k /\ (m + (k - 1)) + 1 = m + k /\ k \in 0 .. n /\ m + k \in 1 .. (m + n)
      OBVIOUS
    <3>2. Before(r, m + k) = Before(s, m + 1) + Before(t, k)
      BY <2>2, <3>1
    <3>3. Before(r, (m + k) + 1) = Before(r, m + k) + r[m + k].len /\ Before(t, k + 1) = Before(t, k) + t[k].len
      BY <1>1, <1>3, <1>4, <3>1
    <3>4. PICK a \in Nat, b \in Nat, c \in Nat : a = Before(s, m + 1) /\ b = Before(t, k) /\ c = t[k].len
      <4>1. m + 1 \in 1 .. m + 1 /\ k \in 1 .. n + 1
        OBVIOUS
      <4>2. QED
        BY <1>1, <1>2, <1>3, <4>1
    <3>5. Before(r, (m + k) + 1) = (a + b) + c /\ Before(t, k + 1) = b + c
      BY <1>1, <3>2, <3>3, <3>4
    <3>6. Before(r, (m + k) + 1) = a + (b + c)
      BY <3>5
    <3>7. QED
      BY <3>1, <3>4, <3>5, <3>6
  <2> HIDE DEF G
  <2>3. QED
    BY <2>1, <2>2, StepByStep
<1>8. ASSUME NEW i \in 1 .. n + 1, NEW k, k = m + i
      PROVE  Before(r, k) = Before(s, m + 1) + Before(t, i)
  <2>1. PICK j \in 0 .. n : j = i - 1
    OBVIOUS
  <2>2. Before(r, (m + j) + 1) = Before(s, m + 1) + Before(t, j + 1)
    BY <1>7
  <2>3. (m + j) + 1 = k /\ j + 1 = i
    BY <1>8, <2>1
  <2>4. QED
    BY <2>2, <2>3
<1>9. QED
  BY <1>6, <1>8

\* Every number below the length of all lies in one of the items.
LEMMA ItemOf ==
  ASSUME NEW n \in Nat, NEW s, DOMAIN s = 1 .. n, \A i \in 1 .. n : s[i].len \in Nat,
         NEW x \in Nat, x < Before(s, n + 1)
  PROVE  \E i \in 1 .. n : Before(s, i) <= x /\ x < Before(s, i) + s[i].len
<1>1. /\ Before(s, 1) = 0
      /\ \A i \in 1 .. n + 1 : Before(s, i) \in Nat
      /\ \A i \in 1 .. n : Before(s, i + 1) = Before(s, i) + s[i].len
  BY BeforeGrows
<1> DEFINE S == {k \in 0 .. n : Before(s, k + 1) <= x}
<1>2. SUFFICES ASSUME \A i \in 1 .. n : ~(Before(s, i) <= x /\ x < Before(s, i) + s[i].len) PROVE FALSE
  OBVIOUS
<1>3. 0 \in S
  BY <1>1
<1>4. ASSUME NEW k \in 1 .. n, k - 1 \in S PROVE k \in S
  <2>1. (k - 1) + 1 = k /\ k \in 0 .. n /\ k + 1 \in 1 .. n + 1 /\ k \in 1 .. n + 1
    OBVIOUS
  <2>2. Before(s, k) <= x
    BY <1>4, <2>1
  <2>3. ~(x < Before(s, k) + s[k].len)
    BY <1>2, <2>2
  <2>4. Before(s, k + 1) = Before(s, k) + s[k].len /\ Before(s, k + 1) \in Nat
    BY <1>1, <2>1
  <2>5. Before(s, k + 1) <= x
    BY <2>3, <2>4
  <2>6. QED
    BY <2>1, <2>5
<1>5. n \in S
  <2> HIDE DEF S
  <2>1. \A k \in 0 .. n : k \in S
    BY <1>3, <1>4, StepByStep
  <2>2. n \in 0 .. n
    OBVIOUS
  <2>3. QED
    BY <2>1, <2>2
<1>6. Before(s, n + 1) <= x /\ Before(s, n + 1) \in Nat
  BY <1>1, <1>5
<1>7. QED
  BY <1>6

LEMMA SmallRest ==
  ASSUME NEW b \in Nat \ {0}, NEW x \in Nat, x < b
  PROVE  x % b = x
<1>1. PICK q \in Nat, r \in 0 .. b - 1 : r = x % b /\ x = b * q + r
  BY QuotientAndRest
<1>2. q = 0
  <2>1. x < 1 * b
    OBVIOUS
  <2>2. q * b < 1 * b
    <3>1. b * q = q * b /\ q * b \in Nat
      OBVIOUS
    <3>2. QED
      BY <1>1, <2>1, <3>1
  <2>3. QED
    BY <2>2, TimesShowsOrder
<1>3. QED
  BY <1>1, <1>2

\* Where the new extents lie in the file.
LEMMA NewLogical ==
  ASSUME DataInv, NumbersSuffice, PlaceSegment,
         NEW seg, seg = data_segs[placed + 1], NEW runs, runs = NewRuns,
         NEW new, new = WithLogical(seg.offset \div BlockUnits, runs),
         NEW f, f = FirstBlock(seg), NEW e, e = EndBlock(seg), NEW n, n = Len(runs)
  PROVE  /\ n \in Nat /\ DOMAIN new = 1 .. n /\ DOMAIN runs = 1 .. n /\ Before(runs, n + 1) = e - f
         /\ \A i \in 1 .. n : runs[i].len \in Nat \ {0} /\ new[i].len = runs[i].len
         /\ \A i \in 1 .. n + 1 : Before(new, i) = Before(runs, i)
         /\ \A i \in 1 .. n : /\ new[i].logical = f + Before(runs, i)
                              /\ LogicalEnd(new[i]) = f + Before(runs, i + 1)
<1>1. PICK B \in Nat \ {0} : B = BlockUnits
  BY BlockUnitsAssumption
<1>2. /\ seg \in DataSeg /\ placed + 1 \in DOMAIN data_segs
      /\ Len(runs) \in Nat /\ DOMAIN runs = 1 .. Len(runs)
      /\ \A i \in 1 .. Len(runs) : runs[i] \in Run /\ runs[i].len \in 1 .. MaxExtent
      /\ Before(runs, Len(runs) + 1) = CeilDiv(seg.len, BlockUnits)
  BY NewExtents
<1>3. n \in Nat /\ DOMAIN runs = 1 .. n /\ \A i \in 1 .. n : runs[i].len \in Nat \ {0}
  BY <1>2, ExtentsAssumption
<1>4. Whole(seg.offset) /\ SegEndsAt(seg) <= size /\ size \in Nat
  BY <1>2 DEF DataInv, SegsHoldData, Spaced
<1>5. /\ f \in Nat /\ e \in Nat /\ f < e /\ CeilDiv(seg.len, BlockUnits) = e - f
      /\ (e - 1) * BlockUnits < SegEndsAt(seg)
  BY <1>2, <1>4, BlocksOfSeg
<1>6. PICK S \in Nat \ {0} : S = LogicalSpan
  BY ExtentsAssumption
<1>7. e <= S
  <2>1. SegEndsAt(seg) \in Nat
    BY <1>2 DEF DataSeg, SegEndsAt
  <2>2. size <= S * B
    BY <1>1, <1>6 DEF NumbersSuffice
  <2>3. S * B \in Int /\ (e - 1) * B \in Int
    BY <1>5
  <2>4. (e - 1) * B < S * B
    BY <1>1, <1>4, <1>5, <2>1, <2>2, <2>3
  <2>5. e - 1 \in Int /\ S \in Int
    BY <1>5
  <2>6. e - 1 < S
    BY <2>4, <2>5, TimesShowsOrder
  <2>7. QED
    BY <1>5, <2>6
<1>8. Before(runs, n + 1) = e - f
  BY <1>2, <1>5
<1>9. /\ \A i \in 1 .. n + 1 : Before(runs, i) \in Nat
      /\ \A i \in 1 .. n : Before(runs, i + 1) = Before(runs, i) + runs[i].len
      /\ \A i, j \in 1 .. n + 1 : i <= j => Before(runs, i) <= Before(runs, j)
  BY <1>3, BeforeGrows
<1>10. f = seg.offset \div BlockUnits
  BY DEF FirstBlock
<1>11. DOMAIN new = 1 .. n
  BY <1>3 DEF WithLogical
<1>12. ASSUME NEW i \in 1 .. n
       PROVE  new[i].logical = f + Before(runs, i) /\ new[i].len = runs[i].len
  <2>1. new[i] = [logical |-> (f + Before(runs, i)) % LogicalSpan, start |-> runs[i].start, len |-> runs[i].len]
    BY <1>3, <1>10 DEF WithLogical
  <2>2. PICK b \in Nat, l \in Nat \ {0}, a \in Nat, t \in Nat :
          /\ b = Before(runs, i) /\ l = runs[i].len /\ a = Before(runs, i + 1) /\ t = Before(runs, n + 1)
    <3>1. i \in 1 .. n + 1 /\ i + 1 \in 1 .. n + 1 /\ n + 1 \in 1 .. n + 1
      BY <1>3
    <3>2. QED
      BY <1>3, <1>9, <3>1
  <2>3. a = b + l
    BY <1>9, <2>2
  <2>4. a <= t
    <3>1. i + 1 \in 1 .. n + 1 /\ n + 1 \in 1 .. n + 1 /\ i + 1 <= n + 1
      BY <1>3
    <3>2. QED
      BY <1>9, <2>2, <3>1
  <2>5. t = e - f
    BY <1>8, <2>2
  <2>6. f + b < S /\ f + b \in Nat
    <3>1. PICK x \in Nat, y \in Nat : x = f /\ y = e
      BY <1>5
    <3>2. b + l <= y - x /\ y <= S
      BY <1>7, <2>3, <2>4, <2>5, <3>1
    <3>3. x + b < S /\ x + b \in Nat
      BY <3>2
    <3>4. QED
      BY <3>1, <3>3
  <2>7. (f + b) % S = f + b
    BY <2>6, SmallRest
  <2>8. QED
    BY <1>6, <2>1, <2>2, <2>7
<1>13. ASSUME NEW i \in 1 .. n
       PROVE  LogicalEnd(new[i]) = f + Before(runs, i + 1)
  <2>1. LogicalEnd(new[i]) = (f + Before(runs, i)) + runs[i].len
    BY <1>12 DEF LogicalEnd
  <2>2. Before(runs, i) \in Nat /\ runs[i].len \in Nat /\ Before(runs, i + 1) = Before(runs, i) + runs[i].len
    <3>1. i \in 1 .. n + 1
      BY <1>3
    <3>2. QED
      BY <1>3, <1>9, <3>1
  <2>3. QED
    BY <1>5, <2>1, <2>2
<1>14. ASSUME NEW i \in 1 .. n + 1 PROVE Before(new, i) = Before(runs, i)
  <2>1. [k \in DOMAIN new |-> new[k].len] = [k \in DOMAIN runs |-> runs[k].len]
    BY <1>3, <1>11, <1>12
  <2>2. QED
    BY <2>1 DEF Before
<1>15. QED
  BY <1>3, <1>8, <1>11, <1>12, <1>13, <1>14

LEMMA PlacesMapped ==
  ASSUME DataInv, NumbersSuffice, Mapped, PlaceSegment
  PROVE  Mapped'
<1>1. PICK B \in Nat \ {0} : B = BlockUnits
  BY BlockUnitsAssumption
<1> DEFINE ds == data_segs
<1>2. PICK p \in Nat, m \in Nat, N \in Nat : /\ p = placed /\ ds = data_segs /\ m = Len(extents) /\ N = Len(ds)
                              /\ DOMAIN ds = 1 .. N /\ DOMAIN extents = 1 .. m /\ p + 1 \in 1 .. N
  <2>1. extents \in Seq(Ext) /\ data_segs \in Seq(DataSeg) /\ placed \in 0 .. Len(data_segs)
    BY DEF DataInv, ExtentsApart, SegsHoldData
  <2>2. placed < Len(data_segs)
    BY DEF PlaceSegment, SegmentsLeft
  <2>3. PICK p \in Nat, m \in Nat, N \in Nat : p = placed /\ m = Len(extents) /\ N = Len(data_segs)
    BY <2>1
  <2>4. DOMAIN data_segs = 1 .. N /\ DOMAIN extents = 1 .. m
    BY <2>1, <2>3
  <2>5. p + 1 \in 1 .. N
    BY <2>2, <2>3
  <2>6. QED
    BY <2>3, <2>4, <2>5
<1> HIDE DEF ds
<1>3. PICK runs, seg, new : /\ runs = NewRuns /\ seg = data_segs[placed + 1]
                            /\ new = WithLogical(seg.offset \div BlockUnits, runs)
  OBVIOUS
<1>4. PICK f, e, n : f = FirstBlock(seg) /\ e = EndBlock(seg) /\ n = Len(runs)
  OBVIOUS
<1>5. /\ seg \in DataSeg /\ new \in Seq(Ext) /\ Len(new) = Len(runs) /\ extents' = extents \o new
  BY <1>3, NewExtents
<1>6. /\ n \in Nat /\ DOMAIN new = 1 .. n /\ DOMAIN runs = 1 .. n /\ Before(runs, n + 1) = e - f
      /\ \A i \in 1 .. n : runs[i].len \in Nat \ {0} /\ new[i].len = runs[i].len
      /\ \A i \in 1 .. n + 1 : Before(new, i) = Before(runs, i)
      /\ \A i \in 1 .. n : /\ new[i].logical = f + Before(runs, i)
                           /\ LogicalEnd(new[i]) = f + Before(runs, i + 1)
  BY <1>3, <1>4, NewLogical
<1>7. placed' = p + 1 /\ data_segs' = ds
  BY <1>2 DEF PlaceSegment, declVars
<1>8. /\ \A i \in 1 .. N : ds[i] \in DataSeg /\ Whole(ds[i].offset) /\ SegEndsAt(ds[i]) <= size
                           /\ (Whole(SegEndsAt(ds[i])) \/ SegEndsAt(ds[i]) = size)
      /\ \A i, j \in 1 .. N : i < j => SegEndsAt(ds[i]) <= ds[j].offset
      /\ size \in Nat /\ seg = ds[p + 1]
  <2>1. data_segs \in Seq(DataSeg) /\ Spaced(data_segs, size) /\ size \in Nat
    BY DEF DataInv, SegsHoldData
  <2>2. \A i \in 1 .. N : ds[i] \in DataSeg
    BY <1>2, <2>1
  <2>3. Spaced(ds, size) /\ DOMAIN ds = 1 .. N
    BY <1>2, <2>1
  <2>4. /\ \A i \in 1 .. N : /\ Whole(ds[i].offset) /\ SegEndsAt(ds[i]) <= size
                             /\ (Whole(SegEndsAt(ds[i])) \/ SegEndsAt(ds[i]) = size)
        /\ \A i, j \in 1 .. N : i < j => SegEndsAt(ds[i]) <= ds[j].offset
    BY <2>3, Zenon DEF Spaced
  <2>5. seg = ds[p + 1]
    BY <1>2, <1>3
  <2>6. ASSUME NEW i \in 1 .. N
        PROVE  /\ ds[i] \in DataSeg /\ Whole(ds[i].offset) /\ SegEndsAt(ds[i]) <= size
               /\ (Whole(SegEndsAt(ds[i])) \/ SegEndsAt(ds[i]) = size)
    BY <2>2, <2>4
  <2>7. QED
    BY <2>1, <2>4, <2>5, <2>6
<1>9. /\ f \in Nat /\ e \in Nat /\ f < e /\ f * B = seg.offset
      /\ Whole(SegEndsAt(seg)) => e * B = SegEndsAt(seg)
  BY <1>1, <1>2, <1>4, <1>5, <1>8, BlocksOfSeg
<1>10. /\ DOMAIN extents' = 1 .. m + n /\ Len(extents') = m + n
       /\ \A i \in 1 .. m : extents'[i] = extents[i] /\ extents[i] \in Ext
       /\ \A k \in 1 .. n : extents'[m + k] = new[k]
  <2>1. extents \in Seq(Ext)
    BY DEF DataInv, ExtentsApart
  <2>2. Len(extents \o new) = m + n /\ extents \o new \in Seq(Ext)
    <3>1. new \in Seq(Ext) /\ Len(new) = n /\ Len(extents) = m
      BY <1>2, <1>4, <1>5
    <3>2. Len(extents \o new) = Len(extents) + Len(new) /\ extents \o new \in Seq(Ext)
      BY <2>1, <3>1, ConcatProperties
    <3>3. QED
      BY <3>1, <3>2
  <2>3. DOMAIN (extents \o new) = 1 .. m + n
    BY <2>2
  <2>4. \A i \in 1 .. Len(extents) + Len(new) : (extents \o new)[i] =
                     IF i <= Len(extents) THEN extents[i] ELSE new[i - Len(extents)]
    BY <1>5, <2>1, ConcatProperties
  <2>5. \A i \in 1 .. m + n : extents'[i] = IF i <= m THEN extents[i] ELSE new[i - m]
    BY <1>2, <1>4, <1>5, <2>4
  <2>6. \A i \in 1 .. m : i \in 1 .. m + n /\ i <= m
    BY <1>6
  <2>7. \A k \in 1 .. n : m + k \in 1 .. m + n /\ ~(m + k <= m) /\ (m + k) - m = k
    BY <1>6
  <2>8. \A i \in 1 .. m : extents[i] \in Ext
    BY <1>2, <2>1
  <2>9. QED
    BY <1>5, <2>2, <2>3, <2>5, <2>6, <2>7, <2>8
<1>11. \A i \in 1 .. m + n : i \in 1 .. m \/ \E k \in 1 .. n : i = m + k
  <2>1. ASSUME NEW i \in 1 .. m + n, ~(i <= m) PROVE i - m \in 1 .. n /\ i = m + (i - m)
    BY <1>6, <2>1
  <2>2. QED
    BY <1>6, <2>1
<1>12. PICK L \in Nat : L = Lengths(extents) /\ L = Before(extents, m + 1)
  <2>1. \A i \in 1 .. m : extents[i].len \in Nat
    BY <1>10, ExtentsAssumption DEF Ext
  <2>2. m + 1 \in 1 .. m + 1
    OBVIOUS
  <2>3. Before(extents, m + 1) \in Nat
    BY <1>2, <2>1, <2>2, BeforeGrows
  <2>4. QED
    BY <1>2, <2>3 DEF Lengths
<1>13. /\ \A i \in 1 .. m + 1 : Before(extents', i) = Before(extents, i)
       /\ \A i \in 1 .. n + 1 : \A k : k = m + i => Before(extents', k) = L + Before(runs, i)
  <2>1. PICK s, r : s = extents /\ r = extents'
    OBVIOUS
  <2>2. \A i \in 1 .. m : s[i].len \in Nat /\ r[i].len = s[i].len
    BY <1>10, <2>1, ExtentsAssumption DEF Ext
  <2>3. \A i \in 1 .. n : new[i].len \in Nat /\ r[m + i].len = new[i].len
    BY <1>6, <1>10, <2>1
  <2>4. DOMAIN s = 1 .. m /\ DOMAIN new = 1 .. n /\ DOMAIN r = 1 .. m + n
    BY <1>2, <1>6, <1>10, <2>1
  <2>5. /\ \A i \in 1 .. m + 1 : Before(r, i) = Before(s, i)
        /\ \A i \in 1 .. n + 1 : \A k : k = m + i => Before(r, k) = Before(s, m + 1) + Before(new, i)
    <3>1. n \in Nat
      BY <1>6
    <3>2. Joined(r, s, m, new, n)
      BY <2>2, <2>3, <2>4 DEF Joined
    <3>3. QED
      BY <3>1, <3>2, BeforeInBoth
  <2>6. QED
    BY <1>6, <1>12, <2>1, <2>5
<1>14. Before(extents', (m + n) + 1) = L + Before(runs, n + 1)
  <2>1. n + 1 \in 1 .. n + 1 /\ (m + n) + 1 = m + (n + 1)
    BY <1>6
  <2>2. QED
    BY <1>13, <2>1
<1>15. /\ \A k \in 1 .. n + 1 : Before(runs, k) \in Nat
       /\ \A i, j \in 1 .. n + 1 : i <= j => Before(runs, i) <= Before(runs, j)
       /\ \A k \in 1 .. n : Before(runs, k + 1) = Before(runs, k) + runs[k].len
  <2>1. \A i \in 1 .. n : runs[i].len \in Nat
    BY <1>6
  <2>2. QED
    BY <1>6, <2>1, BeforeGrows
<1>16. PICK D \in Nat : D = Before(ds, p + 1) /\ L * B = D
  <2>1. \A i \in 1 .. N : ds[i].len \in Nat
    BY <1>8 DEF DataSeg
  <2>2. p + 1 \in 1 .. N + 1
    BY <1>2
  <2>3. Before(ds, p + 1) \in Nat
    BY <1>2, <2>1, <2>2, BeforeGrows
  <2>4. placed < Len(data_segs)
    BY <1>2
  <2>5. Lengths(extents) * BlockUnits = Before(data_segs, placed + 1)
    BY <2>4 DEF Mapped
  <2>6. QED
    BY <1>1, <1>2, <1>12, <2>3, <2>5
<1>17. ASSUME NEW i \in 1 .. m
       PROVE  \E j \in 1 .. p : Belongs(extents[i], Before(extents, i), ds[j], Before(ds, j))
  BY <1>2 DEF Mapped
<1>18. ASSUME NEW k \in 1 .. n PROVE Belongs(new[k], L + Before(runs, k), seg, D)
  <2>1. PICK b \in Nat, a \in Nat : b = Before(runs, k) /\ a = Before(runs, k + 1) /\ a <= e - f
    <3>1. k \in 1 .. n + 1 /\ k + 1 \in 1 .. n + 1 /\ n + 1 \in 1 .. n + 1 /\ k + 1 <= n + 1
      BY <1>6
    <3>2. QED
      BY <1>6, <1>15, <3>1
  <2>2. new[k].logical = f + b /\ LogicalEnd(new[k]) = f + a
    BY <1>6, <2>1
  <2>3. f <= new[k].logical /\ LogicalEnd(new[k]) <= e
    BY <1>9, <2>1, <2>2
  <2>4. (L + b) * B = D + (new[k].logical - f) * B
    <3>1. new[k].logical - f = b
      BY <1>9, <2>2
    <3>2. (L + b) * B = L * B + b * B
      OBVIOUS
    <3>3. QED
      BY <1>16, <3>1, <3>2
  <2>5. QED
    BY <1>1, <1>4, <2>1, <2>3, <2>4 DEF Belongs
<1>19. ASSUME NEW i \in DOMAIN extents'
       PROVE  \E j \in 1 .. p + 1 : Belongs(extents'[i], Before(extents', i), ds[j], Before(ds, j))
  <2>1. CASE i \in 1 .. m
    <3>1. PICK j \in 1 .. p : Belongs(extents[i], Before(extents, i), ds[j], Before(ds, j))
      BY <1>17, <2>1
    <3>2. j \in 1 .. p + 1 /\ i \in 1 .. m + 1
      BY <2>1
    <3>3. extents'[i] = extents[i] /\ Before(extents', i) = Before(extents, i)
      BY <1>10, <1>13, <2>1, <3>2
    <3>4. QED
      BY <3>1, <3>2, <3>3
  <2>2. ASSUME NEW k \in 1 .. n, i = m + k
        PROVE  \E j \in 1 .. p + 1 : Belongs(extents'[i], Before(extents', i), ds[j], Before(ds, j))
    <3>1. extents'[i] = new[k] /\ Before(extents', i) = L + Before(runs, k)
      <4>1. k \in 1 .. n + 1
        BY <1>6
      <4>2. QED
        BY <1>10, <1>13, <2>2, <4>1
    <3>2. Belongs(extents'[i], Before(extents', i), ds[p + 1], Before(ds, p + 1))
      BY <1>8, <1>16, <1>18, <3>1
    <3>3. QED
      BY <3>2
  <2>3. QED
    BY <1>10, <1>11, <2>1, <2>2
<1>20. ASSUME NEW j \in 1 .. p + 1, NEW l \in FirstBlock(ds[j]) .. EndBlock(ds[j]) - 1
       PROVE  \E i \in DOMAIN extents' : Holder(extents'[i], l)
  <2>1. CASE j \in 1 .. p
    <3>1. PICK i \in 1 .. m : Holder(extents[i], l)
      BY <1>2, <2>1 DEF Mapped
    <3>2. i \in 1 .. m + n /\ extents'[i] = extents[i]
      BY <1>6, <1>10
    <3>3. QED
      BY <1>10, <3>1, <3>2
  <2>2. CASE j = p + 1
    <3>1. l \in f .. e - 1
      BY <1>4, <1>8, <2>2
    <3>2. PICK x \in Nat : x = l - f /\ x < e - f /\ l = f + x
      BY <1>9, <3>1
    <3>3. x < Before(runs, n + 1) /\ \A i \in 1 .. n : runs[i].len \in Nat
      BY <1>6, <3>2
    <3>4. PICK k \in 1 .. n : Before(runs, k) <= x /\ x < Before(runs, k) + runs[k].len
      BY <1>6, <3>2, <3>3, ItemOf
    <3>5. PICK b \in Nat, a \in Nat : b = Before(runs, k) /\ a = Before(runs, k + 1) /\ a = b + runs[k].len
      <4>1. k \in 1 .. n + 1 /\ k + 1 \in 1 .. n + 1
        BY <1>6
      <4>2. QED
        BY <1>15, <4>1
    <3>6. b <= x /\ x < a
      BY <3>4, <3>5
    <3>7. new[k].logical = f + b /\ LogicalEnd(new[k]) = f + a
      BY <1>6, <3>5
    <3>8. Holder(new[k], l)
      BY <1>9, <3>2, <3>6, <3>7 DEF Holder
    <3>9. m + k \in 1 .. m + n /\ extents'[m + k] = new[k]
      BY <1>6, <1>10
    <3>10. QED
      BY <1>10, <3>8, <3>9
  <2>3. QED
    BY <2>1, <2>2
<1>21. ASSUME NEW i \in 1 .. m PROVE LogicalEnd(extents[i]) <= f /\ LogicalEnd(extents[i]) \in Nat
  <2>1. PICK j \in 1 .. p : Belongs(extents[i], Before(extents, i), ds[j], Before(ds, j))
    BY <1>17
  <2>2. j \in 1 .. N /\ p + 1 \in 1 .. N /\ j < p + 1
    BY <1>2
  <2>3. PICK d \in DataSeg : d = ds[j] /\ Whole(d.offset) /\ SegEndsAt(d) <= seg.offset
    BY <1>8, <2>2
  <2>4. EndBlock(d) <= f
    <3>1. Whole(seg.offset)
      BY <1>8, <2>2
    <3>2. QED
      BY <1>4, <1>5, <2>3, <3>1, SegsKeepApart
  <2>5. EndBlock(d) \in Nat
    BY <2>3, BlocksOfSeg
  <2>6. LogicalEnd(extents[i]) <= EndBlock(d)
    BY <2>1, <2>3 DEF Belongs
  <2>7. LogicalEnd(extents[i]) \in Nat
    BY <1>10, ExtentsAssumption DEF Ext, LogicalEnd
  <2>8. QED
    BY <1>9, <2>4, <2>5, <2>6, <2>7
<1>22. ASSUME NEW i \in DOMAIN extents', NEW j \in DOMAIN extents', i < j
       PROVE  LogicalEnd(extents'[i]) <= extents'[j].logical
  <2>1. CASE j \in 1 .. m
    <3>1. i \in 1 .. m
      BY <1>10, <1>22, <2>1
    <3>2. LogicalEnd(extents[i]) <= extents[j].logical
      BY <1>2, <1>22, <2>1, <3>1 DEF Mapped
    <3>3. QED
      BY <1>10, <2>1, <3>1, <3>2
  <2>2. ASSUME NEW k \in 1 .. n, j = m + k, i \in 1 .. m PROVE LogicalEnd(extents'[i]) <= extents'[j].logical
    <3>1. extents'[i] = extents[i] /\ extents'[j] = new[k]
      BY <1>10, <2>2
    <3>2. k \in 1 .. n + 1
      BY <1>6
    <3>3. new[k].logical = f + Before(runs, k) /\ Before(runs, k) \in Nat
      BY <1>6, <1>15, <3>2
    <3>4. LogicalEnd(extents[i]) <= f /\ LogicalEnd(extents[i]) \in Nat
      BY <1>21, <2>2
    <3>5. QED
      BY <1>9, <3>1, <3>3, <3>4
  <2>3. ASSUME NEW k \in 1 .. n, j = m + k, NEW h \in 1 .. n, i = m + h
        PROVE  LogicalEnd(extents'[i]) <= extents'[j].logical
    <3>1. extents'[i] = new[h] /\ extents'[j] = new[k]
      BY <1>10, <2>3
    <3>2. h + 1 \in 1 .. n + 1 /\ k \in 1 .. n + 1 /\ h + 1 <= k
      BY <1>6, <1>22, <2>3
    <3>3. PICK a \in Nat, b \in Nat : a = Before(runs, h + 1) /\ b = Before(runs, k) /\ a <= b
      BY <1>15, <3>2
    <3>4. LogicalEnd(new[h]) = f + a /\ new[k].logical = f + b
      BY <1>6, <3>3
    <3>5. QED
      BY <1>9, <3>1, <3>3, <3>4
  <2>4. QED
    BY <1>10, <1>11, <2>1, <2>2, <2>3
<1>23. ASSUME p + 1 < N PROVE Lengths(extents') * BlockUnits = Before(ds, (p + 1) + 1)
  <2>1. Lengths(extents') = L + (e - f)
    <3>1. Len(extents') = m + n
      BY <1>10
    <3>2. QED
      BY <1>6, <1>14, <3>1 DEF Lengths
  <2>2. SegEndsAt(seg) = seg.offset + seg.len /\ seg.offset \in Nat /\ seg.len \in Nat
    BY <1>5 DEF DataSeg, SegEndsAt
  <2>3. Whole(SegEndsAt(seg))
    <3>1. PICK g \in DataSeg : g = ds[(p + 1) + 1] /\ SegEndsAt(seg) <= g.offset /\ SegEndsAt(g) <= size
      <4>1. (p + 1) + 1 \in 1 .. N /\ p + 1 \in 1 .. N /\ p + 1 < (p + 1) + 1
        BY <1>2, <1>23
      <4>2. QED
        BY <1>8, <4>1
    <3>2. g.offset < SegEndsAt(g) /\ g.offset \in Nat /\ SegEndsAt(g) \in Nat
      BY DEF DataSeg, SegEndsAt
    <3>3. SegEndsAt(seg) # size
      BY <1>8, <2>2, <3>1, <3>2
    <3>4. QED
      BY <1>2, <1>8, <3>3
  <2>4. (e - f) * B = seg.len
    <3>1. PICK x \in Int, y \in Int : x = e * B /\ y = f * B
      BY <1>9
    <3>2. (e - f) * B = x - y
      BY <1>9, <3>1
    <3>3. QED
      BY <1>9, <2>2, <2>3, <3>1, <3>2
  <2>5. (L + (e - f)) * B = D + seg.len
    <3>1. (L + (e - f)) * B = L * B + (e - f) * B
      BY <1>9
    <3>2. QED
      BY <1>16, <2>4, <3>1
  <2>6. Before(ds, (p + 1) + 1) = D + seg.len
    <3>1. \A i \in 1 .. N : ds[i].len \in Nat
      BY <1>8 DEF DataSeg
    <3>2. Before(ds, (p + 1) + 1) = Before(ds, p + 1) + ds[p + 1].len
      BY <1>2, <3>1, BeforeGrows
    <3>3. QED
      BY <1>8, <1>16, <3>2
  <2>7. QED
    BY <1>1, <2>1, <2>5, <2>6
<1>24. Len(data_segs') = N
  BY <1>2, <1>7
<1>25. QED
  BY <1>7, <1>19, <1>20, <1>22, <1>23, <1>24 DEF Mapped

\* The invariant of the logical numbers.
LogicalInv == NumbersSuffice => Mapped

LEMMA LogicalStep == DataInv /\ LogicalInv /\ [Next]_vars => LogicalInv'
<1> SUFFICES ASSUME DataInv, LogicalInv, [Next]_vars, NumbersSuffice' PROVE Mapped'
  BY DEF LogicalInv
<1>1. CASE DeclareFile
  <2>1. extents = <<>> /\ placed = 0
    BY <1>1 DEF DeclareFile, DataInv, ExtentsApart
  <2>2. extents' = <<>> /\ placed' = 0
    BY <1>1, <2>1 DEF DeclareFile, treeVars
  <2>3. PICK n \in Nat : DOMAIN data_segs' = 1 .. n /\ \A k \in 1 .. n : data_segs'[k].len \in Nat
    <3>1. data_segs' \in Seq(DataSeg)
      BY <1>1, DeclaresWell DEF SegsHoldData
    <3>2. Len(data_segs') \in Nat /\ \A k \in 1 .. Len(data_segs') : data_segs'[k] \in DataSeg
      BY <3>1
    <3>3. DOMAIN data_segs' = 1 .. Len(data_segs')
      BY <3>1
    <3>4. PICK n \in Nat : n = Len(data_segs')
      BY <3>2
    <3>5. \A k \in 1 .. n : data_segs'[k].len \in Nat
      BY <3>2, <3>4 DEF DataSeg
    <3>6. QED
      BY <3>3, <3>4, <3>5
  <2>4. PICK x, ds : x = extents' /\ ds = data_segs' /\ Before(ds, 1) = 0
    <3>1. PICK ds : ds = data_segs'
      OBVIOUS
    <3>2. Before(ds, 1) = 0
      BY <2>3, <3>1, BeforeGrows
    <3>3. QED
      BY <3>1, <3>2
  <2>5. x = <<>>
    BY <2>2, <2>4
  <2>6. Lengths(x) = 0
    BY <2>5, NoLength
  <2>7. Lengths(extents') * BlockUnits = Before(data_segs', placed' + 1)
    <3>1. PICK q : q = placed'
      OBVIOUS
    <3>2. Lengths(x) * BlockUnits = Before(ds, q + 1)
      BY <2>2, <2>4, <2>6, <3>1, BlockUnitsAssumption
    <3>3. QED
      BY <2>4, <3>1, <3>2
  <2>8. DOMAIN <<>> = {} /\ 1 .. 0 = {}
    OBVIOUS
  <2>9. DOMAIN extents' = {} /\ 1 .. placed' = {}
    BY <2>2, <2>8
  <2>10. QED
    BY <2>7, <2>9 DEF Mapped
<1>2. CASE PlaceSegment
  <2>1. NumbersSuffice
    BY <1>2 DEF PlaceSegment, declVars, NumbersSuffice
  <2>2. QED
    BY <1>2, <2>1, PlacesMapped DEF LogicalInv
<1>3. ASSUME DataStays PROVE Mapped'
  <2>1. NumbersSuffice
    BY <1>3 DEF DataStays, NumbersSuffice
  <2>2. Mapped
    BY <2>1 DEF LogicalInv
  <2>3. QED
    BY <1>3, <2>2 DEF DataStays, Mapped
<1>4. CASE PlanInline \/ PlanLeaves \/ PlanIndex \/ PlanRoot \/ TooDeep \/ ImageFull
  BY <1>3, <1>4 DEF PlanInline, PlanLeaves, PlanIndex, PlanRoot, TooDeep, ImageFull, DataStays, declVars, treeVars, readVars
<1>5. CASE Emitted \/ VisitExtent \/ Descend \/ Corrupt \/ Return
  BY <1>3, <1>5 DEF Emitted, VisitExtent, Descend, Corrupt, Return, DataStays, declVars, treeVars, readVars
<1>6. CASE UNCHANGED vars
  BY <1>3, <1>6 DEF vars, DataStays, declVars, treeVars, readVars
<1>7. QED
  BY <1>1, <1>2, <1>4, <1>5, <1>6 DEF Next

LEMMA LogicalInit == Init => LogicalInv
<1> SUFFICES ASSUME Init PROVE Mapped
  BY DEF LogicalInv
<1>1. extents = <<>> /\ placed = 0 /\ data_segs = <<>>
  BY DEF Init
<1>2. Len(<<>>) = 0 /\ DOMAIN <<>> = {} /\ 1 .. 0 = {}
  OBVIOUS
<1>3. QED
  BY <1>1, <1>2 DEF Mapped

LEMMA LogicalInvariance == Spec => [](DataInv /\ TreeInv /\ LogicalInv)
<1>1. Init => DataInv /\ TreeInv /\ LogicalInv
  BY DataInit, TreeInit, LogicalInit
<1>2. DataInv /\ TreeInv /\ LogicalInv /\ [Next]_vars => (DataInv /\ TreeInv /\ LogicalInv)'
  BY DataStep, TreeStep, LogicalStep
<1>3. QED
  BY <1>1, <1>2, PTL DEF Spec

\* The logical ranges of the extents found ascend.
LEMMA FoundAscends == DataInv /\ TreeInv /\ LogicalInv => (NumbersSuffice => ExtentsAscend)
<1> SUFFICES ASSUME DataInv, TreeInv, LogicalInv, NumbersSuffice, pc = "walked"
             PROVE  \A i \in 1 .. Len(found) - 1 : found[i].logical + found[i].len <= found[i + 1].logical
  BY DEF ExtentsAscend
<1>1. Mapped
  BY DEF LogicalInv
<1>2. WalkIsFaithful
  BY WalkFindsAll
<1>3. PICK m \in Nat : m = Len(extents) /\ DOMAIN extents = 1 .. m
  <2>1. extents \in Seq(Ext)
    BY DEF DataInv, ExtentsApart
  <2>2. QED
    BY <2>1
<1>4. Len(found) = m /\ DOMAIN found = 1 .. m
  <2>1. PICK cov : FoundSoFar(cov) /\ Len(found) = Len(extents)
    BY DEF TreeInv, ReadShape
  <2>2. QED
    BY <1>3, <2>1 DEF FoundSoFar, IsList
<1>5. ASSUME NEW i \in 1 .. m PROVE found[i].logical = extents[i].logical /\ found[i].len = extents[i].len
  <2>1. extents[i] = [logical |-> found[i].logical, start |-> found[i].start, len |-> found[i].len]
    BY <1>2, <1>4 DEF WalkIsFaithful
  <2>2. QED
    BY <2>1
<1>6. ASSUME NEW i \in 1 .. m - 1 PROVE found[i].logical + found[i].len <= found[i + 1].logical
  <2>1. i \in 1 .. m /\ i + 1 \in 1 .. m /\ i < i + 1
    OBVIOUS
  <2>2. LogicalEnd(extents[i]) <= extents[i + 1].logical
    BY <1>1, <1>3, <2>1 DEF Mapped
  <2>3. QED
    BY <1>5, <2>1, <2>2 DEF LogicalEnd
<1>7. QED
  BY <1>4, <1>6

\* A file of at most 2^32 blocks passes the verifier's check that extents
\* are sorted and do not overlap (the run extents_wrap shows what becomes of
\* a larger one: seal() cuts the logical block to 32 bits).
THEOREM ExtentsAlwaysAscend == Spec => [](NumbersSuffice => ExtentsAscend)
BY LogicalInvariance, FoundAscends, PTL

-----------------------------------------------------------------------------
(* The search by key. *)

LEMMA MaxIs ==
  ASSUME NEW S \in SUBSET Nat, NEW k \in S, \A x \in S : x <= k
  PROVE  Max(S) = k
<1>1. \A x \in S : k >= x
  OBVIOUS
<1>2. \E y \in S : \A x \in S : y >= x
  BY <1>1
<1>3. Max(S) \in S /\ \A x \in S : Max(S) >= x
  BY <1>2 DEF Max
<1>4. Max(S) >= k /\ k >= Max(S) /\ Max(S) \in Nat /\ k \in Nat
  BY <1>1, <1>3
<1>5. QED
  BY <1>4

\* The entry a search follows: the last one whose key is not beyond l.
SplitAt(node, n, l, k) ==
  /\ DOMAIN node.entries = 1 .. n /\ k \in 1 .. n
  /\ \A i \in 1 .. n : node.entries[i].logical <= l <=> i <= k

LEMMA HitIs ==
  ASSUME NEW node, NEW l, NEW n \in Nat, NEW k \in Nat, SplitAt(node, n, l, k)
  PROVE  Hit(node, l) = node.entries[k]
<1> USE DEF SplitAt
<1>1. PICK S : S = {1} \cup {i \in DOMAIN node.entries : node.entries[i].logical <= l}
  OBVIOUS
<1>2. k \in S /\ S \in SUBSET Nat
  BY <1>1
<1>3. \A x \in S : x <= k
  BY <1>1
<1>4. Max(S) = k
  BY <1>2, <1>3, MaxIs
<1>5. QED
  BY <1>1, <1>4 DEF Hit

\* Which extents begin at or before a block of extent x.
LEMMA KeysSplit ==
  ASSUME DataInv, Mapped, NEW x \in DOMAIN extents, NEW l \in Nat, Holder(extents[x], l),
         NEW y \in DOMAIN extents
  PROVE  extents[y].logical <= l <=> y <= x
<1>1. PICK m \in Nat : DOMAIN extents = 1 .. m /\ \A i \in 1 .. m : extents[i] \in Ext
  <2>1. extents \in Seq(Ext)
    BY DEF DataInv, ExtentsApart
  <2>2. QED
    BY <2>1
<1>2. x \in 1 .. m /\ y \in 1 .. m
  BY <1>1
<1>3. /\ extents[x].logical \in Nat /\ extents[y].logical \in Nat
      /\ LogicalEnd(extents[x]) \in Nat /\ LogicalEnd(extents[y]) \in Nat
      /\ extents[y].logical < LogicalEnd(extents[y])
  <2>1. ASSUME NEW e \in Ext PROVE e.logical \in Nat /\ LogicalEnd(e) \in Nat /\ e.logical < LogicalEnd(e)
    BY ExtentsAssumption DEF Ext, LogicalEnd
  <2>2. QED
    BY <1>1, <1>2, <2>1
<1>4. extents[x].logical <= l /\ l < LogicalEnd(extents[x])
  BY DEF Holder
<1>5. ASSUME y < x PROVE extents[y].logical <= l
  <2>1. LogicalEnd(extents[y]) <= extents[x].logical
    BY <1>5 DEF Mapped
  <2>2. QED
    BY <1>3, <1>4, <2>1
<1>6. ASSUME x < y PROVE ~(extents[y].logical <= l)
  <2>1. LogicalEnd(extents[x]) <= extents[y].logical
    BY <1>6 DEF Mapped
  <2>2. QED
    BY <1>3, <1>4, <2>1
<1>7. y = x \/ y < x \/ x < y
  BY <1>2
<1>8. y <= x <=> y = x \/ y < x
  BY <1>2
<1>9. x < y => ~(y <= x)
  BY <1>2
<1>10. QED
  BY <1>4, <1>5, <1>6, <1>7, <1>8, <1>9

\* In a leaf the search ends at the extent.
LEMMA HitInLeaf ==
  ASSUME DataInv, Mapped, NEW x \in DOMAIN extents, NEW l \in Nat, Holder(extents[x], l),
         NEW node, NEW cov, NEW lo \in Nat, NEW hi \in Nat, 1 <= lo, hi <= Len(extents) + 1,
         Over(node, cov, lo, hi), node.depth = 0, lo <= x, x < hi
  PROVE  Hit(node, l) = Encoded(extents[x])
<1>1. PICK m \in Nat : m = Len(extents) /\ DOMAIN extents = 1 .. m
  <2>1. extents \in Seq(Ext)
    BY DEF DataInv, ExtentsApart
  <2>2. QED
    BY <2>1
<1>2. Listed(node.entries, lo, hi)
  BY DEF Over
<1>3. PICK n \in Nat, k \in Nat : /\ n = hi - lo /\ k = (x - lo) + 1 /\ k \in 1 .. n
                                  /\ DOMAIN node.entries = 1 .. n /\ (lo + k) - 1 = x
  <2>1. x \in Nat
    BY <1>1
  <2>2. PICK n \in Nat, k \in Nat : n = hi - lo /\ k = (x - lo) + 1
    <3>1. hi - lo \in Nat /\ (x - lo) + 1 \in Nat
      BY <2>1
    <3>2. QED
      BY <3>1
  <2>3. k \in 1 .. n /\ (lo + k) - 1 = x
    BY <2>1, <2>2
  <2>4. DOMAIN node.entries = 1 .. n
    BY <1>2, <2>2 DEF Listed
  <2>5. QED
    BY <2>2, <2>3, <2>4
<1>4. ASSUME NEW i \in 1 .. n
      PROVE  node.entries[i] = Encoded(extents[(lo + i) - 1]) /\ (node.entries[i].logical <= l <=> i <= k)
  <2>1. PICK y : y = (lo + i) - 1
    OBVIOUS
  <2>2. y \in 1 .. m /\ (y <= x <=> i <= k)
    BY <1>1, <1>3, <2>1, SMTT(30)
  <2>3. node.entries[i] = Encoded(extents[y])
    BY <1>2, <1>3, <2>1 DEF Listed
  <2>4. node.entries[i].logical = extents[y].logical
    BY <2>3 DEF Encoded
  <2>5. extents[y].logical <= l <=> y <= x
    BY <1>1, <2>2, KeysSplit
  <2>6. QED
    BY <2>1, <2>2, <2>3, <2>4, <2>5
<1>5. Hit(node, l) = node.entries[k]
  <2>1. SplitAt(node, n, l, k)
    BY <1>3, <1>4 DEF SplitAt
  <2>2. QED
    BY <2>1, HitIs
<1>6. node.entries[k] = Encoded(extents[x])
  BY <1>3, <1>4
<1>7. QED
  BY <1>5, <1>6

\* In an index node it follows the entry of the node the extent is below.
LEMMA HitInIndex ==
  ASSUME DataInv, Mapped, NEW x \in DOMAIN extents, NEW l \in Nat, Holder(extents[x], l),
         NEW node, NEW cov, Covers(cov), NEW lo \in Nat, NEW hi \in Nat,
         Over(node, cov, lo, hi), node.depth # 0, lo <= x, x < hi
  PROVE  \E b \in DOMAIN disk : /\ Hit(node, l).leaf = b /\ cov[b].depth = node.depth - 1
                                /\ cov[b].from <= x /\ x < cov[b].upto
<1>1. PICK m \in Nat : m = Len(extents) /\ DOMAIN extents = 1 .. m
  <2>1. extents \in Seq(Ext)
    BY DEF DataInv, ExtentsApart
  <2>2. QED
    BY <2>1
<1>2. Chain(node.entries, cov, node.depth - 1, lo, hi)
  BY DEF Over
<1>3. PICK n \in Nat \ {0} : n = Len(node.entries) /\ DOMAIN node.entries = 1 .. n
  BY <1>2 DEF Chain
<1>4. x \in 1 .. m
  BY <1>1
<1> DEFINE from == [i \in 1 .. n |-> cov[node.entries[i].leaf].from]
           upto == [i \in 1 .. n |-> cov[node.entries[i].leaf].upto]
<1>5. ASSUME NEW i \in 1 .. n
      PROVE  /\ node.entries[i].leaf \in DOMAIN disk /\ cov[node.entries[i].leaf].depth = node.depth - 1
             /\ from[i] \in 1 .. m /\ upto[i] \in Nat /\ from[i] < upto[i]
             /\ node.entries[i].logical = extents[from[i]].logical
  <2>1. PICK b : b = node.entries[i].leaf
    OBVIOUS
  <2>2. b \in DOMAIN cov /\ cov[b].depth = node.depth - 1 /\ node.entries[i].logical = extents[cov[b].from].logical
    BY <1>2, <1>3, <2>1 DEF Chain
  <2>3. b \in DOMAIN disk
    BY <2>2 DEF Covers
  <2>4. PICK c \in Cover : c = cov[b]
    BY <2>3 DEF Covers
  <2>5. 1 <= c.from /\ c.from < c.upto /\ c.upto <= m + 1
    BY <1>1, <2>3, <2>4 DEF Covers
  <2>6. c.from \in 1 .. m /\ c.upto \in Nat
    BY <2>5 DEF Cover
  <2>7. from[i] = c.from /\ upto[i] = c.upto
    BY <2>1, <2>4
  <2>8. QED
    BY <2>1, <2>2, <2>3, <2>4, <2>5, <2>6, <2>7
<1>6. /\ from[1] = lo /\ upto[n] = hi
      /\ \A i \in 1 .. n - 1 : from[i + 1] = upto[i]
      /\ \A i, j \in 1 .. n : i < j => upto[i] <= from[j]
  <2>1. 1 \in 1 .. n /\ n \in 1 .. n /\ \A i \in 1 .. n - 1 : i \in 1 .. n /\ i + 1 \in 1 .. n
    OBVIOUS
  <2>2. QED
    BY <1>2, <1>3, <2>1 DEF Chain
<1> HIDE DEF from, upto
<1>7. PICK k \in 1 .. n : from[k] <= x /\ x < upto[k]
  <2>1. PICK S : S = {i \in 1 .. n : from[i] <= x}
    OBVIOUS
  <2>2. S \in SUBSET Nat /\ 1 \in S /\ S # {}
    BY <1>6, <2>1
  <2>3. IsFiniteSet(S)
    <3>1. IsFiniteSet(1 .. n) /\ S \in SUBSET (1 .. n)
      BY <2>1, UpTo
    <3>2. QED
      BY <3>1, FS_Subset
  <2>4. PICK k \in S : \A i \in S : i <= k
    BY <2>2, <2>3, GreatestOfFinite
  <2>5. k \in 1 .. n /\ from[k] <= x
    BY <2>1
  <2>6. x < upto[k]
    <3>1. CASE k = n
      BY <1>6, <3>1
    <3>2. CASE k # n
      <4>1. k \in 1 .. n - 1 /\ k + 1 \in 1 .. n /\ ~(k + 1 <= k)
        BY <2>5, <3>2
      <4>2. k + 1 \notin S
        BY <2>4, <4>1
      <4>3. ~(from[k + 1] <= x)
        BY <2>1, <4>1, <4>2
      <4>4. from[k + 1] = upto[k] /\ upto[k] \in Nat
        BY <1>5, <1>6, <2>5, <4>1
      <4>5. QED
        BY <1>4, <4>3, <4>4
    <3>3. QED
      BY <3>1, <3>2
  <2>7. QED
    BY <2>5, <2>6
<1>8. ASSUME NEW i \in 1 .. n PROVE node.entries[i].logical <= l <=> i <= k
  <2>1. from[i] \in DOMAIN extents /\ node.entries[i].logical = extents[from[i]].logical
    BY <1>1, <1>5
  <2>2. node.entries[i].logical <= l <=> from[i] <= x
    BY <2>1, KeysSplit
  <2>3. from[i] \in Nat /\ upto[i] \in Nat /\ from[k] \in Nat /\ upto[k] \in Nat /\ x \in Nat
    BY <1>4, <1>5
  <2>4. i < k => from[i] <= x
    <3>1. i < k => upto[i] <= from[k] /\ from[i] < upto[i]
      BY <1>5, <1>6
    <3>2. QED
      BY <1>7, <2>3, <3>1
  <2>5. k < i => ~(from[i] <= x)
    <3>1. k < i => upto[k] <= from[i]
      BY <1>6
    <3>2. QED
      BY <1>7, <2>3, <3>1
  <2>6. i = k => from[i] <= x
    BY <1>7
  <2>7. i < k \/ i = k \/ k < i
    OBVIOUS
  <2>8. (i <= k <=> i < k \/ i = k) /\ (k < i => ~(i <= k))
    OBVIOUS
  <2>9. QED
    BY <2>2, <2>4, <2>5, <2>6, <2>7, <2>8
<1>9. Hit(node, l) = node.entries[k]
  <2>1. SplitAt(node, n, l, k)
    BY <1>3, <1>7, <1>8 DEF SplitAt
  <2>2. n \in Nat /\ k \in Nat
    OBVIOUS
  <2>3. QED
    BY <2>1, <2>2, HitIs
<1>10. from[k] = cov[node.entries[k].leaf].from /\ upto[k] = cov[node.entries[k].leaf].upto
  BY DEF from, upto
<1>11. QED
  BY <1>5, <1>7, <1>9, <1>10

\* A node with extent x below it.
Above(node, cov, x) ==
  \E lo \in Nat, hi \in Nat :
    /\ Over(node, cov, lo, hi) /\ 1 <= lo /\ lo <= x /\ x < hi /\ hi <= Len(extents) + 1

Down(node, l) == IF node.depth = 0 THEN node ELSE disk[Hit(node, l).leaf]

LEMMA DownStays ==
  ASSUME DataInv, Mapped, NEW cov, TreeOK(cov), Intact, NEW x \in DOMAIN extents, NEW l \in Nat,
         Holder(extents[x], l), NEW node, Above(node, cov, x)
  PROVE  /\ node.depth \in 0 .. 2 /\ Above(Down(node, l), cov, x)
         /\ node.depth = 0 => Down(node, l) = node /\ Hit(node, l) = Encoded(extents[x])
         /\ node.depth # 0 => Down(node, l).depth = node.depth - 1
<1>1. PICK lo \in Nat, hi \in Nat :
        Over(node, cov, lo, hi) /\ 1 <= lo /\ lo <= x /\ x < hi /\ hi <= Len(extents) + 1
  BY DEF Above
<1>2. node.depth \in 0 .. 2
  BY <1>1 DEF Over
<1>3. CASE node.depth = 0
  <2>1. Down(node, l) = node
    BY <1>3 DEF Down
  <2>2. Hit(node, l) = Encoded(extents[x])
    BY <1>1, <1>3, HitInLeaf
  <2>3. QED
    BY <1>2, <1>3, <2>1, <2>2
<1>4. CASE node.depth # 0
  <2>1. Covers(cov)
    BY DEF TreeOK
  <2>2. PICK b \in DOMAIN disk : /\ Hit(node, l).leaf = b /\ cov[b].depth = node.depth - 1
                                 /\ cov[b].from <= x /\ x < cov[b].upto
    BY <1>1, <1>4, <2>1, HitInIndex
  <2>3. PICK c \in Cover, child \in {disk[b]} : child = disk[b] /\ c = cov[b]
    BY <2>1 DEF Covers
  <2>4. 1 <= c.from /\ c.upto <= Len(extents) + 1 /\ c.from \in Nat /\ c.upto \in Nat
    BY <2>1, <2>3 DEF Covers, Cover
  <2>5. Holding(child, cov, c)
    BY <2>3 DEF TreeOK, Intact
  <2>6. Over(child, cov, c.from, c.upto) /\ child.depth = c.depth
    BY <2>5 DEF Holding
  <2>7. Above(child, cov, x)
    BY <2>2, <2>3, <2>4, <2>6 DEF Above
  <2>8. Down(node, l) = child
    BY <1>4, <2>2, <2>3 DEF Down
  <2>9. QED
    BY <1>2, <1>4, <2>2, <2>3, <2>6, <2>7, <2>8
<1>5. QED
  BY <1>3, <1>4

LEMMA SearchEnds == DataInv /\ TreeInv /\ LogicalInv => (NumbersSuffice => SearchFindsExtents)
<1> SUFFICES ASSUME DataInv, TreeInv, LogicalInv, NumbersSuffice, pc = "sealed", NEW x \in DOMAIN extents,
                    NEW l \in extents[x].logical .. extents[x].logical + extents[x].len - 1
             PROVE  Hit(LeafFor(l), l) = Encoded(extents[x])
  BY DEF SearchFindsExtents
<1>1. Mapped
  BY DEF LogicalInv
<1>2. PICK cov : TreeShape(cov)
  BY DEF TreeInv
<1>3. TreeOK(cov) /\ Intact /\ RootOK(cov)
  BY <1>2 DEF TreeShape
<1>4. PICK m \in Nat : m = Len(extents) /\ x \in 1 .. m /\ extents[x] \in Ext
  <2>1. extents \in Seq(Ext)
    BY DEF DataInv, ExtentsApart
  <2>2. QED
    BY <2>1
<1>5. l \in Nat /\ Holder(extents[x], l)
  <2>1. PICK a \in Nat, b \in Nat : a = extents[x].logical /\ b = extents[x].len
    BY <1>4, ExtentsAssumption DEF Ext
  <2>2. l \in Nat /\ a <= l /\ l < a + b
    BY <2>1
  <2>3. QED
    BY <2>1, <2>2 DEF Holder, LogicalEnd
<1>6. Above(root, cov, x)
  <2>1. Over(root, cov, 1, m + 1)
    BY <1>3, <1>4 DEF RootOK
  <2>2. 1 \in Nat /\ m + 1 \in Nat /\ 1 <= x /\ x < m + 1 /\ m + 1 <= m + 1
    BY <1>4
  <2>3. QED
    BY <1>4, <2>1, <2>2 DEF Above
<1>7. PICK one, two : one = Down(root, l) /\ two = Down(one, l)
  OBVIOUS
<1>8. /\ root.depth \in 0 .. 2 /\ Above(one, cov, x)
      /\ root.depth = 0 => one = root
      /\ root.depth # 0 => one.depth = root.depth - 1
  BY <1>1, <1>3, <1>5, <1>6, <1>7, DownStays
<1>9. /\ one.depth \in 0 .. 2 /\ Above(two, cov, x)
      /\ one.depth = 0 => two = one
      /\ one.depth # 0 => two.depth = one.depth - 1
  BY <1>1, <1>3, <1>5, <1>7, <1>8, DownStays
<1>10. two.depth = 0
  BY <1>8, <1>9
<1>11. Hit(two, l) = Encoded(extents[x])
  BY <1>1, <1>3, <1>5, <1>9, <1>10, DownStays
<1>12. LeafFor(l) = two
  BY <1>7 DEF LeafFor, Down
<1>13. QED
  BY <1>11, <1>12

\* A search by key ends at the extent of each mapped block of a file of at
\* most 2^32 blocks: the keys of the index nodes lead to it.
THEOREM SearchAlwaysEnds == Spec => [](NumbersSuffice => SearchFindsExtents)
BY LogicalInvariance, SearchEnds, PTL

-----------------------------------------------------------------------------
(* What is read. *)

LEMMA UnitsAre ==
  ASSUME NEW d \in DataSeg
  PROVE  /\ d.offset \in Nat /\ SegEndsAt(d) \in Nat /\ d.len \in Nat
         /\ SegUnits(d) \in SUBSET Nat /\ IsFiniteSet(SegUnits(d)) /\ Cardinality(SegUnits(d)) = d.len
         /\ \A v : v \in SegUnits(d) <=> v \in Int /\ d.offset <= v /\ v < SegEndsAt(d)
<1>1. PICK o \in Nat, l \in Nat \ {0} : o = d.offset /\ l = d.len
  BY DEF DataSeg
<1>2. SegEndsAt(d) = o + l
  BY <1>1 DEF SegEndsAt
<1>3. PICK z \in Int : z = (o + l) - 1
  OBVIOUS
<1>4. SegUnits(d) = o .. z
  BY <1>1, <1>2, <1>3 DEF SegUnits
<1>5. IsFiniteSet(o .. z) /\ Cardinality(o .. z) = IF o > z THEN 0 ELSE z - o + 1
  BY FS_Interval
<1>6. z >= o /\ z - o + 1 = l
  BY <1>3
<1>7. \A x \in o .. z : x \in Nat
  OBVIOUS
<1>8. Cardinality(SegUnits(d)) = l
  BY <1>4, <1>5, <1>6
<1>9. \A v : v \in o .. z <=> v \in Int /\ o <= v /\ v < o + l
  BY <1>3
<1>10. QED
  BY <1>1, <1>2, <1>4, <1>5, <1>7, <1>8, <1>9

\* A unit of data has before it the data segments before its own, and what
\* its own has before it.
LEMMA NumberOfUnit ==
  ASSUME DataInv, NEW j \in DOMAIN data_segs, NEW u \in SegUnits(data_segs[j])
  PROVE  Declared(u) = (Before(data_segs, j) + (u - data_segs[j].offset)) + 1
<1>1. PICK m \in Nat : DOMAIN data_segs = 1 .. m /\ \A i \in 1 .. m : data_segs[i] \in DataSeg
  <2>1. data_segs \in Seq(DataSeg)
    BY DEF DataInv, SegsHoldData
  <2>2. QED
    BY <2>1
<1>2. j \in 1 .. m
  BY <1>1
<1> DEFINE part == [i \in 1 .. m |-> SegUnits(data_segs[i])]
           g == [i \in 1 .. m |-> data_segs[i].len]
           Own == data_segs[j].offset .. u
           Others == UNION {part[i] : i \in 1 .. j - 1}
<1>3. ASSUME NEW i \in 1 .. m
      PROVE  /\ data_segs[i].offset \in Nat /\ SegEndsAt(data_segs[i]) \in Nat
             /\ \A v : v \in part[i] <=> v \in Int /\ data_segs[i].offset <= v /\ v < SegEndsAt(data_segs[i])
             /\ part[i] \in SUBSET Nat /\ IsFiniteSet(part[i]) /\ g[i] = Cardinality(part[i])
  <2>1. PICK d \in DataSeg : d = data_segs[i]
    BY <1>1
  <2>2. part[i] = SegUnits(d) /\ g[i] = d.len
    BY <2>1
  <2>3. QED
    BY <2>1, <2>2, UnitsAre
<1>4. ASSUME NEW i \in 1 .. m, NEW k \in 1 .. m, i < k
      PROVE  SegEndsAt(data_segs[i]) <= data_segs[k].offset
  BY <1>1, <1>4 DEF DataInv, SegsHoldData, Spaced
<1>5. ASSUME NEW i \in 1 .. m, NEW k \in 1 .. m, i < k PROVE part[i] \cap part[k] = {}
  <2>1. SegEndsAt(data_segs[i]) <= data_segs[k].offset
    BY <1>4, <1>5
  <2>2. PICK x \in Nat, y \in Nat : x = SegEndsAt(data_segs[i]) /\ y = data_segs[k].offset
    BY <1>3
  <2>3. \A v : v \in part[i] => v \in Int /\ v < x
    BY <1>3, <2>2
  <2>4. \A v : v \in part[k] => v \in Int /\ y <= v
    BY <1>3, <2>2
  <2>5. ASSUME NEW v, v \in part[i], v \in part[k] PROVE FALSE
    <3>1. v \in Int /\ v < x /\ y <= v
      BY <2>3, <2>4, <2>5
    <3>2. QED
      BY <2>1, <2>2, <3>1
  <2>6. QED
    BY <2>5
<1>6. u \in Int /\ data_segs[j].offset <= u /\ u < SegEndsAt(data_segs[j]) /\ u \in part[j]
  <2>1. u \in part[j]
    BY <1>2
  <2>2. QED
    BY <1>2, <1>3, <2>1
<1>7. \A i \in 1 .. j - 1 : i \in 1 .. m /\ i < j
  BY <1>2
<1>8. \A v \in Int : v \in DataUnits <=> \E i \in 1 .. m : v \in part[i]
  BY <1>1 DEF DataInv, SegsHoldData, InSegs
<1>9. DataUnits \in SUBSET Int
  BY DEF DataUnits
<1>10. {v \in DataUnits : v <= u} = Others \cup Own
  <2>1. ASSUME NEW v \in DataUnits, v <= u PROVE v \in Others \cup Own
    <3>1. PICK i \in 1 .. m : v \in part[i]
      BY <1>8, <1>9
    <3>2. v \in Int /\ data_segs[i].offset <= v /\ v < SegEndsAt(data_segs[i])
      BY <1>3, <1>9, <3>1
    <3>3. ~(j < i)
      <4>1. j < i => SegEndsAt(data_segs[j]) <= data_segs[i].offset
        BY <1>2, <1>4
      <4>2. data_segs[i].offset \in Nat /\ SegEndsAt(data_segs[j]) \in Nat
        BY <1>2, <1>3
      <4>3. QED
        BY <1>6, <2>1, <3>2, <4>1, <4>2
    <3>4. CASE i < j
      <4>1. i \in 1 .. j - 1
        BY <1>2, <3>4
      <4>2. QED
        BY <3>1, <4>1
    <3>5. CASE i = j
      <4>1. v \in Own
        BY <1>2, <1>3, <1>6, <2>1, <3>2, <3>5
      <4>2. QED
        BY <4>1
    <3>6. i < j \/ i = j \/ j < i
      BY <1>2
    <3>7. QED
      BY <3>3, <3>4, <3>5, <3>6
  <2>2. ASSUME NEW v \in Others PROVE v \in DataUnits /\ v <= u
    <3>1. PICK i \in 1 .. j - 1 : v \in part[i]
      OBVIOUS
    <3>2. i \in 1 .. m /\ i < j
      BY <1>7
    <3>3. v \in Int /\ v < SegEndsAt(data_segs[i]) /\ SegEndsAt(data_segs[i]) \in Nat
      <4>1. v \in part[i]
        BY <3>1
      <4>2. QED
        BY <1>3, <3>2, <4>1
    <3>4. SegEndsAt(data_segs[i]) <= data_segs[j].offset /\ data_segs[j].offset \in Nat
      BY <1>2, <1>3, <1>4, <3>2
    <3>5. v <= u
      BY <1>6, <3>3, <3>4
    <3>6. QED
      BY <1>8, <3>1, <3>2, <3>3, <3>5
  <2>3. ASSUME NEW v \in Own PROVE v \in DataUnits /\ v <= u
    <3>1. v \in Int /\ v <= u /\ data_segs[j].offset <= v
      BY <1>2, <1>3, <1>6
    <3>2. v < SegEndsAt(data_segs[j]) /\ SegEndsAt(data_segs[j]) \in Nat
      BY <1>2, <1>3, <1>6, <3>1
    <3>3. v \in part[j]
      BY <1>2, <1>3, <3>1, <3>2
    <3>4. QED
      BY <1>2, <1>8, <3>1, <3>3
  <2> HIDE DEF Own, Others
  <2>4. QED
    BY <2>1, <2>2, <2>3
<1>11. IsFiniteSet(Others) /\ Cardinality(Others) = SumOf(g, 1 .. j - 1)
  <2>1. IsFiniteSet(1 .. j - 1)
    <3>1. PICK n \in Nat : n = j - 1
      BY <1>2
    <3>2. QED
      BY <3>1, UpTo
  <2>2. PICK L : L = 1 .. j - 1
    OBVIOUS
  <2>3. \A i \in L : part[i] \in SUBSET Nat /\ IsFiniteSet(part[i])
    BY <1>3, <1>7, <2>2
  <2>4. \A i \in L : g[i] = Cardinality(part[i])
    BY <1>3, <1>7, <2>2
  <2>5. \A i, k \in L : i # k => part[i] \cap part[k] = {}
    <3>1. ASSUME NEW i \in L, NEW k \in L, i # k PROVE part[i] \cap part[k] = {}
      <4>1. i \in 1 .. m /\ k \in 1 .. m /\ (i < k \/ k < i)
        BY <1>7, <2>2, <3>1
      <4>2. QED
        BY <1>5, <4>1
    <3>2. QED
      BY <3>1
  <2> HIDE DEF part, g
  <2>6. IsFiniteSet(UNION {part[i] : i \in L}) /\ Cardinality(UNION {part[i] : i \in L}) = SumOf(g, L)
    <3>1. IsFiniteSet(L)
      BY <2>1, <2>2
    <3>2. QED
      BY <2>3, <2>4, <2>5, <3>1, SizeOfParts
  <2>7. QED
    BY <2>2, <2>6
<1>12. Before(data_segs, j) = SumOf(g, 1 .. j - 1)
  BY <1>1 DEF Before
<1>13. IsFiniteSet(Own) /\ Cardinality(Own) = (u - data_segs[j].offset) + 1
  <2>1. PICK o \in Nat : o = data_segs[j].offset
    BY <1>2, <1>3
  <2>2. IsFiniteSet(o .. u) /\ Cardinality(o .. u) = IF o > u THEN 0 ELSE u - o + 1
    BY <1>6, FS_Interval
  <2>3. ~(o > u)
    BY <1>6, <2>1
  <2>4. QED
    BY <2>1, <2>2, <2>3
<1>14. Others \cap Own = {}
  <2>1. ASSUME NEW v \in Others, v \in Own PROVE FALSE
    <3>1. PICK i \in 1 .. j - 1 : v \in part[i]
      OBVIOUS
    <3>2. i \in 1 .. m /\ i < j
      BY <1>7
    <3>3. v \in Int /\ v < SegEndsAt(data_segs[i]) /\ SegEndsAt(data_segs[i]) \in Nat
      <4>1. v \in part[i]
        BY <3>1
      <4>2. QED
        BY <1>3, <3>2, <4>1
    <3>4. SegEndsAt(data_segs[i]) <= data_segs[j].offset /\ data_segs[j].offset \in Nat
      BY <1>2, <1>3, <1>4, <3>2
    <3>5. data_segs[j].offset <= v
      BY <1>6, <2>1, <3>4
    <3>6. QED
      BY <3>3, <3>4, <3>5
  <2> HIDE DEF Own, Others
  <2>2. QED
    BY <2>1
<1> HIDE DEF Own, Others, g
<1>15. Cardinality(Others \cup Own) = Cardinality(Others) + Cardinality(Own)
  BY <1>11, <1>13, <1>14, SizeOfUnion
<1>16. u \in DataUnits
  BY <1>2, <1>6, <1>8
<1>17. Declared(u) = Cardinality({v \in DataUnits : v <= u})
  BY <1>16 DEF Declared
<1>18. Cardinality(Others) \in Nat /\ u - data_segs[j].offset \in Int
  BY <1>2, <1>3, <1>6, <1>11, FS_CardinalityType
<1>19. Declared(u) = Cardinality(Others) + Cardinality(Own)
  BY <1>10, <1>15, <1>17
<1>20. QED
  BY <1>11, <1>12, <1>13, <1>18, <1>19

\* The unit with number r in block q, where the block is in an extent with
\* `before` blocks before it, which belongs to a segment.
LEMMA PlaceInStream ==
  ASSUME NEW b \in Nat \ {0}, NEW before \in Nat, NEW earlier \in Nat, NEW l \in Nat, NEW f \in Nat,
         NEW q \in Nat, NEW r \in Nat, before * b = earlier + (l - f) * b
  PROVE  (before + (q - l)) * b + r = earlier + ((b * q + r) - f * b)
<1>1. PICK x \in Int, y \in Int, z \in Int, w \in Int : x = before * b /\ y = q * b /\ z = l * b /\ w = f * b
  OBVIOUS
<1>2. (before + (q - l)) * b = (x + y) - z
  <2>1. (before + (q - l)) * b = (before * b + q * b) - l * b
    OBVIOUS
  <2>2. QED
    BY <1>1, <2>1
<1>3. (l - f) * b = z - w
  <2>1. (l - f) * b = l * b - f * b
    OBVIOUS
  <2>2. QED
    BY <1>1, <2>1
<1>4. x = earlier + (z - w)
  BY <1>1, <1>3
<1>5. b * q = y
  BY <1>1
<1>6. QED
  BY <1>1, <1>2, <1>4, <1>5

\* The extents the reader reads unit u from are those that hold its block.
LEMMA HitsAre ==
  ASSUME NEW e \in Ext, NEW u \in Nat, NEW q, q = u \div BlockUnits
  PROVE  e.logical * BlockUnits <= u /\ u < (e.logical + e.len) * BlockUnits <=> Holder(e, q)
<1>1. PICK B \in Nat \ {0} : B = BlockUnits
  BY BlockUnitsAssumption
<1>2. PICK l \in Nat, n \in Nat : l = e.logical /\ n = e.len
  BY ExtentsAssumption DEF Ext
<1>3. PICK x \in Nat : x = l + n
  OBVIOUS
<1>4. q \in Nat
  BY <1>1, QuotientAndRest
<1>5. (u < l * B <=> q < l) /\ (u < x * B <=> q < x)
  BY <1>1, BelowBlock
<1>6. PICK y \in Nat : y = l * B
  OBVIOUS
<1>7. y <= u <=> l <= q
  BY <1>4, <1>5, <1>6
<1>8. QED
  BY <1>1, <1>2, <1>3, <1>5, <1>6, <1>7 DEF Holder, LogicalEnd

\* What fill() put where an extent holds a block of the file.
LEMMA FilledAsDeclared ==
  ASSUME DataInv, Mapped, placed = Len(data_segs), NEW u \in Nat, u < size, NEW x \in DOMAIN extents,
         Holder(extents[x], u \div BlockUnits)
  PROVE  Filled(extents[x].start + (u \div BlockUnits - extents[x].logical), u % BlockUnits) = Declared(u)
<1>1. PICK B \in Nat \ {0} : B = BlockUnits
  BY BlockUnitsAssumption
<1>2. PICK m \in Nat : DOMAIN extents = 1 .. m /\ \A i \in 1 .. m : extents[i] \in Ext
  <2>1. extents \in Seq(Ext)
    BY DEF DataInv, ExtentsApart
  <2>2. QED
    BY <2>1
<1>3. PICK n \in Nat : n = Len(data_segs) /\ DOMAIN data_segs = 1 .. n /\ \A i \in 1 .. n : data_segs[i] \in DataSeg
  <2>1. data_segs \in Seq(DataSeg)
    BY DEF DataInv, SegsHoldData
  <2>2. QED
    BY <2>1
<1>4. PICK q \in Nat, r \in Nat : q = u \div BlockUnits /\ r = u % BlockUnits /\ r \in 0 .. B - 1 /\ u = B * q + r
  <2>1. u \div B \in Nat /\ u % B \in 0 .. B - 1 /\ u = B * (u \div B) + (u % B)
    BY QuotientAndRest
  <2>2. QED
    BY <1>1, <2>1
<1>5. x \in 1 .. m
  BY <1>2
<1>6. PICK l \in Nat, a \in Nat, c \in Nat : l = extents[x].logical /\ a = extents[x].start /\ c = extents[x].len
  <2>1. ASSUME NEW e \in Ext PROVE e.logical \in Nat /\ e.start \in Nat /\ e.len \in Nat
    BY ExtentsAssumption DEF Ext
  <2>2. QED
    BY <1>2, <1>5, <2>1
<1>7. l <= q /\ q < l + c
  BY <1>4, <1>6 DEF Holder, LogicalEnd
<1>8. PICK j \in 1 .. n : Belongs(extents[x], Before(extents, x), data_segs[j], Before(data_segs, j))
  BY <1>3 DEF Mapped
<1>9. PICK d \in DataSeg : d = data_segs[j]
  BY <1>3
<1>10. Whole(d.offset) /\ (Whole(SegEndsAt(d)) \/ SegEndsAt(d) = size) /\ size \in Nat
  BY <1>3, <1>9 DEF DataInv, SegsHoldData, Spaced
<1>11. PICK f \in Nat, e \in Nat : f = FirstBlock(d) /\ e = EndBlock(d) /\ f * B = d.offset
  BY <1>1, <1>10, BlocksOfSeg
<1>12. f <= l /\ l + c <= e
  BY <1>6, <1>8, <1>9, <1>11 DEF Belongs, LogicalEnd
<1>13. f <= q /\ q < e
  BY <1>7, <1>12
<1>14. u \in SegUnits(d)
  BY <1>4, <1>10, <1>11, <1>13, UnitOfSeg
<1>15. PICK before \in Nat : before = Before(extents, x)
  <2>1. \A i \in 1 .. m : extents[i].len \in Nat
    BY <1>2, ExtentsAssumption DEF Ext
  <2>2. \A i \in 1 .. m + 1 : Before(extents, i) \in Nat
    BY <1>2, <2>1, BeforeGrows
  <2>3. x \in 1 .. m + 1
    BY <1>5
  <2>4. QED
    BY <2>2, <2>3
<1>16. PICK earlier \in Nat, through \in Nat, total \in Nat :
         /\ earlier = Before(data_segs, j) /\ through = earlier + d.len
         /\ total = Lengths(data_segs) /\ through <= total
  <2>1. \A i \in 1 .. n : data_segs[i].len \in Nat
    BY <1>3 DEF DataSeg
  <2>2. /\ \A i \in 1 .. n + 1 : Before(data_segs, i) \in Nat
        /\ \A i \in 1 .. n : Before(data_segs, i + 1) = Before(data_segs, i) + data_segs[i].len
        /\ \A i, k \in 1 .. n + 1 : i <= k => Before(data_segs, i) <= Before(data_segs, k)
    BY <1>3, <2>1, BeforeGrows
  <2>3. j \in 1 .. n + 1 /\ j + 1 \in 1 .. n + 1 /\ n + 1 \in 1 .. n + 1 /\ j + 1 <= n + 1
    OBVIOUS
  <2>4. Before(data_segs, j + 1) = Before(data_segs, j) + d.len
    BY <1>9, <2>2
  <2>5. Before(data_segs, j + 1) <= Before(data_segs, n + 1)
    BY <2>2, <2>3
  <2>6. Lengths(data_segs) = Before(data_segs, n + 1)
    BY <1>3 DEF Lengths
  <2>7. Before(data_segs, j) \in Nat /\ Before(data_segs, j + 1) \in Nat /\ Before(data_segs, n + 1) \in Nat
    BY <2>2, <2>3
  <2>8. QED
    BY <2>4, <2>5, <2>6, <2>7
<1>17. before * B = earlier + (l - f) * B
  BY <1>1, <1>6, <1>8, <1>9, <1>11, <1>15, <1>16 DEF Belongs
<1>18. PICK k \in Int : k = (before + (q - l)) * B + r
  OBVIOUS
<1>19. k = earlier + (u - d.offset)
  <2>1. (before + (q - l)) * B + r = earlier + ((B * q + r) - f * B)
    BY <1>17, PlaceInStream
  <2>2. PICK o \in Nat : o = d.offset
    BY DEF DataSeg
  <2>3. PICK y \in Int : y = f * B
    OBVIOUS
  <2>4. (before + (q - l)) * B + r = earlier + (u - y)
    BY <1>4, <2>1, <2>3
  <2>5. QED
    BY <1>11, <1>18, <2>2, <2>3, <2>4
<1>20. d.offset <= u /\ u < SegEndsAt(d) /\ d.offset \in Nat /\ d.len \in Nat
  BY <1>14, UnitsAre
<1>21. k < total
  <2>1. u - d.offset < d.len
    BY <1>20 DEF SegEndsAt
  <2>2. QED
    BY <1>16, <1>19, <1>20, <2>1
<1>22. PICK block \in Nat : block = a + (q - l)
  BY <1>7
<1>23. block \in BlocksOf(extents[x])
  <2>1. BlocksOf(extents[x]) = a .. (a + c) - 1
    BY <1>6 DEF BlocksOf, RunEnd
  <2>2. QED
    BY <1>7, <1>22, <2>1
<1>24. ASSUME NEW y \in 1 .. m, block \in BlocksOf(extents[y]) PROVE y = x
  <2>1. \A i, h \in 1 .. m : i < h => RunEnd(extents[i]) <= extents[h].start
    BY <1>2 DEF DataInv, ExtentsApart
  <2>2. \A i \in 1 .. m : extents[i].start \in Nat /\ RunEnd(extents[i]) \in Nat
    BY <1>2, ExtentsAssumption DEF Ext, RunEnd
  <2>3. \A i \in 1 .. m : block \in BlocksOf(extents[i]) => extents[i].start <= block /\ block < RunEnd(extents[i])
    BY <2>2 DEF BlocksOf
  <2>4. ASSUME NEW i \in 1 .. m, NEW h \in 1 .. m, i < h,
               block \in BlocksOf(extents[i]), block \in BlocksOf(extents[h])
        PROVE  FALSE
    <3>1. RunEnd(extents[i]) <= extents[h].start /\ extents[h].start <= block /\ block < RunEnd(extents[i])
      BY <2>1, <2>3, <2>4
    <3>2. QED
      BY <2>2, <3>1
  <2>5. ~(y < x) /\ ~(x < y)
    BY <1>5, <1>23, <1>24, <2>4
  <2>6. QED
    BY <1>5, <2>5
<1>25. (CHOOSE i \in DOMAIN extents : block \in BlocksOf(extents[i])) = x
  BY <1>2, <1>5, <1>23, <1>24
<1>26. (Before(extents, x) + (block - extents[x].start)) * BlockUnits + r = k
  <2>1. block - a = q - l
    BY <1>22
  <2>2. (before + (block - a)) * B + r = k
    BY <1>18, <2>1
  <2>3. QED
    BY <1>1, <1>6, <1>15, <2>2
<1>27. Filled(block, r) = k + 1
  <2>1. k < Lengths(data_segs)
    BY <1>16, <1>21
  <2>2. QED
    BY <1>25, <1>26, <2>1 DEF Filled
<1>28. Declared(u) = (Before(data_segs, j) + (u - data_segs[j].offset)) + 1
  <2>1. j \in DOMAIN data_segs /\ u \in SegUnits(data_segs[j])
    BY <1>3, <1>9, <1>14
  <2>2. QED
    BY <2>1, NumberOfUnit
<1>29. Declared(u) = k + 1
  BY <1>9, <1>16, <1>19, <1>28
<1>30. QED
  BY <1>4, <1>6, <1>22, <1>27, <1>29

\* A unit of data is in a block an extent holds.
LEMMA DataIsHeld ==
  ASSUME DataInv, Mapped, placed = Len(data_segs), NEW u \in Nat, u \in DataUnits
  PROVE  \E x \in DOMAIN extents : Holder(extents[x], u \div BlockUnits)
<1>1. PICK j \in DOMAIN data_segs : u \in SegUnits(data_segs[j])
  BY DEF DataInv, SegsHoldData, InSegs
<1>2. data_segs \in Seq(DataSeg)
  BY DEF DataInv, SegsHoldData
<1>3. PICK d \in DataSeg : d = data_segs[j] /\ j \in 1 .. placed
  BY <1>2
<1>4. Whole(d.offset)
  BY <1>3 DEF DataInv, SegsHoldData, Spaced
<1>5. PICK q \in Nat : q = u \div BlockUnits
  BY BlockUnitsAssumption, QuotientAndRest
<1>6. FirstBlock(d) <= q /\ q < EndBlock(d) /\ FirstBlock(d) \in Nat /\ EndBlock(d) \in Nat
  BY <1>1, <1>3, <1>4, <1>5, UnitOfSeg, BlocksOfSeg
<1>7. q \in FirstBlock(data_segs[j]) .. EndBlock(data_segs[j]) - 1
  BY <1>3, <1>6
<1>8. \E x \in DOMAIN extents : Holder(extents[x], q)
  BY <1>3, <1>7 DEF Mapped
<1>9. QED
  BY <1>5, <1>8

LEMMA FileReadsBack == DataInv /\ TreeInv /\ LogicalInv => (NumbersSuffice => ReadsBack)
<1> SUFFICES ASSUME DataInv, TreeInv, LogicalInv, NumbersSuffice, pc = "walked"
             PROVE  size = Lengths(declared) /\ \A u \in 0 .. size - 1 : Read(u) = Declared(u)
  BY DEF ReadsBack
<1>1. Mapped
  BY DEF LogicalInv
<1>2. WalkIsFaithful
  BY WalkFindsAll
<1>3. size = Lengths(declared) /\ size \in Nat
  BY DEF DataInv, SegsHoldData
<1>4. placed = Len(data_segs)
  BY DEF DataInv, ExtentsApart, PlacingDone
<1>5. PICK m \in Nat : m = Len(extents) /\ DOMAIN extents = 1 .. m /\ \A i \in 1 .. m : extents[i] \in Ext
  <2>1. extents \in Seq(Ext)
    BY DEF DataInv, ExtentsApart
  <2>2. QED
    BY <2>1
<1>6. DOMAIN found = 1 .. m
  <2>1. PICK cov : FoundSoFar(cov) /\ Len(found) = Len(extents)
    BY DEF TreeInv, ReadShape
  <2>2. QED
    BY <1>5, <2>1 DEF FoundSoFar, IsList
<1>7. ASSUME NEW i \in 1 .. m
      PROVE  /\ ~found[i].unwritten /\ found[i].start = extents[i].start
             /\ found[i].logical = extents[i].logical /\ found[i].len = extents[i].len
  <2>1. /\ ~found[i].unwritten
        /\ extents[i] = [logical |-> found[i].logical, start |-> found[i].start, len |-> found[i].len]
    BY <1>2, <1>6 DEF WalkIsFaithful
  <2>2. QED
    BY <2>1
<1>8. ASSUME NEW u \in 0 .. size - 1 PROVE Read(u) = Declared(u)
  <2>1. u \in Nat /\ u < size
    BY <1>3
  <2>2. PICK q : q = u \div BlockUnits
    OBVIOUS
  <2>3. PICK hits : hits = {i \in DOMAIN found :
                              /\ ~found[i].unwritten
                              /\ found[i].logical * BlockUnits <= u
                              /\ u < (found[i].logical + found[i].len) * BlockUnits}
    OBVIOUS
  <2>4. ASSUME NEW i \in 1 .. m PROVE i \in hits <=> Holder(extents[i], q)
    <3>1. i \in hits <=> /\ extents[i].logical * BlockUnits <= u
                         /\ u < (extents[i].logical + extents[i].len) * BlockUnits
      BY <1>6, <1>7, <2>3
    <3>2. QED
      BY <1>5, <2>1, <2>2, <3>1, HitsAre
  <2>5. CASE hits = {}
    <3>1. Read(u) = 0
      BY <2>3, <2>5 DEF Read
    <3>2. u \notin DataUnits
      <4>1. \A x \in DOMAIN extents : ~Holder(extents[x], q)
        BY <1>5, <2>4, <2>5
      <4>2. QED
        BY <1>1, <1>4, <2>1, <2>2, <4>1, DataIsHeld
    <3>3. QED
      BY <3>1, <3>2 DEF Declared
  <2>6. CASE hits # {}
    <3>1. hits \in SUBSET (1 .. m)
      BY <1>6, <2>3
    <3>2. hits \in SUBSET Nat /\ IsFiniteSet(hits)
      <4>1. IsFiniteSet(1 .. m)
        BY UpTo
      <4>2. IsFiniteSet(hits)
        BY <3>1, <4>1, FS_Subset
      <4>3. QED
        BY <3>1, <4>2
    <3>3. PICK x : x = Max(hits)
      OBVIOUS
    <3>4. x \in hits /\ x \in 1 .. m
      BY <2>6, <3>1, <3>2, <3>3, MaxOf
    <3>5. Holder(extents[x], q)
      BY <2>4, <3>4
    <3>6. Read(u) = Filled(found[x].start + (u \div BlockUnits - found[x].logical), u % BlockUnits)
      BY <2>3, <2>6, <3>3 DEF Read
    <3>7. found[x].start = extents[x].start /\ found[x].logical = extents[x].logical
      BY <1>7, <3>4
    <3>8. Filled(extents[x].start + (u \div BlockUnits - extents[x].logical), u % BlockUnits) = Declared(u)
      BY <1>1, <1>4, <1>5, <2>1, <2>2, <3>4, <3>5, FilledAsDeclared
    <3>9. QED
      BY <3>6, <3>7, <3>8
  <2>7. QED
    BY <2>5, <2>6
<1>9. QED
  BY <1>3, <1>8

\* A file of at most 2^32 blocks reads back as it was declared, every data
\* byte at its place and zeros in the holes, through the merging of segments,
\* their placement around reserved blocks, the split into extents, the tree
\* and the order of fill().
THEOREM FilesReadBack == Spec => [](NumbersSuffice => ReadsBack)
BY LogicalInvariance, FileReadsBack, PTL
==============================================================================
