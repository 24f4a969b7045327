--------------------------- MODULE CheckingSinkProofs ------------------------
(***************************************************************************)
(* What CheckingSink promises, for images and calls of every length and    *)
(* for any number of calls: its list of ranges is exactly what has been    *)
(* covered, looking at the neighbours is enough to find every overlap, and *)
(* an image that finish() accepts was covered byte for byte, once.         *)
(***************************************************************************)
EXTENDS CheckingSink, FiniteSetTheorems, TLAPS

Interval == [start : Nat, end : Nat]
Call == [offset : Nat, len : Nat, verdict : Verdicts]

TypeInv ==
  /\ image_len \in Nat
  /\ covered \in Seq(Interval)
  /\ recorded \in [Kinds -> SUBSET Nat]
  /\ last \in Call
  /\ calls \in Nat

\* finish() is the last call, so what it saw stays.
WholeStays == last.verdict = "whole" => IsWhole

Disjoint == recorded["data"] \cap recorded["zeros"] = {}

IInv == TypeInv /\ CoverageIsExact /\ Disjoint /\ WholeStays

-----------------------------------------------------------------------------
LEMMA EndsAreNat ==
  ASSUME TypeInv
  PROVE  /\ Len(covered) \in Nat /\ DOMAIN covered = 1 .. Len(covered)
         /\ \A k \in DOMAIN covered : /\ covered[k] \in Interval
                                     /\ covered[k].start \in Nat
                                     /\ covered[k].end \in Nat
<1>1. Len(covered) \in Nat /\ DOMAIN covered = 1 .. Len(covered)
  BY DEF TypeInv
<1>2. ASSUME NEW k \in DOMAIN covered PROVE covered[k] \in Interval
  BY <1>1, <1>2 DEF TypeInv
<1>3. ASSUME NEW r \in Interval PROVE r.start \in Nat /\ r.end \in Nat
  BY <1>3 DEF Interval
<1> QED BY <1>1, <1>2, <1>3

\* What lies beyond a range that is not empty lies beyond what it follows.
LEMMA BelowThroughRange ==
  ASSUME NEW v \in Nat, NEW w \in Nat, NEW x \in Nat, NEW y \in Nat,
         v < w, w < x, x <= y
  PROVE  v < y
OBVIOUS

LEMMA AboveThroughRange ==
  ASSUME NEW v \in Nat, NEW w \in Nat, NEW x \in Nat, NEW y \in Nat,
         v <= w, w < x, x < y
  PROVE  v < y
OBVIOUS

\* record(): if no neighbour of the place overlaps, no range does.
LEMMA NeighboursSuffice ==
  ASSUME TypeInv, RangesAreMaximal,
         NEW offset \in Nat, NEW len \in Nat \ {0}, NEW i \in 0 .. Len(covered),
         IsPoint(i, offset), ~Overlaps(i, offset, len)
  PROVE  /\ \A k \in 1 .. i : covered[k].end <= offset
         /\ \A k \in i + 1 .. Len(covered) : offset + len <= covered[k].start
<1>1. \A k \in 1 .. Len(covered) : covered[k].start \in Nat /\ covered[k].end \in Nat
  BY EndsAreNat
<1>2. DOMAIN covered = 1 .. Len(covered) /\ Len(covered) \in Nat
  BY EndsAreNat
<1>3. ASSUME NEW k \in 1 .. i PROVE covered[k].end <= offset
  <2>1. covered[i].end <= offset
    BY <1>1, <1>2 DEF Overlaps
  <2>2. CASE k = i
    BY <2>1, <2>2
  <2>3. CASE k < i
    <3>1. i \in DOMAIN covered /\ k \in DOMAIN covered
      BY <1>2
    <3>2. covered[k].end < covered[i].start /\ covered[i].start < covered[i].end
      BY <2>3, <3>1 DEF RangesAreMaximal
    <3>3. covered[k].end \in Nat /\ covered[i].start \in Nat /\ covered[i].end \in Nat
      BY <1>1, <3>1
    <3> QED BY <2>1, <3>2, <3>3
  <2> QED BY <2>2, <2>3
<1>4. ASSUME NEW k \in i + 1 .. Len(covered) PROVE offset + len <= covered[k].start
  <2>1. i + 1 \in DOMAIN covered /\ k \in DOMAIN covered
    BY <1>2
  <2>2. offset + len <= covered[i + 1].start
    BY <1>1, <2>1 DEF Overlaps
  <2>3. CASE k = i + 1
    BY <2>2, <2>3
  <2>4. CASE k > i + 1
    <3>1. covered[i + 1].end < covered[k].start /\ covered[i + 1].start < covered[i + 1].end
      BY <2>1, <2>4 DEF RangesAreMaximal
    <3>2. /\ covered[k].start \in Nat
          /\ covered[i + 1].start \in Nat /\ covered[i + 1].end \in Nat
      BY <1>1, <2>1
    <3> QED BY <2>2, <3>1, <3>2
  <2> QED BY <2>3, <2>4
<1> QED BY <1>3, <1>4

\* So a call that is let through shares no byte with earlier ones.
LEMMA AcceptedIsNew ==
  ASSUME TypeInv, RangesAreMaximal,
         NEW offset \in Nat, NEW len \in Nat \ {0}, NEW i \in 0 .. Len(covered),
         IsPoint(i, offset), ~Overlaps(i, offset, len)
  PROVE  Bytes(offset, len) \cap CoveredBytes = {}
<1>1. ASSUME NEW k \in DOMAIN covered, NEW u \in Bytes(offset, len), u \in RangeBytes(covered[k])
      PROVE  FALSE
  <2>1. k \in 1 .. i \/ k \in i + 1 .. Len(covered)
    BY EndsAreNat
  <2>2. covered[k].start \in Nat /\ covered[k].end \in Nat
    BY EndsAreNat
  <2>3. covered[k].end <= offset \/ offset + len <= covered[k].start
    BY <2>1, NeighboursSuffice
  <2> QED BY <1>1, <2>2, <2>3 DEF Bytes, RangeBytes
<1> QED BY <1>1 DEF CoveredBytes

\* And one that is refused shares a byte with a neighbour.
LEMMA RefusedIsOld ==
  ASSUME TypeInv, RangesAreMaximal,
         NEW offset \in Nat, NEW len \in Nat \ {0}, NEW i \in 0 .. Len(covered),
         IsPoint(i, offset), Overlaps(i, offset, len)
  PROVE  Bytes(offset, len) \cap CoveredBytes # {}
<1>1. \A k \in 1 .. Len(covered) : covered[k].start \in Nat /\ covered[k].end \in Nat
  BY EndsAreNat
<1>2. DOMAIN covered = 1 .. Len(covered) /\ Len(covered) \in Nat
  BY EndsAreNat
<1>3. CASE i > 0 /\ covered[i].end > offset
  <2>1. i \in DOMAIN covered /\ i \in 1 .. i
    BY <1>2, <1>3
  <2>2. covered[i].start < offset
    BY <2>1 DEF IsPoint
  <2>3. offset \in RangeBytes(covered[i]) /\ offset \in Bytes(offset, len)
    BY <1>1, <1>2, <1>3, <2>1, <2>2 DEF RangeBytes, Bytes
  <2> QED BY <2>1, <2>3 DEF CoveredBytes
<1>4. CASE i < Len(covered) /\ covered[i + 1].start < offset + len
  <2>1. i + 1 \in DOMAIN covered /\ i + 1 \in i + 1 .. Len(covered)
    BY <1>2, <1>4
  <2>2. offset <= covered[i + 1].start
    BY <1>1, <1>2, <2>1 DEF IsPoint
  <2>3. covered[i + 1].start < covered[i + 1].end
    BY <2>1 DEF RangesAreMaximal
  <2>4. covered[i + 1].start \in RangeBytes(covered[i + 1]) /\ covered[i + 1].start \in Bytes(offset, len)
    BY <1>1, <1>2, <1>4, <2>1, <2>2, <2>3 DEF RangeBytes, Bytes
  <2> QED BY <2>1, <2>4 DEF CoveredBytes
<1> QED BY <1>3, <1>4 DEF Overlaps

-----------------------------------------------------------------------------
\* The places of the new list: those behind the joined range are shifted.
Shift(p, n, length, top) ==
  /\ top \in Nat /\ p + 1 \in 1 .. top /\ ~(p + 1 <= p)
  /\ \A k \in 1 .. top : k \in 1 .. p \/ k = p + 1 \/ k \in p + 2 .. top
  /\ \A k \in 1 .. p : k \in 1 .. top /\ k <= p /\ k \in 1 .. length
  /\ \A k \in p + 2 .. top : /\ k \in 1 .. top /\ ~(k <= p) /\ k # p + 1
                           /\ k - (p + 2) + n \in n .. length
                           /\ k - (p + 2) + n \in 1 .. length
  /\ \A m \in n .. length : /\ m - n + p + 2 \in p + 2 .. top
                         /\ m - n + p + 2 - (p + 2) + n = m

LEMMA Shifted ==
  ASSUME NEW p \in Int, NEW n \in Int, NEW length \in Int, NEW top \in Int,
         0 <= p, p < n, n <= length + 1, top = p + 1 + length - (n - 1)
  PROVE  Shift(p, n, length, top)
BY DEF Shift

\* The list after a call that is let through, element by element: what was
\* kept in front, the joined range, what was kept behind.
Front(i, offset) == IF i > 0 /\ covered[i].end = offset THEN i - 1 ELSE i
Behind(i, offset, len) ==
  IF i < Len(covered) /\ covered[i + 1].start = offset + len THEN i + 2 ELSE i + 1
JoinedStart(i, offset) == IF i > 0 /\ covered[i].end = offset THEN covered[i].start ELSE offset
JoinedEnd(i, offset, len) ==
  IF i < Len(covered) /\ covered[i + 1].start = offset + len THEN covered[i + 1].end
  ELSE offset + len

Form(new, p, n, a, b, length, top, offset, len, i) ==
  /\ p \in 0 .. i /\ n \in i + 1 .. length + 1
  /\ a \in Nat /\ b \in Nat /\ a <= offset /\ offset + len <= b
  /\ new \in Seq(Interval)
  /\ DOMAIN new = 1 .. top
  /\ \A k \in 1 .. p : new[k] = covered[k] /\ covered[k].end < a
  /\ new[p + 1] = [start |-> a, end |-> b]
  /\ \A k \in p + 2 .. top :
       /\ k - (p + 2) + n \in n .. length
       /\ new[k] = covered[k - (p + 2) + n]
       /\ b < covered[k - (p + 2) + n].start

LEMMA CoalescedForm ==
  ASSUME TypeInv, RangesAreMaximal,
         NEW offset \in Nat, NEW len \in Nat \ {0}, NEW i \in 0 .. Len(covered),
         IsPoint(i, offset), ~Overlaps(i, offset, len),
         NEW new, new = Coalesced(i, offset, len),
         NEW p, p = Front(i, offset), NEW n, n = Behind(i, offset, len),
         NEW a, a = JoinedStart(i, offset), NEW b, b = JoinedEnd(i, offset, len),
         NEW top, top = p + 1 + Len(covered) - (n - 1)
  PROVE  Form(new, p, n, a, b, Len(covered), top, offset, len, i)
<1>1. /\ Len(covered) \in Nat /\ DOMAIN covered = 1 .. Len(covered)
      /\ \A k \in 1 .. Len(covered) : /\ covered[k] \in Interval
                                      /\ covered[k].start \in Nat /\ covered[k].end \in Nat
  BY EndsAreNat
<1>2. /\ \A k \in 1 .. i : covered[k].end <= offset
      /\ \A k \in i + 1 .. Len(covered) : offset + len <= covered[k].start
  BY NeighboursSuffice
<1>3. p \in 0 .. i /\ n \in i + 1 .. Len(covered) + 1
  BY <1>1 DEF Front, Behind
<1>4. a \in Nat /\ a <= offset
  <2>1. CASE i > 0 /\ covered[i].end = offset
    <3>1. i \in DOMAIN covered /\ a = covered[i].start
      BY <1>1, <2>1 DEF JoinedStart
    <3>2. covered[i].start < covered[i].end
      BY <3>1 DEF RangesAreMaximal
    <3> QED BY <1>1, <2>1, <3>1, <3>2
  <2>2. CASE ~(i > 0 /\ covered[i].end = offset)
    BY <2>2 DEF JoinedStart
  <2> QED BY <2>1, <2>2
<1>5. b \in Nat /\ offset + len <= b
  <2>1. CASE i < Len(covered) /\ covered[i + 1].start = offset + len
    <3>1. i + 1 \in DOMAIN covered /\ b = covered[i + 1].end
      BY <1>1, <2>1 DEF JoinedEnd
    <3>2. covered[i + 1].start < covered[i + 1].end
      BY <3>1 DEF RangesAreMaximal
    <3> QED BY <1>1, <2>1, <3>1, <3>2
  <2>2. CASE ~(i < Len(covered) /\ covered[i + 1].start = offset + len)
    BY <2>2 DEF JoinedEnd
  <2> QED BY <2>1, <2>2
<1>6. new = [k \in 1 .. top |->
               IF k <= p THEN covered[k]
               ELSE IF k = p + 1 THEN [start |-> a, end |-> b]
               ELSE covered[k - (p + 2) + n]]
  BY DEF Coalesced, Front, Behind, JoinedStart, JoinedEnd
<1>7. p \in Int /\ n \in Int /\ Len(covered) \in Int /\ 0 <= p /\ p < n /\ n <= Len(covered) + 1
  BY <1>1, <1>3
<1>8. Shift(p, n, Len(covered), top)
  <2>1. top \in Int
    BY <1>7
  <2> QED BY <1>7, <2>1, Shifted, Zenon
<1>9. ASSUME NEW k \in p + 2 .. top
      PROVE  k - (p + 2) + n \in n .. Len(covered)
  BY <1>8 DEF Shift
<1>10. [start |-> a, end |-> b] \in Interval
  BY <1>4, <1>5 DEF Interval
<1>11. top \in Nat /\ p + 1 \in 1 .. top /\ ~(p + 1 <= p)
  BY <1>8 DEF Shift
<1>12. DOMAIN new = 1 .. top
  BY <1>6
<1>13. new[p + 1] = [start |-> a, end |-> b]
  BY <1>6, <1>11
<1>14. ASSUME NEW k \in 1 .. p PROVE new[k] = covered[k] /\ covered[k] \in Interval
  <2>1. k \in 1 .. top /\ k <= p /\ k \in 1 .. Len(covered)
    BY <1>8 DEF Shift
  <2>2. new[k] = covered[k]
    BY <1>6, <2>1
  <2> QED BY <1>1, <2>1, <2>2
<1>15. ASSUME NEW k \in p + 2 .. top
       PROVE  new[k] = covered[k - (p + 2) + n] /\ covered[k - (p + 2) + n] \in Interval
  <2>1. /\ k \in 1 .. top /\ ~(k <= p) /\ k # p + 1
        /\ k - (p + 2) + n \in 1 .. Len(covered)
    BY <1>8 DEF Shift
  <2>2. new[k] = covered[k - (p + 2) + n]
    BY <1>6, <2>1
  <2> QED BY <1>1, <2>1, <2>2
<1>16. new \in Seq(Interval)
  <2>1. ASSUME NEW k \in 1 .. top PROVE new[k] \in Interval
    <3>1. k \in 1 .. p \/ k = p + 1 \/ k \in p + 2 .. top
      BY <1>8 DEF Shift
    <3> QED BY <1>10, <1>13, <1>14, <1>15, <3>1
  <2>2. new \in [1 .. top -> Interval]
    BY <1>6, <1>12, <2>1
  <2> QED BY <1>11, <2>2
<1>17. ASSUME NEW k \in 1 .. p PROVE covered[k].end < a
  <2>1. k \in 1 .. i /\ k \in DOMAIN covered
    BY <1>1, <1>3
  <2>2. CASE i > 0 /\ covered[i].end = offset
    <3>1. i \in DOMAIN covered /\ k < i /\ a = covered[i].start
      BY <1>1, <2>2 DEF Front, JoinedStart
    <3> QED BY <2>1, <3>1 DEF RangesAreMaximal
  <2>3. CASE ~(i > 0 /\ covered[i].end = offset)
    <3>1. a = offset /\ covered[k].end <= offset
      BY <1>2, <2>1, <2>3 DEF JoinedStart
    <3>2. CASE k = i
      BY <1>1, <2>1, <2>3, <3>1, <3>2
    <3>3. CASE k < i
      <4>1. i \in 1 .. Len(covered) /\ i \in 1 .. i
        BY <1>1, <2>1, <3>3
      <4>2. covered[k].end < covered[i].start
        BY <1>1, <2>1, <3>3, <4>1 DEF RangesAreMaximal
      <4>3. covered[i].start < covered[i].end /\ covered[i].end <= offset
        BY <1>1, <1>2, <4>1 DEF RangesAreMaximal
      <4>4. covered[k].end \in Nat /\ covered[i].start \in Nat /\ covered[i].end \in Nat
        BY <1>1, <2>1, <4>1
      <4>5. covered[k].end < offset
        BY <4>2, <4>3, <4>4, BelowThroughRange, Zenon
      <4> QED BY <3>1, <4>5, Zenon
    <3> QED BY <2>1, <3>2, <3>3
  <2> QED BY <2>2, <2>3
<1>18. ASSUME NEW m \in n .. Len(covered) PROVE b < covered[m].start
  <2>1. m \in i + 1 .. Len(covered) /\ m \in DOMAIN covered
    BY <1>1, <1>3
  <2>2. CASE i < Len(covered) /\ covered[i + 1].start = offset + len
    <3>1. i + 1 \in DOMAIN covered /\ i + 1 < m /\ b = covered[i + 1].end
      BY <1>1, <2>2 DEF Behind, JoinedEnd
    <3> QED BY <2>1, <3>1 DEF RangesAreMaximal
  <2>3. CASE ~(i < Len(covered) /\ covered[i + 1].start = offset + len)
    <3>1. b = offset + len /\ offset + len <= covered[m].start
      BY <1>2, <2>1, <2>3 DEF JoinedEnd
    <3>2. CASE m = i + 1
      <4>1. i < Len(covered) /\ covered[m].start # offset + len
        BY <1>1, <2>1, <2>3, <3>2
      <4>2. covered[m].start \in Nat
        BY <1>1, <2>1
      <4> QED BY <3>1, <4>1, <4>2
    <3>3. CASE i + 1 < m
      <4>1. i + 1 \in 1 .. Len(covered) /\ i + 1 \in i + 1 .. Len(covered)
        BY <1>1, <2>1, <3>3
      <4>2. covered[i + 1].end < covered[m].start
        BY <1>1, <2>1, <3>3, <4>1 DEF RangesAreMaximal
      <4>3. covered[i + 1].start < covered[i + 1].end /\ offset + len <= covered[i + 1].start
        BY <1>1, <1>2, <4>1 DEF RangesAreMaximal
      <4>4. /\ covered[m].start \in Nat
            /\ covered[i + 1].start \in Nat /\ covered[i + 1].end \in Nat
        BY <1>1, <2>1, <4>1
      <4>5. offset + len \in Nat
        OBVIOUS
      <4>6. offset + len < covered[m].start
        BY <4>2, <4>3, <4>4, <4>5, AboveThroughRange, Zenon
      <4> QED BY <3>1, <4>6, Zenon
    <3> QED BY <2>1, <3>2, <3>3
  <2> QED BY <2>2, <2>3
<1> QED BY <1>3, <1>4, <1>5, <1>9, <1>12, <1>13, <1>14, <1>15, <1>16, <1>17, <1>18 DEF Form

\* Shared hypotheses: the place of a call that is let through.
LetThrough(i, offset, len) ==
  /\ TypeInv /\ RangesAreMaximal
  /\ offset \in Nat /\ len \in Nat \ {0} /\ i \in 0 .. Len(covered)
  /\ IsPoint(i, offset) /\ ~Overlaps(i, offset, len)

Maximal(ranges) ==
  /\ \A k \in DOMAIN ranges : ranges[k].start < ranges[k].end
  /\ \A j, k \in DOMAIN ranges : j < k => ranges[j].end < ranges[k].start

\* The new list is as short as can be ...
LEMMA CoalescedIsMaximal ==
  ASSUME NEW offset, NEW len, NEW i, LetThrough(i, offset, len),
         NEW new, new = Coalesced(i, offset, len)
  PROVE  new \in Seq(Interval) /\ Maximal(new)
<1>p. PICK p : p = Front(i, offset)
  OBVIOUS
<1>n. PICK n : n = Behind(i, offset, len)
  OBVIOUS
<1>a. PICK a : a = JoinedStart(i, offset)
  OBVIOUS
<1>b. PICK b : b = JoinedEnd(i, offset, len)
  OBVIOUS
<1>length. PICK length : length = Len(covered)
  OBVIOUS
<1>top. PICK top : top = p + 1 + length - (n - 1)
  OBVIOUS
<1>1. /\ p \in 0 .. i /\ n \in i + 1 .. length + 1
      /\ a \in Nat /\ b \in Nat /\ a <= offset /\ offset + len <= b
      /\ new \in Seq(Interval)
      /\ DOMAIN new = 1 .. top
      /\ \A k \in 1 .. p : new[k] = covered[k] /\ covered[k].end < a
      /\ new[p + 1] = [start |-> a, end |-> b]
      /\ \A k \in p + 2 .. top :
           /\ k - (p + 2) + n \in n .. length
           /\ new[k] = covered[k - (p + 2) + n]
           /\ b < covered[k - (p + 2) + n].start
  <2>1. top = p + 1 + Len(covered) - (n - 1)
    BY <1>length, <1>top
  <2>2. /\ TypeInv /\ RangesAreMaximal
        /\ offset \in Nat /\ len \in Nat \ {0} /\ i \in 0 .. Len(covered)
        /\ IsPoint(i, offset) /\ ~Overlaps(i, offset, len)
    BY DEF LetThrough
  <2>3. Form(new, p, n, a, b, Len(covered), top, offset, len, i)
    BY <1>p, <1>n, <1>a, <1>b, <2>1, <2>2, CoalescedForm, Zenon
  <2> QED BY <1>length, <2>3 DEF Form
<1>2. offset \in Nat /\ len \in Nat \ {0} /\ i \in 0 .. length /\ length \in Nat
  BY <1>length, EndsAreNat DEF LetThrough
<1>3. a < b
  BY <1>1, <1>2
<1>4. /\ DOMAIN covered = 1 .. length
      /\ \A k \in DOMAIN covered : covered[k].start \in Nat /\ covered[k].end \in Nat
  BY <1>length, EndsAreNat DEF LetThrough
<1>5. \A j, k \in DOMAIN covered : j < k => covered[j].end < covered[k].start
  BY DEF LetThrough, RangesAreMaximal
<1>6. \A k \in DOMAIN covered : covered[k].start < covered[k].end
  BY DEF LetThrough, RangesAreMaximal
<1>7. p \in Int /\ n \in Int /\ length \in Int /\ top \in Int /\ 0 <= p /\ p < n /\ n <= length + 1
  BY <1>1, <1>2, <1>top
<1>8. \A k \in 1 .. top : k \in 1 .. p \/ k = p + 1 \/ k \in p + 2 .. top
  BY <1>7, <1>top, Shifted DEF Shift
<1>9. \A k \in 1 .. p : k \in DOMAIN covered
  BY <1>1, <1>2, <1>4
<1>10. \A k \in p + 2 .. top : k - (p + 2) + n \in DOMAIN covered
  BY <1>4, <1>7, <1>top, Shifted DEF Shift
<1>11. new[p + 1].start = a /\ new[p + 1].end = b
  BY <1>1
<1>12. ASSUME NEW k \in 1 .. top PROVE new[k].start < new[k].end
  <2>1. CASE k \in 1 .. p
    BY <1>1, <1>6, <1>9, <2>1
  <2>2. CASE k = p + 1
    BY <1>3, <1>11, <2>2
  <2>3. CASE k \in p + 2 .. top
    BY <1>1, <1>6, <1>10, <2>3
  <2> QED BY <1>8, <2>1, <2>2, <2>3
<1>13. ASSUME NEW j \in 1 .. top, NEW k \in 1 .. top, j < k PROVE new[j].end < new[k].start
  <2>1. CASE j \in 1 .. p
    <3>1. new[j].end = covered[j].end /\ covered[j].end < a /\ j \in DOMAIN covered
      BY <1>1, <1>9, <2>1
    <3>2. CASE k \in 1 .. p
      BY <1>1, <1>5, <1>9, <1>13, <2>1, <3>2
    <3>3. CASE k = p + 1
      BY <1>11, <3>1, <3>3
    <3>4. CASE k \in p + 2 .. top
      <4>1. b < new[k].start /\ new[k].start \in Nat
        BY <1>1, <1>4, <1>10, <3>4
      <4>2. covered[j].end \in Nat /\ a \in Nat /\ b \in Nat
        BY <1>1, <1>4, <3>1
      <4> QED BY <1>3, <3>1, <4>1, <4>2
    <3> QED BY <1>8, <3>2, <3>3, <3>4
  <2>2. CASE j = p + 1
    <3>1. k \in p + 2 .. top
      BY <1>1, <1>13, <2>2
    <3> QED BY <1>1, <1>11, <2>2, <3>1
  <2>3. CASE j \in p + 2 .. top
    <3>1. k \in p + 2 .. top
      BY <1>1, <1>13, <2>3
    <3>2. j - (p + 2) + n < k - (p + 2) + n
      BY <1>1, <1>13
    <3>3. /\ new[j] = covered[j - (p + 2) + n] /\ j - (p + 2) + n \in DOMAIN covered
          /\ new[k] = covered[k - (p + 2) + n] /\ k - (p + 2) + n \in DOMAIN covered
      BY <1>1, <1>10, <2>3, <3>1
    <3> QED BY <1>5, <3>2, <3>3
  <2> QED BY <1>8, <2>1, <2>2, <2>3
<1> QED BY <1>1, <1>12, <1>13 DEF Maximal

\* ... and has the bytes of the old one and those of the call.
LEMMA CoalescedCovers ==
  ASSUME NEW offset, NEW len, NEW i, LetThrough(i, offset, len),
         NEW new, new = Coalesced(i, offset, len)
  PROVE  UNION {RangeBytes(new[k]) : k \in DOMAIN new} = CoveredBytes \cup Bytes(offset, len)
<1>p. PICK p : p = Front(i, offset)
  OBVIOUS
<1>n. PICK n : n = Behind(i, offset, len)
  OBVIOUS
<1>a. PICK a : a = JoinedStart(i, offset)
  OBVIOUS
<1>b. PICK b : b = JoinedEnd(i, offset, len)
  OBVIOUS
<1>length. PICK length : length = Len(covered)
  OBVIOUS
<1>top. PICK top : top = p + 1 + length - (n - 1)
  OBVIOUS
<1>1. /\ p \in 0 .. i /\ n \in i + 1 .. length + 1
      /\ a \in Nat /\ b \in Nat /\ a <= offset /\ offset + len <= b
      /\ DOMAIN new = 1 .. top
      /\ \A k \in 1 .. p : new[k] = covered[k]
      /\ new[p + 1] = [start |-> a, end |-> b]
      /\ \A k \in p + 2 .. top :
           /\ k - (p + 2) + n \in n .. length
           /\ new[k] = covered[k - (p + 2) + n]
  <2>1. top = p + 1 + Len(covered) - (n - 1)
    BY <1>length, <1>top
  <2>2. /\ TypeInv /\ RangesAreMaximal
        /\ offset \in Nat /\ len \in Nat \ {0} /\ i \in 0 .. Len(covered)
        /\ IsPoint(i, offset) /\ ~Overlaps(i, offset, len)
    BY DEF LetThrough
  <2>3. Form(new, p, n, a, b, Len(covered), top, offset, len, i)
    BY <1>p, <1>n, <1>a, <1>b, <2>1, <2>2, CoalescedForm, Zenon
  <2> QED BY <1>length, <2>3 DEF Form
<1>2. offset \in Nat /\ len \in Nat \ {0} /\ i \in 0 .. length /\ length \in Nat
  BY <1>length, EndsAreNat DEF LetThrough
<1>3. /\ DOMAIN covered = 1 .. length
      /\ \A k \in DOMAIN covered : covered[k].start \in Nat /\ covered[k].end \in Nat
  BY <1>length, EndsAreNat DEF LetThrough
<1>4. p \in Int /\ n \in Int /\ length \in Int /\ top \in Int /\ 0 <= p /\ p < n /\ n <= length + 1
  BY <1>1, <1>2, <1>top
<1>5. /\ \A k \in 1 .. top : k \in 1 .. p \/ k = p + 1 \/ k \in p + 2 .. top
      /\ \A k \in p + 2 .. top : k \in 1 .. top /\ k - (p + 2) + n \in 1 .. length
      /\ \A m \in n .. length : /\ m - n + p + 2 \in p + 2 .. top
                              /\ m - n + p + 2 - (p + 2) + n = m
      /\ p + 1 \in 1 .. top
  BY <1>4, <1>top, Shifted DEF Shift
<1>6. ASSUME NEW k \in 1 .. p PROVE k \in DOMAIN covered /\ k \in DOMAIN new
  <2>1. k \in Int /\ 1 <= k /\ k <= p /\ p <= length /\ p + 1 <= top
    BY <1>4, <1>5
  <2> QED BY <1>1, <1>3, <1>4, <2>1
<1>7. RangeBytes(new[p + 1]) = a .. b - 1
  BY <1>1 DEF RangeBytes
<1>8. ASSUME NEW u \in Bytes(offset, len) PROVE u \in RangeBytes(new[p + 1])
  <2>1. u \in Int /\ offset <= u /\ u <= offset + len - 1
    BY <1>2 DEF Bytes
  <2> QED BY <1>1, <1>2, <1>7, <2>1
<1>9. ASSUME NEW k \in DOMAIN covered, NEW u \in RangeBytes(covered[k])
      PROVE  \E m \in DOMAIN new : u \in RangeBytes(new[m])
  <2>1. CASE k \in 1 .. p
    BY <1>1, <1>6, <2>1
  <2>2. CASE k \in n .. length
    <3>1. k - n + p + 2 \in DOMAIN new /\ new[k - n + p + 2] = covered[k]
      BY <1>1, <1>5, <2>2
    <3> QED BY <3>1
  <2>3. CASE k = i /\ i > 0 /\ covered[i].end = offset
    <3>1. a = covered[i].start
      BY <1>a, <2>3 DEF JoinedStart
    <3>2. u \in Int /\ a <= u /\ u <= offset - 1
      BY <1>2, <1>3, <2>3, <3>1 DEF RangeBytes
    <3> QED BY <1>1, <1>2, <1>5, <1>7, <3>2
  <2>4. CASE k = i + 1 /\ i < length /\ covered[i + 1].start = offset + len
    <3>1. b = covered[i + 1].end
      BY <1>b, <1>length, <2>4 DEF JoinedEnd
    <3>2. u \in Int /\ offset + len <= u /\ u <= b - 1
      BY <1>2, <1>3, <2>4, <3>1 DEF RangeBytes
    <3> QED BY <1>1, <1>2, <1>5, <1>7, <3>2
  <2>5. k \in 1 .. length
    BY <1>3
  <2>6. k \in 1 .. p \/ k \in n .. length \/ k \in p + 1 .. n - 1
    BY <1>4, <2>5
  <2>7. CASE k \in p + 1 .. n - 1
    <3>1. \/ p = i /\ ~(i > 0 /\ covered[i].end = offset)
          \/ p = i - 1 /\ i > 0 /\ covered[i].end = offset
      BY <1>2, <1>p DEF Front
    <3>2. \/ n = i + 1 /\ ~(i < length /\ covered[i + 1].start = offset + len)
          \/ n = i + 2 /\ i < length /\ covered[i + 1].start = offset + len
      BY <1>2, <1>n, <1>length DEF Behind
    <3>3. \/ k = i /\ p = i - 1
          \/ k = i + 1 /\ n = i + 2
      BY <1>2, <2>5, <2>7, <3>1, <3>2
    <3> QED BY <1>2, <2>3, <2>4, <3>1, <3>2, <3>3
  <2> QED BY <2>1, <2>2, <2>6, <2>7
<1>10. ASSUME NEW k \in DOMAIN new, NEW u \in RangeBytes(new[k])
       PROVE  u \in CoveredBytes \cup Bytes(offset, len)
  <2>1. CASE k \in 1 .. p
    BY <1>1, <1>6, <2>1 DEF CoveredBytes
  <2>2. CASE k \in p + 2 .. top
    BY <1>1, <1>3, <1>5, <2>2 DEF CoveredBytes
  <2>3. CASE k = p + 1
    <3>1. u \in Int /\ a <= u /\ u <= b - 1
      BY <1>1, <1>7, <2>3
    <3>2. CASE u < offset
      <4>1. i > 0 /\ covered[i].end = offset /\ a = covered[i].start
        BY <1>2, <1>a, <3>1, <3>2 DEF JoinedStart
      <4>2. i \in DOMAIN covered /\ u \in RangeBytes(covered[i])
        BY <1>2, <1>3, <3>1, <3>2, <4>1 DEF RangeBytes
      <4> QED BY <4>2 DEF CoveredBytes
    <3>3. CASE offset + len <= u
      <4>1. i < length /\ covered[i + 1].start = offset + len /\ b = covered[i + 1].end
        BY <1>2, <1>b, <1>length, <3>1, <3>3 DEF JoinedEnd
      <4>2. i + 1 \in DOMAIN covered /\ u \in RangeBytes(covered[i + 1])
        BY <1>2, <1>3, <3>1, <3>3, <4>1 DEF RangeBytes
      <4> QED BY <4>2 DEF CoveredBytes
    <3>4. CASE offset <= u /\ u < offset + len
      BY <1>2, <3>1, <3>4 DEF Bytes
    <3> QED BY <1>2, <3>1, <3>2, <3>3, <3>4
  <2> QED BY <1>1, <1>5, <2>1, <2>2, <2>3
<1> QED BY <1>1, <1>5, <1>8, <1>9, <1>10 DEF CoveredBytes

-----------------------------------------------------------------------------
LEMMA InitHolds == Init => IInv
<1> SUFFICES ASSUME Init PROVE IInv
  OBVIOUS
<1>1. TypeInv
  BY SinkAssumption DEF Init, TypeInv, Kinds, Call, Verdicts
<1>2. CoveredBytes = {} /\ Recorded = {} /\ Disjoint
  BY DEF Init, CoveredBytes, Recorded, Disjoint, Kinds
<1>3. RangesAreMaximal
  BY DEF Init, RangesAreMaximal
<1>4. WholeStays
  BY DEF Init, WholeStays
<1> QED BY <1>1, <1>2, <1>3, <1>4 DEF IInv, CoverageIsExact

\* Steps that leave the list alone.
LEMMA UnchangedList ==
  ASSUME IInv, UNCHANGED <<image_len, covered, recorded>>,
         calls' \in Nat, last' \in Call, WholeStays'
  PROVE  IInv'
<1>1. TypeInv'
  BY DEF IInv, TypeInv
<1>2. CoverageIsExact' /\ Disjoint'
  BY DEF IInv, CoverageIsExact, RangesAreMaximal, CoveredBytes, RangeBytes, Recorded, Disjoint
<1> QED BY <1>1, <1>2 DEF IInv

LEMMA ForwardIsNotWhole ==
  ASSUME NEW kind, NEW offset \in Nat, NEW len \in Nat, Forward(kind, offset, len),
         calls \in Nat
  PROVE  /\ last' \in Call /\ last'.verdict # "whole" /\ last'.verdict # "overlap"
         /\ last'.len = len /\ last'.offset = offset
         /\ calls' = calls + 1 /\ UNCHANGED image_len
<1>1. PICK verdict \in {"accepted", "failed"} : Called(offset, len, verdict)
  BY DEF Forward
<1>2. last' = [offset |-> offset, len |-> len, verdict |-> verdict] /\ verdict \in Verdicts
  BY <1>1 DEF Called, Verdicts
<1>3. last' \in Call
  BY <1>2 DEF Call
<1>4. last'.verdict = verdict /\ verdict # "whole" /\ verdict # "overlap"
  BY <1>1, <1>2
<1> QED BY <1>1, <1>2, <1>3, <1>4 DEF Called

LEMMA AcceptedStep ==
  ASSUME IInv, NEW kind \in Kinds, NEW offset \in Nat, NEW len \in Nat,
         AcceptedCall(kind, offset, len)
  PROVE  IInv' /\ Bytes(offset, len) \cap Recorded = {}
<1>1. len \in Nat \ {0}
  BY DEF AcceptedCall
<1>2. PICK i \in 0 .. Len(covered) : /\ IsPoint(i, offset)
                                     /\ ~Overlaps(i, offset, len)
                                     /\ covered' = Coalesced(i, offset, len)
  BY DEF AcceptedCall
<1>3. LetThrough(i, offset, len)
  BY <1>1, <1>2 DEF IInv, CoverageIsExact, LetThrough
<1>4. PICK new : new = Coalesced(i, offset, len)
  OBVIOUS
<1>5. new \in Seq(Interval) /\ Maximal(new)
  BY <1>3, <1>4, CoalescedIsMaximal
<1>6. UNION {RangeBytes(new[k]) : k \in DOMAIN new} = CoveredBytes \cup Bytes(offset, len)
  BY <1>3, <1>4, CoalescedCovers
<1>7. covered' = new
  BY <1>2, <1>4
<1>8. Bytes(offset, len) \cap Recorded = {}
  BY <1>1, <1>2, AcceptedIsNew DEF IInv, CoverageIsExact
<1>9. recorded' = [recorded EXCEPT ![kind] = @ \cup Bytes(offset, len)]
  BY DEF AcceptedCall
<1>10. recorded \in [Kinds -> SUBSET Nat] /\ Kinds = {"data", "zeros"}
  BY DEF IInv, TypeInv, Kinds
<1>11. Bytes(offset, len) \subseteq Nat
  BY <1>1 DEF Bytes
<1>12. recorded' \in [Kinds -> SUBSET Nat]
  BY <1>9, <1>10, <1>11
<1>13. Recorded' = Recorded \cup Bytes(offset, len)
  BY <1>9, <1>10 DEF Recorded
<1>14. Disjoint'
  <2>1. CASE kind = "data"
    BY <1>8, <1>9, <1>10, <2>1 DEF IInv, Disjoint, Recorded
  <2>2. CASE kind = "zeros"
    BY <1>8, <1>9, <1>10, <2>2 DEF IInv, Disjoint, Recorded
  <2> QED BY <1>10, <2>1, <2>2
<1>15. last' \in Call /\ last'.verdict # "whole" /\ calls' = calls + 1 /\ UNCHANGED image_len
  BY ForwardIsNotWhole DEF AcceptedCall, IInv, TypeInv
<1>16. TypeInv'
  BY <1>5, <1>7, <1>12, <1>15 DEF IInv, TypeInv
<1>17. RangesAreMaximal'
  BY <1>5, <1>7 DEF RangesAreMaximal, Maximal
<1>18. CoveredBytes' = CoveredBytes \cup Bytes(offset, len)
  BY <1>6, <1>7 DEF CoveredBytes, RangeBytes
<1>19. CoverageIsExact'
  BY <1>13, <1>17, <1>18 DEF IInv, CoverageIsExact
<1> QED BY <1>8, <1>14, <1>15, <1>16, <1>19 DEF IInv, WholeStays

LEMMA OverlappingStep ==
  ASSUME IInv, NEW kind \in Kinds, NEW offset \in Nat, NEW len \in Nat,
         OverlappingCall(kind, offset, len)
  PROVE  IInv' /\ Bytes(offset, len) \cap Recorded # {}
<1>1. len \in Nat \ {0}
  BY DEF OverlappingCall
<1>2. PICK i \in 0 .. Len(covered) : IsPoint(i, offset) /\ Overlaps(i, offset, len)
  BY DEF OverlappingCall
<1>3. Bytes(offset, len) \cap Recorded # {}
  BY <1>1, <1>2, RefusedIsOld DEF IInv, CoverageIsExact
<1>4. /\ UNCHANGED <<image_len, covered, recorded>>
      /\ last' \in Call /\ last'.verdict = "overlap" /\ calls' = calls + 1
  BY DEF OverlappingCall, Called, Call, Verdicts
<1>5. calls' \in Nat /\ WholeStays'
  BY <1>4 DEF IInv, TypeInv, WholeStays
<1> QED BY <1>3, <1>4, <1>5, UnchangedList

LEMMA NextHolds == IInv /\ [Next]_sinkVars => IInv'
<1> SUFFICES ASSUME IInv, [Next]_sinkVars PROVE IInv'
  OBVIOUS
<1>1. ASSUME NEW kind \in Kinds, NEW offset \in 0 .. CallEnd, EmptyCall(kind, offset) PROVE IInv'
  <2>1. /\ UNCHANGED <<image_len, covered, recorded>>
        /\ last' \in Call /\ last'.verdict # "whole" /\ calls' = calls + 1
    BY <1>1, SinkAssumption, ForwardIsNotWhole DEF EmptyCall, IInv, TypeInv
  <2>2. calls' \in Nat /\ WholeStays'
    BY <2>1 DEF IInv, TypeInv, WholeStays
  <2> QED BY <2>1, <2>2, UnchangedList
<1>2. ASSUME NEW kind \in Kinds, NEW offset \in 0 .. CallEnd, NEW len \in 1 .. CallEnd - offset,
             AcceptedCall(kind, offset, len)
      PROVE  IInv'
  <2>1. offset \in Nat /\ len \in Nat
    BY SinkAssumption
  <2> QED BY <1>2, <2>1, AcceptedStep
<1>3. ASSUME NEW kind \in Kinds, NEW offset \in 0 .. CallEnd, NEW len \in 1 .. CallEnd - offset,
             OverlappingCall(kind, offset, len)
      PROVE  IInv'
  <2>1. offset \in Nat /\ len \in Nat
    BY SinkAssumption
  <2> QED BY <1>3, <2>1, OverlappingStep
<1>4. CASE Finish
  <2>1. UNCHANGED <<image_len, covered, recorded, calls>>
    BY <1>4 DEF Finish
  <2>2. last' \in Call /\ (last'.verdict = "whole" => IsWhole)
    BY <1>4 DEF Finish, IInv, TypeInv, Call, Verdicts
  <2>3. calls' \in Nat /\ WholeStays'
    BY <2>1, <2>2 DEF IInv, TypeInv, WholeStays, IsWhole
  <2> QED BY <2>1, <2>2, <2>3, UnchangedList
<1>5. CASE UNCHANGED sinkVars
  <2>1. /\ UNCHANGED <<image_len, covered, recorded>>
        /\ calls' \in Nat /\ last' \in Call /\ WholeStays'
    BY <1>5 DEF sinkVars, IInv, TypeInv, WholeStays, IsWhole
  <2> QED BY <2>1, UnchangedList
<1> QED BY <1>1, <1>2, <1>3, <1>4, <1>5 DEF Next

LEMMA Invariance == Spec => []IInv
BY InitHolds, NextHolds, PTL DEF Spec

-----------------------------------------------------------------------------
\* After any calls, the list of CheckingSink is what record() let through, in
\* the fewest ranges.
THEOREM ListIsExact == Spec => []CoverageIsExact
<1>1. IInv => CoverageIsExact
  BY DEF IInv
<1> QED BY <1>1, Invariance, PTL

\* record() refuses a call as an overlap exactly when it has a byte that an
\* earlier call had, although it looks at two neighbours only.
THEOREM OverlapsAreRefused == Spec => RefusesExactlyOverlaps
<1> DEFINE Refuses ==
      calls' # calls /\ last'.len > 0 =>
        (last'.verdict = "overlap" <=> Bytes(last'.offset, last'.len) \cap Recorded # {})
<1>1. IInv /\ [Next]_sinkVars => [Refuses]_sinkVars
  <2> SUFFICES ASSUME IInv, Next PROVE Refuses
    OBVIOUS
  <2>1. ASSUME NEW kind \in Kinds, NEW offset \in 0 .. CallEnd, EmptyCall(kind, offset)
        PROVE  Refuses
    <3>1. last'.len = 0
      BY <2>1, SinkAssumption, ForwardIsNotWhole DEF EmptyCall, IInv, TypeInv
    <3> QED BY <3>1
  <2>2. ASSUME NEW kind \in Kinds, NEW offset \in 0 .. CallEnd,
               NEW len \in 1 .. CallEnd - offset, AcceptedCall(kind, offset, len)
        PROVE  Refuses
    <3>1. offset \in Nat /\ len \in Nat
      BY SinkAssumption
    <3>2. Bytes(offset, len) \cap Recorded = {}
      BY <2>2, <3>1, AcceptedStep
    <3>3. last'.verdict # "overlap" /\ last'.len = len /\ last'.offset = offset
      BY <2>2, <3>1, ForwardIsNotWhole DEF AcceptedCall, IInv, TypeInv
    <3> QED BY <3>2, <3>3
  <2>3. ASSUME NEW kind \in Kinds, NEW offset \in 0 .. CallEnd,
               NEW len \in 1 .. CallEnd - offset, OverlappingCall(kind, offset, len)
        PROVE  Refuses
    <3>1. offset \in Nat /\ len \in Nat
      BY SinkAssumption
    <3>2. Bytes(offset, len) \cap Recorded # {}
      BY <2>3, <3>1, OverlappingStep
    <3>3. last'.verdict = "overlap" /\ last'.len = len /\ last'.offset = offset
      BY <2>3 DEF OverlappingCall, Called
    <3> QED BY <3>2, <3>3
  <2>4. CASE Finish
    BY <2>4 DEF Finish
  <2> QED BY <2>1, <2>2, <2>3, <2>4 DEF Next
<1>2. Spec => [][Refuses]_sinkVars
  BY <1>1, Invariance, PTL DEF Spec
<1> QED BY <1>2 DEF RefusesExactlyOverlaps

\* The only range there is at a finish() that accepts is the image.
LEMMA WholeMeansCovered ==
  ASSUME IInv, last.verdict = "whole"
  PROVE  CoveredOnce
<1>1. covered = << [start |-> 0, end |-> image_len] >> /\ image_len \in Nat
  BY DEF IInv, WholeStays, IsWhole, TypeInv
<1>2. DOMAIN covered = {1} /\ covered[1].start = 0 /\ covered[1].end = image_len
  BY <1>1
<1>3. CoveredBytes = RangeBytes(covered[1])
  BY <1>2 DEF CoveredBytes
<1>4. CoveredBytes = 0 .. image_len - 1
  BY <1>2, <1>3 DEF RangeBytes
<1> QED BY <1>4 DEF IInv, CoverageIsExact, Disjoint, CoveredOnce

-----------------------------------------------------------------------------
(* The inner sinks. *)

\* n bytes: ones where there is data, and all the data.
Holds(bytes, n, data) ==
  /\ bytes = [u \in 0 .. n - 1 |-> IF u \in data THEN 1 ELSE 0]
  /\ data \subseteq 0 .. n - 1

\* VecSink has grown to take whatever was recorded.
BufHolds == \E n \in Nat : Holds(buf, n, recorded["data"]) /\ Recorded \subseteq 0 .. n - 1

\* FileSink has only grown for data.
FileHolds ==
  ~failures => \E n \in Nat : /\ Holds(file, n, recorded["data"])
                              /\ image_len <= n
                              /\ n = image_len \/ n - 1 \in recorded["data"]

Grown(n, offset, len) == IF n < offset + len THEN offset + len ELSE n

\* Bytes that had no data are overwritten.
LEMMA WrittenHolds ==
  ASSUME NEW bytes, NEW n \in Nat, NEW data, Holds(bytes, n, data),
         NEW kind \in Kinds, NEW offset \in Nat, NEW len \in Nat,
         Bytes(offset, len) \cap data = {},
         NEW after, after = IF kind = "data" THEN data \cup Bytes(offset, len) ELSE data
  PROVE  /\ Holds(Written(bytes, kind, offset, len), Grown(n, offset, len), after)
         /\ Grown(n, offset, len) \in Nat /\ n <= Grown(n, offset, len)
         /\ Bytes(offset, len) \subseteq 0 .. Grown(n, offset, len) - 1
<1>1. PICK m : m = Grown(n, offset, len)
  OBVIOUS
<1>2. m \in Nat /\ n <= m /\ offset + len <= m
  BY <1>1 DEF Grown
<1>3. /\ \A u \in 0 .. n - 1 : u \in 0 .. m - 1
      /\ \A u \in Bytes(offset, len) : u \in 0 .. m - 1
  BY <1>2 DEF Bytes
<1>4. DOMAIN bytes = 0 .. n - 1 /\ Cardinality(DOMAIN bytes) = n
  <2>1. DOMAIN bytes = 0 .. n - 1
    BY DEF Holds
  <2>2. Cardinality(0 .. n - 1) = n
    BY FS_Interval
  <2> QED BY <2>1, <2>2
<1>5. Written(bytes, kind, offset, len)
        = [u \in 0 .. m - 1 |-> IF u \in Bytes(offset, len) THEN Fill(kind)
                                ELSE IF u < n THEN bytes[u] ELSE 0]
  BY <1>1, <1>4 DEF Written, Grown
<1>6. ASSUME NEW u \in 0 .. m - 1
      PROVE  (IF u \in Bytes(offset, len) THEN Fill(kind) ELSE IF u < n THEN bytes[u] ELSE 0)
               = IF u \in after THEN 1 ELSE 0
  <2>1. CASE u \in Bytes(offset, len)
    <3>1. u \notin data
      BY <2>1
    <3>2. CASE kind = "data"
      BY <2>1, <3>2 DEF Fill
    <3>3. CASE kind = "zeros"
      BY <2>1, <3>1, <3>3 DEF Fill
    <3> QED BY <3>2, <3>3 DEF Kinds
  <2>2. CASE u \notin Bytes(offset, len)
    <3>1. u \in after <=> u \in data
      BY <2>2
    <3>2. CASE u < n
      <4>1. u \in 0 .. n - 1
        BY <1>2, <3>2
      <4>2. bytes[u] = IF u \in data THEN 1 ELSE 0
        BY <4>1 DEF Holds
      <4> QED BY <2>2, <3>1, <3>2, <4>2
    <3>3. CASE ~ (u < n)
      <4>1. u \notin 0 .. n - 1
        BY <1>2, <3>3
      <4>2. u \notin data
        BY <4>1 DEF Holds
      <4> QED BY <2>2, <3>1, <3>3, <4>2
    <3> QED BY <3>2, <3>3
  <2> QED BY <2>1, <2>2
<1>7. Written(bytes, kind, offset, len) = [u \in 0 .. m - 1 |-> IF u \in after THEN 1 ELSE 0]
  BY <1>5, <1>6
<1>8. after \subseteq 0 .. m - 1
  <2>1. data \subseteq 0 .. m - 1
    BY <1>3 DEF Holds
  <2> QED BY <1>3, <2>1
<1> QED BY <1>1, <1>2, <1>3, <1>7, <1>8 DEF Holds

\* The inner sinks get what has been let through, or nothing.
LEMMA ForwardHolds ==
  ASSUME IInv, BufHolds, FileHolds,
         NEW kind \in Kinds, NEW offset \in Nat, NEW len \in Nat,
         Forward(kind, offset, len), Bytes(offset, len) \cap recorded["data"] = {},
         recorded'["data"] = IF kind = "data" THEN recorded["data"] \cup Bytes(offset, len)
                             ELSE recorded["data"],
         Recorded' = Recorded \cup Bytes(offset, len)
  PROVE  BufHolds' /\ FileHolds'
<1> DEFINE data == recorded["data"]
           after == recorded'["data"]
<1>1. BufHolds'
  <2>1. PICK n \in Nat : Holds(buf, n, data) /\ Recorded \subseteq 0 .. n - 1
    BY DEF BufHolds
  <2>2. PICK m : m = Grown(n, offset, len)
    OBVIOUS
  <2>3. /\ Holds(Written(buf, kind, offset, len), m, after)
        /\ m \in Nat /\ n <= m /\ Bytes(offset, len) \subseteq 0 .. m - 1
    BY <2>1, <2>2, WrittenHolds
  <2>4. Holds(buf', m, after)
    BY <2>3 DEF Forward
  <2>5. \A u \in 0 .. n - 1 : u \in 0 .. m - 1
    BY <2>3
  <2>6. Recorded' \subseteq 0 .. m - 1
    BY <2>1, <2>3, <2>5
  <2> QED BY <2>3, <2>4, <2>6 DEF BufHolds
<1>2. FileHolds'
  <2> SUFFICES ASSUME ~failures'
               PROVE  \E n \in Nat : /\ Holds(file', n, after)
                                     /\ image_len' <= n
                                     /\ n = image_len' \/ n - 1 \in after
    BY DEF FileHolds
  <2>1. ~failures /\ file' = FileAfter(kind, offset, len) /\ image_len' = image_len
    BY DEF Forward, Called
  <2>2. PICK n \in Nat : /\ Holds(file, n, data)
                         /\ image_len <= n
                         /\ n = image_len \/ n - 1 \in data
    BY <2>1 DEF FileHolds
  <2>3. CASE kind = "data" /\ len > 0
    <3>1. PICK m : m = Grown(n, offset, len)
      OBVIOUS
    <3>2. Holds(Written(file, kind, offset, len), m, after) /\ m \in Nat /\ n <= m
      BY <2>2, <3>1, WrittenHolds
    <3>3. file' = Written(file, kind, offset, len)
      BY <2>1, <2>3 DEF FileAfter
    <3>4. m = n \/ m - 1 \in Bytes(offset, len)
      BY <2>3, <3>1 DEF Grown, Bytes
    <3>5. data \subseteq after /\ Bytes(offset, len) \subseteq after
      BY <2>3
    <3>6. m = image_len \/ m - 1 \in after
      BY <2>2, <3>4, <3>5
    <3>7. image_len <= m
      BY <2>2, <3>2 DEF IInv, TypeInv
    <3> QED BY <2>1, <3>2, <3>3, <3>6, <3>7
  <2>4. CASE ~ (kind = "data" /\ len > 0)
    <3>1. file' = file
      BY <2>1, <2>4 DEF FileAfter
    <3>2. Bytes(offset, len) = {} \/ kind # "data"
      BY <2>4 DEF Bytes
    <3>3. after = data
      BY <3>2
    <3> QED BY <2>1, <2>2, <3>1, <3>3
  <2> QED BY <2>3, <2>4
<1> QED BY <1>1, <1>2

LEMMA SameSinks ==
  ASSUME BufHolds, FileHolds, UNCHANGED <<image_len, recorded, buf, file, failures>>
  PROVE  BufHolds' /\ FileHolds'
BY DEF BufHolds, FileHolds, Recorded, Holds

LEMMA SinksHold == IInv /\ BufHolds /\ FileHolds /\ [Next]_sinkVars => BufHolds' /\ FileHolds'
<1> SUFFICES ASSUME IInv, BufHolds, FileHolds, [Next]_sinkVars PROVE BufHolds' /\ FileHolds'
  OBVIOUS
<1>1. ASSUME NEW kind \in Kinds, NEW offset \in 0 .. CallEnd, EmptyCall(kind, offset)
      PROVE  BufHolds' /\ FileHolds'
  <2>1. offset \in Nat /\ Bytes(offset, 0) = {} /\ Forward(kind, offset, 0)
    BY <1>1, SinkAssumption DEF Bytes, EmptyCall
  <2>2. recorded' = recorded /\ Recorded' = Recorded
    BY <1>1 DEF EmptyCall, Recorded
  <2> QED BY <2>1, <2>2, ForwardHolds
<1>2. ASSUME NEW kind \in Kinds, NEW offset \in 0 .. CallEnd, NEW len \in 1 .. CallEnd - offset,
             AcceptedCall(kind, offset, len)
      PROVE  BufHolds' /\ FileHolds'
  <2>1. offset \in Nat /\ len \in Nat
    BY SinkAssumption
  <2>2. Bytes(offset, len) \cap Recorded = {}
    BY <1>2, <2>1, AcceptedStep
  <2>3. recorded' = [recorded EXCEPT ![kind] = @ \cup Bytes(offset, len)]
        /\ Forward(kind, offset, len)
    BY <1>2 DEF AcceptedCall
  <2>4. recorded \in [Kinds -> SUBSET Nat] /\ Kinds = {"data", "zeros"}
    BY DEF IInv, TypeInv, Kinds
  <2>5. Recorded' = Recorded \cup Bytes(offset, len)
    BY <2>3, <2>4 DEF Recorded
  <2>6. recorded'["data"] = IF kind = "data" THEN recorded["data"] \cup Bytes(offset, len)
                            ELSE recorded["data"]
    BY <2>3, <2>4
  <2>7. Bytes(offset, len) \cap recorded["data"] = {}
    BY <2>2 DEF Recorded
  <2> QED BY <2>1, <2>3, <2>5, <2>6, <2>7, ForwardHolds
<1>3. ASSUME NEW kind \in Kinds, NEW offset \in 0 .. CallEnd, NEW len \in 1 .. CallEnd - offset,
             OverlappingCall(kind, offset, len)
      PROVE  BufHolds' /\ FileHolds'
  BY <1>3, SameSinks DEF OverlappingCall, Called
<1>4. CASE Finish
  BY <1>4, SameSinks DEF Finish
<1>5. CASE UNCHANGED sinkVars
  BY <1>5, SameSinks DEF sinkVars
<1> QED BY <1>1, <1>2, <1>3, <1>4, <1>5 DEF Next

LEMMA SinksStart == Init => BufHolds /\ FileHolds
<1> SUFFICES ASSUME Init PROVE BufHolds /\ FileHolds
  OBVIOUS
<1>1. image_len \in Nat /\ recorded["data"] = {} /\ Recorded = {}
  BY SinkAssumption DEF Init, Kinds, Recorded
<1>2. Holds(file, image_len, recorded["data"])
  BY <1>1 DEF Init, Holds
<1>3. buf = [u \in 0 .. 0 - 1 |-> IF u \in recorded["data"] THEN 1 ELSE 0]
  BY DEF Init
<1>4. Holds(buf, 0, recorded["data"])
  BY <1>1, <1>3 DEF Holds
<1> QED BY <1>1, <1>2, <1>4 DEF BufHolds, FileHolds

\* What finish() vouches for: every byte of the image came in one call, and
\* VecSink has the image; so has FileSink if none of its writes failed.
THEOREM WholeIsWhole == Spec => []WholeImageIsWhole
<1>1. IInv /\ BufHolds /\ FileHolds => WholeImageIsWhole
  <2> SUFFICES ASSUME IInv, BufHolds, FileHolds, last.verdict = "whole" PROVE WholeImageIsWhole
    BY DEF WholeImageIsWhole
  <2> DEFINE data == recorded["data"]
             whole == [u \in 0 .. image_len - 1 |-> IF u \in data THEN 1 ELSE 0]
  <2>1. CoveredOnce /\ image_len \in Nat
    BY WholeMeansCovered DEF IInv, TypeInv
  <2>2. Recorded = 0 .. image_len - 1 /\ data \subseteq 0 .. image_len - 1
    BY <2>1 DEF CoveredOnce, Recorded
  <2>3. ASSUME NEW u \in 0 .. image_len - 1 PROVE buf[u] = whole[u]
    <3>1. PICK n \in Nat : Holds(buf, n, data) /\ Recorded \subseteq 0 .. n - 1
      BY DEF BufHolds
    <3>2. u \in 0 .. n - 1
      BY <2>2, <3>1
    <3> QED BY <3>1, <3>2 DEF Holds
  <2>4. ASSUME ~failures PROVE file = whole
    <3>1. PICK n \in Nat : /\ Holds(file, n, data)
                           /\ image_len <= n
                           /\ n = image_len \/ n - 1 \in data
      BY <2>4 DEF FileHolds
    <3>2. n = image_len
      BY <2>1, <2>2, <3>1
    <3> QED BY <3>1, <3>2 DEF Holds
  <2> QED BY <2>1, <2>3, <2>4 DEF WholeImageIsWhole
<1>2. Init => IInv /\ BufHolds /\ FileHolds
  BY InitHolds, SinksStart
<1>3. (IInv /\ BufHolds /\ FileHolds) /\ [Next]_sinkVars => (IInv /\ BufHolds /\ FileHolds)'
  BY NextHolds, SinksHold
<1> QED BY <1>1, <1>2, <1>3, PTL DEF Spec
==============================================================================
