------------------------------ MODULE CheckingSink ---------------------------
(***************************************************************************)
(* The sinks of this crate: CheckingSink, which records what has been      *)
(* covered in a list of ranges and refuses to cover a byte twice, around a *)
(* VecSink or a FileSink, the latter made for an image of image_len bytes. *)
(* The two get the same calls, each through a CheckingSink of its own;     *)
(* these agree, so there is one list.                                      *)
(*                                                                         *)
(* The caller is any: it may go on after an error.  The bytes of a data()  *)
(* call are not zero, so that they differ from what zeros() leaves.        *)
(***************************************************************************)
EXTENDS Integers, Sequences, FiniteSets

CONSTANTS
  ImageLens,  \* lengths of images
  CallEnd,    \* calls reach up to this address
  MaxCalls    \* bound on the number of calls

ASSUME SinkAssumption == ImageLens \subseteq Nat /\ CallEnd \in Nat /\ MaxCalls \in Nat

Kinds == {"data", "zeros"}
Verdicts == {"new", "accepted", "overlap", "failed", "whole", "not whole"}

VARIABLES
  image_len,  \* never changes
  covered,    \* CheckingSink.covered: ranges, from start up to end
  recorded,   \* the bytes that record() let through, by kind of call
  buf,        \* VecSink.buf, a function on its indices
  file,       \* the file, likewise
  failures,   \* a call that record() let through failed in the FileSink
  last,       \* the last call, and what came of it
  calls       \* how many calls there have been

sinkVars == <<image_len, covered, recorded, buf, file, failures, last, calls>>

Bytes(offset, len) == offset .. offset + len - 1
RangeBytes(r) == r.start .. r.end - 1
CoveredBytes == UNION {RangeBytes(covered[i]) : i \in DOMAIN covered}
Recorded == recorded["data"] \cup recorded["zeros"]

-----------------------------------------------------------------------------
(* CheckingSink::record() *)

\* partition_point(): the first i ranges start before offset.
IsPoint(i, offset) ==
  /\ \A k \in 1 .. i : covered[k].start < offset
  /\ \A k \in i + 1 .. Len(covered) : covered[k].start >= offset

\* Fault: only the range behind is compared.
OverlapsBehind(i, offset, len) == i < Len(covered) /\ covered[i + 1].start < offset + len

\* Only the neighbours are looked at.
Overlaps(i, offset, len) ==
  \/ i > 0 /\ covered[i].end > offset
  \/ i < Len(covered) /\ covered[i + 1].start < offset + len

\* Fault: a range is inserted between two that it joins.
Inserted(i, offset, len) ==
  [k \in 1 .. Len(covered) + 1 |->
     IF k <= i THEN covered[k]
     ELSE IF k = i + 1 THEN [start |-> offset, end |-> offset + len]
     ELSE covered[k - 1]]

\* The list with the new range, joined with a neighbour that it touches.
Coalesced(i, offset, len) ==
  LET merge_prev == i > 0 /\ covered[i].end = offset
      merge_next == i < Len(covered) /\ covered[i + 1].start = offset + len
      kept       == IF merge_prev THEN i - 1 ELSE i
      next       == IF merge_next THEN i + 2 ELSE i + 1
      joined     == [start |-> IF merge_prev THEN covered[i].start ELSE offset,
                     end   |-> IF merge_next THEN covered[i + 1].end ELSE offset + len]
  IN [k \in 1 .. kept + 1 + Len(covered) - (next - 1) |->
        IF k <= kept THEN covered[k]
        ELSE IF k = kept + 1 THEN joined
        ELSE covered[k - (kept + 2) + next]]

-----------------------------------------------------------------------------
(* The inner sinks *)

Fill(kind) == IF kind = "data" THEN 1 ELSE 0

\* `bytes` with [offset, offset + len) overwritten; zeros in between if it
\* ends before.
Written(bytes, kind, offset, len) ==
  LET size == Cardinality(DOMAIN bytes)
      grown == IF size < offset + len THEN offset + len ELSE size
  IN [u \in 0 .. grown - 1 |->
        IF u \in Bytes(offset, len) THEN Fill(kind)
        ELSE IF u < size THEN bytes[u] ELSE 0]

\* FileSink: data is written, and if empty not even that; zeros are there.
FileAfter(kind, offset, len) ==
  IF kind = "data" /\ len > 0 THEN Written(file, kind, offset, len) ELSE file
ZerosRefused(kind, offset, len) == kind = "zeros" /\ offset + len > image_len

-----------------------------------------------------------------------------
(* Calls *)

Open == last.verdict \notin {"whole", "not whole"} /\ calls < MaxCalls

Called(offset, len, verdict) ==
  /\ last' = [offset |-> offset, len |-> len, verdict |-> verdict]
  /\ calls' = calls + 1
  /\ UNCHANGED image_len

\* The inner call, and what FileSink answers; a write may fail half way.
Forward(kind, offset, len) ==
  /\ buf' = Written(buf, kind, offset, len)
  /\ \/ /\ ~ZerosRefused(kind, offset, len)
        /\ file' = FileAfter(kind, offset, len)
        /\ failures' = failures
        /\ Called(offset, len, "accepted")
     \/ /\ ZerosRefused(kind, offset, len) \/ kind = "data"
        /\ IF kind = "zeros" THEN file' = file
           ELSE \E n \in 0 .. len : file' = FileAfter(kind, offset, n)
        /\ failures' = TRUE
        /\ Called(offset, len, "failed")

\* A call of no bytes is not recorded, but passed on.
EmptyCall(kind, offset) ==
  /\ Open
  /\ Forward(kind, offset, 0)
  /\ UNCHANGED <<covered, recorded>>

\* What is recorded stays so if the inner call fails.
AcceptedCall(kind, offset, len) ==
  /\ Open /\ len > 0
  /\ \E i \in 0 .. Len(covered) :
       /\ IsPoint(i, offset)
       /\ ~Overlaps(i, offset, len)
       /\ covered' = Coalesced(i, offset, len)
  /\ recorded' = [recorded EXCEPT ![kind] = @ \cup Bytes(offset, len)]
  /\ Forward(kind, offset, len)

OverlappingCall(kind, offset, len) ==
  /\ Open /\ len > 0
  /\ \E i \in 0 .. Len(covered) : IsPoint(i, offset) /\ Overlaps(i, offset, len)
  /\ Called(offset, len, "overlap")
  /\ UNCHANGED <<covered, recorded, buf, file, failures>>

\* Fault: one range is enough.
IsOneRange == Len(covered) = 1

IsWhole == covered = << [start |-> 0, end |-> image_len] >>

\* finish() takes the sink: there is no call after it.
Finish ==
  /\ Open
  /\ last' = [last EXCEPT !.verdict = IF IsWhole THEN "whole" ELSE "not whole"]
  /\ UNCHANGED <<image_len, covered, recorded, buf, file, failures, calls>>

-----------------------------------------------------------------------------
Init ==
  /\ image_len \in ImageLens
  /\ covered = <<>>
  /\ recorded = [kind \in Kinds |-> {}]
  /\ buf = <<>>
  /\ file = [u \in 0 .. image_len - 1 |-> 0]
  /\ failures = FALSE
  /\ last = [offset |-> 0, len |-> 0, verdict |-> "new"]
  /\ calls = 0

Next ==
  \/ Finish
  \/ \E kind \in Kinds, offset \in 0 .. CallEnd :
       \/ EmptyCall(kind, offset)
       \/ \E len \in 1 .. CallEnd - offset :
            AcceptedCall(kind, offset, len) \/ OverlappingCall(kind, offset, len)

Spec == Init /\ [][Next]_sinkVars

-----------------------------------------------------------------------------
\* The list of ranges is what has been recorded, in as few ranges as can be:
\* they ascend, and between two of them there is a byte that is missing.
RangesAreMaximal ==
  /\ \A i \in DOMAIN covered : covered[i].start < covered[i].end
  /\ \A i, j \in DOMAIN covered : i < j => covered[i].end < covered[j].start
CoverageIsExact == RangesAreMaximal /\ CoveredBytes = Recorded

\* Comparing neighbours is enough: a call is refused as an overlap if, and
\* only if, it has a byte that some earlier call had.
RefusesExactlyOverlaps ==
  [][calls' # calls /\ last'.len > 0 =>
       (last'.verdict = "overlap" <=> Bytes(last'.offset, last'.len) \cap Recorded # {})]_sinkVars

\* Each byte of the image was covered by one call, and no byte outside was.
CoveredOnce ==
  /\ Recorded = 0 .. image_len - 1
  /\ recorded["data"] \cap recorded["zeros"] = {}

\* When finish() accepts, that is so, and both sinks have the image, the file
\* unless one of its writes failed.
WholeImageIsWhole ==
  last.verdict = "whole" =>
    LET image == [u \in 0 .. image_len - 1 |-> IF u \in recorded["data"] THEN 1 ELSE 0]
    IN /\ CoveredOnce
       /\ \A u \in 0 .. image_len - 1 : buf[u] = image[u]
       /\ ~failures => file = image
==============================================================================
