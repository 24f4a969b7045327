------------------------------ MODULE MCExtents ------------------------------
(***************************************************************************)
(* Extents on a small tree: two entries in the inode, three in a block, so *)
(* that 2, 6 and 18 extents are the most each depth holds.                 *)
(***************************************************************************)
EXTENDS Extents

D(n) == [data |-> TRUE, len |-> n]
H(n) == [data |-> FALSE, len |-> n]

\* Every map of up to three segments, legal or not.
MCShortMaps == UNION {[1 .. k -> {D(n) : n \in {0, 1, 2, 6}} \cup {H(n) : n \in {0, 1, 2}}] : k \in 0 .. 3}

\* n data segments apart by holes, the last one partial; one long segment.
MCDotted == {[i \in 1 .. 2 * n - 1 |-> IF i % 2 = 0 THEN H(4)
                                       ELSE IF i = 2 * n - 1 THEN D(1) ELSE D(2)] : n \in 3 .. 20}
MCLong == {<<D(n)>> : n \in {11, 12, 13, 24, 25, 36, 37, 72, 73, 90, 130}}

\* Data whose offset is past the width of a logical block number.
MCWide == {<<D(2), H(n), D(2)>> : n \in {4, 6, 8, 10}}

MCDeclarations == MCShortMaps \cup MCDotted \cup MCLong

\* Blocks in the way: none, the first ten, every second, every fourth, two of
\* five.
MCReserved ==
  {{}, 0 .. 9, {b \in 0 .. Blocks - 1 : b % 2 = 0}, {b \in 0 .. Blocks - 1 : b % 4 = 3},
   {b \in 0 .. Blocks - 1 : b % 5 \in {0, 1}}}
==============================================================================
