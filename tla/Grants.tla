-------------------------------- MODULE Grants -------------------------------
(***************************************************************************)
(* What the allocator answers, as operators: the lowest free blocks, in    *)
(* runs that break at gaps and at the longest length asked for.  That      *)
(* take() does answer so is what Allocator and its proofs show.            *)
(***************************************************************************)
EXTENDS Integers, FiniteSets

\* The n lowest blocks of S, and the k-th.
Lowest(n, S) == {b \in S : Cardinality({c \in S : c < b}) < n}
Nth(S, k) == CHOOSE b \in S : Cardinality({c \in S : c < b}) = k - 1

\* The blocks S as runs, broken at `firsts` and by the length `longest`.
RunsOf(S, firsts, longest) ==
  LET begins(b) == b \in S /\ (b - 1 \notin S \/ b \in firsts)
      head(b)   == CHOOSE h \in S : h <= b /\ begins(h) /\ \A c \in h + 1 .. b : ~begins(c)
      starts    == {b \in S : (b - head(b)) % longest = 0}
      length(b) == Cardinality({c \in S : c >= b /\ starts \cap (b + 1 .. c) = {}})
  IN [i \in 1 .. Cardinality(starts) |->
        LET b == Nth(starts, i) IN [start |-> b, len |-> length(b)]]

\* Single blocks as a list of one-block runs, ascending.
Singles(S) == RunsOf(S, {}, 1)
==============================================================================
