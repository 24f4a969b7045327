----------------------------- MODULE MCAllocator -----------------------------
(***************************************************************************)
(* Allocator on devices of at most MCDevice blocks, with every list of at  *)
(* most two reserved runs sorted by start: disjoint, touching, nested,     *)
(* equal, and reaching past the device end.                                *)
(***************************************************************************)
EXTENDS Allocator

CONSTANTS MCDevice, MCRunLen

MCRuns == [start : 0 .. MCDevice, len : 1 .. MCRunLen]

MCReservedLists ==
  {<<>>} \cup {<<r>> : r \in MCRuns}
         \cup {rr \in MCRuns \X MCRuns : rr[1].start <= rr[2].start}
==============================================================================
