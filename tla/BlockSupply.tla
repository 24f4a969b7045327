----------------------------- MODULE BlockSupply -----------------------------
(***************************************************************************)
(* What layout::alloc::Allocator promises its callers, without a cursor: a *)
(* supply of free blocks that answers a request for n blocks with the n    *)
(* lowest ones, or refuses it only when fewer than n are left - and is     *)
(* spent from then on.                                                     *)
(***************************************************************************)
EXTENDS Naturals, FiniteSets

CONSTANTS Requests  \* sizes of the requests made

VARIABLES
  free,     \* blocks that can still be handed out
  given,    \* blocks handed out
  pending,  \* size of the request being served, 0 when none is
  refused   \* a request has been refused

supplyVars == <<free, given, pending, refused>>

\* S is the part of `free` that lies below all the rest of it.
Lowest(S) == \A b \in S, c \in free \ S : b < c

Ask(n) ==
  /\ pending = 0
  /\ n > 0
  /\ pending' = n
  /\ UNCHANGED <<free, given, refused>>

Grant ==
  /\ pending > 0
  /\ \E S \in SUBSET free :
       /\ Cardinality(S) = pending
       /\ Lowest(S)
       /\ free' = free \ S
       /\ given' = given \cup S
  /\ pending' = 0
  /\ UNCHANGED refused

Refuse ==
  /\ pending > 0
  /\ Cardinality(free) < pending
  /\ free' = {}
  /\ refused' = TRUE
  /\ pending' = 0
  /\ UNCHANGED given

SupplyInit ==
  /\ free \in SUBSET Nat
  /\ given = {}
  /\ pending = 0
  /\ refused = FALSE

SupplyNext == (\E n \in Requests : Ask(n)) \/ Grant \/ Refuse

SupplySpec == SupplyInit /\ [][SupplyNext]_supplyVars
==============================================================================
