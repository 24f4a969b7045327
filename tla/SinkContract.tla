---------------------------- MODULE SinkContract ----------------------------
(***************************************************************************)
(* The contract of sink::RegionSink, from the sink's side: over the life   *)
(* of one writer every byte of [0, image_len) arrives exactly once, none   *)
(* outside it does, and completion is reported only when all have come.    *)
(* Giving up is allowed at any time; what has arrived by then is still a   *)
(* set of bytes that came once.                                            *)
(***************************************************************************)
EXTENDS Naturals

VARIABLES
  image_len,  \* bytes the image will have; never changes
  arrivals,   \* address -> times it arrived since the writer was made; its
              \* domain is what the sink can be called with
  complete    \* the writer has reported completion

contractVars == <<image_len, arrivals, complete>>

Addresses == DOMAIN arrivals
Nothing == [u \in Addresses |-> 0]
InImage == {u \in Addresses : u < image_len}

Arrive ==
  /\ ~complete
  /\ arrivals' \in [Addresses -> {0, 1}]
  /\ \A u \in Addresses : arrivals'[u] # arrivals[u] => u \in InImage /\ arrivals[u] = 0
  /\ UNCHANGED <<image_len, complete>>

Complete ==
  /\ \A u \in InImage : arrivals[u] = 1
  /\ complete' = TRUE
  /\ UNCHANGED <<image_len, arrivals>>

\* A new writer, with a new account of what has arrived.
Restart ==
  /\ arrivals' = Nothing
  /\ complete' = FALSE
  /\ UNCHANGED image_len

ContractInit ==
  /\ image_len \in Nat
  /\ \A u \in Addresses : arrivals[u] = 0
  /\ complete = FALSE

ContractNext == Arrive \/ Complete \/ Restart

ContractSpec == ContractInit /\ [][ContractNext]_contractVars
==============================================================================
