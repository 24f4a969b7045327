------------------------------ MODULE Allocator ------------------------------
(***************************************************************************)
(* layout::alloc::Allocator: one monotone cursor over the device that      *)
(* jumps over reserved runs (superblock copies, flex metadata).            *)
(*                                                                         *)
(* take(blocks, max_run) is modelled one loop iteration per step, so that  *)
(* the proofs in AllocatorProofs need no induction over data:              *)
(*                                                                         *)
(*   idle --New/Take--> skipping --SkipXxx*--> carving --Carve--> loop ... *)
(*                                                    \--Exhausted--> idle *)
(*                                                                         *)
(* `skipping` is skip_reserved(), which the constructor calls as well.     *)
(***************************************************************************)
EXTENDS Integers, Sequences, FiniteSets

CONSTANTS
  Starts,         \* first blocks an allocator may be created at
  Ends,           \* device sizes, in blocks
  ReservedLists,  \* lists of reserved runs handed to the constructor
  RequestSizes,   \* `blocks` arguments of take()
  RunCaps         \* `max_run` arguments of take()

Run == [start : Nat, len : Nat \ {0}]

(***************************************************************************)
(* The caller sorts the list with sort_by_key(|r| r.start).  The           *)
(* constructor's debug_assert also wants the runs disjoint; seal() hands   *)
(* it lists that are not (a backup superblock inside a flex run), so this  *)
(* module assumes no more than the sort.                                   *)
(***************************************************************************)
SortedByStart(runs) ==
  \A i, j \in DOMAIN runs : i < j => runs[i].start <= runs[j].start

ASSUME AllocatorAssumption ==
  /\ Starts \subseteq Nat
  /\ Ends \subseteq Nat
  /\ ReservedLists \subseteq Seq(Run)
  /\ \A runs \in ReservedLists : SortedByStart(runs)
  /\ RequestSizes \subseteq Nat
  /\ RunCaps \subseteq Nat \ {0}

VARIABLES
  cursor,         \* next block to look at
  origin,         \* the constructor's `start`; never changes
  end,            \* device size; never changes
  reserved,       \* reserved runs; never change
  next_reserved,  \* 1-based index of the first run not yet jumped over
  pc,             \* where take() is: see the diagram above
  blocks,         \* take(): blocks still wanted
  max_run,        \* take(): longest run it may return
  out,            \* take(): runs carved so far
  granted,        \* observer: runs returned by completed calls, in order
  carved,         \* observer: every run ever pushed to `out`, in order
  none            \* observer: some call has returned None

params == <<origin, end, reserved>>
vars == <<cursor, origin, end, reserved, next_reserved, pc, blocks, max_run, out,
          granted, carved, none>>

-----------------------------------------------------------------------------
RunEnd(r) == r.start + r.len
BlocksOf(r) == r.start .. RunEnd(r) - 1
Covered(runs) == UNION {BlocksOf(runs[i]) : i \in DOMAIN runs}

IsReserved(b) == \E i \in DOMAIN reserved : b \in BlocksOf(reserved[i])

\* self.reserved.get(self.next_reserved)
HasNextReserved == next_reserved <= Len(reserved)
NextRun == reserved[next_reserved]

\* Fault: reserved runs do not bound a run.
LimitAtEnd == end

\* Room until the next reserved run or the device end.
Limit == IF HasNextReserved /\ NextRun.start < end THEN NextRun.start ELSE end

Least(a, b) == IF a <= b THEN a ELSE b

\* Fault: max_run is not applied.
TakeLenUncapped == Least(blocks, Limit - cursor)
TakeLen == Least(Least(blocks, Limit - cursor), max_run)
NewRun == [start |-> cursor, len |-> TakeLen]

-----------------------------------------------------------------------------
\* Allocator::new, up to its call of skip_reserved().
Init ==
  /\ origin \in Starts
  /\ cursor = origin
  /\ end \in Ends
  /\ reserved \in ReservedLists
  /\ next_reserved = 1
  /\ pc = "skipping"
  /\ blocks = 0
  /\ max_run = 1
  /\ out = <<>>
  /\ granted = <<>>
  /\ carved = <<>>
  /\ none = FALSE

\* take(n, cap) is called.  The loop is not entered for n = 0.
Take(n, cap) ==
  /\ pc = "idle"
  /\ n > 0
  /\ blocks' = n
  /\ max_run' = cap
  /\ out' = <<>>
  /\ pc' = "skipping"
  /\ UNCHANGED <<cursor, next_reserved, params, granted, carved, none>>

\* Fault: the index stays on the run that lies behind.
StuckBehind ==
  /\ pc = "skipping"
  /\ HasNextReserved
  /\ RunEnd(NextRun) <= cursor
  /\ UNCHANGED vars

\* skip_reserved: the run lies wholly behind the cursor.
SkipBehind ==
  /\ pc = "skipping"
  /\ HasNextReserved
  /\ RunEnd(NextRun) <= cursor
  /\ next_reserved' = next_reserved + 1
  /\ UNCHANGED <<cursor, params, pc, blocks, max_run, out, granted, carved, none>>

\* Fault: the cursor jumps one block too far.
SkipTooFar ==
  /\ pc = "skipping"
  /\ HasNextReserved
  /\ NextRun.start <= cursor
  /\ cursor < RunEnd(NextRun)
  /\ cursor' = RunEnd(NextRun) + 1
  /\ next_reserved' = next_reserved + 1
  /\ UNCHANGED <<params, pc, blocks, max_run, out, granted, carved, none>>

\* skip_reserved: the cursor is inside the run and jumps to its end.
SkipOver ==
  /\ pc = "skipping"
  /\ HasNextReserved
  /\ NextRun.start <= cursor
  /\ cursor < RunEnd(NextRun)
  /\ cursor' = RunEnd(NextRun)
  /\ next_reserved' = next_reserved + 1
  /\ UNCHANGED <<params, pc, blocks, max_run, out, granted, carved, none>>

\* skip_reserved returns, to the constructor (blocks = 0) or to take().
SkipDone ==
  /\ pc = "skipping"
  /\ HasNextReserved => NextRun.start > cursor
  /\ pc' = IF blocks = 0 THEN "idle" ELSE "carving"
  /\ UNCHANGED <<cursor, next_reserved, params, blocks, max_run, out,
                 granted, carved, none>>

\* Fault: a request that would end exactly at the device end is refused.
ExhaustedEarly ==
  /\ pc = "carving"
  /\ cursor + blocks >= end
  /\ pc' = "idle"
  /\ out' = <<>>
  /\ blocks' = 0
  /\ none' = TRUE
  /\ UNCHANGED <<cursor, next_reserved, params, max_run, granted, carved>>

\* The cursor is at the device end: take() returns None.
Exhausted ==
  /\ pc = "carving"
  /\ cursor >= end
  /\ pc' = "idle"
  /\ out' = <<>>
  /\ blocks' = 0
  /\ none' = TRUE
  /\ UNCHANGED <<cursor, next_reserved, params, max_run, granted, carved>>

\* Fault: the cursor is not advanced between two runs of one answer.
CarveInPlace ==
  /\ pc = "carving"
  /\ cursor < end
  /\ TakeLen < blocks
  /\ out' = Append(out, NewRun)
  /\ carved' = Append(carved, NewRun)
  /\ blocks' = blocks - TakeLen
  /\ pc' = "skipping"
  /\ UNCHANGED <<cursor, next_reserved, params, max_run, granted, none>>

\* One run is pushed and more is wanted.
CarveMore ==
  /\ pc = "carving"
  /\ cursor < end
  /\ TakeLen < blocks
  /\ out' = Append(out, NewRun)
  /\ carved' = Append(carved, NewRun)
  /\ cursor' = cursor + TakeLen
  /\ blocks' = blocks - TakeLen
  /\ pc' = "skipping"
  /\ UNCHANGED <<next_reserved, params, max_run, granted, none>>

\* The last run is pushed and take() returns Some(out).
CarveLast ==
  /\ pc = "carving"
  /\ cursor < end
  /\ TakeLen = blocks
  /\ granted' = granted \o Append(out, NewRun)
  /\ carved' = Append(carved, NewRun)
  /\ out' = <<>>
  /\ cursor' = cursor + TakeLen
  /\ blocks' = 0
  /\ pc' = "idle"
  /\ UNCHANGED <<next_reserved, params, max_run, none>>

Step == SkipBehind \/ SkipOver \/ SkipDone \/ Exhausted \/ CarveMore \/ CarveLast
Call == \E n \in RequestSizes, cap \in RunCaps : Take(n, cap)
Next == Call \/ Step

\* A call runs on the caller's thread: once entered it keeps stepping.
Spec == Init /\ [][Next]_vars /\ WF_vars(Step)

-----------------------------------------------------------------------------
(***************************************************************************)
(* Properties.                                                             *)
(***************************************************************************)

\* The allocator's fields and the locals of take() are of their types; the
\* index never runs more than one past the reserved list.
TypeOK ==
  /\ cursor \in Nat
  /\ origin \in Nat
  /\ end \in Nat
  /\ reserved \in Seq(Run)
  /\ next_reserved \in 1 .. Len(reserved) + 1
  /\ pc \in {"idle", "skipping", "carving"}
  /\ blocks \in Nat
  /\ max_run \in Nat \ {0}
  /\ out \in Seq(Run)
  /\ granted \in Seq(Run)
  /\ carved \in Seq(Run)
  /\ none \in BOOLEAN

\* No block handed out is outside the device, before the requested start, or
\* inside a reserved run - also when the reserved runs overlap, which the
\* debug_assert of Allocator::new excludes but seal() produces.
GrantsAreFree ==
  \A i \in DOMAIN carved :
    /\ carved[i].start >= origin
    /\ RunEnd(carved[i]) <= end
    /\ \A j \in DOMAIN reserved :
         RunEnd(carved[i]) <= reserved[j].start \/ RunEnd(reserved[j]) <= carved[i].start

\* "Allocation order therefore IS emission order": each run starts at or
\* after the end of every earlier one, over all calls, so that no block is
\* handed out twice and a streaming writer never seeks backwards.
GrantsAscend ==
  /\ \A i, j \in DOMAIN carved : i < j => RunEnd(carved[i]) <= carved[j].start
  /\ \A i \in DOMAIN carved : RunEnd(carved[i]) <= cursor

\* The cursor passes over reserved blocks only: every free block behind it
\* has been carved, so "no space" is never reported with space left behind.
NoFreeBlockSkipped ==
  \A b \in origin .. cursor - 1 :
    b >= end \/ IsReserved(b) \/ b \in Covered(carved)

\* take() splits a run only where max_run caps it or a reserved run
\* interrupts it: two runs of one answer touch only if the first is a full
\* max_run long, and no run is longer than that.  (The inode tables of seal()
\* rely on it: with no cap, an answer of several runs means a reserved run
\* lies in between.)
SplitsAreForced ==
  [][\A i \in Len(granted) + 1 .. Len(granted') :
       /\ granted'[i].len <= max_run
       /\ i < Len(granted') /\ RunEnd(granted'[i]) = granted'[i + 1].start
            => granted'[i].len = max_run]_vars

\* The allocator is a BlockSupply: it answers each call with exactly the n
\* lowest free blocks and returns None only when fewer than n are free.
FreeAhead == {b \in cursor .. end - 1 : ~IsReserved(b)}

Supply == INSTANCE BlockSupply WITH
  Requests <- RequestSizes,
  free     <- FreeAhead \cup Covered(out),
  given    <- Covered(granted),
  pending  <- blocks + Cardinality(Covered(out)),
  refused  <- none

ImplementsSupply == Supply!SupplySpec

\* Every call of take() returns: both of its loops end.
TakeReturns == pc # "idle" ~> pc = "idle"
==============================================================================
