--------------------------- MODULE AllocatorProofs ---------------------------
(***************************************************************************)
(* Proofs about Allocator, for every device size, every list of reserved   *)
(* runs sorted by start, every sequence of requests and every run cap.     *)
(***************************************************************************)
EXTENDS Allocator, SequenceTheorems, FiniteSetTheorems, TLAPS

-----------------------------------------------------------------------------
(***************************************************************************)
(* The inductive invariant.  TypeOK, GrantsAreFree, GrantsAscend and       *)
(* NoFreeBlockSkipped say what was carved so far; carving the next run     *)
(* keeps them only because of what the loops know at that point:           *)
(***************************************************************************)

\* Every reserved run the index has passed lies behind the cursor.
PassedRunsBehind ==
  \A j \in 1 .. next_reserved - 1 : RunEnd(reserved[j]) <= cursor

\* At the carving point the next reserved run is strictly ahead.
NextRunAhead ==
  pc = "carving" => blocks > 0 /\ (HasNextReserved => NextRun.start > cursor)

\* Between calls nothing is asked for and nothing half carved.
IdleIsClean ==
  /\ pc = "idle" => blocks = 0
  /\ blocks = 0 => out = <<>>

\* The cursor starts at `origin` and only grows.
CursorPastOrigin == origin <= cursor

IInv ==
  /\ TypeOK
  /\ SortedByStart(reserved)
  /\ PassedRunsBehind
  /\ NextRunAhead
  /\ IdleIsClean
  /\ CursorPastOrigin
  /\ GrantsAreFree
  /\ GrantsAscend
  /\ NoFreeBlockSkipped

-----------------------------------------------------------------------------
\* A step that carves pushes a nonempty run that starts at the cursor, ends
\* by the device end and by the start of the next reserved run.
LEMMA CarvedRunFits ==
  ASSUME IInv, pc = "carving", cursor < end
  PROVE  /\ TakeLen \in Nat \ {0}
         /\ TakeLen <= blocks
         /\ TakeLen <= max_run
         /\ cursor + TakeLen <= end
         /\ NewRun \in Run
         /\ HasNextReserved => cursor + TakeLen <= NextRun.start
<1>1. cursor \in Nat /\ end \in Nat /\ blocks \in Nat \ {0} /\ max_run \in Nat \ {0}
  BY DEF IInv, TypeOK, NextRunAhead
<1>2. HasNextReserved => NextRun \in Run /\ NextRun.start > cursor
  BY DEF IInv, TypeOK, NextRunAhead, HasNextReserved, NextRun
<1>3. /\ Limit \in Nat
      /\ Limit > cursor
      /\ Limit <= end
      /\ HasNextReserved => Limit <= NextRun.start
  BY <1>1, <1>2 DEF Limit, Run
<1>4. /\ TakeLen \in Nat \ {0}
      /\ TakeLen <= blocks
      /\ TakeLen <= max_run
      /\ TakeLen <= Limit - cursor
  BY <1>1, <1>3 DEF TakeLen, Least
<1>5. cursor + TakeLen <= Limit
  BY <1>1, <1>3, <1>4
<1>6. NewRun \in Run
  BY <1>1, <1>4 DEF NewRun, Run
<1>7. HasNextReserved => cursor + TakeLen <= NextRun.start
  BY <1>1, <1>2, <1>3, <1>4, <1>5 DEF Run
<1> QED BY <1>1, <1>3, <1>4, <1>5, <1>6, <1>7

\* The run a carving step pushes overlaps no reserved run: those the index
\* has passed are behind the cursor, the others start no earlier than the
\* next one.
LEMMA CarvedRunIsFree ==
  ASSUME IInv, pc = "carving", cursor < end, NEW j \in DOMAIN reserved
  PROVE  RunEnd(NewRun) <= reserved[j].start \/ RunEnd(reserved[j]) <= NewRun.start
<1>1. reserved \in Seq(Run) /\ next_reserved \in 1 .. Len(reserved) + 1 /\ cursor \in Nat
  BY DEF IInv, TypeOK
<1>2. j \in 1 .. Len(reserved) /\ reserved[j] \in Run
  BY <1>1
<1>3. RunEnd(NewRun) = cursor + TakeLen /\ NewRun.start = cursor /\ TakeLen \in Nat
  BY CarvedRunFits DEF RunEnd, NewRun
<1>4. CASE j < next_reserved
  BY <1>1, <1>2, <1>3, <1>4 DEF IInv, PassedRunsBehind
<1>5. CASE j >= next_reserved
  <2>1. HasNextReserved /\ NextRun \in Run
    BY <1>1, <1>2, <1>5 DEF HasNextReserved, NextRun
  <2>2. NextRun.start <= reserved[j].start
    <3>1. next_reserved \in DOMAIN reserved /\ j \in DOMAIN reserved
      BY <1>1, <1>2, <2>1 DEF HasNextReserved
    <3>2. next_reserved < j => reserved[next_reserved].start <= reserved[j].start
      BY <3>1 DEF IInv, SortedByStart
    <3>3. next_reserved = j \/ next_reserved < j
      BY <1>1, <1>2, <1>5
    <3> QED BY <3>2, <3>3, <1>2 DEF NextRun, Run
  <2>3. cursor + TakeLen <= NextRun.start
    BY <2>1, CarvedRunFits
  <2> QED BY <1>1, <1>2, <1>3, <2>1, <2>2, <2>3 DEF Run
<1> QED BY <1>1, <1>2, <1>4, <1>5

\* A run is its blocks: membership in Covered, spelled out.
LEMMA CoveredMember ==
  ASSUME NEW runs \in Seq(Run), NEW b
  PROVE  b \in Covered(runs) <=> \E i \in 1 .. Len(runs) : b \in BlocksOf(runs[i])
BY DEF Covered

LEMMA CoveredAppend ==
  ASSUME NEW runs \in Seq(Run), NEW r \in Run
  PROVE  Covered(Append(runs, r)) = Covered(runs) \cup BlocksOf(r)
<1>1. /\ Append(runs, r) \in Seq(Run)
      /\ Len(Append(runs, r)) = Len(runs) + 1
      /\ \A i \in 1 .. Len(runs) : Append(runs, r)[i] = runs[i]
      /\ Append(runs, r)[Len(runs) + 1] = r
      /\ Len(runs) \in Nat
  BY AppendProperties, LenProperties
<1>2. ASSUME NEW b
      PROVE  b \in Covered(Append(runs, r)) <=> b \in Covered(runs) \/ b \in BlocksOf(r)
  <2>1. (\E i \in 1 .. Len(runs) + 1 : b \in BlocksOf(Append(runs, r)[i]))
          <=> (\E i \in 1 .. Len(runs) : b \in BlocksOf(runs[i])) \/ b \in BlocksOf(r)
    <3>1. 1 .. Len(runs) + 1 = (1 .. Len(runs)) \cup {Len(runs) + 1}
      BY <1>1
    <3> QED BY <1>1, <3>1, Zenon
  <2> QED BY <1>1, <2>1, CoveredMember
<1> QED BY <1>2
-----------------------------------------------------------------------------
\* What CarveMore and CarveLast have in common.
Carving ==
  /\ pc = "carving"
  /\ cursor < end
  /\ carved' = Append(carved, NewRun)
  /\ cursor' = cursor + TakeLen
  /\ UNCHANGED <<next_reserved, params>>

LEMMA CarvingKeepsGrants ==
  ASSUME IInv, Carving
  PROVE  PassedRunsBehind' /\ CursorPastOrigin' /\ GrantsAreFree' /\ GrantsAscend'
         /\ NoFreeBlockSkipped'
<1> USE DEF Carving
<1>1. /\ TakeLen \in Nat \ {0}
      /\ cursor + TakeLen <= end
      /\ NewRun \in Run
  BY CarvedRunFits
<1>2. /\ cursor \in Nat /\ origin \in Nat /\ end \in Nat
      /\ carved \in Seq(Run) /\ reserved \in Seq(Run)
      /\ next_reserved \in 1 .. Len(reserved) + 1
  BY DEF IInv, TypeOK
<1>3. cursor' \in Nat /\ cursor < cursor' /\ UNCHANGED <<origin, end, reserved, next_reserved>>
  BY <1>1, <1>2 DEF params
<1>4. NewRun.start = cursor /\ RunEnd(NewRun) = cursor'
  BY DEF NewRun, RunEnd
<1>5. /\ carved' \in Seq(Run)
      /\ Len(carved') = Len(carved) + 1
      /\ Len(carved) \in Nat
      /\ \A i \in 1 .. Len(carved) : carved'[i] = carved[i]
      /\ carved'[Len(carved) + 1] = NewRun
      /\ DOMAIN carved = 1 .. Len(carved)
      /\ DOMAIN carved' = 1 .. Len(carved) + 1
  BY <1>1, <1>2, AppendProperties, LenProperties
<1>6. \A i \in 1 .. Len(carved) : carved[i] \in Run
  BY <1>2, <1>5
<1>7. PassedRunsBehind'
  <2>1. ASSUME NEW j \in 1 .. next_reserved - 1 PROVE RunEnd(reserved[j]) <= cursor'
    <3>1. RunEnd(reserved[j]) <= cursor
      BY DEF IInv, PassedRunsBehind
    <3>2. reserved[j] \in Run
      BY <1>2
    <3>3. RunEnd(reserved[j]) \in Nat
      BY <3>2 DEF RunEnd, Run
    <3> QED BY <1>2, <1>3, <3>1, <3>3
  <2> QED BY <1>3, <2>1 DEF PassedRunsBehind, RunEnd
<1>8. CursorPastOrigin'
  BY <1>2, <1>3 DEF IInv, CursorPastOrigin
<1>9. GrantsAreFree'
  <2> SUFFICES ASSUME NEW i \in 1 .. Len(carved) + 1
               PROVE  /\ carved'[i].start >= origin
                      /\ RunEnd(carved'[i]) <= end
                      /\ \A j \in DOMAIN reserved :
                           RunEnd(carved'[i]) <= reserved[j].start \/ RunEnd(reserved[j]) <= carved'[i].start
    BY <1>3, <1>5 DEF GrantsAreFree, RunEnd
  <2>1. CASE i \in 1 .. Len(carved)
    BY <1>5, <2>1 DEF IInv, GrantsAreFree
  <2>2. CASE i = Len(carved) + 1
    <3>1. carved'[i] = NewRun
      BY <1>5, <2>2
    <3>2. NewRun.start >= origin /\ RunEnd(NewRun) <= end
      BY <1>1, <1>2, <1>4 DEF IInv, CursorPastOrigin
    <3>3. \A j \in DOMAIN reserved :
            RunEnd(NewRun) <= reserved[j].start \/ RunEnd(reserved[j]) <= NewRun.start
      BY CarvedRunIsFree
    <3> QED BY <3>1, <3>2, <3>3
  <2> QED BY <1>5, <2>1, <2>2
<1>10. GrantsAscend'
  <2>1. \A i \in 1 .. Len(carved) : RunEnd(carved[i]) <= cursor /\ RunEnd(carved[i]) \in Nat
    BY <1>5, <1>6 DEF IInv, GrantsAscend, RunEnd, Run
  <2>2. ASSUME NEW i \in DOMAIN carved', NEW j \in DOMAIN carved', i < j
        PROVE  RunEnd(carved'[i]) <= carved'[j].start
    <3>1. i \in 1 .. Len(carved) /\ carved'[i] = carved[i]
      BY <1>5, <2>2
    <3>2. CASE j \in 1 .. Len(carved)
      BY <1>5, <2>2, <3>1, <3>2 DEF IInv, GrantsAscend
    <3>3. CASE j = Len(carved) + 1
      BY <1>4, <1>5, <2>1, <3>1, <3>3
    <3> QED BY <1>5, <3>2, <3>3
  <2>3. ASSUME NEW i \in DOMAIN carved'
        PROVE  RunEnd(carved'[i]) <= cursor'
    <3>1. CASE i \in 1 .. Len(carved)
      BY <1>2, <1>3, <1>5, <2>1, <3>1
    <3>2. CASE i = Len(carved) + 1
      BY <1>3, <1>4, <1>5, <3>2
    <3> QED BY <1>5, <3>1, <3>2
  <2> QED BY <2>2, <2>3 DEF GrantsAscend, RunEnd
<1>11. NoFreeBlockSkipped'
  <2>1. Covered(carved') = Covered(carved) \cup BlocksOf(NewRun)
    BY <1>1, <1>2, CoveredAppend
  <2>2. BlocksOf(NewRun) = cursor .. cursor' - 1
    BY <1>4 DEF BlocksOf
  <2>3. ASSUME NEW b \in origin .. cursor' - 1
        PROVE  b >= end \/ IsReserved(b) \/ b \in Covered(carved')
    <3>1. CASE b < cursor
      <4>1. b \in origin .. cursor - 1
        BY <1>2, <1>3, <3>1
      <4> QED BY <2>1, <4>1 DEF IInv, NoFreeBlockSkipped
    <3>2. CASE b >= cursor
      BY <1>2, <1>3, <2>1, <2>2, <3>2
    <3> QED BY <1>2, <1>3, <3>1, <3>2
  <2> QED BY <1>3, <2>3 DEF NoFreeBlockSkipped, IsReserved, BlocksOf, RunEnd, Covered
<1> QED BY <1>7, <1>8, <1>9, <1>10, <1>11
-----------------------------------------------------------------------------
LEMMA InitInv == Init => IInv
<1> SUFFICES ASSUME Init PROVE IInv
  OBVIOUS
<1>1. TypeOK /\ SortedByStart(reserved)
  <2>1. reserved \in Seq(Run) /\ SortedByStart(reserved)
    BY AllocatorAssumption DEF Init
  <2>2. origin \in Nat /\ end \in Nat
    BY AllocatorAssumption DEF Init
  <2>3. Len(reserved) \in Nat /\ <<>> \in Seq(Run)
    BY <2>1, LenProperties, EmptySeq
  <2>4. next_reserved \in 1 .. Len(reserved) + 1 /\ cursor \in Nat /\ blocks \in Nat
        /\ max_run \in Nat \ {0}
    BY <2>2, <2>3 DEF Init
  <2>5. out \in Seq(Run) /\ granted \in Seq(Run) /\ carved \in Seq(Run)
    BY <2>3 DEF Init
  <2> QED BY <2>1, <2>2, <2>4, <2>5 DEF Init, TypeOK
<1>2. carved = <<>> /\ next_reserved = 1 /\ pc = "skipping" /\ cursor = origin /\ origin \in Nat
  BY AllocatorAssumption DEF Init
<1>3. DOMAIN carved = {}
  BY <1>2
<1>4. GrantsAreFree /\ GrantsAscend
  BY <1>3 DEF GrantsAreFree, GrantsAscend
<1>5. PassedRunsBehind /\ CursorPastOrigin /\ NoFreeBlockSkipped
  BY <1>2 DEF PassedRunsBehind, CursorPastOrigin, NoFreeBlockSkipped
<1>6. NextRunAhead /\ IdleIsClean
  BY DEF Init, NextRunAhead, IdleIsClean
<1> QED BY <1>1, <1>4, <1>5, <1>6 DEF IInv

\* Steps that move neither the cursor nor what was carved keep what was
\* carved right.
LEMMA StillKeepsGrants ==
  ASSUME IInv, UNCHANGED <<cursor, carved, params>>
  PROVE  CursorPastOrigin' /\ GrantsAreFree' /\ GrantsAscend' /\ NoFreeBlockSkipped'
BY DEF IInv, params, CursorPastOrigin, GrantsAreFree, GrantsAscend, NoFreeBlockSkipped,
       IsReserved, BlocksOf, RunEnd, Covered

LEMMA StepInv == IInv /\ [Next]_vars => IInv'
<1> SUFFICES ASSUME IInv, [Next]_vars PROVE IInv'
  OBVIOUS
<1> USE DEF params
<1>1. TypeOK
  BY DEF IInv
<1>2. ASSUME NEW n \in RequestSizes, NEW cap \in RunCaps, Take(n, cap)
      PROVE  IInv'
  <2>1. TypeOK'
    BY <1>1, <1>2, AllocatorAssumption DEF Take, TypeOK
  <2>2. SortedByStart(reserved)' /\ PassedRunsBehind' /\ NextRunAhead' /\ IdleIsClean'
    BY <1>2 DEF Take, IInv, SortedByStart, PassedRunsBehind, NextRunAhead, IdleIsClean, RunEnd
  <2>3. CursorPastOrigin' /\ GrantsAreFree' /\ GrantsAscend' /\ NoFreeBlockSkipped'
    BY <1>2, StillKeepsGrants DEF Take
  <2> QED BY <2>1, <2>2, <2>3 DEF IInv
<1>3. ASSUME SkipBehind PROVE IInv'
  <2>1. TypeOK'
    BY <1>1, <1>3 DEF SkipBehind, TypeOK, HasNextReserved
  <2>2. PassedRunsBehind'
    <3>1. ASSUME NEW j \in 1 .. next_reserved PROVE RunEnd(reserved[j]) <= cursor
      <4>1. CASE j = next_reserved
        BY <1>3, <4>1 DEF SkipBehind, NextRun
      <4>2. CASE j # next_reserved
        <5>1. j \in 1 .. next_reserved - 1
          BY <1>1, <4>2 DEF TypeOK
        <5> QED BY <5>1 DEF IInv, PassedRunsBehind
      <4> QED BY <4>1, <4>2
    <3> QED BY <1>1, <1>3, <3>1 DEF SkipBehind, PassedRunsBehind, TypeOK, RunEnd
  <2>3. SortedByStart(reserved)' /\ NextRunAhead' /\ IdleIsClean'
    BY <1>3 DEF SkipBehind, IInv, SortedByStart, NextRunAhead, IdleIsClean
  <2>4. CursorPastOrigin' /\ GrantsAreFree' /\ GrantsAscend' /\ NoFreeBlockSkipped'
    BY <1>3, StillKeepsGrants DEF SkipBehind
  <2> QED BY <2>1, <2>2, <2>3, <2>4 DEF IInv
<1>4. ASSUME SkipOver PROVE IInv'
  <2>1. NextRun \in Run /\ next_reserved \in 1 .. Len(reserved) /\ cursor \in Nat
    BY <1>1, <1>4 DEF SkipOver, TypeOK, HasNextReserved, NextRun
  <2>2. cursor' \in Nat /\ cursor < cursor' /\ cursor' = RunEnd(NextRun) /\ NextRun.start <= cursor
    BY <1>4, <2>1 DEF SkipOver, RunEnd, Run
  <2>3. UNCHANGED <<origin, end, reserved, carved, pc>> /\ next_reserved' = next_reserved + 1
    BY <1>4 DEF SkipOver
  <2>4. TypeOK'
    BY <1>1, <1>4, <2>1, <2>2 DEF SkipOver, TypeOK
  <2>5. PassedRunsBehind'
    <3>1. ASSUME NEW j \in 1 .. next_reserved PROVE RunEnd(reserved[j]) <= cursor'
      <4>1. CASE j = next_reserved
        BY <2>1, <2>2, <4>1 DEF NextRun, RunEnd, Run
      <4>2. CASE j # next_reserved
        <5>1. j \in 1 .. next_reserved - 1 /\ reserved[j] \in Run
          BY <1>1, <2>1, <4>2 DEF TypeOK
        <5> QED BY <2>1, <2>2, <5>1 DEF IInv, PassedRunsBehind, RunEnd, Run
      <4> QED BY <4>1, <4>2
    <3> QED BY <2>1, <2>3, <3>1 DEF PassedRunsBehind, RunEnd
  <2>6. SortedByStart(reserved)' /\ NextRunAhead' /\ IdleIsClean'
    BY <1>4 DEF SkipOver, IInv, SortedByStart, NextRunAhead, IdleIsClean
  <2>7. CursorPastOrigin'
    BY <1>1, <2>1, <2>2, <2>3 DEF IInv, CursorPastOrigin, TypeOK
  <2>8. GrantsAreFree'
    BY <2>3 DEF IInv, GrantsAreFree, RunEnd
  <2>9. GrantsAscend'
    <3>1. ASSUME NEW i \in DOMAIN carved PROVE RunEnd(carved[i]) \in Nat
      <4>1. carved[i] \in Run
        BY <1>1 DEF TypeOK
      <4> QED BY <4>1 DEF RunEnd, Run
    <3> QED BY <2>1, <2>2, <2>3, <3>1 DEF IInv, GrantsAscend, RunEnd
  <2>10. NoFreeBlockSkipped'
    <3>1. ASSUME NEW b \in origin .. cursor' - 1
          PROVE  b >= end \/ IsReserved(b) \/ b \in Covered(carved)
      <4>1. CASE b < cursor
        <5>1. b \in origin .. cursor - 1
          BY <1>1, <2>1, <2>2, <4>1 DEF TypeOK
        <5> QED BY <5>1 DEF IInv, NoFreeBlockSkipped
      <4>2. CASE b >= cursor
        <5>1. BlocksOf(NextRun) = NextRun.start .. cursor' - 1 /\ NextRun.start \in Nat
          BY <2>1, <2>2 DEF BlocksOf, Run
        <5>2. b \in Nat /\ b <= cursor' - 1
          BY <1>1, <2>2 DEF TypeOK
        <5>3. b \in BlocksOf(NextRun)
          BY <2>1, <2>2, <4>2, <5>1, <5>2
        <5>4. next_reserved \in DOMAIN reserved /\ reserved \in Seq(Run)
          BY <1>1, <2>1 DEF TypeOK
        <5> QED BY <5>3, <5>4 DEF IsReserved, NextRun
      <4> QED BY <1>1, <2>1, <2>2, <4>1, <4>2 DEF TypeOK
    <3> QED BY <2>3, <3>1 DEF NoFreeBlockSkipped, IsReserved, BlocksOf, RunEnd, Covered
  <2> QED BY <2>4, <2>5, <2>6, <2>7, <2>8, <2>9, <2>10 DEF IInv
<1>5. ASSUME SkipDone PROVE IInv'
  <2>1. TypeOK'
    BY <1>1, <1>5 DEF SkipDone, TypeOK
  <2>2. SortedByStart(reserved)' /\ PassedRunsBehind'
    BY <1>5 DEF SkipDone, IInv, SortedByStart, PassedRunsBehind, RunEnd
  <2>3. NextRunAhead'
    BY <1>1, <1>5 DEF SkipDone, NextRunAhead, HasNextReserved, NextRun, TypeOK
  <2>4. IdleIsClean'
    BY <1>5 DEF SkipDone, IInv, IdleIsClean, TypeOK
  <2>5. CursorPastOrigin' /\ GrantsAreFree' /\ GrantsAscend' /\ NoFreeBlockSkipped'
    BY <1>5, StillKeepsGrants DEF SkipDone
  <2> QED BY <2>1, <2>2, <2>3, <2>4, <2>5 DEF IInv
<1>6. ASSUME Exhausted PROVE IInv'
  <2>1. TypeOK'
    BY <1>1, <1>6 DEF Exhausted, TypeOK
  <2>2. SortedByStart(reserved)' /\ PassedRunsBehind' /\ NextRunAhead' /\ IdleIsClean'
    BY <1>6 DEF Exhausted, IInv, SortedByStart, PassedRunsBehind, NextRunAhead, IdleIsClean, RunEnd
  <2>3. CursorPastOrigin' /\ GrantsAreFree' /\ GrantsAscend' /\ NoFreeBlockSkipped'
    BY <1>6, StillKeepsGrants DEF Exhausted
  <2> QED BY <2>1, <2>2, <2>3 DEF IInv
<1>7. ASSUME CarveMore \/ CarveLast PROVE IInv'
  <2>1. Carving
    BY <1>7 DEF Carving, CarveMore, CarveLast
  <2>2. TakeLen \in Nat \ {0} /\ TakeLen <= blocks /\ NewRun \in Run
    BY <2>1, CarvedRunFits DEF Carving
  <2>3. cursor' \in Nat /\ blocks' \in Nat /\ carved' \in Seq(Run)
    <3>1. cursor \in Nat /\ blocks \in Nat /\ carved \in Seq(Run)
      BY <1>1 DEF TypeOK
    <3>2. cursor' = cursor + TakeLen /\ carved' = Append(carved, NewRun)
      BY <2>1 DEF Carving
    <3>3. blocks' = blocks - TakeLen \/ blocks' = 0
      BY <1>7 DEF CarveMore, CarveLast
    <3>4. cursor' \in Nat /\ blocks' \in Nat
      BY <2>2, <3>1, <3>2, <3>3
    <3>5. Append(carved, NewRun) \in Seq(Run)
      BY <2>2, <3>1, AppendProperties
    <3> QED BY <3>2, <3>4, <3>5
  <2>4. out' \in Seq(Run) /\ granted' \in Seq(Run)
    <3>1. Append(out, NewRun) \in Seq(Run)
      BY <1>1, <2>2, AppendProperties DEF TypeOK
    <3>2. granted \o Append(out, NewRun) \in Seq(Run)
      BY <1>1, <3>1, ConcatProperties DEF TypeOK
    <3>3. <<>> \in Seq(Run)
      BY EmptySeq
    <3> QED BY <1>1, <1>7, <3>1, <3>2, <3>3 DEF TypeOK, CarveMore, CarveLast
  <2>5. TypeOK'
    BY <1>1, <1>7, <2>3, <2>4 DEF TypeOK, CarveMore, CarveLast
  <2>6. SortedByStart(reserved)' /\ NextRunAhead'
    BY <1>7 DEF CarveMore, CarveLast, IInv, SortedByStart, NextRunAhead
  <2>7. IdleIsClean'
    BY <1>1, <1>7, <2>2 DEF CarveMore, CarveLast, IdleIsClean, TypeOK
  <2> QED BY <2>1, <2>5, <2>6, <2>7, CarvingKeepsGrants DEF IInv
<1>8. CASE UNCHANGED vars
  BY <1>8 DEF vars, IInv, TypeOK, SortedByStart, PassedRunsBehind, NextRunAhead, IdleIsClean,
     CursorPastOrigin, GrantsAreFree, GrantsAscend, NoFreeBlockSkipped, HasNextReserved, NextRun,
     IsReserved, BlocksOf, RunEnd, Covered
<1> QED BY <1>2, <1>3, <1>4, <1>5, <1>6, <1>7, <1>8 DEF Next, Call, Step

THEOREM Invariance == Spec => []IInv
BY InitInv, StepInv, PTL DEF Spec

-----------------------------------------------------------------------------
\* The allocator's state is of its type whatever is reserved and asked for.
THEOREM TypeCorrect == Spec => []TypeOK
<1>1. IInv => TypeOK
  BY DEF IInv
<1> QED BY <1>1, Invariance, PTL

\* On every device, no run handed out leaves the device or touches a
\* reserved run, even if the reserved runs overlap one another.
THEOREM NeverGrantsReserved == Spec => []GrantsAreFree
<1>1. IInv => GrantsAreFree
  BY DEF IInv
<1> QED BY <1>1, Invariance, PTL

\* Allocation order is emission order: runs ascend over all calls.
THEOREM AllocationOrderAscends == Spec => []GrantsAscend
<1>1. IInv => GrantsAscend
  BY DEF IInv
<1> QED BY <1>1, Invariance, PTL

\* The cursor never leaves a free block behind.
THEOREM NothingLeftBehind == Spec => []NoFreeBlockSkipped
<1>1. IInv => NoFreeBlockSkipped
  BY DEF IInv
<1> QED BY <1>1, Invariance, PTL
-----------------------------------------------------------------------------
(***************************************************************************)
(* The refinement: an Allocator is a BlockSupply.                          *)
(***************************************************************************)

\* What the running call has carved lies behind the cursor.
OutBehindCursor == \A i \in DOMAIN out : RunEnd(out[i]) <= cursor

LEMMA OutInv == Spec => []OutBehindCursor
<1>1. Init => OutBehindCursor
  BY DEF Init, OutBehindCursor
<1>2. IInv /\ OutBehindCursor /\ [Next]_vars => OutBehindCursor'
  <2> SUFFICES ASSUME IInv, OutBehindCursor, [Next]_vars PROVE OutBehindCursor'
    OBVIOUS
  <2>1. /\ cursor \in Nat /\ out \in Seq(Run)
        /\ \A i \in DOMAIN out : RunEnd(out[i]) \in Nat
    <3>1. cursor \in Nat /\ out \in Seq(Run)
      BY DEF IInv, TypeOK
    <3>2. ASSUME NEW i \in DOMAIN out PROVE RunEnd(out[i]) \in Nat
      <4>1. out[i] \in Run
        BY <3>1
      <4> QED BY <4>1 DEF RunEnd, Run
    <3> QED BY <3>1, <3>2
  <2>2. CASE UNCHANGED out /\ cursor <= cursor'
    <3>1. cursor' \in Nat
      BY StepInv DEF IInv, TypeOK
    <3> QED BY <2>1, <2>2, <3>1 DEF OutBehindCursor, RunEnd
  <2>3. CASE out' = <<>>
    BY <2>3 DEF OutBehindCursor
  <2>4. CASE CarveMore
    <3>1. Carving /\ out' = Append(out, NewRun) /\ cursor' = cursor + TakeLen
      BY <2>4 DEF CarveMore, Carving
    <3>2. TakeLen \in Nat \ {0} /\ NewRun \in Run
      BY <3>1, CarvedRunFits DEF Carving
    <3>3. /\ Len(out) \in Nat
          /\ DOMAIN out = 1 .. Len(out)
          /\ DOMAIN out' = 1 .. Len(out) + 1
          /\ \A i \in 1 .. Len(out) : out'[i] = out[i]
          /\ out'[Len(out) + 1] = NewRun
      BY <2>1, <3>1, <3>2, AppendProperties, LenProperties
    <3>4. RunEnd(NewRun) = cursor'
      BY <3>1 DEF RunEnd, NewRun
    <3>5. ASSUME NEW i \in DOMAIN out' PROVE RunEnd(out'[i]) <= cursor'
      <4>1. CASE i \in 1 .. Len(out)
        BY <2>1, <3>1, <3>2, <3>3, <4>1 DEF OutBehindCursor
      <4>2. CASE i = Len(out) + 1
        BY <2>1, <3>1, <3>2, <3>3, <3>4, <4>2
      <4> QED BY <3>3, <4>1, <4>2
    <3> QED BY <3>5 DEF OutBehindCursor, RunEnd
  <2>5. SkipOver => cursor <= cursor'
    <3> SUFFICES ASSUME SkipOver PROVE cursor <= cursor'
      OBVIOUS
    <3>1. cursor < RunEnd(NextRun) /\ cursor' = RunEnd(NextRun)
      BY DEF SkipOver
    <3>2. NextRun \in Run
      <4>1. next_reserved \in 1 .. Len(reserved)
        BY DEF SkipOver, HasNextReserved, IInv, TypeOK
      <4>2. reserved \in Seq(Run)
        BY DEF IInv, TypeOK
      <4> QED BY <4>1, <4>2 DEF NextRun
    <3>3. RunEnd(NextRun) \in Nat
      BY <3>2 DEF RunEnd, Run
    <3> QED BY <2>1, <3>1, <3>3
  <2> QED BY <2>1, <2>2, <2>3, <2>4, <2>5
          DEF Next, Call, Step, Take, SkipBehind, SkipOver, SkipDone, Exhausted, CarveLast, vars
<1> QED BY <1>1, <1>2, Invariance, PTL DEF Spec

\* The blocks carved by the running call are finitely many, all behind the
\* cursor, so disjoint from everything still ahead.
LEMMA OutBlocks ==
  ASSUME IInv, OutBehindCursor
  PROVE  /\ Covered(out) \subseteq 0 .. cursor - 1
         /\ IsFiniteSet(Covered(out))
         /\ Cardinality(Covered(out)) \in Nat
<1>1. cursor \in Nat /\ out \in Seq(Run)
  BY DEF IInv, TypeOK
<1>2. ASSUME NEW b \in Covered(out) PROVE b \in 0 .. cursor - 1
  <2>1. PICK i \in 1 .. Len(out) : b \in BlocksOf(out[i])
    BY <1>1, CoveredMember
  <2>2. out[i] \in Run /\ RunEnd(out[i]) <= cursor
    BY <1>1 DEF OutBehindCursor
  <2> QED BY <1>1, <2>1, <2>2 DEF BlocksOf, RunEnd, Run
<1>3. IsFiniteSet(0 .. cursor - 1)
  BY <1>1, FS_Interval
<1> QED BY <1>2, <1>3, FS_Subset, FS_CardinalityType

LEMMA CoveredConcat ==
  ASSUME NEW s \in Seq(Run), NEW t \in Seq(Run)
  PROVE  Covered(s \o t) = Covered(s) \cup Covered(t)
<1>1. /\ s \o t \in Seq(Run)
      /\ Len(s \o t) = Len(s) + Len(t)
      /\ Len(s) \in Nat /\ Len(t) \in Nat
  BY ConcatProperties, LenProperties
<1>2. \A i \in 1 .. Len(s) : i \in 1 .. Len(s \o t) /\ (s \o t)[i] = s[i]
  BY <1>1, ConcatProperties
<1>3. \A i \in 1 .. Len(t) : Len(s) + i \in 1 .. Len(s \o t) /\ (s \o t)[Len(s) + i] = t[i]
  <2> TAKE i \in 1 .. Len(t)
  <2>1. Len(s) + i \in 1 .. Len(s) + Len(t) /\ ~(Len(s) + i <= Len(s)) /\ (Len(s) + i) - Len(s) = i
    BY <1>1
  <2> QED BY <1>1, <2>1, ConcatProperties
<1>4. ASSUME NEW i \in 1 .. Len(s \o t)
      PROVE  \/ i \in 1 .. Len(s) /\ (s \o t)[i] = s[i]
             \/ i - Len(s) \in 1 .. Len(t) /\ (s \o t)[i] = t[i - Len(s)]
  BY <1>1, ConcatProperties
<1>5. ASSUME NEW b PROVE b \in Covered(s \o t) <=> b \in Covered(s) \/ b \in Covered(t)
  <2>1. ASSUME b \in Covered(s \o t) PROVE b \in Covered(s) \/ b \in Covered(t)
    <3>1. PICK i \in 1 .. Len(s \o t) : b \in BlocksOf((s \o t)[i])
      BY <1>1, <2>1, CoveredMember
    <3> QED BY <1>4, <3>1, CoveredMember
  <2>2. ASSUME b \in Covered(s) PROVE b \in Covered(s \o t)
    <3>1. PICK i \in 1 .. Len(s) : b \in BlocksOf(s[i])
      BY <2>2, CoveredMember
    <3> QED BY <1>1, <1>2, <3>1, CoveredMember
  <2>3. ASSUME b \in Covered(t) PROVE b \in Covered(s \o t)
    <3>1. PICK i \in 1 .. Len(t) : b \in BlocksOf(t[i])
      BY <2>3, CoveredMember
    <3> QED BY <1>1, <1>3, <3>1, CoveredMember
  <2> QED BY <2>1, <2>2, <2>3
<1> QED BY <1>5

\* A carving step splits its run off the free blocks ahead.
LEMMA CarvingSplitsAhead ==
  ASSUME IInv, Carving
  PROVE  /\ FreeAhead = BlocksOf(NewRun) \cup FreeAhead'
         /\ BlocksOf(NewRun) = cursor .. cursor' - 1
         /\ \A b \in FreeAhead' : b >= cursor'
         /\ IsFiniteSet(BlocksOf(NewRun))
         /\ Cardinality(BlocksOf(NewRun)) = TakeLen
         /\ cursor \in Nat /\ cursor' = cursor + TakeLen /\ TakeLen \in Nat \ {0}
<1>1. TakeLen \in Nat \ {0} /\ cursor + TakeLen <= end /\ NewRun \in Run
  BY CarvedRunFits DEF Carving
<1>2. cursor \in Nat /\ end \in Nat /\ reserved \in Seq(Run)
  BY DEF IInv, TypeOK
<1>3. cursor' = cursor + TakeLen /\ UNCHANGED <<end, reserved>>
  BY DEF Carving, params
<1>4. BlocksOf(NewRun) = cursor .. cursor' - 1
  BY <1>1, <1>2, <1>3 DEF BlocksOf, RunEnd, NewRun
<1>5. \A b \in BlocksOf(NewRun) : ~IsReserved(b)
  <2> SUFFICES ASSUME NEW b \in BlocksOf(NewRun), NEW j \in DOMAIN reserved, b \in BlocksOf(reserved[j])
               PROVE  FALSE
    BY DEF IsReserved
  <2>1. RunEnd(NewRun) <= reserved[j].start \/ RunEnd(reserved[j]) <= NewRun.start
    BY CarvedRunIsFree DEF Carving
  <2>2. reserved[j] \in Run
    BY <1>2
  <2>3. b \in Nat /\ NewRun.start <= b /\ b < RunEnd(NewRun)
    BY <1>1, <1>2 DEF BlocksOf, RunEnd, NewRun
  <2>4. reserved[j].start <= b /\ b < RunEnd(reserved[j])
    BY <2>2, <2>3 DEF BlocksOf, RunEnd, Run
  <2>5. /\ NewRun.start \in Nat /\ RunEnd(NewRun) \in Nat
        /\ reserved[j].start \in Nat /\ RunEnd(reserved[j]) \in Nat
    BY <1>1, <1>2, <2>2 DEF RunEnd, NewRun, Run
  <2> QED BY <2>1, <2>3, <2>4, <2>5
<1>6. FreeAhead' = {b \in cursor' .. end - 1 : ~IsReserved(b)}
  BY <1>3 DEF FreeAhead, IsReserved, BlocksOf, RunEnd
<1>7. FreeAhead = BlocksOf(NewRun) \cup FreeAhead'
  BY <1>1, <1>2, <1>3, <1>4, <1>5, <1>6 DEF FreeAhead
<1>8. \A b \in FreeAhead' : b >= cursor'
  BY <1>1, <1>2, <1>3, <1>6
<1>9. IsFiniteSet(BlocksOf(NewRun)) /\ Cardinality(BlocksOf(NewRun)) = TakeLen
  BY <1>1, <1>2, <1>3, <1>4, FS_Interval
<1> QED BY <1>1, <1>2, <1>3, <1>4, <1>7, <1>8, <1>9
\* A carving step adds the new run's blocks to those of the running call.
LEMMA CarvingCounts ==
  ASSUME IInv, OutBehindCursor, Carving
  PROVE  LET S == Covered(out) \cup BlocksOf(NewRun) IN
         /\ Covered(Append(out, NewRun)) = S
         /\ Cardinality(S) = Cardinality(Covered(out)) + TakeLen
         /\ Covered(out) \cap (BlocksOf(NewRun) \cup FreeAhead') = {}
<1> DEFINE S == Covered(out) \cup BlocksOf(NewRun)
<1>1. out \in Seq(Run) /\ NewRun \in Run
  BY CarvedRunFits DEF IInv, TypeOK, Carving
<1>2. Covered(Append(out, NewRun)) = S
  BY <1>1, CoveredAppend
<1>3. Covered(out) \cap (BlocksOf(NewRun) \cup FreeAhead') = {}
  BY OutBlocks, CarvingSplitsAhead
<1>4. Cardinality(S) = Cardinality(Covered(out)) + TakeLen
  <2>1. Covered(out) \cap BlocksOf(NewRun) = {}
    BY <1>3
  <2>2. Cardinality(Covered(out) \cap BlocksOf(NewRun)) = 0
    BY <2>1, FS_EmptySet
  <2>3. Cardinality(S) = Cardinality(Covered(out)) + Cardinality(BlocksOf(NewRun))
                           - Cardinality(Covered(out) \cap BlocksOf(NewRun))
    BY OutBlocks, CarvingSplitsAhead, FS_Union
  <2> QED BY <2>2, <2>3, OutBlocks, CarvingSplitsAhead
<1> QED BY <1>2, <1>3, <1>4

LEMMA SupplyCardinality == \A S : Supply!Cardinality(S) = Cardinality(S)
BY DEF Supply!Cardinality, Cardinality, IsFiniteSet, Supply!IsFiniteSet

LEMMA StepRefines ==
  ASSUME IInv, OutBehindCursor, [Next]_vars
  PROVE  [Supply!SupplyNext]_Supply!supplyVars
<1> DEFINE free    == FreeAhead \cup Covered(out)
           given   == Covered(granted)
           pending == blocks + Cardinality(Covered(out))
           stutter == UNCHANGED <<free, given, pending, none>>
<1>1. SUFFICES \/ \E n \in RequestSizes : Supply!Ask(n)
               \/ Supply!Grant
               \/ Supply!Refuse
               \/ stutter
  BY DEF Supply!SupplyNext, Supply!supplyVars
<1>2. /\ cursor \in Nat /\ end \in Nat /\ blocks \in Nat
      /\ reserved \in Seq(Run) /\ out \in Seq(Run) /\ granted \in Seq(Run)
      /\ next_reserved \in 1 .. Len(reserved) + 1
  BY DEF IInv, TypeOK
<1>3. Covered(<<>>) = {} /\ Cardinality({}) = 0
  BY FS_EmptySet DEF Covered
<1>c. Cardinality(Covered(<<>>)) = 0
  BY <1>3
<1>p. /\ free' = FreeAhead' \cup Covered(out')
      /\ given' = Covered(granted')
      /\ pending' = blocks' + Cardinality(Covered(out'))
  BY DEF Covered, BlocksOf, RunEnd
<1>o. /\ IsFiniteSet(Covered(out))
      /\ Cardinality(Covered(out)) \in Nat
      /\ Covered(out) \subseteq 0 .. cursor - 1
  BY OutBlocks
<1> HIDE DEF free, given, pending
<1>4. ASSUME NEW n \in RequestSizes, NEW cap \in RunCaps, Take(n, cap)
      PROVE  Supply!Ask(n)
  <2>1. blocks = 0 /\ out = <<>> /\ pending = 0
    BY <1>3, <1>4 DEF Take, IInv, IdleIsClean, pending
  <2>2. n \in Nat /\ n > 0 /\ out' = <<>> /\ blocks' = n
    BY <1>4, AllocatorAssumption DEF Take
  <2>3. pending' = n
    BY <1>c, <1>p, <2>2
  <2>4. UNCHANGED <<free, given, none>>
    BY <1>4, <2>1, <2>2 DEF Take, params, FreeAhead, IsReserved, BlocksOf, RunEnd, Covered, free, given
  <2> QED BY <2>1, <2>2, <2>3, <2>4 DEF Supply!Ask, free, given, pending
<1>5. ASSUME SkipBehind \/ SkipDone \/ UNCHANGED vars PROVE stutter
  BY <1>5 DEF SkipBehind, SkipDone, vars, params, FreeAhead, IsReserved, BlocksOf, RunEnd, Covered,
     free, given, pending
<1>6. ASSUME SkipOver PROVE stutter
  <2>1. /\ NextRun \in Run /\ next_reserved \in DOMAIN reserved
        /\ cursor' = RunEnd(NextRun) /\ NextRun.start <= cursor /\ cursor < cursor'
        /\ UNCHANGED <<end, reserved, out, granted, blocks, none>>
    BY <1>2, <1>6 DEF SkipOver, params, HasNextReserved, NextRun
  <2>2. \A b \in cursor .. cursor' - 1 : IsReserved(b)
    <3>1. /\ BlocksOf(NextRun) = NextRun.start .. cursor' - 1
          /\ NextRun = reserved[next_reserved]
          /\ NextRun.start \in Nat /\ cursor' \in Int
      BY <2>1 DEF BlocksOf, RunEnd, NextRun, Run
    <3>2. \A b \in cursor .. cursor' - 1 : b \in BlocksOf(reserved[next_reserved])
      BY <1>2, <2>1, <3>1
    <3> QED BY <2>1, <3>2 DEF IsReserved
  <2>3. FreeAhead' = {b \in cursor' .. end - 1 : ~IsReserved(b)}
    BY <2>1 DEF FreeAhead, IsReserved, BlocksOf, RunEnd
  <2>4. FreeAhead' = FreeAhead
    <3>1. cursor' \in Nat
      BY <1>2, <2>1 DEF RunEnd, Run
    <3>2. ASSUME NEW b PROVE b \in FreeAhead' <=> b \in FreeAhead
      BY <1>2, <2>1, <2>2, <2>3, <3>1 DEF FreeAhead
    <3> QED BY <3>2
  <2> QED BY <2>1, <2>4, <1>p DEF free, given, pending
<1>7. ASSUME Exhausted PROVE Supply!Refuse
  <2>1. blocks > 0 /\ cursor >= end /\ pc = "carving"
    BY <1>7 DEF Exhausted, IInv, NextRunAhead
  <2>2. FreeAhead = {} /\ FreeAhead' = {}
    BY <1>2, <1>7, <2>1 DEF Exhausted, params, FreeAhead
  <2>3. out' = <<>> /\ blocks' = 0 /\ none' = TRUE /\ UNCHANGED granted
    BY <1>7 DEF Exhausted
  <2>4. free = Covered(out) /\ free' = {} /\ pending' = 0
    BY <1>3, <1>c, <1>p, <2>2, <2>3 DEF free
  <2>5. Cardinality(free) < pending /\ pending > 0
    BY <1>2, <1>o, <2>1, <2>4 DEF pending
  <2>6. UNCHANGED given
    BY <1>p, <2>3 DEF given
  <2> QED BY <2>3, <2>4, <2>5, <2>6, SupplyCardinality DEF Supply!Refuse, free, given, pending
<1>8. ASSUME CarveMore PROVE stutter
  <2>1. Carving /\ out' = Append(out, NewRun) /\ blocks' = blocks - TakeLen
        /\ UNCHANGED <<granted, none>>
    BY <1>8 DEF CarveMore, Carving
  <2>2. Covered(out') = Covered(out) \cup BlocksOf(NewRun)
    BY <2>1, CarvingCounts
  <2>3. free' = free
    BY <1>p, <2>1, <2>2, CarvingSplitsAhead DEF free
  <2>4. Cardinality(Covered(out')) = Cardinality(Covered(out)) + TakeLen
    BY <2>1, <2>2, CarvingCounts
  <2>5. pending' = pending
    BY <1>2, <1>o, <1>p, <2>1, <2>4, CarvingSplitsAhead DEF pending
  <2> QED BY <1>p, <2>1, <2>3, <2>5 DEF given
<1>9. ASSUME CarveLast PROVE Supply!Grant
  <2> DEFINE S == Covered(out) \cup BlocksOf(NewRun)
  <2>1. /\ Carving /\ TakeLen = blocks /\ out' = <<>> /\ blocks' = 0
        /\ granted' = granted \o Append(out, NewRun) /\ UNCHANGED none
    BY <1>9 DEF CarveLast, Carving
  <2>2. Append(out, NewRun) \in Seq(Run)
    <3>1. NewRun \in Run
      BY <2>1, CarvedRunFits DEF Carving
    <3>2. out \in Seq(Run)
      BY <1>2
    <3> QED BY <3>1, <3>2, AppendProperties
  <2>3. given' = given \cup S
    <3>1. Covered(Append(out, NewRun)) = S
      BY <2>1, CarvingCounts
    <3>2. Covered(granted \o Append(out, NewRun))
            = Covered(granted) \cup Covered(Append(out, NewRun))
      BY <1>2, <2>2, CoveredConcat
    <3>3. Covered(granted') = Covered(granted \o Append(out, NewRun))
      BY <2>1
    <3> QED BY <1>p, <3>1, <3>2, <3>3 DEF given
  <2>4. free' = FreeAhead' /\ pending' = 0
    BY <1>3, <1>c, <1>p, <2>1
  <2>5. free = S \cup FreeAhead'
    BY <2>1, CarvingSplitsAhead DEF free
  <2>6. BlocksOf(NewRun) \cap FreeAhead' = {}
    <3>1. ASSUME NEW b \in BlocksOf(NewRun), b \in FreeAhead' PROVE FALSE
      <4>1. b >= cursor'
        BY <2>1, <3>1, CarvingSplitsAhead
      <4>2. cursor' = cursor + TakeLen /\ TakeLen \in Nat
        BY <2>1, CarvingSplitsAhead
      <4>3. b \in cursor .. cursor' - 1
        BY <2>1, <3>1, CarvingSplitsAhead
      <4> QED BY <1>2, <4>1, <4>2, <4>3
    <3> QED BY <3>1
  <2>7. S \cap FreeAhead' = {}
    BY <2>1, <2>6, CarvingCounts
  <2>8. free' = free \ S /\ S \in SUBSET free
    BY <2>4, <2>5, <2>7
  <2>9. pending > 0 /\ Cardinality(S) = pending
    BY <1>2, <1>o, <2>1, CarvingCounts, CarvingSplitsAhead DEF pending
  <2>10. \A b \in S, c \in free \ S : b < c
    <3>1. ASSUME NEW b \in S, NEW c \in FreeAhead' PROVE b < c
      <4>1. c >= cursor' /\ cursor' = cursor + TakeLen /\ TakeLen \in Nat \ {0}
        BY <2>1, CarvingSplitsAhead
      <4>2. b \in 0 .. cursor' - 1
        BY <1>2, <1>o, <2>1, <4>1, CarvingSplitsAhead
      <4>3. c \in Int
        BY <1>2, <2>1 DEF FreeAhead, Carving, params
      <4> QED BY <1>2, <4>1, <4>2, <4>3
    <3> QED BY <2>4, <2>8, <3>1
  <2> QED BY <2>1, <2>3, <2>4, <2>8, <2>9, <2>10, SupplyCardinality
          DEF Supply!Grant, Supply!Lowest, free, given, pending
<1> QED BY <1>1, <1>4, <1>5, <1>6, <1>7, <1>8, <1>9 DEF Next, Call, Step

\* take() hands out exactly the lowest free blocks that were asked for, and
\* returns None only when fewer are free: the allocator implements
\* BlockSupply on every device.
THEOREM Refinement == Spec => ImplementsSupply
<1>1. Init => Supply!SupplyInit
  <2> SUFFICES ASSUME Init PROVE Supply!SupplyInit
    OBVIOUS
  <2>1. out = <<>> /\ granted = <<>> /\ blocks = 0 /\ none = FALSE /\ cursor \in Nat /\ end \in Nat
    BY AllocatorAssumption DEF Init
  <2>2. Covered(out) = {} /\ Covered(granted) = {} /\ Cardinality(Covered(out)) = 0
    BY <2>1, FS_EmptySet DEF Covered
  <2>3. FreeAhead \subseteq Nat
    <3>1. cursor .. end - 1 \subseteq Nat
      BY <2>1
    <3> QED BY <3>1 DEF FreeAhead
  <2>4. FreeAhead \cup Covered(out) \in SUBSET Nat
    BY <2>2, <2>3
  <2>5. blocks + Cardinality(Covered(out)) = 0
    BY <2>1, <2>2
  <2> QED BY <2>1, <2>2, <2>4, <2>5, Zenon DEF Supply!SupplyInit
<1>2. IInv /\ OutBehindCursor /\ [Next]_vars => [Supply!SupplyNext]_Supply!supplyVars
  BY StepRefines
<1> QED BY <1>1, <1>2, Invariance, OutInv, PTL
        DEF Spec, ImplementsSupply, Supply!SupplySpec
-----------------------------------------------------------------------------
(***************************************************************************)
(* Splits.  The runs of a running call touch only where max_run cut the    *)
(* first one; and the last of them ends short of the place the loop looks  *)
(* at next, unless max_run cut it too, the device ends there, or a         *)
(* reserved run starts there and has yet to be jumped over.                *)
(***************************************************************************)
ForcedSplits(runs) ==
  \A i \in 1 .. Len(runs) :
    /\ runs[i].len <= max_run
    /\ i < Len(runs) /\ RunEnd(runs[i]) = runs[i + 1].start => runs[i].len = max_run

LastSplit ==
  LET last == out[Len(out)] IN
  out # <<>> =>
    \/ last.len = max_run
    \/ RunEnd(last) < cursor
    \/ cursor >= end
    \/ HasNextReserved /\ NextRun.start = cursor

SplitInv == ForcedSplits(out) /\ LastSplit

\* Carving the next run keeps the splits forced.
LEMMA CarvingSplits ==
  ASSUME IInv, SplitInv, Carving
  PROVE  ForcedSplits(Append(out, NewRun))
<1> DEFINE more == Append(out, NewRun)
<1>1. /\ out \in Seq(Run) /\ cursor \in Nat /\ end \in Nat /\ max_run \in Nat \ {0}
      /\ cursor < end /\ pc = "carving"
  BY DEF IInv, TypeOK, Carving
<1>2. NewRun \in Run /\ NewRun.start = cursor /\ NewRun.len <= max_run
  BY <1>1, CarvedRunFits DEF NewRun
<1>3. /\ Len(out) \in Nat
      /\ Len(more) = Len(out) + 1
      /\ \A i \in 1 .. Len(out) : more[i] = out[i]
      /\ more[Len(out) + 1] = NewRun
  BY <1>1, <1>2, AppendProperties, LenProperties
<1>4. ASSUME out # <<>>, RunEnd(out[Len(out)]) = cursor
      PROVE  out[Len(out)].len = max_run
  <2>1. ~(RunEnd(out[Len(out)]) < cursor)
    BY <1>1, <1>4
  <2>2. ~(cursor >= end)
    BY <1>1
  <2>3. ~(HasNextReserved /\ NextRun.start = cursor)
    BY <1>1 DEF IInv, NextRunAhead
  <2> QED BY <1>4, <2>1, <2>2, <2>3 DEF SplitInv, LastSplit
<1> SUFFICES ASSUME NEW i \in 1 .. Len(out) + 1
             PROVE  /\ more[i].len <= max_run
                    /\ i < Len(out) + 1 /\ RunEnd(more[i]) = more[i + 1].start
                         => more[i].len = max_run
  BY <1>3 DEF ForcedSplits
<1> HIDE DEF more
<1>5. CASE i < Len(out)
  <2>1. i \in 1 .. Len(out) /\ i + 1 \in 1 .. Len(out)
    BY <1>3, <1>5
  <2>2. more[i] = out[i] /\ more[i + 1] = out[i + 1]
    BY <1>3, <2>1
  <2> QED BY <1>5, <2>1, <2>2 DEF SplitInv, ForcedSplits
<1>6. CASE i = Len(out)
  <2>1. i \in 1 .. Len(out) /\ out # <<>>
    BY <1>3, <1>6
  <2>2. more[i] = out[i] /\ more[i + 1] = NewRun
    BY <1>3, <1>6, <2>1
  <2>3. out[i].len <= max_run
    BY <2>1 DEF SplitInv, ForcedSplits
  <2>4. RunEnd(out[i]) = cursor => out[i].len = max_run
    BY <1>4, <1>6, <2>1
  <2> QED BY <1>2, <2>2, <2>3, <2>4
<1>7. CASE i = Len(out) + 1
  BY <1>2, <1>3, <1>7
<1> QED BY <1>3, <1>5, <1>6, <1>7

LEMMA SplitsInv == Spec => []SplitInv
<1>1. Init => SplitInv
  BY LenProperties DEF Init, SplitInv, ForcedSplits, LastSplit
<1>2. IInv /\ OutBehindCursor /\ SplitInv /\ [Next]_vars => SplitInv'
  <2> SUFFICES ASSUME IInv, OutBehindCursor, SplitInv, [Next]_vars PROVE SplitInv'
    OBVIOUS
  <2>1. /\ out \in Seq(Run) /\ cursor \in Nat /\ end \in Nat /\ max_run \in Nat \ {0}
        /\ reserved \in Seq(Run) /\ next_reserved \in 1 .. Len(reserved) + 1
    BY DEF IInv, TypeOK
  <2>2. /\ Len(out) \in Nat
        /\ out # <<>> => Len(out) \in DOMAIN out /\ out[Len(out)] \in Run
    <3>1. Len(out) \in Nat /\ DOMAIN out = 1 .. Len(out) /\ (out # <<>> => Len(out) # 0)
      BY <2>1, EmptySeq, LenProperties
    <3>2. out # <<>> => Len(out) \in DOMAIN out
      BY <3>1
    <3> QED BY <2>1, <3>1, <3>2
  <2>3. HasNextReserved => NextRun \in Run
    BY <2>1 DEF HasNextReserved, NextRun
  <2>4. CASE out' = <<>>
    BY <2>4, EmptySeq DEF SplitInv, ForcedSplits, LastSplit
  <2>5. CASE UNCHANGED <<cursor, next_reserved, params, max_run, out>>
    BY <2>5 DEF params, SplitInv, ForcedSplits, LastSplit, RunEnd, HasNextReserved, NextRun
  <2>6. CASE SkipBehind
    <3>1. HasNextReserved => ~(NextRun.start = cursor)
      BY <2>1, <2>3, <2>6 DEF SkipBehind, RunEnd, Run
    <3>2. UNCHANGED <<cursor, end, max_run, out>>
      BY <2>6 DEF SkipBehind, params
    <3>3. ForcedSplits(out)'
      BY <3>2 DEF SplitInv, ForcedSplits, RunEnd
    <3>4. LastSplit'
      BY <3>1, <3>2 DEF SplitInv, LastSplit, RunEnd
    <3> QED BY <3>3, <3>4 DEF SplitInv
  <2>7. CASE SkipOver
    <3>1. UNCHANGED <<end, max_run, out>> /\ cursor < cursor' /\ cursor' = RunEnd(NextRun)
      BY <2>7 DEF SkipOver, params
    <3>2. cursor' \in Nat
      BY <2>3, <2>7, <3>1 DEF SkipOver, RunEnd, Run
    <3>3. ForcedSplits(out)'
      BY <3>1 DEF SplitInv, ForcedSplits, RunEnd
    <3>4. ASSUME out # <<>> PROVE RunEnd(out[Len(out)]) < cursor'
      <4>1. RunEnd(out[Len(out)]) <= cursor /\ RunEnd(out[Len(out)]) \in Nat
        BY <2>2, <3>4 DEF OutBehindCursor, RunEnd, Run
      <4> QED BY <2>1, <3>1, <3>2, <4>1
    <3>5. LastSplit'
      BY <3>1, <3>4 DEF LastSplit, RunEnd
    <3> QED BY <3>3, <3>5 DEF SplitInv
  <2>8. CASE CarveMore
    <3>1. /\ Carving /\ out' = Append(out, NewRun) /\ cursor' = cursor + TakeLen
          /\ TakeLen < blocks
          /\ UNCHANGED <<next_reserved, reserved, end, max_run>>
      BY <2>8 DEF CarveMore, Carving, params
    <3>2. NewRun \in Run /\ TakeLen \in Nat \ {0} /\ blocks \in Nat
      BY <3>1, CarvedRunFits DEF Carving, IInv, TypeOK
    <3>3. ForcedSplits(out)'
      <4>1. ForcedSplits(Append(out, NewRun))
        BY <3>1, CarvingSplits
      <4> QED BY <3>1, <4>1 DEF ForcedSplits, RunEnd
    <3>4. Len(out') = Len(out) + 1 /\ out'[Len(out')] = NewRun
      BY <2>1, <3>1, <3>2, AppendProperties
    <3>5. NewRun.len = TakeLen
      BY DEF NewRun
    <3>6. Limit \in Nat
      BY <2>1, <2>3 DEF Limit, Run
    <3>7. TakeLen = max_run \/ cursor + TakeLen = Limit
      BY <2>1, <3>1, <3>2, <3>6 DEF TakeLen, Least
    <3>8. Limit = end \/ (HasNextReserved /\ NextRun.start = Limit)
      BY DEF Limit
    <3>9. (HasNextReserved /\ NextRun.start = Limit)
            => (HasNextReserved' /\ NextRun'.start = Limit)
      BY <3>1 DEF HasNextReserved, NextRun
    <3>10. end' = end /\ end \in Nat
      BY <2>1, <3>1
    <3>11. LastSplit'
      BY <3>1, <3>4, <3>5, <3>7, <3>8, <3>9, <3>10 DEF LastSplit
    <3> QED BY <3>3, <3>11 DEF SplitInv
  <2> QED BY <2>4, <2>5, <2>6, <2>7, <2>8
          DEF Next, Call, Step, Take, SkipDone, Exhausted, CarveLast, vars, params
<1> QED BY <1>1, <1>2, Invariance, OutInv, PTL DEF Spec

\* take() splits an answer only where max_run caps a run or a reserved run
\* lies in between, whatever is reserved and asked for.
THEOREM SplitsAlwaysForced == Spec => SplitsAreForced
<1> DEFINE Answered ==
      \A i \in Len(granted) + 1 .. Len(granted') :
        /\ granted'[i].len <= max_run
        /\ i < Len(granted') /\ RunEnd(granted'[i]) = granted'[i + 1].start
             => granted'[i].len = max_run
<1>1. IInv /\ SplitInv /\ [Next]_vars => [Answered]_vars
  <2> SUFFICES ASSUME IInv, SplitInv, Next PROVE Answered
    OBVIOUS
  <2>1. granted \in Seq(Run) /\ out \in Seq(Run) /\ max_run \in Nat
    BY DEF IInv, TypeOK
  <2>2. Len(granted) \in Nat
    BY <2>1, LenProperties
  <2>3. CASE UNCHANGED granted
    BY <2>2, <2>3
  <2>4. CASE CarveLast
    <3>1. Carving /\ granted' = granted \o Append(out, NewRun)
      BY <2>4 DEF CarveLast, Carving
    <3>2. NewRun \in Run
      BY <3>1, CarvedRunFits DEF Carving
    <3>3. PICK more \in Seq(Run) : more = Append(out, NewRun)
      BY <2>1, <3>2, AppendProperties
    <3>4. ForcedSplits(more)
      BY <3>1, <3>3, CarvingSplits
    <3>5. granted' = granted \o more
      BY <3>1, <3>3
    <3>6. /\ Len(granted') = Len(granted) + Len(more)
          /\ Len(more) \in Nat
          /\ \A i \in 1 .. Len(granted') : ~(i <= Len(granted)) =>
               granted'[i] = more[i - Len(granted)]
      BY <2>1, <3>5, ConcatProperties, LenProperties
    <3>7. SUFFICES ASSUME NEW i \in Len(granted) + 1 .. Len(granted')
                   PROVE  /\ granted'[i].len <= max_run
                          /\ i < Len(granted') /\ RunEnd(granted'[i]) = granted'[i + 1].start
                               => granted'[i].len = max_run
      OBVIOUS
    <3>8. PICK k \in 1 .. Len(more) : i = Len(granted) + k
      <4>1. i - Len(granted) \in 1 .. Len(more) /\ i = Len(granted) + (i - Len(granted))
        BY <2>2, <3>6
      <4> QED BY <4>1
    <3>9. granted'[i] = more[k]
      <4>1. i \in 1 .. Len(granted') /\ ~(i <= Len(granted)) /\ i - Len(granted) = k
        BY <2>2, <3>6, <3>8
      <4> QED BY <3>6, <4>1
    <3>10. ASSUME i < Len(granted') PROVE k < Len(more) /\ granted'[i + 1] = more[k + 1]
      <4>1. /\ i + 1 \in 1 .. Len(granted') /\ ~(i + 1 <= Len(granted))
            /\ (i + 1) - Len(granted) = k + 1 /\ k < Len(more)
        BY <2>2, <3>6, <3>8, <3>10
      <4> QED BY <3>6, <4>1
    <3> QED BY <3>4, <3>9, <3>10 DEF ForcedSplits
  <2> QED BY <2>3, <2>4 DEF Next, Call, Step, Take, SkipBehind, SkipOver, SkipDone, Exhausted, CarveMore
<1> QED BY <1>1, Invariance, SplitsInv, PTL DEF Spec, SplitsAreForced
==============================================================================
