---------------------------- MODULE VolumeProofs -----------------------------
(***************************************************************************)
(* Proofs about SealedVolume.                                              *)
(*                                                                         *)
(* Because what is placed is apart, the image has one content per block,   *)
(* and the reader meets it, or Zeros, wherever it looks.  The runs of an   *)
(* inode follow its segments: a segment starts a run, and all runs         *)
(* together are as long as all segments (RunInv).  So extents are in order *)
(* where logical block numbers fit, and the verdict is a matter of which   *)
(* blocks are lost: the verifier is content exactly when extents are in    *)
(* order and none of Needed is lost.                                       *)
(***************************************************************************)
EXTENDS SealedVolume, SealProofs
-----------------------------------------------------------------------------
(* The invariant. *)

\* What an inode has: its blocks are apart, and its runs ascend.
PlanBlocks(p) == p.acl \cup p.tree \cup Given(p.runs)
PlanShape(p) ==
  /\ p.runs \in Seq(Run) /\ Ascend(p.runs)
  /\ p.acl \cap p.tree = {} /\ p.acl \cap Given(p.runs) = {} /\ p.tree \cap Given(p.runs) = {}

\* No two inodes share a block.
PlansIn(room) ==
  /\ \A s \in Owners : PlanShape(plans[s]) /\ PlanBlocks(plans[s]) \subseteq room
  /\ \A s, t \in Owners : s # t => PlanBlocks(plans[s]) \cap PlanBlocks(plans[t]) = {}

PlanInv ==
  pc # "refused" =>
    /\ DOMAIN plans = Owners
    /\ pc \in Early \cup {"journal"} => \A s \in Owners : plans[s] = NoPlan
    /\ pc \notin Early => PlansIn(PassedRoom) /\ groups <= leader
    /\ pc \notin Early \cup {"journal"} => plans[-1].runs # <<>>
    /\ pc # "geometry" => GeometryOK

\* The image is the one that was sealed, but for what is lost.
ImageInv ==
  /\ pc \in {"written", "torn"} =>
       /\ image = [b \in 0 .. input.blocks - 1 |-> IF b \in lost THEN Zeros ELSE TheImage[b]]
       /\ lost \subseteq {b \in 0 .. input.blocks - 1 : TheImage[b] # Zeros}
  /\ pc # "torn" => lost = {}

\* The blocks that open() and verify() depend on.
DirOwners == {s \in Owners : KindOf(s) = "dir"}
JournalHead == plans[-1].runs[1].start
TableRead(g) == {group_meta[g + 1].it + k : k \in 0 .. used_itable(g) - 1}
GroupsNeed ==
  UNION {{group_meta[g + 1].bb, group_meta[g + 1].ib} \cup TableRead(g) : g \in 0 .. groups - 1}
InodesNeed == UNION {plans[s].acl \cup plans[s].tree : s \in Owners}
DirsNeed == UNION {Given(plans[s].runs) : s \in DirOwners}
Needed == (0 .. GdtBlocks) \cup GroupsNeed \cup InodesNeed \cup DirsNeed \cup {JournalHead}
-----------------------------------------------------------------------------
(* The invariants at each step. *)

LEMMA PcMovesOn ==
  ASSUME IInv, pc \in {"sealed", "written"}, pc' \in {"written", "torn"},
         UNCHANGED <<input, span, slot, cursor, inVars, outVars>>
  PROVE  IInv'
<1>1. /\ input \in Inputs /\ span \in Nat /\ slot \in Nat /\ cursor \in Nat
      /\ UNCHANGED <<input, span, inVars>> /\ UNCHANGED outVars /\ slot' = slot /\ cursor' = cursor
  BY DEF IInv
<1>2. Out' = Out
  BY <1>1 DEF Out, outVars
<1>3. OutIn(Out, PassedRoom) => OutIn(Out', PassedRoom \cup NewRoom(cursor'))
  <2>1. PassedRoom \subseteq PassedRoom \cup NewRoom(cursor')
    OBVIOUS
  <2>2. QED
    BY <1>2, <2>1, MoreRoom
<1>4. pc \in Phases \ Early /\ pc' \in Phases \ (Early \cup {"journal"}) /\ pc' # "lost_found"
  BY DEF Phases, Early
<1>5. cursor' \in Nat /\ cursor <= cursor' /\ slot' \in Nat
  BY <1>1
<1>6. QED
  BY <1>1, <1>3, <1>4, <1>5, MoreIsGiven

LEMMA Losing ==
  ASSUME LoseOne \/ Tear
  PROVE  /\ pc = "written" /\ pc' = "torn"
         /\ UNCHANGED <<input, span, slot, cursor, inVars, outVars>>
         /\ \E S : /\ image' = [b \in DOMAIN image |-> IF b \in S THEN Zeros ELSE image[b]]
                   /\ lost' = S \cap Held
<1>1. \E S : Lose(S)
  BY DEF LoseOne, Tear
<1>2. QED
  BY <1>1 DEF Lose

LEMMA VolumeStepKeeps ==
  ASSUME IInv, [VolumeNext]_volumeVars
  PROVE  IInv'
<1>1. CASE Next
  BY <1>1, StepKeeps
<1>2. CASE Write
  <2>1. /\ pc = "sealed" /\ pc' = "written"
        /\ UNCHANGED <<input, span, slot, cursor, inVars, outVars>>
    BY <1>2 DEF Write
  <2>2. QED
    BY <2>1, PcMovesOn
<1>3. CASE LoseOne \/ Tear
  <2>1. /\ pc = "written" /\ pc' = "torn"
        /\ UNCHANGED <<input, span, slot, cursor, inVars, outVars>>
    BY <1>3, Losing
  <2>2. QED
    BY <2>1, PcMovesOn
<1>4. CASE UNCHANGED volumeVars
  BY <1>4, StutterKeeps DEF volumeVars
<1>5. QED
  BY <1>1, <1>2, <1>3, <1>4 DEF VolumeNext

\* A plan to which later blocks are added.
LEMMA AscendOn ==
  ASSUME NEW s \in Seq(Run), NEW t \in Seq(Run), Ascend(s), Ascend(t),
         \A b \in Given(s), c \in Given(t) : b < c
  PROVE  Ascend(s \o t)
<1>1. ASSUME NEW i \in DOMAIN s
      PROVE  RunEnd(s[i]) \in Nat /\ RunEnd(s[i]) - 1 \in Given(s)
  <2>0. s[i] \in Run
    OBVIOUS
  <2>1. PICK a \in Nat, n \in Nat \ {0} : a = s[i].start /\ n = s[i].len
    BY <2>0 DEF Run
  <2>2. RunEnd(s[i]) = a + n /\ BlocksOf(s[i]) = a .. (a + n) - 1
    BY <2>1 DEF RunEnd, BlocksOf
  <2>3. (a + n) - 1 \in BlocksOf(s[i])
    BY <2>2
  <2>4. QED
    BY <2>2, <2>3 DEF Given
<1>2. ASSUME NEW j \in DOMAIN t
      PROVE  t[j].start \in Nat /\ t[j].start \in Given(t)
  <2>0. t[j] \in Run
    OBVIOUS
  <2>1. PICK a \in Nat, n \in Nat \ {0} : a = t[j].start /\ n = t[j].len
    BY <2>0 DEF Run
  <2>2. BlocksOf(t[j]) = a .. (a + n) - 1
    BY <2>1 DEF RunEnd, BlocksOf
  <2>3. a \in BlocksOf(t[j])
    BY <2>2
  <2>4. QED
    BY <2>1, <2>3 DEF Given
<1>3. \A i \in DOMAIN s, j \in DOMAIN t : RunEnd(s[i]) <= t[j].start
  <2>1. SUFFICES ASSUME NEW i \in DOMAIN s, NEW j \in DOMAIN t PROVE RunEnd(s[i]) <= t[j].start
    OBVIOUS
  <2>2. PICK e \in Nat : e = RunEnd(s[i]) /\ e - 1 \in Given(s)
    BY <1>1
  <2>3. PICK f \in Nat : f = t[j].start /\ f \in Given(t)
    BY <1>2
  <2>4. e - 1 < f
    BY <2>2, <2>3
  <2>5. QED
    BY <2>2, <2>3, <2>4
<1>4. SUFFICES ASSUME NEW i \in DOMAIN (s \o t), NEW j \in DOMAIN (s \o t), i < j
               PROVE  RunEnd((s \o t)[i]) <= (s \o t)[j].start
  BY DEF Ascend
<1>5. \/ i \in DOMAIN s /\ (s \o t)[i] = s[i]
      \/ \E k \in DOMAIN t : i = Len(s) + k /\ (s \o t)[i] = t[k]
  BY IndexOfAppended
<1>6. \/ j \in DOMAIN s /\ (s \o t)[j] = s[j]
      \/ \E m \in DOMAIN t : j = Len(s) + m /\ (s \o t)[j] = t[m]
  BY IndexOfAppended
<1>7. Len(s) \in Nat /\ DOMAIN s = 1 .. Len(s) /\ DOMAIN t = 1 .. Len(t) /\ Len(t) \in Nat
  OBVIOUS
<1>8. CASE i \in DOMAIN s /\ (s \o t)[i] = s[i] /\ j \in DOMAIN s /\ (s \o t)[j] = s[j]
  BY <1>4, <1>8 DEF Ascend
<1>9. ASSUME i \in DOMAIN s, (s \o t)[i] = s[i],
             NEW m \in DOMAIN t, (s \o t)[j] = t[m]
      PROVE  RunEnd((s \o t)[i]) <= (s \o t)[j].start
  BY <1>3, <1>9
<1>10. ASSUME NEW k \in DOMAIN t, i = Len(s) + k, j \in DOMAIN s
       PROVE  FALSE
  BY <1>4, <1>7, <1>10
<1>11. ASSUME NEW k \in DOMAIN t, i = Len(s) + k, (s \o t)[i] = t[k],
              NEW m \in DOMAIN t, j = Len(s) + m, (s \o t)[j] = t[m]
       PROVE  RunEnd((s \o t)[i]) <= (s \o t)[j].start
  <2>1. k < m
    BY <1>4, <1>7, <1>11
  <2>2. QED
    BY <1>11, <2>1 DEF Ascend
<1>12. QED
  BY <1>5, <1>6, <1>8, <1>9, <1>10, <1>11

LEMMA PlanAppended ==
  ASSUME NEW plan, PlanShape(plan), NEW p, p.runs \in Seq(Run), Ascend(p.runs),
         p.front \cap p.tree = {}, p.front \cap Given(p.runs) = {}, p.tree \cap Given(p.runs) = {},
         NEW A, PlanBlocks(plan) \subseteq A,
         NEW B, p.front \cup p.tree \cup Given(p.runs) \subseteq B,
         \A b \in A, c \in B : b < c /\ b # c
  PROVE  /\ PlanShape(Planned(plan, p))
         /\ PlanBlocks(Planned(plan, p)) = PlanBlocks(plan) \cup (p.front \cup p.tree \cup Given(p.runs))
         /\ Planned(plan, p).runs = plan.runs \o p.runs
<1>1. PICK new : new = Planned(plan, p)
  OBVIOUS
<1>2. /\ new.acl = plan.acl \cup p.front /\ new.runs = plan.runs \o p.runs
      /\ new.tree = plan.tree \cup p.tree
  BY <1>1 DEF Planned
<1>3. /\ plan.runs \in Seq(Run) /\ Ascend(plan.runs)
      /\ plan.acl \cap plan.tree = {} /\ plan.acl \cap Given(plan.runs) = {}
      /\ plan.tree \cap Given(plan.runs) = {}
  BY DEF PlanShape
<1>4. PICK R, T : R = Given(plan.runs) /\ T = Given(p.runs)
  OBVIOUS
<1>5. plan.acl \subseteq A /\ plan.tree \subseteq A /\ R \subseteq A
  BY <1>4 DEF PlanBlocks
<1>6. p.front \subseteq B /\ p.tree \subseteq B /\ T \subseteq B
  BY <1>4
<1>7. A \cap B = {}
  OBVIOUS
<1>8. Given(new.runs) = R \cup T /\ new.runs \in Seq(Run)
  <2>1. Given(plan.runs \o p.runs) = Given(plan.runs) \cup Given(p.runs)
    BY <1>3, GivenByBoth
  <2>2. plan.runs \o p.runs \in Seq(Run)
    BY <1>3, Appended
  <2>3. QED
    BY <1>2, <1>4, <2>1, <2>2
<1>9. Ascend(new.runs)
  <2>1. \A b \in Given(plan.runs), c \in Given(p.runs) : b < c
    BY <1>4, <1>5, <1>6
  <2>2. Ascend(plan.runs \o p.runs)
    BY <1>3, <2>1, AscendOn
  <2>3. QED
    BY <1>2, <2>2
<1>10. /\ new.acl \cap new.tree = {} /\ new.acl \cap Given(new.runs) = {}
       /\ new.tree \cap Given(new.runs) = {}
  BY <1>2, <1>3, <1>4, <1>5, <1>6, <1>7, <1>8
<1>11. PlanBlocks(new) = PlanBlocks(plan) \cup (p.front \cup p.tree \cup Given(p.runs))
  BY <1>2, <1>4, <1>8 DEF PlanBlocks
<1>12. PlanShape(new)
  BY <1>8, <1>9, <1>10 DEF PlanShape
<1>13. QED
  BY <1>1, <1>2, <1>11, <1>12

\* A step that places something for one inode.
LEMMA PlansGrow ==
  ASSUME IInv, PlanInv, pc \in Phases \ Early, pc' \in Phases \ Early,
         NEW p, Placed(p), Ascend(p.runs), cursor' = p.cursor, NEW o \in Owners,
         plans' = [plans EXCEPT ![o] = Planned(@, p)], UNCHANGED <<input, span, inVars>>
  PROVE  /\ DOMAIN plans' = Owners' /\ PlansIn(PassedRoom)' /\ groups' <= leader'
         /\ plans'[o].runs = plans[o].runs \o p.runs
         /\ \A s \in Owners : s # o => plans'[s] = plans[s]
<1>1. /\ input \in Inputs /\ span \in Nat /\ cursor \in Nat /\ SpanInv
      /\ pc \notin Early /\ pc # "refused" /\ pc # "itables" /\ pc' # "itables"
      /\ input' = input /\ span' = span
  BY DEF IInv, Phases, Early
<1>2. DOMAIN plans = Owners /\ PlansIn(PassedRoom) /\ groups <= leader
  BY <1>1 DEF PlanInv
<1>3. AllReserved' = AllReserved
  BY <1>1, SameSpan
<1>4. /\ p.cursor \in Nat /\ cursor <= p.cursor /\ p.runs \in Seq(Run)
      /\ Given(p.runs) \subseteq NewRoom(p.cursor) /\ p.front \subseteq NewRoom(p.cursor)
      /\ p.tree \subseteq NewRoom(p.cursor)
      /\ Given(p.runs) \cap p.front = {} /\ Given(p.runs) \cap p.tree = {} /\ p.front \cap p.tree = {}
  BY <1>1, PlaceFacts DEF Placed
<1>5. /\ PassedRoom \cup NewRoom(cursor') \subseteq PassedRoom'
      /\ PassedRoom \cap NewRoom(cursor') = {}
  BY <1>1, <1>3, <1>4, RoomGrows
<1>6. PICK A, B : A = PassedRoom /\ B = NewRoom(p.cursor)
  OBVIOUS
<1>7. \A b \in A, c \in B : b < c /\ b # c
  <2>1. /\ FreeFrom(0, AllReserved) \in SUBSET Nat /\ FreeFrom(cursor, AllReserved) \in SUBSET Nat
        /\ \A b \in FreeFrom(cursor, AllReserved) : cursor <= b
    BY <1>1, FreeType
  <2>2. \A b \in A : b \in Nat /\ b < cursor
    BY <1>6, <2>1 DEF PassedRoom
  <2>3. \A c \in B : c \in Nat /\ cursor <= c
    BY <1>6, <2>1 DEF NewRoom
  <2>4. QED
    BY <1>1, <2>2, <2>3
<1>8. \A s \in Owners : PlanShape(plans[s]) /\ PlanBlocks(plans[s]) \subseteq A
  BY <1>2, <1>6 DEF PlansIn
<1>9. \A s, t \in Owners : s # t => PlanBlocks(plans[s]) \cap PlanBlocks(plans[t]) = {}
  BY <1>2 DEF PlansIn
<1>10. PICK N : N = p.front \cup p.tree \cup Given(p.runs)
  OBVIOUS
<1>11. N \subseteq B /\ N \cap A = {}
  BY <1>4, <1>6, <1>7, <1>10
<1>12. /\ PlanShape(Planned(plans[o], p))
       /\ PlanBlocks(Planned(plans[o], p)) = PlanBlocks(plans[o]) \cup N
       /\ Planned(plans[o], p).runs = plans[o].runs \o p.runs
  <2>1. PICK plan : plan = plans[o]
    OBVIOUS
  <2>2. PlanShape(plan) /\ PlanBlocks(plan) \subseteq A
    BY <1>8, <2>1
  <2>3. p.front \cup p.tree \cup Given(p.runs) \subseteq B
    BY <1>10, <1>11
  <2>4. p.front \cap Given(p.runs) = {} /\ p.tree \cap Given(p.runs) = {}
    BY <1>4
  <2>5. /\ PlanShape(Planned(plan, p))
        /\ PlanBlocks(Planned(plan, p)) = PlanBlocks(plan) \cup (p.front \cup p.tree \cup Given(p.runs))
        /\ Planned(plan, p).runs = plan.runs \o p.runs
    BY <1>4, <1>7, <2>2, <2>3, <2>4, PlanAppended
  <2>6. QED
    BY <1>10, <2>1, <2>5
<1>13. /\ DOMAIN plans' = Owners /\ plans'[o] = Planned(plans[o], p)
       /\ \A s \in Owners : s # o => plans'[s] = plans[s]
  BY <1>2
<1>14. Owners' = Owners /\ groups' = groups /\ leader' = leader
  <2>1. groups' = groups /\ leader' = leader
    BY <1>1, SameGeometry
  <2>2. QED
    BY <1>1, <2>1 DEF Owners, Slots
<1>15. A \cup B \subseteq PassedRoom'
  BY <1>5, <1>6
<1>16. ASSUME NEW s \in Owners
       PROVE  PlanShape(plans'[s]) /\ PlanBlocks(plans'[s]) \subseteq A \cup B
  <2>1. CASE s = o
    BY <1>8, <1>11, <1>12, <1>13, <2>1
  <2>2. CASE s # o
    BY <1>8, <1>13, <2>2
  <2>3. QED
    BY <2>1, <2>2
<1>17. ASSUME NEW s \in Owners, NEW t \in Owners, s # t
       PROVE  PlanBlocks(plans'[s]) \cap PlanBlocks(plans'[t]) = {}
  <2>1. PlanBlocks(plans[s]) \cap PlanBlocks(plans[t]) = {}
    BY <1>9, <1>17
  <2>2. PlanBlocks(plans[s]) \subseteq A /\ PlanBlocks(plans[t]) \subseteq A
    BY <1>8
  <2>3. CASE s = o
    <3>1. PlanBlocks(plans'[s]) = PlanBlocks(plans[s]) \cup N /\ plans'[t] = plans[t]
      BY <1>12, <1>13, <1>17, <2>3
    <3>2. QED
      BY <1>11, <2>1, <2>2, <3>1
  <2>4. CASE t = o
    <3>1. PlanBlocks(plans'[t]) = PlanBlocks(plans[t]) \cup N /\ plans'[s] = plans[s]
      BY <1>12, <1>13, <1>17, <2>4
    <3>2. QED
      BY <1>11, <2>1, <2>2, <3>1
  <2>5. CASE s # o /\ t # o
    BY <1>13, <2>1, <2>5
  <2>6. QED
    BY <2>3, <2>4, <2>5
<1>18. PlansIn(PassedRoom)'
  <2>1. \A s \in Owners : PlanShape(plans'[s]) /\ PlanBlocks(plans'[s]) \subseteq PassedRoom'
    BY <1>15, <1>16
  <2>2. \A s, t \in Owners : s # t => PlanBlocks(plans'[s]) \cap PlanBlocks(plans'[t]) = {}
    BY <1>17
  <2>3. \A s : PlanBlocks(plans[s])' = PlanBlocks(plans'[s])
    BY DEF PlanBlocks, Given
  <2>4. \A s : PlanShape(plans[s])' <=> PlanShape(plans'[s])
    BY DEF PlanShape, Ascend, Given
  <2>5. QED
    BY <1>14, <2>1, <2>2, <2>3, <2>4 DEF PlansIn
<1>19. QED
  BY <1>2, <1>12, <1>13, <1>14, <1>18

\* A step that places nothing.
LEMMA SamePlans ==
  ASSUME PlansIn(PassedRoom), SpanInv, UNCHANGED <<input, span, inVars, plans>>,
         cursor \in Nat, cursor' = cursor, pc # "itables", pc' # "itables", input \in Inputs
  PROVE  PlansIn(PassedRoom)' /\ groups' = groups /\ leader' = leader /\ Owners' = Owners
<1>1. AllReserved' = AllReserved
  BY SameSpan
<1>2. PassedRoom' = PassedRoom
  BY <1>1 DEF PassedRoom, FreeFrom
<1>3. Owners' = Owners
  BY DEF Owners, Slots
<1>4. groups' = groups /\ leader' = leader
  BY SameGeometry
<1>5. PlansIn(PassedRoom)'
  BY <1>2, <1>3 DEF PlansIn
<1>6. QED
  BY <1>3, <1>4, <1>5

LEMMA NoPlanFits == PlanShape(NoPlan) /\ PlanBlocks(NoPlan) = {}
<1>1. NoPlan.runs = <<>> /\ NoPlan.acl = {} /\ NoPlan.tree = {}
  BY DEF NoPlan
<1>2. Given(<<>>) = {} /\ <<>> \in Seq(Run) /\ Ascend(<<>>)
  BY NoRuns DEF Ascend
<1>3. QED
  BY <1>1, <1>2 DEF PlanShape, PlanBlocks

LEMMA PlansAtFirst ==
  ASSUME Init
  PROVE  PlanInv
<1>1. pc = "geometry" /\ plans = [s \in Slots \cup {0, -1} |-> NoPlan]
  BY DEF Init
<1>2. DOMAIN plans = Owners /\ \A s \in Owners : plans[s] = NoPlan
  BY <1>1 DEF Owners
<1>3. QED
  BY <1>1, <1>2 DEF PlanInv, Early

\* The steps before the journal.
LEMMA EarlyStepsKeepPlans ==
  ASSUME IInv, PlanInv, CheckGeometry \/ PlaceBitmaps \/ PlaceTable \/ SpansDone
  PROVE  PlanInv'
<1>1. /\ input' = input /\ plans' = plans /\ pc \in Early /\ pc' \in Early \cup {"journal"}
      /\ pc' = "journal" => span' = span /\ groups <= leader
      /\ pc # "geometry" \/ GeometryOK
  BY DEF CheckGeometry, PlaceBitmaps, PlaceTable, SpansDone, Early, outVars
<1>2. /\ DOMAIN plans = Owners /\ \A s \in Owners : plans[s] = NoPlan
      /\ GeometryOK
  BY <1>1 DEF PlanInv, Early
<1>3. Owners' = Owners /\ GeometryOK' = GeometryOK
  BY <1>1 DEF Owners, Slots, GeometryOK, max_ino, inodes_count, groups
<1>4. \A s \in Owners' : plans'[s] = NoPlan
  BY <1>1, <1>2, <1>3
<1>5. PlansIn(PassedRoom)'
  BY <1>4, NoPlanFits DEF PlansIn
<1>6. pc' = "journal" => groups' <= leader'
  <2>1. ASSUME pc' = "journal" PROVE groups' = groups /\ leader' = leader /\ groups <= leader
    BY <1>1, <2>1, SameGeometry
  <2>2. QED
    BY <2>1
<1>7. QED
  BY <1>1, <1>2, <1>3, <1>4, <1>5, <1>6 DEF PlanInv, Early

LEMMA JournalKeepsPlans ==
  ASSUME IInv, PlanInv, PlaceJournal
  PROVE  PlanInv'
<1>1. PICK sizes : sizes = <<input.journal>>
  OBVIOUS
<1>2. PICK acl : acl = FALSE
  OBVIOUS
<1>3. PICK p : p = Place(acl, sizes)
  OBVIOUS
<1>4. /\ input \in Inputs /\ cursor \in Nat /\ pc = "journal" /\ pc' = "lost_found"
      /\ UNCHANGED <<input, span, inVars>>
  BY DEF IInv, PlaceJournal
<1>5. p.fits /\ plans' = [plans EXCEPT ![-1] = Planned(@, p)] /\ cursor' = p.cursor
  <2>1. p = Place(FALSE, <<input.journal>>)
    BY <1>1, <1>2, <1>3
  <2>2. QED
    BY <2>1 DEF PlaceJournal
<1>6. input.journal \in Nat \ {0}
  BY <1>4, Parameters
<1>7. sizes \in Seq(Nat) /\ Total(sizes) = input.journal
  BY <1>1, <1>6, TotalOfOne
<1>8. Cardinality(Given(p.runs)) = input.journal /\ Ascend(p.runs)
  BY <1>3, <1>4, <1>5, <1>7, PlacedInFull
<1>9. p.runs # <<>>
  <2>1. ASSUME p.runs = <<>> PROVE FALSE
    <3>1. Given(p.runs) = {}
      BY <2>1 DEF Given
    <3>2. Cardinality(Given(p.runs)) = 0
      BY <3>1, FS_EmptySet
    <3>3. QED
      BY <1>6, <1>8, <3>2
  <2>2. QED
    BY <2>1
<1>10. plans[-1] = NoPlan /\ -1 \in Owners /\ GeometryOK
  BY <1>4 DEF PlanInv, Owners
<1>11. Placed(p)
  BY <1>3, Zenon DEF Placed
<1>12. pc \in Phases \ Early /\ pc' \in Phases \ Early
  BY <1>4 DEF Phases, Early
<1>13. /\ DOMAIN plans' = Owners' /\ PlansIn(PassedRoom)' /\ groups' <= leader'
       /\ plans'[-1].runs = plans[-1].runs \o p.runs
  <2>1. PICK o \in Owners : o = -1
    BY <1>10
  <2>2. plans' = [plans EXCEPT ![o] = Planned(@, p)]
    BY <1>5, <2>1
  <2>3. /\ DOMAIN plans' = Owners' /\ PlansIn(PassedRoom)' /\ groups' <= leader'
        /\ plans'[o].runs = plans[o].runs \o p.runs
    BY <1>4, <1>5, <1>8, <1>11, <1>12, <2>2, PlansGrow
  <2>4. QED
    BY <2>1, <2>3
<1>14. p.runs \in Seq(Run)
  BY <1>3, <1>4, PlaceFacts
<1>15. plans'[-1].runs # <<>>
  <2>1. plans[-1].runs = <<>>
    BY <1>10 DEF NoPlan
  <2>2. QED
    BY <1>9, <1>13, <1>14, <2>1
<1>16. GeometryOK'
  BY <1>4, <1>10 DEF GeometryOK, max_ino, inodes_count, groups
<1>17. QED
  BY <1>4, <1>13, <1>15, <1>16 DEF PlanInv, Early

\* The steps that place something for lost+found or for an inode.
LEMMA OtherPlacesKeepPlans ==
  ASSUME IInv, PlanInv, pc \in Phases \ (Early \cup {"journal"}), pc' \in Phases \ (Early \cup {"journal"}),
         UNCHANGED <<input, span, inVars>>,
         NEW acl, NEW sizes \in Seq(Nat), NEW p, p = Place(acl, sizes), cursor' = p.cursor,
         NEW o \in Owners, o # -1, plans' = [plans EXCEPT ![o] = Planned(@, p)]
  PROVE  PlanInv'
<1>1. /\ input \in Inputs /\ cursor \in Nat /\ pc # "refused" /\ pc' # "refused"
      /\ pc # "geometry" /\ pc' # "geometry" /\ pc \notin Early \cup {"journal"}
      /\ pc' \notin Early \cup {"journal"}
  BY DEF IInv, Phases, Early
<1>2. Ascend(p.runs)
  BY <1>1, PlacedInFull
<1>3. Placed(p)
  BY Zenon DEF Placed
<1>4. /\ DOMAIN plans' = Owners' /\ PlansIn(PassedRoom)' /\ groups' <= leader'
      /\ plans'[o].runs = plans[o].runs \o p.runs
      /\ \A s \in Owners : s # o => plans'[s] = plans[s]
  <2>1. pc \in Phases \ Early /\ pc' \in Phases \ Early
    OBVIOUS
  <2>2. QED
    BY <1>2, <1>3, <2>1, PlansGrow
<1>5. plans[-1].runs # <<>> /\ GeometryOK
  BY <1>1 DEF PlanInv
<1>6. plans'[-1].runs # <<>>
  BY <1>4, <1>5 DEF Owners
<1>7. GeometryOK'
  BY <1>5 DEF GeometryOK, max_ino, inodes_count, groups
<1>8. QED
  BY <1>1, <1>4, <1>6, <1>7 DEF PlanInv

LEMMA PlacesKeepPlans ==
  ASSUME IInv, PlanInv, PlaceLostFound \/ PlaceMetadata \/ PlaceData
  PROVE  PlanInv'
<1>1. input \in Inputs
  BY DEF IInv
<1>2. CASE PlaceLostFound
  <2>1. PICK sizes : sizes = <<LostFoundBlocks>>
    OBVIOUS
  <2>2. PICK acl : acl = FALSE
    OBVIOUS
  <2>3. PICK o : o = 0
    OBVIOUS
  <2>4. PICK p : p = Place(FALSE, <<LostFoundBlocks>>)
    OBVIOUS
  <2>5. /\ pc = "lost_found" /\ pc' = "metadata" /\ UNCHANGED <<input, span, inVars>>
        /\ cursor' = p.cursor /\ plans' = [plans EXCEPT ![o] = Planned(@, p)]
    BY <1>2, <2>3, <2>4 DEF PlaceLostFound
  <2>6. p = Place(acl, sizes)
    BY <2>1, <2>2, <2>4
  <2>7. sizes \in Seq(Nat)
    BY <1>1, <2>1, Parameters
  <2>8. o \in Owners /\ o # -1
    BY <2>3 DEF Owners
  <2>9. pc \in Phases \ (Early \cup {"journal"}) /\ pc' \in Phases \ (Early \cup {"journal"})
    BY <2>5 DEF Phases, Early
  <2>10. QED
    BY <2>5, <2>6, <2>7, <2>8, <2>9, OtherPlacesKeepPlans
<1>3. CASE PlaceMetadata
  <2>1. PICK sizes : sizes = ContentOf(TheInode)
    OBVIOUS
  <2>2. PICK acl : acl = TheInode.acl
    OBVIOUS
  <2>3. PICK o : o = slot
    OBVIOUS
  <2>4. PICK p : p = PlaceOfMetadata
    OBVIOUS
  <2>5. /\ pc = "metadata" /\ pc' = "metadata" /\ UNCHANGED <<input, span, inVars>> /\ slot \in Slots
        /\ cursor' = p.cursor /\ plans' = [plans EXCEPT ![o] = Planned(@, p)]
    BY <1>3, <2>3, <2>4 DEF PlaceMetadata
  <2>6. p = Place(acl, sizes)
    BY <2>1, <2>2, <2>4 DEF PlaceOfMetadata
  <2>7. sizes \in Seq(Nat)
    BY <1>1, <2>1, <2>5, MetadataSizes
  <2>8. o \in Owners /\ o # -1
    BY <1>1, <2>3, <2>5, DataSizes DEF Owners
  <2>9. pc \in Phases \ (Early \cup {"journal"}) /\ pc' \in Phases \ (Early \cup {"journal"})
    BY <2>5 DEF Phases, Early
  <2>10. QED
    BY <2>5, <2>6, <2>7, <2>8, <2>9, OtherPlacesKeepPlans
<1>4. CASE PlaceData
  <2>1. PICK sizes : sizes = DataBlocks(TheInode)
    OBVIOUS
  <2>2. PICK acl : acl = FALSE
    OBVIOUS
  <2>3. PICK o : o = slot
    OBVIOUS
  <2>4. PICK p : p = PlaceOfData
    OBVIOUS
  <2>5. /\ pc = "data" /\ pc' = "data" /\ UNCHANGED <<input, span, inVars>> /\ slot \in Slots
        /\ cursor' = p.cursor /\ plans' = [plans EXCEPT ![o] = Planned(@, p)]
    BY <1>4, <2>3, <2>4 DEF PlaceData
  <2>6. p = Place(acl, sizes)
    BY <2>1, <2>2, <2>4 DEF PlaceOfData
  <2>7. sizes \in Seq(Nat)
    BY <1>1, <2>1, <2>5, DataSizes DEF TheInode
  <2>8. o \in Owners /\ o # -1
    BY <1>1, <2>3, <2>5, DataSizes DEF Owners
  <2>9. pc \in Phases \ (Early \cup {"journal"}) /\ pc' \in Phases \ (Early \cup {"journal"})
    BY <2>5 DEF Phases, Early
  <2>10. QED
    BY <2>5, <2>6, <2>7, <2>8, <2>9, OtherPlacesKeepPlans
<1>5. QED
  BY <1>2, <1>3, <1>4

LEMMA LastStepsKeepPlans ==
  ASSUME IInv, PlanInv, pc \in Phases \ (Early \cup {"journal"}), pc' \in Phases \ (Early \cup {"journal"}),
         UNCHANGED <<input, span, cursor, inVars, outVars>>
  PROVE  PlanInv'
<1>1. /\ input \in Inputs /\ cursor \in Nat /\ SpanInv /\ pc \notin Early \cup {"journal"}
      /\ pc' \notin Early \cup {"journal"} /\ pc # "refused" /\ pc' # "refused" /\ pc # "geometry"
      /\ pc # "itables" /\ pc' # "itables" /\ UNCHANGED <<input, span, inVars, plans>> /\ cursor' = cursor
  BY DEF IInv, Phases, Early, outVars
<1>2. /\ DOMAIN plans = Owners /\ PlansIn(PassedRoom) /\ groups <= leader /\ plans[-1].runs # <<>>
      /\ GeometryOK
  BY <1>1 DEF PlanInv
<1>3. PlansIn(PassedRoom)' /\ groups' = groups /\ leader' = leader /\ Owners' = Owners
  BY <1>1, <1>2, SamePlans
<1>4. GeometryOK'
  BY <1>1, <1>2 DEF GeometryOK, max_ino, inodes_count, groups
<1>5. QED
  BY <1>1, <1>2, <1>3, <1>4 DEF PlanInv

LEMMA StutterKeepsPlans ==
  ASSUME IInv, PlanInv, UNCHANGED vars
  PROVE  PlanInv'
<1>1. /\ input' = input /\ pc' = pc /\ span' = span /\ cursor' = cursor
      /\ group_meta' = group_meta /\ flex_runs' = flex_runs /\ plans' = plans
  BY DEF vars, inVars, outVars
<1>2. SuperRuns' = SuperRuns /\ leader' = leader /\ groups' = groups
  BY <1>1, SameGeometry
<1>3. PassedRoom' = PassedRoom
  BY <1>1, <1>2 DEF PassedRoom, FreeFrom, AllReserved
<1>4. Owners' = Owners
  BY <1>1 DEF Owners, Slots
<1>5. GeometryOK' = GeometryOK
  BY <1>1 DEF GeometryOK, max_ino, inodes_count, groups
<1>6. PlansIn(PassedRoom)' = PlansIn(PassedRoom)
  BY <1>1, <1>3, <1>4 DEF PlansIn
<1>7. QED
  BY <1>1, <1>2, <1>4, <1>5, <1>6 DEF PlanInv

LEMMA VolumeStepKeepsPlans ==
  ASSUME IInv, PlanInv, [VolumeNext]_volumeVars
  PROVE  PlanInv'
<1>1. CASE CheckGeometry \/ PlaceBitmaps \/ PlaceTable \/ SpansDone
  BY <1>1, EarlyStepsKeepPlans
<1>2. CASE PlaceJournal
  BY <1>2, JournalKeepsPlans
<1>3. CASE PlaceLostFound \/ PlaceMetadata \/ PlaceData
  BY <1>3, PlacesKeepPlans
<1>4. CASE MetadataDone \/ Sealed
  <2>1. /\ pc \in {"metadata", "data"} /\ pc' \in {"data", "sealed"}
        /\ UNCHANGED <<input, span, cursor, inVars, outVars>>
    BY <1>4 DEF MetadataDone, Sealed
  <2>2. pc \in Phases \ (Early \cup {"journal"}) /\ pc' \in Phases \ (Early \cup {"journal"})
    BY <2>1 DEF Phases, Early
  <2>3. QED
    BY <2>1, <2>2, LastStepsKeepPlans
<1>5. CASE Write \/ LoseOne \/ Tear
  <2>1. /\ pc \in {"sealed", "written"} /\ pc' \in {"written", "torn"}
        /\ UNCHANGED <<input, span, cursor, inVars, outVars>>
    BY <1>5, Losing DEF Write
  <2>2. pc \in Phases \ (Early \cup {"journal"}) /\ pc' \in Phases \ (Early \cup {"journal"})
    BY <2>1 DEF Phases, Early
  <2>3. QED
    BY <2>1, <2>2, LastStepsKeepPlans
<1>6. CASE Refused
  BY <1>6 DEF Refused, PlanInv
<1>7. CASE UNCHANGED vars
  BY <1>7, StutterKeepsPlans
<1>8. [Next]_vars \/ Write \/ LoseOne \/ Tear
  BY DEF VolumeNext, volumeVars
<1>9. QED
  BY <1>1, <1>2, <1>3, <1>4, <1>5, <1>6, <1>7, <1>8 DEF Next
-----------------------------------------------------------------------------
(* What was sealed stays. *)

Still == UNCHANGED <<input, inVars, outVars>>

LEMMA SameNumbers ==
  ASSUME Still
  PROVE  /\ Owners' = Owners /\ groups' = groups /\ SuperRuns' = SuperRuns /\ max_ino' = max_ino
         /\ inodes_per_group' = inodes_per_group /\ input' = input
         /\ group_meta' = group_meta /\ plans' = plans
         /\ \A g : /\ blocks_in_group(g)' = blocks_in_group(g)
                   /\ used_inodes_in_group(g)' = used_inodes_in_group(g)
<1>1. input' = input /\ group_meta' = group_meta /\ plans' = plans
  BY DEF Still, inVars, outVars
<1>2. Owners' = Owners
  BY <1>1 DEF Owners, Slots
<1>3. groups' = groups
  BY <1>1 DEF groups
<1>4. SuperRuns' = SuperRuns
  BY <1>3 DEF SuperRuns, backup_groups
<1>5. max_ino' = max_ino
  BY <1>1 DEF max_ino
<1>6. inodes_per_group' = inodes_per_group
  BY <1>1 DEF inodes_per_group
<1>7. \A g : blocks_in_group(g)' = blocks_in_group(g)
  BY <1>1 DEF blocks_in_group
<1>8. \A g : used_inodes_in_group(g)' = used_inodes_in_group(g)
  BY <1>5, <1>6 DEF used_inodes_in_group
<1>9. QED
  BY <1>1, <1>2, <1>3, <1>4, <1>5, <1>6, <1>7, <1>8

LEMMA SameBits ==
  ASSUME Still, NEW g
  PROVE  /\ block_bits(g)' = block_bits(g) /\ inode_bits(g)' = inode_bits(g)
         /\ Descriptor(g)' = Descriptor(g)
<1>1. /\ input' = input /\ group_meta' = group_meta /\ SuperRuns' = SuperRuns
      /\ inodes_per_group' = inodes_per_group
      /\ blocks_in_group(g)' = blocks_in_group(g) /\ used_inodes_in_group(g)' = used_inodes_in_group(g)
  BY SameNumbers
<1>2. /\ journal_runs' = journal_runs /\ lf_runs' = lf_runs /\ dir_runs' = dir_runs
      /\ data_runs' = data_runs /\ segments' = segments
  BY DEF Still, outVars
<1>3. Marked' = Marked
  BY <1>1, <1>2 DEF Marked
<1>4. bitmap' = bitmap
  BY <1>3 DEF bitmap
<1>5. block_bits(g)' = block_bits(g)
  BY <1>1, <1>4 DEF block_bits
<1>6. IsUninit(g)' = IsUninit(g)
  BY <1>1 DEF IsUninit
<1>7. inode_bits(g)' = inode_bits(g)
  BY <1>1, <1>6 DEF inode_bits
<1>8. inode_bitmap_csum(g)' = inode_bitmap_csum(g)
  BY <1>6, <1>7 DEF inode_bitmap_csum
<1>9. Descriptor(g)' = Descriptor(g)
  BY <1>1, <1>5, <1>6, <1>8 DEF Descriptor
<1>10. QED
  BY <1>5, <1>7, <1>9

LEMMA SameInodes ==
  ASSUME Still
  PROVE  /\ \A s : KindOf(s)' = KindOf(s) /\ InodeOf(s)' = InodeOf(s)
         /\ \A ino : InodeSlot(ino)' = InodeSlot(ino)
<1>1. input' = input /\ plans' = plans /\ Owners' = Owners
  BY SameNumbers
<1>2. \A s : KindOf(s)' = KindOf(s)
  BY <1>1 DEF KindOf
<1>3. \A s : InodeOf(s)' = InodeOf(s)
  <2>1. \A s : SegsOf(s)' = SegsOf(s)
    BY <1>1, <1>2 DEF SegsOf, Slots
  <2>2. \A s : SizeOf(s)' = SizeOf(s)
    BY <1>1, <1>2 DEF SizeOf, Slots
  <2>3. QED
    BY <1>1, <1>2, <2>1, <2>2 DEF InodeOf
<1>4. ASSUME NEW ino
      PROVE  InodeSlot(ino)' = InodeSlot(ino)
  <2>1. InodeOf(CHOOSE s \in Owners : ino_of(s) = ino)' = InodeOf(CHOOSE s \in Owners : ino_of(s) = ino)
    BY <1>1, <1>3
  <2>2. QED
    BY <1>1, <2>1 DEF InodeSlot
<1>5. QED
  BY <1>2, <1>3, <1>4

LEMMA SamePieces ==
  ASSUME Still
  PROVE  Pieces' = Pieces
<1>1. /\ input' = input /\ group_meta' = group_meta /\ SuperRuns' = SuperRuns /\ groups' = groups
      /\ plans' = plans /\ Owners' = Owners /\ inodes_per_group' = inodes_per_group
      /\ \A g : used_inodes_in_group(g)' = used_inodes_in_group(g)
  BY SameNumbers
<1>2. \A k : GdtBlock(k)' = GdtBlock(k)
  <2>1. \A g : Descriptor(g)' = Descriptor(g)
    BY SameBits
  <2>2. QED
    BY <1>1, <2>1 DEF GdtBlock
<1>3. SuperPieces' = SuperPieces
  BY <1>1, <1>2 DEF SuperPieces
<1>4. \A g, k : TableBlock(g, k)' = TableBlock(g, k)
  BY <1>1, SameInodes DEF TableBlock
<1>5. \A g : used_itable(g)' = used_itable(g)
  BY <1>1 DEF used_itable
<1>6. \A g : block_bits(g)' = block_bits(g) /\ inode_bits(g)' = inode_bits(g)
  BY SameBits
<1>7. GroupPieces' = GroupPieces
  BY <1>1, <1>4, <1>5, <1>6 DEF GroupPieces
<1>8. \A s, l : ContentAt(s, l)' = ContentAt(s, l)
  <2>1. \A s : KindOf(s)' = KindOf(s)
    BY SameInodes
  <2>2. \A s, l : ContentKind(s, l)' = ContentKind(s, l)
    BY <2>1 DEF ContentKind
  <2>3. QED
    BY <2>2 DEF ContentAt
<1>9. \A s, i : RunPieces(s, i)' = RunPieces(s, i)
  BY <1>1, <1>8 DEF RunPieces
<1>10. \A s : OwnerPieces(s)' = OwnerPieces(s)
  BY <1>1, <1>9 DEF OwnerPieces
<1>11. (UNION {OwnerPieces(s) : s \in Owners})' = UNION {OwnerPieces(s) : s \in Owners}
  BY <1>1, <1>10
<1>12. QED
  BY <1>3, <1>7, <1>11 DEF Pieces

LEMMA SameImage ==
  ASSUME Still
  PROVE  TheImage' = TheImage /\ input' = input
<1>1. input' = input
  BY SameNumbers
<1>2. QED
  BY <1>1, SamePieces DEF TheImage

LEMMA ImageAtFirst ==
  ASSUME VolumeInit
  PROVE  ImageInv
BY DEF VolumeInit, Init, ImageInv

LEMMA ImageType == DOMAIN TheImage = 0 .. input.blocks - 1
BY DEF TheImage

\* Every step leaves the image that was sealed as it is.
LEMMA VolumeStepKeepsImage ==
  ASSUME ImageInv, [VolumeNext]_volumeVars
  PROVE  ImageInv'
<1>1. CASE Next /\ UNCHANGED <<image, lost>>
  <2>1. pc # "torn" /\ pc' \notin {"written", "torn"}
    BY <1>1 DEF Next, CheckGeometry, PlaceBitmaps, PlaceTable, SpansDone, PlaceJournal, PlaceLostFound,
                PlaceMetadata, MetadataDone, PlaceData, Sealed, Refused
  <2>2. lost' = {}
    BY <1>1, <2>1 DEF ImageInv
  <2>3. QED
    BY <2>1, <2>2 DEF ImageInv
<1>2. CASE Write
  <2>1. Still /\ pc = "sealed" /\ pc' = "written" /\ image' = TheImage /\ lost' = lost
    BY <1>2 DEF Write, Still
  <2>2. TheImage' = TheImage /\ input' = input
    BY <2>1, SameImage
  <2>3. lost' = {}
    BY <2>1 DEF ImageInv
  <2>4. TheImage = [b \in 0 .. input.blocks - 1 |-> TheImage[b]]
    BY DEF TheImage
  <2>5. image' = [b \in 0 .. input'.blocks - 1 |-> IF b \in lost' THEN Zeros ELSE TheImage'[b]]
    BY <2>1, <2>2, <2>3, <2>4
  <2>6. QED
    BY <2>1, <2>3, <2>5 DEF ImageInv
<1>3. CASE LoseOne \/ Tear
  <2>1. pc = "written" /\ pc' = "torn" /\ Still
    BY <1>3, Losing DEF Still
  <2>2. PICK S : /\ image' = [b \in DOMAIN image |-> IF b \in S THEN Zeros ELSE image[b]]
                 /\ lost' = S \cap Held
    BY <1>3, Losing
  <2>3. TheImage' = TheImage /\ input' = input
    BY <2>1, SameImage
  <2>4. PICK B : B = 0 .. input.blocks - 1
    OBVIOUS
  <2>5. image = [b \in B |-> TheImage[b]]
    BY <2>1, <2>4 DEF ImageInv
  <2>6. lost' = {b \in B : b \in S /\ TheImage[b] # Zeros}
    BY <2>2, <2>5 DEF Held
  <2>7. image' = [b \in B |-> IF b \in lost' THEN Zeros ELSE TheImage[b]]
    <3>1. \A b \in B : (IF b \in S THEN Zeros ELSE image[b]) = IF b \in lost' THEN Zeros ELSE TheImage[b]
      BY <2>5, <2>6
    <3>2. DOMAIN image = B
      BY <2>5
    <3>3. QED
      BY <2>2, <3>1, <3>2
  <2>8. lost' \subseteq {b \in B : TheImage[b] # Zeros}
    BY <2>6
  <2>9. image' = [b \in 0 .. input'.blocks - 1 |-> IF b \in lost' THEN Zeros ELSE TheImage'[b]]
    BY <2>3, <2>4, <2>7
  <2>10. lost' \subseteq {b \in 0 .. input'.blocks - 1 : TheImage'[b] # Zeros}
    BY <2>3, <2>4, <2>8
  <2>11. QED
    BY <2>1, <2>9, <2>10 DEF ImageInv
<1>4. CASE UNCHANGED volumeVars
  <2>1. Still /\ pc' = pc /\ image' = image /\ lost' = lost
    BY <1>4 DEF volumeVars, vars, Still
  <2>2. TheImage' = TheImage /\ input' = input
    BY <2>1, SameImage
  <2>3. QED
    BY <2>1, <2>2 DEF ImageInv
<1>5. QED
  BY <1>1, <1>2, <1>3, <1>4 DEF VolumeNext
-----------------------------------------------------------------------------
(* Where everything is, once it is sealed. *)

Groups == 0 .. groups - 1
Bb(g) == group_meta[g + 1].bb
Ib(g) == group_meta[g + 1].ib
It(g) == group_meta[g + 1].it
Table(g) == It(g) .. It(g) + input.itable - 1
Meta(g) == {Bb(g), Ib(g)} \cup Table(g)
InsideFree(b) == b \in Nat /\ b < input.blocks /\ b \notin SuperBlocks

\* The bitmaps and tables of the groups, and the blocks of the inodes.
MetaPlaced ==
  /\ \A g \in Groups : Bb(g) \in Nat /\ Ib(g) \in Nat /\ It(g) \in Nat
  /\ \A g \in Groups : Bb(g) # Ib(g) /\ Bb(g) \notin Table(g) /\ Ib(g) \notin Table(g)
  /\ \A g, h \in Groups : g # h => Meta(g) \cap Meta(h) = {}
  /\ \A g \in Groups : \A b \in Meta(g) : InsideFree(b)
PlansPlaced ==
  /\ \A s \in Owners : PlanShape(plans[s])
  /\ \A s, t \in Owners : s # t => PlanBlocks(plans[s]) \cap PlanBlocks(plans[t]) = {}
  /\ \A s \in Owners : \A b \in PlanBlocks(plans[s]) : InsideFree(b)
  /\ \A s \in Owners, g \in Groups : PlanBlocks(plans[s]) \cap Meta(g) = {}
  /\ plans[-1].runs # <<>>

LEMMA Settled ==
  ASSUME IInv, PlanInv, pc \in {"written", "torn"}
  PROVE  /\ input \in Inputs /\ groups \in Nat \ {0} /\ GeometryOK /\ DOMAIN group_meta = 1 .. groups
         /\ MetaPlaced /\ PlansPlaced
<1>1. /\ input \in Inputs /\ SpanInv /\ ~Open /\ pc \notin Early \cup {"journal"} /\ pc \notin Early
      /\ pc # "refused" /\ pc # "geometry"
  BY DEF IInv, Open, Early
<1>2. groups \in Nat \ {0}
  BY <1>1, GroupsHoldImage
<1>3. PlansIn(PassedRoom) /\ groups <= leader /\ plans[-1].runs # <<>> /\ GeometryOK
  BY <1>1 DEF PlanInv
<1>4. leader \in Nat
  BY <1>1, SpanNumbers DEF IInv
<1>5. Finished = groups
  BY <1>2, <1>3, <1>4 DEF Finished
<1>6. group_meta \in Seq(GroupMeta) /\ MetaApart /\ MetaCovered /\ Len(group_meta) = groups
  BY <1>1, <1>5 DEF SpanInv, SpanShape
<1>7. DOMAIN group_meta = 1 .. groups
  BY <1>6
<1>8. OpenBlocks = {} /\ Tables = groups
  BY <1>1, <1>6 DEF OpenBlocks, Tables
<1>9. ASSUME NEW g \in Groups
      PROVE  /\ g + 1 \in DOMAIN group_meta /\ group_meta[g + 1] \in GroupMeta
             /\ MetaBlocks(g + 1) = Meta(g) /\ TableBlocks(g + 1) = Table(g)
  <2>1. g + 1 \in DOMAIN group_meta /\ g + 1 <= groups
    BY <1>2, <1>7 DEF Groups
  <2>2. group_meta[g + 1] \in GroupMeta
    BY <1>6, <2>1
  <2>3. TableBlocks(g + 1) = Table(g)
    <3>1. PICK h : h = g + 1
      OBVIOUS
    <3>2. h <= Tables
      BY <1>8, <2>1, <3>1
    <3>3. TableBlocks(h) = group_meta[h].it .. group_meta[h].it + input.itable - 1
      BY <3>2, Zenon DEF TableBlocks
    <3>4. It(g) = group_meta[h].it
      BY <3>1 DEF It
    <3>5. TableBlocks(h) = Table(g)
      BY <3>3, <3>4, Zenon DEF Table
    <3>6. QED
      BY <3>1, <3>5
  <2>4. MetaBlocks(g + 1) = Meta(g)
    <3>1. PICK h : h = g + 1
      OBVIOUS
    <3>2. Bb(g) = group_meta[h].bb /\ Ib(g) = group_meta[h].ib /\ TableBlocks(h) = Table(g)
      BY <2>3, <3>1 DEF Bb, Ib
    <3>3. MetaBlocks(h) = Meta(g)
      BY <3>2, Zenon DEF MetaBlocks, Meta
    <3>4. QED
      BY <3>1, <3>3
  <2>5. QED
    BY <2>1, <2>2, <2>3, <2>4
<1>10. \A g \in Groups : Bb(g) \in Nat /\ Ib(g) \in Nat /\ It(g) \in Nat
  BY <1>9 DEF GroupMeta, Bb, Ib, It
<1>11. \A g \in Groups : Bb(g) # Ib(g) /\ Bb(g) \notin Table(g) /\ Ib(g) \notin Table(g)
  <2>1. SUFFICES ASSUME NEW g \in Groups
                 PROVE  Bb(g) # Ib(g) /\ Bb(g) \notin Table(g) /\ Ib(g) \notin Table(g)
    OBVIOUS
  <2>2. PICK h \in DOMAIN group_meta : h = g + 1 /\ TableBlocks(h) = Table(g)
    BY <1>9
  <2>3. /\ group_meta[h].bb # group_meta[h].ib
        /\ {group_meta[h].bb, group_meta[h].ib} \cap TableBlocks(h) = {}
    BY <1>6 DEF MetaApart
  <2>4. QED
    BY <2>2, <2>3 DEF Bb, Ib
<1>12. \A g, h \in Groups : g # h => Meta(g) \cap Meta(h) = {}
  <2>1. SUFFICES ASSUME NEW g \in Groups, NEW h \in Groups, g # h PROVE Meta(g) \cap Meta(h) = {}
    OBVIOUS
  <2>2. PICK i \in DOMAIN group_meta : i = g + 1 /\ MetaBlocks(i) = Meta(g)
    BY <1>9
  <2>3. PICK j \in DOMAIN group_meta : j = h + 1 /\ MetaBlocks(j) = Meta(h)
    BY <1>9
  <2>4. i # j
    BY <2>1, <2>2, <2>3 DEF Groups
  <2>5. MetaBlocks(i) \cap MetaBlocks(j) = {}
    BY <1>6, <2>4 DEF MetaApart
  <2>6. QED
    BY <2>2, <2>3, <2>5
<1>13. ASSUME NEW R, NEW b \in FreeFrom(0, R), SuperRuns \subseteq R PROVE InsideFree(b)
  <2>1. b \in Nat /\ b < input.blocks /\ \A r \in R : b \notin BlocksOf(r)
    BY <1>1, FreeType
  <2>2. QED
    BY <1>13, <2>1 DEF InsideFree, SuperBlocks
<1>14. \A g \in Groups : \A b \in Meta(g) : InsideFree(b)
  <2>1. SUFFICES ASSUME NEW g \in Groups, NEW b \in Meta(g) PROVE InsideFree(b)
    OBVIOUS
  <2>2. PICK h \in DOMAIN group_meta : h = g + 1 /\ MetaBlocks(h) = Meta(g)
    BY <1>9
  <2>3. b \in FreeFrom(0, SuperRuns)
    BY <1>6, <2>2 DEF MetaApart
  <2>4. QED
    BY <1>13, <2>3
<1>15. ASSUME NEW b \in PassedRoom PROVE InsideFree(b) /\ b \notin Flexed
  <2>1. b \in FreeFrom(0, AllReserved)
    BY DEF PassedRoom
  <2>2. SuperRuns \subseteq AllReserved
    BY DEF AllReserved
  <2>3. \A r \in AllReserved : b \notin BlocksOf(r)
    BY <1>1, <2>1, FreeType
  <2>4. b \notin Flexed
    BY <2>3 DEF AllReserved, Flexed
  <2>5. QED
    BY <1>13, <2>1, <2>2, <2>4
<1>16. \A g \in Groups : Meta(g) \subseteq Flexed
  <2>1. SUFFICES ASSUME NEW g \in Groups PROVE Meta(g) \subseteq Flexed
    OBVIOUS
  <2>2. PICK h \in DOMAIN group_meta : h = g + 1 /\ MetaBlocks(h) = Meta(g)
    BY <1>9
  <2>3. QED
    BY <1>6, <1>8, <2>2 DEF MetaCovered
<1>17. MetaPlaced
  BY <1>10, <1>11, <1>12, <1>14 DEF MetaPlaced
<1>18. /\ \A s \in Owners : PlanShape(plans[s]) /\ PlanBlocks(plans[s]) \subseteq PassedRoom
       /\ \A s, t \in Owners : s # t => PlanBlocks(plans[s]) \cap PlanBlocks(plans[t]) = {}
  BY <1>3 DEF PlansIn
<1>19. \A s \in Owners : \A b \in PlanBlocks(plans[s]) : InsideFree(b)
  BY <1>15, <1>18
<1>20. \A s \in Owners, g \in Groups : PlanBlocks(plans[s]) \cap Meta(g) = {}
  BY <1>15, <1>16, <1>18
<1>21. PlansPlaced
  BY <1>3, <1>18, <1>19, <1>20 DEF PlansPlaced
<1>22. QED
  BY <1>1, <1>2, <1>3, <1>7, <1>17, <1>21

\* The primary superblock and its descriptors are at the start of the image.
LEMMA PrimaryCopy ==
  ASSUME input \in Inputs, groups \in Nat \ {0}, MetaPlaced
  PROVE  \E r \in SuperRuns :
           /\ r = [start |-> 0, len |-> 1 + GdtBlocks] /\ BlocksOf(r) = 0 .. GdtBlocks
           /\ GdtBlocks < input.blocks /\ r.start = 0
<1>1. GdtBlocks \in Nat \ {0} /\ GroupBlocks \in Nat /\ input.blocks \in Nat
  BY Parameters
<1>2. group_start(0) = 0
  BY <1>1 DEF group_start
<1>3. PICK r \in SuperRuns : r = [start |-> 0, len |-> 1 + GdtBlocks]
  BY <1>2 DEF SuperRuns
<1>4. BlocksOf(r) = 0 .. GdtBlocks
  BY <1>1, <1>3 DEF BlocksOf, RunEnd
<1>5. PICK g \in Groups : g = 0
  BY DEF Groups
<1>6. PICK b : b = Bb(g)
  OBVIOUS
<1>7. b \in Meta(g)
  BY <1>6 DEF Meta
<1>8. InsideFree(b)
  BY <1>7 DEF MetaPlaced
<1>9. b \notin BlocksOf(r) /\ b \in Nat /\ b < input.blocks
  BY <1>8 DEF InsideFree, SuperBlocks
<1>10. GdtBlocks < input.blocks
  BY <1>1, <1>4, <1>9
<1>11. QED
  BY <1>3, <1>4, <1>10
-----------------------------------------------------------------------------
(* Runs and what they cover. *)

\* Runs that ascend tile what they cover.
LEMMA AscendingTile ==
  ASSUME NEW runs \in Seq(Run), Ascend(runs)
  PROVE  /\ Tiles(runs, Given(runs)) /\ Given(runs) \in SUBSET Nat /\ IsFiniteSet(Given(runs))
         /\ Lengths(runs) = Cardinality(Given(runs)) /\ Lengths(runs) \in Nat
<1>1. \A i \in DOMAIN runs : BlocksOf(runs[i]) \in SUBSET Given(runs)
  BY DEF Given
<1>2. \A c \in Given(runs) : \E i \in DOMAIN runs : c \in BlocksOf(runs[i])
  BY DEF Given
<1>3. Tiles(runs, Given(runs))
  BY <1>1, <1>2 DEF Tiles, Ascend
<1>4. ASSUME NEW i \in DOMAIN runs
      PROVE  IsFiniteSet(BlocksOf(runs[i])) /\ BlocksOf(runs[i]) \in SUBSET Nat
  <2>1. runs[i] \in Run
    OBVIOUS
  <2>2. PICK a \in Nat, n \in Nat \ {0} : a = runs[i].start /\ n = runs[i].len
    BY <2>1 DEF Run
  <2>3. PICK z \in Int : z = (a + n) - 1
    OBVIOUS
  <2>4. BlocksOf(runs[i]) = a .. z
    BY <2>2, <2>3 DEF BlocksOf, RunEnd
  <2>5. IsFiniteSet(a .. z)
    BY FS_Interval
  <2>6. QED
    BY <2>4, <2>5
<1>5. Given(runs) \in SUBSET Nat
  BY <1>2, <1>4
<1>6. IsFiniteSet(Given(runs))
  <2>1. PICK n \in Nat : n = Len(runs) /\ DOMAIN runs = 1 .. n
    OBVIOUS
  <2>2. PICK part : part = [i \in DOMAIN runs |-> BlocksOf(runs[i])]
    OBVIOUS
  <2>3. PICK g : g = [i \in DOMAIN runs |-> Cardinality(part[i])]
    OBVIOUS
  <2>4. IsFiniteSet(DOMAIN runs)
    BY <2>1, UpTo
  <2>5. \A i \in DOMAIN runs : part[i] \in SUBSET Nat /\ IsFiniteSet(part[i])
    BY <1>4, <2>2
  <2>6. \A i \in DOMAIN runs : g[i] = Cardinality(part[i])
    BY <2>3
  <2>7. \A i, j \in DOMAIN runs : i # j => part[i] \cap part[j] = {}
    <3>1. RunsApart(runs)
      BY <1>3, TilesGive
    <3>2. QED
      BY <2>2, <3>1 DEF RunsApart
  <2>8. IsFiniteSet(UNION {part[i] : i \in DOMAIN runs})
    <3>1. PICK S : S = DOMAIN runs
      OBVIOUS
    <3>2. IsFiniteSet(S)
      BY <2>4, <3>1
    <3>3. \A i \in S : part[i] \in SUBSET Nat /\ IsFiniteSet(part[i])
      BY <2>5, <3>1
    <3>4. \A i \in S : g[i] = Cardinality(part[i])
      BY <2>6, <3>1
    <3>5. \A i, j \in S : i # j => part[i] \cap part[j] = {}
      BY <2>7, <3>1
    <3>6. IsFiniteSet(UNION {part[i] : i \in S})
      BY <3>2, <3>3, <3>4, <3>5, SizeOfParts
    <3>7. QED
      BY <3>1, <3>6
  <2>9. UNION {part[i] : i \in DOMAIN runs} = Given(runs)
    <3>1. \A i \in DOMAIN runs : part[i] = BlocksOf(runs[i])
      BY <2>2
    <3>2. QED
      BY <3>1 DEF Given
  <2>10. QED
    BY <2>8, <2>9
<1>7. Lengths(runs) = Cardinality(Given(runs))
  BY <1>3, <1>5, <1>6, TilesSum DEF Lengths
<1>8. Lengths(runs) \in Nat
  BY <1>6, <1>7, FS_CardinalityType
<1>9. QED
  BY <1>3, <1>5, <1>6, <1>7, <1>8

\* The blocks of items one behind the other: each number is in one of them.
LEMMA ItemsInOrder ==
  ASSUME NEW runs, Len(runs) \in Nat, DOMAIN runs = 1 .. Len(runs),
         \A i \in DOMAIN runs : runs[i].len \in Nat
  PROVE  /\ \A i \in DOMAIN runs : \A k \in 0 .. runs[i].len - 1 :
              /\ Before(runs, i) + k \in 0 .. Lengths(runs) - 1
              /\ \A j \in DOMAIN runs :
                   Before(runs, i) + k \in Before(runs, j) .. Before(runs, j) + runs[j].len - 1 <=> j = i
         /\ \A l \in 0 .. Lengths(runs) - 1 :
              \E i \in DOMAIN runs : \E k \in 0 .. runs[i].len - 1 : l = Before(runs, i) + k
<1>1. PICK n \in Nat : n = Len(runs) /\ DOMAIN runs = 1 .. n
  BY Zenon
<1>2. \A i \in 1 .. n : i \in DOMAIN runs
  BY <1>1
<1>3. \A i \in 1 .. n : runs[i].len \in Nat
  BY <1>2
<1>4. /\ Before(runs, 1) = 0
      /\ \A i \in 1 .. n + 1 : Before(runs, i) \in Nat
      /\ \A i \in 1 .. n : Before(runs, i + 1) = Before(runs, i) + runs[i].len
      /\ \A i, j \in 1 .. n + 1 : i <= j => Before(runs, i) <= Before(runs, j)
  BY <1>1, <1>3, BeforeGrows
<1>5. PICK f : f = [i \in 1 .. n + 1 |-> Before(runs, i)]
  OBVIOUS
<1>6. PICK d : d = [i \in 1 .. n |-> runs[i].len]
  OBVIOUS
<1>7. /\ f[1] = 0 /\ \A i \in 1 .. n + 1 : f[i] \in Nat
      /\ \A i \in 1 .. n : d[i] \in Nat /\ f[i + 1] = f[i] + d[i]
      /\ \A i, j \in 1 .. n + 1 : i <= j => f[i] <= f[j]
  <2>1. \A i \in 1 .. n : i \in 1 .. n + 1 /\ i + 1 \in 1 .. n + 1
    OBVIOUS
  <2>2. 1 \in 1 .. n + 1
    OBVIOUS
  <2>3. QED
    BY <1>3, <1>4, <1>5, <1>6, <2>1, <2>2
<1>8. PICK m \in Nat : m = Lengths(runs) /\ m = f[n + 1]
  <2>1. Lengths(runs) = Before(runs, n + 1) /\ n + 1 \in 1 .. n + 1
    BY <1>1 DEF Lengths
  <2>2. QED
    BY <1>5, <1>7, <2>1
<1>9. ASSUME NEW i \in 1 .. n, NEW k \in 0 .. d[i] - 1
      PROVE  /\ f[i] + k \in 0 .. m - 1
             /\ \A j \in 1 .. n : f[i] + k \in f[j] .. f[j] + d[j] - 1 <=> j = i
  <2>1. /\ f[i] \in Nat /\ d[i] \in Nat /\ f[i + 1] = f[i] + d[i] /\ i + 1 \in 1 .. n + 1
        /\ n + 1 \in 1 .. n + 1 /\ i \in 1 .. n + 1
    BY <1>7
  <2>2. f[i + 1] <= m
    BY <1>7, <1>8, <2>1
  <2>3. f[i] + k \in 0 .. m - 1
    BY <1>8, <2>1, <2>2, SMTT(30)
  <2>4. ASSUME NEW j \in 1 .. n, j < i PROVE f[j] + d[j] <= f[i]
    <3>1. j + 1 \in 1 .. n + 1 /\ j + 1 <= i
      BY <2>4
    <3>2. f[j + 1] <= f[i]
      BY <1>7, <2>1, <3>1
    <3>3. QED
      BY <1>7, <3>2
  <2>5. ASSUME NEW j \in 1 .. n, i < j PROVE f[i] + d[i] <= f[j]
    <3>1. j \in 1 .. n + 1 /\ i + 1 <= j
      BY <2>5
    <3>2. f[i + 1] <= f[j]
      BY <1>7, <2>1, <3>1
    <3>3. QED
      BY <2>1, <3>2
  <2>6. ASSUME NEW j \in 1 .. n, f[i] + k \in f[j] .. f[j] + d[j] - 1 PROVE j = i
    <3>1. f[j] \in Nat /\ d[j] \in Nat
      BY <1>7
    <3>2. ~(j < i)
      <4>1. SUFFICES ASSUME j < i PROVE FALSE
        OBVIOUS
      <4>2. PICK a \in Nat, b \in Nat, e \in Nat : a = f[j] /\ b = d[j] /\ e = f[i]
        BY <2>1, <3>1
      <4>3. a + b <= e
        BY <2>4, <4>1, <4>2
      <4>4. k \in Nat /\ e + k <= a + b - 1
        BY <2>1, <2>6, <3>1, <4>2
      <4>5. QED
        BY <4>3, <4>4
    <3>3. ~(i < j)
      <4>1. SUFFICES ASSUME i < j PROVE FALSE
        OBVIOUS
      <4>2. PICK a \in Nat, b \in Nat, e \in Nat : a = f[i] /\ b = d[i] /\ e = f[j]
        BY <2>1, <3>1
      <4>3. a + b <= e
        BY <2>5, <4>1, <4>2
      <4>4. k \in 0 .. b - 1 /\ e <= a + k
        BY <2>6, <3>1, <4>2
      <4>5. QED
        BY <4>3, <4>4
    <3>4. QED
      BY <3>2, <3>3
  <2>7. f[i] + k \in f[i] .. f[i] + d[i] - 1
    BY <2>1
  <2>8. QED
    BY <2>3, <2>6, <2>7
<1>10. ASSUME NEW l \in 0 .. m - 1
       PROVE  \E i \in 1 .. n : \E k \in 0 .. d[i] - 1 : l = f[i] + k
  <2>1. PICK C : C = {i \in 1 .. n + 1 : f[i] <= l}
    OBVIOUS
  <2>2. C \in SUBSET Nat /\ IsFiniteSet(C) /\ C # {}
    <3>1. IsFiniteSet(1 .. n + 1)
      BY UpTo
    <3>2. C \in SUBSET (1 .. n + 1) /\ C \in SUBSET Nat
      BY <2>1
    <3>3. 1 \in C
      BY <1>7, <2>1
    <3>4. IsFiniteSet(C)
      BY <3>1, <3>2, FS_Subset
    <3>5. QED
      BY <3>2, <3>3, <3>4
  <2>3. PICK i \in C : \A j \in C : j <= i
    BY <2>2, GreatestOfFinite
  <2>4. i \in 1 .. n + 1 /\ f[i] <= l
    BY <2>1, <2>3
  <2>5. i # n + 1
    BY <1>8, <2>4
  <2>6. i \in 1 .. n /\ i + 1 \in 1 .. n + 1
    BY <2>4, <2>5
  <2>7. ~(f[i + 1] <= l)
    BY <2>1, <2>3, <2>6
  <2>8. PICK k \in Int : k = l - f[i]
    BY <1>7, <2>4
  <2>9. f[i] \in Nat /\ d[i] \in Nat /\ f[i + 1] = f[i] + d[i]
    BY <1>7, <2>4, <2>6
  <2>10. k \in 0 .. d[i] - 1 /\ l = f[i] + k
    BY <2>4, <2>7, <2>8, <2>9
  <2>11. QED
    BY <2>6, <2>10
<1>11. \A i \in 1 .. n : f[i] = Before(runs, i) /\ d[i] = runs[i].len
  BY <1>5, <1>6
<1>12. ASSUME NEW i \in DOMAIN runs, NEW k \in 0 .. runs[i].len - 1
       PROVE  /\ Before(runs, i) + k \in 0 .. Lengths(runs) - 1
              /\ \A j \in DOMAIN runs :
                   Before(runs, i) + k \in Before(runs, j) .. Before(runs, j) + runs[j].len - 1 <=> j = i
  <2>1. /\ i \in 1 .. n /\ k \in 0 .. d[i] - 1 /\ f[i] = Before(runs, i) /\ m = Lengths(runs)
        /\ \A j \in DOMAIN runs : j \in 1 .. n /\ f[j] = Before(runs, j) /\ d[j] = runs[j].len
    BY <1>1, <1>8, <1>11
  <2>2. f[i] + k \in 0 .. m - 1 /\ \A j \in 1 .. n : f[i] + k \in f[j] .. f[j] + d[j] - 1 <=> j = i
    BY <1>9, <2>1
  <2>3. QED
    BY <2>1, <2>2
<1>13. ASSUME NEW l \in 0 .. Lengths(runs) - 1
       PROVE  \E i \in DOMAIN runs : \E k \in 0 .. runs[i].len - 1 : l = Before(runs, i) + k
  <2>1. l \in 0 .. m - 1 /\ \A j \in 1 .. n : j \in DOMAIN runs
    BY <1>1, <1>8
  <2>2. PICK i \in 1 .. n : \E k \in 0 .. d[i] - 1 : l = f[i] + k
    BY <1>10, <2>1
  <2>3. i \in DOMAIN runs /\ f[i] = Before(runs, i) /\ d[i] = runs[i].len
    BY <1>11, <2>1
  <2>4. QED
    BY <2>2, <2>3
<1>14. QED
  BY <1>12, <1>13, SMTT(30)

LEMMA LogicalBlocks ==
  ASSUME NEW runs \in Seq(Run)
  PROVE  /\ \A i \in DOMAIN runs : \A k \in 0 .. runs[i].len - 1 :
              /\ Before(runs, i) + k \in 0 .. Lengths(runs) - 1
              /\ \A j \in DOMAIN runs :
                   Before(runs, i) + k \in Before(runs, j) .. Before(runs, j) + runs[j].len - 1 <=> j = i
         /\ \A l \in 0 .. Lengths(runs) - 1 :
              \E i \in DOMAIN runs : \E k \in 0 .. runs[i].len - 1 : l = Before(runs, i) + k
<1>1. Len(runs) \in Nat /\ DOMAIN runs = 1 .. Len(runs)
  OBVIOUS
<1>2. \A i \in DOMAIN runs : runs[i] \in Run
  OBVIOUS
<1>3. \A i \in DOMAIN runs : runs[i].len \in Nat
  BY <1>2 DEF Run
<1>4. QED
  BY <1>1, <1>3, ItemsInOrder

\* The blocks before a run are as many as its first logical block says.
LEMMA RankOfRun ==
  ASSUME NEW runs \in Seq(Run), Ascend(runs), NEW i \in DOMAIN runs
  PROVE  /\ Below(Given(runs), runs[i].start) = Given([j \in 1 .. i - 1 |-> runs[j]])
         /\ Rank(Given(runs), runs[i].start) = Before(runs, i)
<1>1. PICK n \in Nat : n = Len(runs) /\ DOMAIN runs = 1 .. n
  OBVIOUS
<1>2. i \in 1 .. n
  BY <1>1
<1>3. PICK t : t = [j \in 1 .. i - 1 |-> runs[j]]
  OBVIOUS
<1>4. /\ t \in Seq(Run) /\ Len(t) = i - 1 /\ DOMAIN t = 1 .. i - 1
      /\ \A j \in 1 .. i - 1 : t[j] = runs[j] /\ j \in DOMAIN runs /\ j < i
  <2>1. PICK m \in Nat : m = i - 1
    BY <1>2
  <2>2. \A j \in 1 .. m : runs[j] \in Run /\ j \in DOMAIN runs /\ j < i
    BY <1>1, <1>2, <2>1
  <2>3. t \in [1 .. m -> Run]
    BY <1>3, <2>1, <2>2
  <2>4. t \in Seq(Run) /\ Len(t) = m
    BY <2>3
  <2>5. QED
    BY <1>3, <2>1, <2>2, <2>4
<1>5. Ascend(t)
  BY <1>4 DEF Ascend
<1>6. Below(Given(runs), runs[i].start) = Given(t)
  <2>1. ASSUME NEW j \in DOMAIN runs
        PROVE  /\ \A c \in BlocksOf(runs[j]) : c \in Nat /\ runs[j].start <= c /\ c < RunEnd(runs[j])
               /\ runs[j].start \in Nat /\ RunEnd(runs[j]) \in Nat
    <3>1. runs[j] \in Run
      OBVIOUS
    <3>2. PICK a \in Nat, l \in Nat \ {0} : a = runs[j].start /\ l = runs[j].len
      BY <3>1 DEF Run
    <3>3. RunEnd(runs[j]) = a + l
      BY <3>2 DEF RunEnd
    <3>4. \A c \in BlocksOf(runs[j]) : c \in a .. (a + l) - 1
      BY <3>2, <3>3 DEF BlocksOf
    <3>5. QED
      BY <3>2, <3>3, <3>4
  <2>2. ASSUME NEW c \in Given(runs), c < runs[i].start PROVE c \in Given(t)
    <3>1. PICK j \in DOMAIN runs : c \in BlocksOf(runs[j])
      BY DEF Given
    <3>2. ~(i < j)
      <4>1. SUFFICES ASSUME i < j PROVE FALSE
        OBVIOUS
      <4>2. RunEnd(runs[i]) <= runs[j].start /\ runs[i].start <= RunEnd(runs[i])
        <5>1. runs[i] \in Run
          OBVIOUS
        <5>2. QED
          BY <4>1, <5>1 DEF Ascend, RunEnd, Run
      <4>3. QED
        BY <2>1, <2>2, <3>1, <4>2
    <3>3. j # i
      BY <2>1, <2>2, <3>1
    <3>4. j \in 1 .. i - 1
      BY <1>1, <1>2, <3>2, <3>3
    <3>5. QED
      BY <1>4, <3>1, <3>4 DEF Given
  <2>3. ASSUME NEW c \in Given(t) PROVE c \in Given(runs) /\ c < runs[i].start
    <3>1. PICK j \in 1 .. i - 1 : c \in BlocksOf(t[j])
      BY <1>4 DEF Given
    <3>2. j \in DOMAIN runs /\ c \in BlocksOf(runs[j]) /\ j < i
      BY <1>4, <3>1
    <3>3. RunEnd(runs[j]) <= runs[i].start
      BY <3>2 DEF Ascend
    <3>4. c < runs[i].start
      BY <2>1, <3>2, <3>3
    <3>5. QED
      BY <3>2, <3>4 DEF Given
  <2>4. QED
    BY <2>2, <2>3 DEF Below
<1>7. Lengths(t) = Cardinality(Given(t))
  BY <1>4, <1>5, AscendingTile
<1>8. Lengths(t) = Before(runs, i)
  <2>1. PICK m \in Nat : m = i - 1
    BY <1>2
  <2>2. (m + 1) - 1 = m
    OBVIOUS
  <2>3. Lengths(t) = Cardinality(Units(LensOf(t), 1 .. m))
    BY <1>4, <2>1, <2>2, BeforeIsUnits DEF Lengths
  <2>4. Before(runs, i) = Cardinality(Units(LensOf(runs), 1 .. m))
    BY <2>1, BeforeIsUnits
  <2>5. \A j \in 1 .. m : LensOf(t)[j] = LensOf(runs)[j]
    BY <1>4, <2>1 DEF LensOf
  <2>6. Units(LensOf(t), 1 .. m) = Units(LensOf(runs), 1 .. m)
    BY <2>5, UnitsAgree
  <2>7. QED
    BY <2>3, <2>4, <2>6
<1>9. Rank(Given(runs), runs[i].start) = Before(runs, i)
  BY <1>6, <1>7, <1>8 DEF Rank
<1>10. QED
  BY <1>3, <1>6, <1>9

LEMMA NthOfRuns ==
  ASSUME NEW runs \in Seq(Run), Ascend(runs), NEW i \in DOMAIN runs, NEW k \in 0 .. runs[i].len - 1
  PROVE  Nth(Given(runs), Before(runs, i) + k + 1) = runs[i].start + k
<1>1. PICK S : S = Given(runs)
  OBVIOUS
<1>2. S \in SUBSET Nat /\ IsFiniteSet(S)
  BY <1>1, AscendingTile
<1>3. runs[i] \in Run
  OBVIOUS
<1>4. PICK a \in Nat, n \in Nat \ {0} : a = runs[i].start /\ n = runs[i].len
  BY <1>3 DEF Run
<1>5. BlocksOf(runs[i]) = a .. (a + n) - 1 /\ RunEnd(runs[i]) = a + n
  BY <1>4 DEF BlocksOf, RunEnd
<1>6. PICK b \in Nat : b = a + k
  BY <1>4
<1>7. \A c \in a .. b : c \in S
  BY <1>1, <1>4, <1>5, <1>6, SMTT(30) DEF Given
<1>8. Rank(S, a) = Before(runs, i)
  BY <1>1, <1>4, RankOfRun
<1>9. Below(S, b) = Below(S, a) \cup (a .. b - 1)
  <2>1. ASSUME NEW c \in S, c < b PROVE c < a \/ c \in a .. b - 1
    BY <1>2, <2>1
  <2>2. ASSUME NEW c \in a .. b - 1 PROVE c \in S /\ c < b
    BY <1>7
  <2>3. ASSUME NEW c \in S, c < a PROVE c < b
    BY <1>2, <1>6, <2>3
  <2>4. QED
    BY <2>1, <2>2, <2>3 DEF Below
<1>10. Rank(S, b) = Rank(S, a) + k
  <2>1. PICK A, B : A = Below(S, a) /\ B = a .. b - 1
    OBVIOUS
  <2>2. IsFiniteSet(A)
    BY <1>2, <2>1, RankType
  <2>3. IsFiniteSet(B) /\ Cardinality(B) = k
    <3>1. PICK z \in Int : z = b - 1
      OBVIOUS
    <3>2. IsFiniteSet(a .. z) /\ Cardinality(a .. z) = IF a > z THEN 0 ELSE z - a + 1
      BY FS_Interval
    <3>3. (IF a > z THEN 0 ELSE z - a + 1) = k
      BY <1>6, <3>1
    <3>4. QED
      BY <2>1, <3>1, <3>2, <3>3
  <2>4. A \cap B = {}
    BY <2>1 DEF Below
  <2>5. Cardinality(A \cup B) = Cardinality(A) + Cardinality(B)
    BY <2>2, <2>3, <2>4, SizeOfUnion
  <2>6. QED
    BY <1>9, <2>1, <2>3, <2>5 DEF Rank
<1>11. b \in S
  BY <1>6, <1>7
<1>12. Rank(S, b) \in 0 .. Cardinality(S) - 1 /\ Cardinality(S) \in Nat
  BY <1>2, <1>11, RankBelowSize, FS_CardinalityType
<1>13. PICK r \in Nat : r = Rank(S, b) /\ r + 1 \in 1 .. Cardinality(S)
  BY <1>12
<1>14. PICK q \in 1 .. Cardinality(S) : q = r + 1
  BY <1>13
<1>15. Nth(S, q) \in S /\ Rank(S, Nth(S, q)) = q - 1
  BY <1>2, NthMember
<1>16. Nth(S, q) = b
  <2>1. Rank(S, Nth(S, q)) = Rank(S, b)
    BY <1>13, <1>14, <1>15
  <2>2. QED
    BY <1>2, <1>11, <1>15, <2>1, RankOrders
<1>17. q = Before(runs, i) + k + 1
  <2>1. PICK p : p = Before(runs, i)
    OBVIOUS
  <2>2. p \in Nat
    BY <1>2, <1>8, <2>1, RankType
  <2>3. r = p + k
    BY <1>8, <1>10, <1>13, <2>1
  <2>4. QED
    BY <1>14, <2>1, <2>2, <2>3
<1>18. QED
  BY <1>1, <1>4, <1>6, <1>16, <1>17
-----------------------------------------------------------------------------
(* Segments and the runs that follow them. *)

\* Segments of a file: not empty, one behind the other, holes between them.
SegsOK(segs) ==
  /\ Len(segs) \in Nat /\ DOMAIN segs = 1 .. Len(segs)
  /\ \A k \in DOMAIN segs : segs[k].offset \in Nat /\ segs[k].len \in Nat \ {0}
  /\ \A k, m \in DOMAIN segs : k < m => segs[k].offset + segs[k].len <= segs[m].offset
SegsFit(segs) == \A k \in DOMAIN segs : segs[k].offset + segs[k].len <= LogicalSpan

\* As many blocks as the segments have, and a run of its own for the first
\* block of each.
Follows(runs, segs) ==
  /\ Lengths(runs) = Lengths(segs)
  /\ \A k \in DOMAIN segs : \E i \in DOMAIN runs : Before(runs, i) = Before(segs, k)

\* So a run lies in one segment.
LEMMA RunInSegment ==
  ASSUME NEW runs \in Seq(Run), NEW segs, SegsOK(segs), Follows(runs, segs), NEW i \in DOMAIN runs
  PROVE  \E k \in DOMAIN segs : \E r \in Nat :
           Before(runs, i) = Before(segs, k) + r /\ r + runs[i].len <= segs[k].len
<1>1. PICK n \in Nat : n = Len(runs) /\ DOMAIN runs = 1 .. n
  OBVIOUS
<1>2. runs[i] \in Run
  OBVIOUS
<1>3. PICK d \in Nat \ {0} : d = runs[i].len
  BY <1>2 DEF Run
<1>4. \A j \in 1 .. n : runs[j].len \in Nat
  <2>1. \A j \in 1 .. n : runs[j] \in Run
    BY <1>1
  <2>2. QED
    BY <2>1 DEF Run
<1>5. /\ \A j \in 1 .. n + 1 : Before(runs, j) \in Nat
      /\ \A j \in 1 .. n : Before(runs, j + 1) = Before(runs, j) + runs[j].len
      /\ \A j, l \in 1 .. n + 1 : j <= l => Before(runs, j) <= Before(runs, l)
  BY <1>1, <1>4, BeforeGrows
<1>6. i \in 1 .. n /\ i \in 1 .. n + 1 /\ i + 1 \in 1 .. n + 1 /\ n + 1 \in 1 .. n + 1
  BY <1>1
<1>7. PICK b \in Nat : b = Before(runs, i)
  BY <1>5, <1>6
<1>8. Before(runs, i + 1) = b + d
  BY <1>3, <1>5, <1>6, <1>7
<1>9. PICK t \in Nat : t = Lengths(runs) /\ b + d <= t
  <2>1. Before(runs, i + 1) <= Before(runs, n + 1)
    BY <1>5, <1>6, SMTT(30)
  <2>2. Lengths(runs) = Before(runs, n + 1) /\ Before(runs, n + 1) \in Nat
    BY <1>1, <1>5, <1>6 DEF Lengths
  <2>3. QED
    BY <1>8, <2>1, <2>2
<1>10. PICK m \in Nat : m = Len(segs) /\ DOMAIN segs = 1 .. m
  BY DEF SegsOK
<1>11. \A k \in 1 .. m : segs[k].len \in Nat
  BY <1>10 DEF SegsOK
<1>12. t = Lengths(segs) /\ \A k \in 1 .. m : \E j \in DOMAIN runs : Before(runs, j) = Before(segs, k)
  BY <1>9, <1>10 DEF Follows
<1>13. \A l \in 0 .. Lengths(segs) - 1 :
         \E k \in DOMAIN segs : \E r \in 0 .. segs[k].len - 1 : l = Before(segs, k) + r
  <2>1. Len(segs) \in Nat /\ DOMAIN segs = 1 .. Len(segs) /\ \A k \in DOMAIN segs : segs[k].len \in Nat
    BY <1>10, <1>11
  <2>2. QED
    BY <2>1, ItemsInOrder
<1>14. b \in 0 .. Lengths(segs) - 1
  BY <1>9, <1>12
<1>15. PICK k \in DOMAIN segs : \E r \in 0 .. segs[k].len - 1 : b = Before(segs, k) + r
  BY <1>13, <1>14
<1>16. PICK r \in 0 .. segs[k].len - 1 : b = Before(segs, k) + r
  BY <1>15
<1>17. k \in 1 .. m /\ k + 1 \in 1 .. m + 1
  BY <1>10
<1>18. PICK c \in Nat, e \in Nat : c = segs[k].len /\ e = Before(segs, k) /\ Before(segs, k + 1) = e + c
  <2>1. /\ \A j \in 1 .. m + 1 : Before(segs, j) \in Nat
        /\ \A j \in 1 .. m : Before(segs, j + 1) = Before(segs, j) + segs[j].len
    BY <1>10, <1>11, BeforeGrows
  <2>2. k \in 1 .. m + 1
    BY <1>17
  <2>3. QED
    BY <1>11, <1>17, <2>1, <2>2
<1>19. r \in Nat /\ r < c /\ b = e + r
  BY <1>16, <1>18
<1>20. b + d <= e + c
  <2>1. CASE k = m
    <3>1. Lengths(segs) = e + c
      BY <1>10, <1>18, <2>1 DEF Lengths
    <3>2. QED
      BY <1>9, <1>12, <3>1
  <2>2. CASE k # m
    <3>1. k + 1 \in 1 .. m
      BY <1>17, <2>2
    <3>2. PICK j \in DOMAIN runs : Before(runs, j) = e + c
      BY <1>12, <1>18, <3>1
    <3>3. j \in 1 .. n /\ j \in 1 .. n + 1
      BY <1>1
    <3>4. ~(j <= i)
      <4>1. SUFFICES ASSUME j <= i PROVE FALSE
        OBVIOUS
      <4>2. e + c <= b
        BY <1>5, <1>6, <1>7, <3>2, <3>3, <4>1
      <4>3. QED
        BY <1>19, <4>2
    <3>5. i + 1 <= j
      BY <1>6, <3>3, <3>4
    <3>6. Before(runs, i + 1) <= Before(runs, j)
      BY <1>5, <1>6, <3>3, <3>5
    <3>7. QED
      BY <1>8, <3>2, <3>6
  <2>3. QED
    BY <2>1, <2>2
<1>21. r + d <= c
  BY <1>19, <1>20
<1>22. QED
  BY <1>3, <1>7, <1>18, <1>19, <1>21

\* A block is in one segment only.
LEMMA OneSegment ==
  ASSUME NEW segs, SegsOK(segs), NEW k \in DOMAIN segs, NEW r \in 0 .. segs[k].len - 1,
         NEW m \in DOMAIN segs, NEW q \in 0 .. segs[m].len - 1,
         Before(segs, k) + r = Before(segs, m) + q
  PROVE  k = m /\ r = q
<1>1. /\ Len(segs) \in Nat /\ DOMAIN segs = 1 .. Len(segs)
      /\ \A j \in DOMAIN segs : segs[j].len \in Nat
  BY DEF SegsOK
<1>2. /\ \A j \in DOMAIN segs :
           Before(segs, k) + r \in Before(segs, j) .. Before(segs, j) + segs[j].len - 1 <=> j = k
      /\ \A j \in 1 .. Len(segs) + 1 : Before(segs, j) \in Nat
  <2>1. \A j \in 1 .. Len(segs) : segs[j].len \in Nat
    BY <1>1
  <2>2. \A j \in 1 .. Len(segs) + 1 : Before(segs, j) \in Nat
    BY <1>1, <2>1, BeforeGrows
  <2>3. QED
    BY <1>1, <2>2, ItemsInOrder
<1>3. PICK a \in Nat, b \in Nat : a = Before(segs, k) /\ b = Before(segs, m)
  BY <1>1, <1>2, SMTT(30)
<1>4. PICK c \in Nat : c = segs[m].len
  BY <1>1
<1>5. b + q \in b .. b + c - 1
  BY <1>4
<1>6. Before(segs, k) + r \in Before(segs, m) .. Before(segs, m) + segs[m].len - 1
  BY <1>3, <1>4, <1>5
<1>7. m = k
  BY <1>2, <1>6
<1>8. QED
  BY <1>3, <1>7

LEMMA BelowSpan ==
  ASSUME NEW x \in Nat, NEW n \in Nat, x < n
  PROVE  x % n = x
OBVIOUS

\* Where numbers suffice, an extent has the logical blocks of its segment.
LEMMA LogicalIs ==
  ASSUME NEW segs, SegsOK(segs), SegsFit(segs), NEW k \in DOMAIN segs, NEW r \in 0 .. segs[k].len - 1
  PROVE  LogicalOf(segs, Before(segs, k) + r) = segs[k].offset + r
<1>1. /\ Len(segs) \in Nat /\ DOMAIN segs = 1 .. Len(segs)
      /\ \A j \in DOMAIN segs : segs[j].len \in Nat
  BY DEF SegsOK
<1>2. \A j \in DOMAIN segs :
        Before(segs, k) + r \in Before(segs, j) .. Before(segs, j) + segs[j].len - 1 <=> j = k
  BY <1>1, ItemsInOrder
<1>3. PICK n : n = Before(segs, k) + r
  OBVIOUS
<1>4. (CHOOSE j \in DOMAIN segs : n \in Before(segs, j) .. Before(segs, j) + segs[j].len - 1) = k
  BY <1>2, <1>3
<1>5. PICK a \in Nat : a = Before(segs, k)
  <2>1. \A j \in 1 .. Len(segs) : segs[j].len \in Nat
    BY <1>1
  <2>2. \A j \in 1 .. Len(segs) + 1 : Before(segs, j) \in Nat
    BY <1>1, <2>1, BeforeGrows
  <2>3. QED
    BY <1>1, <2>2
<1>6. PICK o \in Nat, c \in Nat : o = segs[k].offset /\ c = segs[k].len /\ o + c <= LogicalSpan
  BY DEF SegsOK, SegsFit
<1>7. PICK L \in Nat \ {0} : L = LogicalSpan
  BY VolumeAssumption
<1>8. (n - a) = r /\ o + r \in Nat /\ o + r < L
  BY <1>3, <1>5, <1>6, <1>7
<1>9. (o + (n - a)) % L = o + r
  BY <1>8, BelowSpan
<1>10. LogicalOf(segs, n) = (o + (n - a)) % L
  BY <1>4, <1>5, <1>6, <1>7 DEF LogicalOf
<1>11. QED
  BY <1>3, <1>6, <1>9, <1>10
-----------------------------------------------------------------------------
(* The extents of an inode. *)

LEMMA ExtentIs ==
  ASSUME NEW runs \in Seq(Run), NEW segs, SegsOK(segs), SegsFit(segs), Follows(runs, segs),
         NEW i \in DOMAIN runs
  PROVE  \E k \in DOMAIN segs : \E r \in Nat :
           /\ Before(runs, i) = Before(segs, k) + r /\ r + runs[i].len <= segs[k].len
           /\ Extents(runs, segs)[i].logical = segs[k].offset + r
           /\ Extents(runs, segs)[i].start = runs[i].start /\ Extents(runs, segs)[i].len = runs[i].len
<1>1. PICK k \in DOMAIN segs : \E r \in Nat :
        Before(runs, i) = Before(segs, k) + r /\ r + runs[i].len <= segs[k].len
  BY RunInSegment
<1>2. PICK r \in Nat : Before(runs, i) = Before(segs, k) + r /\ r + runs[i].len <= segs[k].len
  BY <1>1
<1>3. runs[i] \in Run
  OBVIOUS
<1>4. r \in 0 .. segs[k].len - 1
  <2>1. PICK d \in Nat \ {0} : d = runs[i].len
    BY <1>3 DEF Run
  <2>2. PICK c \in Nat : c = segs[k].len
    BY DEF SegsOK
  <2>3. QED
    BY <1>2, <2>1, <2>2
<1>5. LogicalOf(segs, Before(segs, k) + r) = segs[k].offset + r
  BY <1>4, LogicalIs
<1>6. Extents(runs, segs)[i] =
        [logical |-> LogicalOf(segs, Before(runs, i)), start |-> runs[i].start, len |-> runs[i].len]
  BY DEF Extents
<1>7. QED
  BY <1>2, <1>5, <1>6

LEMMA ExtentsAscend ==
  ASSUME NEW runs \in Seq(Run), NEW segs, SegsOK(segs), SegsFit(segs), Follows(runs, segs),
         NEW i \in DOMAIN runs, NEW j \in DOMAIN runs, i < j
  PROVE  Extents(runs, segs)[i].logical + runs[i].len <= Extents(runs, segs)[j].logical
<1>1. PICK k \in DOMAIN segs : \E r \in Nat :
        /\ Before(runs, i) = Before(segs, k) + r /\ r + runs[i].len <= segs[k].len
        /\ Extents(runs, segs)[i].logical = segs[k].offset + r
  BY ExtentIs
<1>2. PICK r \in Nat :
        /\ Before(runs, i) = Before(segs, k) + r /\ r + runs[i].len <= segs[k].len
        /\ Extents(runs, segs)[i].logical = segs[k].offset + r
  BY <1>1
<1>3. PICK m \in DOMAIN segs : \E q \in Nat :
        /\ Before(runs, j) = Before(segs, m) + q /\ q + runs[j].len <= segs[m].len
        /\ Extents(runs, segs)[j].logical = segs[m].offset + q
  BY ExtentIs
<1>4. PICK q \in Nat :
        /\ Before(runs, j) = Before(segs, m) + q /\ q + runs[j].len <= segs[m].len
        /\ Extents(runs, segs)[j].logical = segs[m].offset + q
  BY <1>3
<1>5. PICK d \in Nat \ {0}, e \in Nat \ {0} : d = runs[i].len /\ e = runs[j].len
  <2>1. runs[i] \in Run /\ runs[j] \in Run
    OBVIOUS
  <2>2. QED
    BY <2>1 DEF Run
<1>6. /\ \A l \in DOMAIN segs : segs[l].offset \in Nat /\ segs[l].len \in Nat
      /\ \A l, x \in DOMAIN segs : l < x => segs[l].offset + segs[l].len <= segs[x].offset
  BY DEF SegsOK
<1>7. PICK a \in Nat, b \in Nat : a = segs[k].offset /\ b = segs[m].offset
  BY <1>6
<1>8. PICK f \in Nat, g \in Nat : f = segs[k].len /\ g = segs[m].len
  BY <1>6, SMTT(30)
<1>9. PICK n \in Nat : n = Len(segs) /\ DOMAIN segs = 1 .. n
  BY DEF SegsOK
<1>10. /\ \A l \in 1 .. n + 1 : Before(segs, l) \in Nat
       /\ \A l \in 1 .. n : Before(segs, l + 1) = Before(segs, l) + segs[l].len
       /\ \A l, x \in 1 .. n + 1 : l <= x => Before(segs, l) <= Before(segs, x)
  <2>1. \A l \in 1 .. n : segs[l].len \in Nat
    BY <1>6, <1>9
  <2>2. QED
    BY <1>9, <2>1, BeforeGrows
<1>11. k \in 1 .. n /\ m \in 1 .. n /\ k \in 1 .. n + 1 /\ m \in 1 .. n + 1 /\ m + 1 \in 1 .. n + 1
  BY <1>9
<1>12. PICK s \in Nat, t \in Nat : s = Before(segs, k) /\ t = Before(segs, m)
  BY <1>10, <1>11
<1>13. s + r + d <= t + q
  <2>1. PICK x \in Nat : x = Len(runs) /\ DOMAIN runs = 1 .. x
    OBVIOUS
  <2>2. \A l \in 1 .. x : runs[l].len \in Nat
    <3>1. \A l \in 1 .. x : runs[l] \in Run
      BY <2>1
    <3>2. QED
      BY <3>1 DEF Run
  <2>3. /\ \A l \in 1 .. x : Before(runs, l + 1) = Before(runs, l) + runs[l].len
        /\ \A l, y \in 1 .. x + 1 : l <= y => Before(runs, l) <= Before(runs, y)
    BY <2>1, <2>2, BeforeGrows
  <2>4. i \in 1 .. x /\ i + 1 \in 1 .. x + 1 /\ j \in 1 .. x + 1 /\ i + 1 <= j
    BY <2>1
  <2>5. Before(runs, i + 1) <= Before(runs, j)
    BY <2>3, <2>4
  <2>6. Before(runs, i + 1) = (s + r) + d
    BY <1>2, <1>5, <1>12, <2>3, <2>4
  <2>7. QED
    BY <1>4, <1>12, <2>5, <2>6
<1>14. CASE k = m
  <2>1. s = t /\ a = b
    BY <1>7, <1>12, <1>14
  <2>2. a + r + d <= b + q
    BY <1>13, <2>1
  <2>3. QED
    BY <1>2, <1>4, <1>5, <1>7, <2>2
<1>15. CASE k < m
  <2>1. a + f <= b
    BY <1>6, <1>7, <1>8, <1>15
  <2>2. r + d <= f
    BY <1>2, <1>5, <1>8
  <2>3. a + r + d <= b + q
    BY <2>1, <2>2
  <2>4. QED
    BY <1>2, <1>4, <1>5, <1>7, <2>3
<1>16. CASE m < k
  <2>1. Before(segs, m + 1) = t + g
    BY <1>8, <1>10, <1>11, <1>12
  <2>2. m + 1 <= k
    BY <1>11, <1>16
  <2>3. t + g <= s
    BY <1>10, <1>11, <1>12, <2>1, <2>2
  <2>4. q + e <= g
    BY <1>4, <1>5, <1>8
  <2>5. FALSE
    BY <1>13, <2>3, <2>4
  <2>6. QED
    BY <2>5
<1>17. QED
  BY <1>11, <1>14, <1>15, <1>16

\* So the reader finds a block of an extent in that extent.
ExtentsLead(inode, runs, e) ==
  \A i \in DOMAIN runs : \A x \in Nat :
    x < runs[i].len => file_block(inode, e[i].logical + x) = {runs[i].start + x}

LEMMA ExtentFound ==
  ASSUME NEW runs \in Seq(Run), NEW segs, SegsOK(segs), SegsFit(segs), Follows(runs, segs),
         NEW inode, inode.extents = Extents(runs, segs)
  PROVE  ExtentsLead(inode, runs, Extents(runs, segs))
<1> SUFFICES ASSUME NEW i \in DOMAIN runs, NEW x \in Nat, x < runs[i].len,
                    NEW z, z = Extents(runs, segs)[i].logical + x, NEW w, w = runs[i].start + x
             PROVE  file_block(inode, z) = {w}
  BY SMTT(30) DEF ExtentsLead
<1>1. PICK e : e = Extents(runs, segs)
  OBVIOUS
<1>2. /\ DOMAIN e = DOMAIN runs
      /\ \A j \in DOMAIN runs : e[j].start = runs[j].start /\ e[j].len = runs[j].len
  BY <1>1 DEF Extents
<1>3. ASSUME NEW j \in DOMAIN runs PROVE e[j].logical \in Nat /\ e[j].start \in Nat /\ e[j].len \in Nat \ {0}
  <2>1. runs[j] \in Run
    OBVIOUS
  <2>2. runs[j].start \in Nat /\ runs[j].len \in Nat \ {0}
    BY <2>1 DEF Run
  <2>3. PICK k \in DOMAIN segs : \E r \in Nat : e[j].logical = segs[k].offset + r
    BY <1>1, ExtentIs
  <2>4. segs[k].offset \in Nat
    BY DEF SegsOK
  <2>5. QED
    BY <1>2, <2>2, <2>3, <2>4
<1>4. PICK a \in Nat, n \in Nat : a = e[i].logical /\ n = e[i].len /\ x < n
  BY <1>2, <1>3
<1>5. PICK l \in Nat : l = a + x /\ l = z /\ a <= l /\ l < a + n
  <2>1. z = a + x
    BY <1>1, <1>4
  <2>2. a + x \in Nat /\ a <= a + x /\ a + x < a + n
    BY <1>4
  <2>3. QED
    BY <2>1, <2>2
<1>6. \A j, m \in DOMAIN runs : j < m => e[j].logical + e[j].len <= e[m].logical
  BY <1>1, <1>2, ExtentsAscend
<1>7. ASSUME NEW j \in DOMAIN runs, l \in e[j].logical .. e[j].logical + e[j].len - 1 PROVE j = i
  <2>1. PICK b \in Nat, c \in Nat \ {0} : b = e[j].logical /\ c = e[j].len
    BY <1>3
  <2>2. b <= l /\ l < b + c
    BY <1>7, <2>1, SMTT(30)
  <2>3. ~(j < i)
    <3>1. SUFFICES ASSUME j < i PROVE FALSE
      OBVIOUS
    <3>2. b + c <= a
      BY <1>4, <1>6, <2>1, <3>1
    <3>3. l < a
      BY <1>4, <2>1, <2>2, <3>2, SMTT(30)
    <3>4. a <= l
      BY <1>4, <1>5
    <3>5. QED
      BY <1>4, <1>5, <3>3, <3>4
  <2>4. ~(i < j)
    <3>1. l < a + n
      BY <1>5
    <3>2. ~(a + n <= b)
      BY <2>2, <3>1
    <3>3. QED
      BY <1>4, <1>6, <2>1, <3>2
  <2>5. QED
    BY <2>3, <2>4
<1>8. l \in e[i].logical .. e[i].logical + e[i].len - 1
  <2>1. l \in a .. a + n - 1
    BY <1>4, <1>5
  <2>2. QED
    BY <1>4, <2>1
<1>9. PICK hits : hits = {j \in DOMAIN e : l \in e[j].logical .. e[j].logical + e[j].len - 1}
  OBVIOUS
<1>10. hits = {i}
  BY <1>2, <1>7, <1>8, <1>9
<1>11. {k \in hits : \A m \in hits : k <= m} = {i}
  <2>1. i <= i
    OBVIOUS
  <2>2. QED
    BY <1>10, <2>1
<1>12. file_block(inode, l) = {e[j].start + (l - e[j].logical) : j \in {k \in hits : \A m \in hits : k <= m}}
  BY <1>1, <1>9 DEF file_block
<1>13. file_block(inode, l) = {e[j].start + (l - e[j].logical) : j \in {i}}
  BY <1>11, <1>12
<1>14. file_block(inode, l) = {e[i].start + (l - e[i].logical)}
  BY <1>13
<1>15. e[i].start + (l - e[i].logical) = runs[i].start + x
  <2>1. PICK s \in Nat : s = e[i].start /\ s = runs[i].start
    BY <1>2, <1>3
  <2>2. s + (l - a) = s + x
    BY <1>4, <1>5, <2>1
  <2>3. QED
    BY <1>4, <2>1, <2>2
<1>16. QED
  <2>1. e[i].start + (l - e[i].logical) = w
    BY <1>15
  <2>2. file_block(inode, l) = {w}
    BY <1>14, <2>1
  <2>3. QED
    BY <1>5, <2>2

\* A block of a segment leads to the block placed for it.
SegmentsLead(inode, blocks, segs) ==
  \A k \in DOMAIN segs : \A x \in 0 .. segs[k].len - 1 :
    file_block(inode, segs[k].offset + x) = {Nth(blocks, Before(segs, k) + x + 1)}

LEMMA SegmentFound ==
  ASSUME NEW runs \in Seq(Run), Ascend(runs), NEW segs, SegsOK(segs), SegsFit(segs), Follows(runs, segs),
         NEW inode, inode.extents = Extents(runs, segs)
  PROVE  SegmentsLead(inode, Given(runs), segs)
<1>1. ASSUME NEW k \in DOMAIN segs, NEW x \in 0 .. segs[k].len - 1
      PROVE  file_block(inode, segs[k].offset + x) = {Nth(Given(runs), Before(segs, k) + x + 1)}
  <2>1. /\ Len(segs) \in Nat /\ DOMAIN segs = 1 .. Len(segs)
        /\ \A j \in DOMAIN segs : segs[j].len \in Nat /\ segs[j].offset \in Nat
    BY DEF SegsOK
  <2>2. Before(segs, k) + x \in 0 .. Lengths(segs) - 1
    BY <2>1, ItemsInOrder
  <2>3. Lengths(segs) = Lengths(runs)
    BY DEF Follows
  <2>4. PICK i \in DOMAIN runs : \E q \in 0 .. runs[i].len - 1 : Before(segs, k) + x = Before(runs, i) + q
    BY <2>2, <2>3, LogicalBlocks
  <2>5. PICK q \in 0 .. runs[i].len - 1 : Before(segs, k) + x = Before(runs, i) + q
    BY <2>4
  <2>6. PICK m \in DOMAIN segs : \E r \in Nat :
          /\ Before(runs, i) = Before(segs, m) + r /\ r + runs[i].len <= segs[m].len
          /\ Extents(runs, segs)[i].logical = segs[m].offset + r
    BY ExtentIs
  <2>7. PICK r \in Nat :
          /\ Before(runs, i) = Before(segs, m) + r /\ r + runs[i].len <= segs[m].len
          /\ Extents(runs, segs)[i].logical = segs[m].offset + r
    BY <2>6
  <2>8. PICK s \in Nat, c \in Nat, o \in Nat : s = Before(segs, m) /\ c = segs[m].len /\ o = segs[m].offset
    <3>1. \A j \in 1 .. Len(segs) : segs[j].len \in Nat
      BY <2>1
    <3>2. \A j \in 1 .. Len(segs) + 1 : Before(segs, j) \in Nat
      BY <2>1, <3>1, BeforeGrows
    <3>3. QED
      BY <2>1, <3>2
  <2>9. PICK d \in Nat : d = runs[i].len
    <3>1. runs[i] \in Run
      OBVIOUS
    <3>2. QED
      BY <3>1 DEF Run
  <2>10. PICK y \in Nat : y = r + q /\ y \in 0 .. c - 1
    <3>1. r + d <= c
      BY <2>7, <2>8, <2>9
    <3>2. q \in 0 .. d - 1
      BY <2>5, <2>9
    <3>3. r + q \in Nat /\ r + q < c
      <4>1. PICK z \in Nat : z = q /\ z < d
        BY <2>9, <3>2
      <4>2. QED
        BY <2>7, <2>8, <2>9, <3>1, <4>1, SMTT(30)
    <3>4. QED
      BY <2>8, <3>3
  <2>11. Before(segs, k) + x = s + y
    BY <2>5, <2>7, <2>8, <2>10
  <2>12. k = m /\ x = y
    <3>1. y \in 0 .. segs[m].len - 1 /\ Before(segs, k) + x = Before(segs, m) + y
      BY <2>8, <2>10, <2>11
    <3>2. QED
      BY <3>1, OneSegment
  <2>13. segs[k].offset + x = Extents(runs, segs)[i].logical + q
    <3>1. PICK z \in Nat : z = q
      BY <2>5, <2>9
    <3>2. (o + r) + z = o + y
      BY <2>7, <2>8, <2>10, <3>1
    <3>3. QED
      BY <2>7, <2>8, <2>12, <3>1, <3>2
  <2>14. file_block(inode, segs[k].offset + x) = {runs[i].start + q}
    <3>1. ExtentsLead(inode, runs, Extents(runs, segs))
      BY ExtentFound
    <3>2. q \in Nat /\ q < runs[i].len
      BY <2>5, <2>9
    <3>3. file_block(inode, Extents(runs, segs)[i].logical + q) = {runs[i].start + q}
      BY <3>1, <3>2 DEF ExtentsLead
    <3>4. QED
      BY <2>13, <3>3
  <2>15. Nth(Given(runs), Before(runs, i) + q + 1) = runs[i].start + q
    BY <2>5, NthOfRuns
  <2>16. QED
    <3>1. Before(segs, k) + x + 1 = Before(runs, i) + q + 1
      BY <2>5
    <3>2. QED
      BY <2>14, <2>15, <3>1
<1>2. QED
  BY <1>1, Zenon DEF SegmentsLead

\* A block of a hole leads nowhere.
LEMMA HoleIsEmpty ==
  ASSUME NEW runs \in Seq(Run), NEW segs, SegsOK(segs), SegsFit(segs), Follows(runs, segs),
         NEW inode, inode.extents = Extents(runs, segs), NEW l \in Nat, ~InSegment(segs, l)
  PROVE  file_block(inode, l) = {}
<1>1. PICK e : e = Extents(runs, segs)
  OBVIOUS
<1>2. DOMAIN e = DOMAIN runs
  BY <1>1 DEF Extents
<1>3. ASSUME NEW i \in DOMAIN runs, l \in e[i].logical .. e[i].logical + e[i].len - 1 PROVE FALSE
  <2>1. PICK k \in DOMAIN segs : \E r \in Nat :
          r + runs[i].len <= segs[k].len /\ e[i].logical = segs[k].offset + r /\ e[i].len = runs[i].len
    BY <1>1, ExtentIs
  <2>2. PICK r \in Nat :
          r + runs[i].len <= segs[k].len /\ e[i].logical = segs[k].offset + r /\ e[i].len = runs[i].len
    BY <2>1
  <2>3. PICK o \in Nat, c \in Nat : o = segs[k].offset /\ c = segs[k].len
    BY DEF SegsOK
  <2>4. PICK d \in Nat : d = runs[i].len
    <3>1. runs[i] \in Run
      OBVIOUS
    <3>2. QED
      BY <3>1 DEF Run
  <2>5. l \in o .. o + c - 1
    <3>1. r + d <= c
      BY <2>2, <2>3, <2>4
    <3>2. l \in (o + r) .. (o + r) + d - 1
      BY <1>3, <2>2, <2>3, <2>4
    <3>3. QED
      BY <3>1, <3>2
  <2>6. InSegment(segs, l)
    BY <2>3, <2>5 DEF InSegment
  <2>7. QED
    BY <2>6
<1>4. {j \in DOMAIN e : l \in e[j].logical .. e[j].logical + e[j].len - 1} = {}
  BY <1>2, <1>3
<1>5. QED
  BY <1>1, <1>4 DEF file_block
-----------------------------------------------------------------------------
(* What is placed follows the segments it is placed for. *)

\* A block that is to be the first of a run is.
LEMMA FirstsStart ==
  ASSUME NEW S \in SUBSET Nat, IsFiniteSet(S), NEW F, NEW n \in Nat \ {0}, NEW f \in S, f \in F
  PROVE  \E i \in DOMAIN RunsOf(S, F, n) : RunsOf(S, F, n)[i].start = f
<1>1. f \in Starts(S, F, n)
  BY BeginningStarts DEF Begins
<1>2. PICK T : T = Starts(S, F, n)
  OBVIOUS
<1>3. T \in SUBSET S
  BY <1>2 DEF Starts
<1>4. T \in SUBSET Nat /\ IsFiniteSet(T)
  BY <1>3, FS_Subset
<1>5. PICK k \in 1 .. Cardinality(T) : Nth(T, k) = f
  BY <1>1, <1>2, <1>4, NthIsOnto
<1>6. RunsOf(S, F, n) =
        [i \in 1 .. Cardinality(T) |->
           [start |-> Nth(T, i), len |-> Cardinality(Stretch(S, F, n, Nth(T, i)))]]
  BY <1>2, RunsInFull
<1>7. QED
  BY <1>5, <1>6

LEMMA PlaceFollows ==
  ASSUME input \in Inputs, cursor \in Nat, NEW acl, NEW sizes \in Seq(Nat \ {0}), NEW p, p = Place(acl, sizes),
         p.fits, NEW segs, Len(segs) = Len(sizes), DOMAIN segs = DOMAIN sizes,
         \A k \in DOMAIN segs : segs[k].len = sizes[k]
  PROVE  Follows(p.runs, segs)
<1>1. PICK free : free = FreeFrom(cursor, AllReserved)
  OBVIOUS
<1>2. PICK front : front = Lowest(IF acl THEN 1 ELSE 0, free)
  OBVIOUS
<1>3. PICK rest : rest = free \ front
  OBVIOUS
<1>4. PICK n \in Nat : n = Total(sizes)
  BY TotalType
<1>5. PICK body : body = Lowest(n, rest)
  OBVIOUS
<1>6. PICK firsts : firsts = {Nth(body, 1 + SumOf(sizes, 1 .. k - 1)) : k \in DOMAIN sizes}
  OBVIOUS
<1>7. PICK room : room = Cardinality(free) - Cardinality(front)
  OBVIOUS
<1>8. PICK runs : runs = IF n <= room THEN RunsOf(body, firsts, MaxExtent) ELSE <<>>
  OBVIOUS
<1>9. p.runs = runs /\ n + TreeBlocks(Len(runs)) <= room
  BY <1>1, <1>2, <1>3, <1>4, <1>5, <1>6, <1>7, <1>8 DEF Place
<1>10. free \in SUBSET Nat /\ IsFiniteSet(free)
  BY <1>1, FreeType
<1>11. front \in SUBSET free
  BY <1>2, LowestIsPart, Zenon
<1>12. rest \in SUBSET Nat /\ IsFiniteSet(rest) /\ Cardinality(rest) = room /\ room \in Nat
  <2>1. IsFiniteSet(rest) /\ Cardinality(rest) = Cardinality(free) - Cardinality(free \cap front)
    BY <1>3, <1>10, FS_Difference
  <2>2. free \cap front = front
    BY <1>11
  <2>3. Cardinality(rest) = room
    BY <1>7, <2>1, <2>2
  <2>4. QED
    BY <1>3, <1>10, <2>1, <2>3, FS_CardinalityType
<1>13. n <= room
  <2>1. CASE ~(n <= room)
    <3>1. runs = <<>>
      BY <1>8, <2>1
    <3>2. TreeBlocks(Len(runs)) = 0
      <4>1. InlineExtents \in Nat
        BY SealAssumption
      <4>2. Len(runs) = 0
        BY <3>1
      <4>3. Leaves(0) = 0 /\ IndexBlocks(0) = 0
        BY <4>1 DEF Leaves, IndexBlocks
      <4>4. QED
        BY <4>2, <4>3 DEF TreeBlocks
    <3>3. QED
      BY <1>9, <1>12, <2>1, <3>2
  <2>2. QED
    BY <2>1
<1>14. body \in SUBSET Nat /\ IsFiniteSet(body) /\ Cardinality(body) = n
  <2>1. body \in SUBSET rest
    BY <1>5, LowestIsPart, Zenon
  <2>2. QED
    BY <1>5, <1>12, <1>13, <2>1, LowestSize
<1>15. runs = RunsOf(body, firsts, MaxExtent) /\ MaxExtent \in Nat \ {0}
  BY <1>8, <1>13, Parameters
<1>16. Tiles(runs, body)
  BY <1>14, <1>15, RunsTile
<1>17. runs \in Seq(Run) /\ Ascend(runs) /\ Given(runs) = body
  <2>1. Given(runs) = body
    BY <1>16, TilesGive, Zenon
  <2>2. QED
    BY <1>16, <2>1 DEF Tiles, Ascend
<1>18. Lengths(runs) = n
  BY <1>14, <1>17, AscendingTile, SMTT(30)
<1>19. PICK m \in Nat : m = Len(segs) /\ DOMAIN segs = 1 .. m /\ DOMAIN sizes = 1 .. m
  <2>1. Len(sizes) \in Nat /\ DOMAIN sizes = 1 .. Len(sizes)
    OBVIOUS
  <2>2. QED
    BY <2>1, Zenon
<1>20. \A k \in 1 .. m : segs[k].len = sizes[k] /\ sizes[k] \in Nat \ {0}
  BY <1>19
<1>21. /\ \A k \in 1 .. m + 1 : Before(segs, k) \in Nat
       /\ \A k \in 1 .. m : Before(segs, k + 1) = Before(segs, k) + segs[k].len
       /\ \A k, j \in 1 .. m + 1 : k <= j => Before(segs, k) <= Before(segs, j)
  <2>1. \A k \in 1 .. m : segs[k].len \in Nat
    BY <1>20
  <2>2. QED
    BY <1>19, <2>1, BeforeGrows
<1>22. \A k \in 1 .. m + 1 : SumOf(sizes, 1 .. k - 1) = Before(segs, k)
  <2>1. SUFFICES ASSUME NEW k \in 1 .. m + 1 PROVE SumOf(sizes, 1 .. k - 1) = Before(segs, k)
    OBVIOUS
  <2>2. PICK S : S = 1 .. k - 1
    OBVIOUS
  <2>3. \A j \in S : sizes[j] = LensOf(segs)[j]
    <3>1. S \in SUBSET (1 .. m)
      BY <2>2
    <3>2. \A j \in 1 .. m : LensOf(segs)[j] = segs[j].len
      BY <1>19 DEF LensOf
    <3>3. QED
      BY <1>20, <3>1, <3>2
  <2>4. Units(sizes, S) = Units(LensOf(segs), S)
    BY <2>3, UnitsAgree
  <2>5. Before(segs, k) = Cardinality(Units(LensOf(segs), S))
    BY <2>2, BeforeIsUnits
  <2>6. SumOf(sizes, S) = Cardinality(Units(sizes, S))
    BY DEF SumOf, Units
  <2>7. QED
    BY <2>2, <2>4, <2>5, <2>6
<1>23. n = Lengths(segs) /\ n = Before(segs, m + 1)
  <2>1. PICK e : e = m + 1
    OBVIOUS
  <2>2. e - 1 = m /\ e \in 1 .. m + 1
    BY <2>1
  <2>3. SumOf(sizes, 1 .. m) = Before(segs, e)
    BY <1>22, <2>2
  <2>4. n = SumOf(sizes, 1 .. m)
    BY <1>4, <1>19 DEF Total
  <2>5. QED
    BY <1>19, <2>1, <2>3, <2>4 DEF Lengths
<1>24. ASSUME NEW k \in DOMAIN segs PROVE \E i \in DOMAIN runs : Before(runs, i) = Before(segs, k)
  <2>1. k \in 1 .. m /\ k \in 1 .. m + 1 /\ k + 1 \in 1 .. m + 1 /\ m + 1 \in 1 .. m + 1
    BY <1>19
  <2>2. PICK b \in Nat, l \in Nat \ {0} : b = Before(segs, k) /\ l = segs[k].len
    BY <1>20, <1>21, <2>1
  <2>3. b + l <= n
    BY <1>21, <1>23, <2>1, <2>2
  <2>4. PICK q \in 1 .. n : q = 1 + b
    BY <2>3
  <2>5. q \in 1 .. Cardinality(body)
    BY <1>14, <2>4
  <2>6. PICK f : f = Nth(body, q)
    OBVIOUS
  <2>7. f \in body /\ Rank(body, f) = q - 1
    BY <1>14, <2>5, <2>6, NthMember
  <2>8. f \in firsts
    <3>1. q = 1 + SumOf(sizes, 1 .. k - 1)
      BY <1>22, <2>1, <2>2, <2>4
    <3>2. QED
      BY <1>6, <1>19, <2>1, <2>6, <3>1
  <2>9. PICK i \in DOMAIN runs : runs[i].start = f
    BY <1>14, <1>15, <2>7, <2>8, FirstsStart
  <2>10. Rank(body, runs[i].start) = Before(runs, i)
    BY <1>17, RankOfRun
  <2>11. QED
    BY <2>2, <2>4, <2>7, <2>9, <2>10
<1>25. Follows(runs, segs)
  BY <1>18, <1>23, <1>24 DEF Follows
<1>26. QED
  BY <1>9, <1>25
-----------------------------------------------------------------------------
(* The segments of each inode. *)

Whole(n) == <<[offset |-> 0, len |-> n]>>

LEMMA SegsAre ==
  ASSUME input \in Inputs
  PROVE  /\ SegsOf(-1) = Whole(input.journal) /\ SegsOf(0) = Whole(LostFoundBlocks)
         /\ \A s \in Slots : SegsOf(s) =
              IF input.inodes[s].kind = "file"
              THEN [k \in DOMAIN input.inodes[s].data |->
                      [offset |-> input.inodes[s].offset[k], len |-> DataBlocks(input.inodes[s])[k]]]
              ELSE Whole(input.inodes[s].content)
<1>1. SegsOf(-1) = Whole(input.journal)
  <2>1. PICK w : w = Whole(input.journal)
    OBVIOUS
  <2>2. w = <<[offset |-> 0, len |-> input.journal]>>
    BY <2>1 DEF Whole
  <2>3. SegsOf(-1) = <<[offset |-> 0, len |-> input.journal]>>
    <3>1. PICK s : s = -1
      OBVIOUS
    <3>2. s \notin Slots /\ s # 0
      BY <3>1, SlotsType
    <3>3. SegsOf(s) = <<[offset |-> 0, len |-> input.journal]>>
      BY <3>1, <3>2, Zenon DEF SegsOf
    <3>4. QED
      BY <3>1, <3>3
  <2>4. QED
    BY <2>1, <2>2, <2>3
<1>2. SegsOf(0) = Whole(LostFoundBlocks)
  <2>1. PICK w : w = Whole(LostFoundBlocks)
    OBVIOUS
  <2>2. w = <<[offset |-> 0, len |-> LostFoundBlocks]>>
    BY <2>1 DEF Whole
  <2>4. SegsOf(0) = <<[offset |-> 0, len |-> LostFoundBlocks]>>
    <3>1. PICK s : s = 0
      OBVIOUS
    <3>2. s \notin Slots /\ s # -1
      BY <3>1, SlotsType
    <3>3. SegsOf(s) = <<[offset |-> 0, len |-> LostFoundBlocks]>>
      BY <3>1, <3>2, Zenon DEF SegsOf
    <3>4. QED
      BY <3>1, <3>3
  <2>5. QED
    BY <2>1, <2>2, <2>4
<1>3. ASSUME NEW s \in Slots
      PROVE  SegsOf(s) =
               IF input.inodes[s].kind = "file"
               THEN [k \in DOMAIN input.inodes[s].data |->
                       [offset |-> input.inodes[s].offset[k], len |-> DataBlocks(input.inodes[s])[k]]]
               ELSE Whole(input.inodes[s].content)
  <2>1. s # -1 /\ s # 0
    BY SlotsType
  <2>2. KindOf(s) = input.inodes[s].kind
    BY <2>1 DEF KindOf
  <2>3. CASE input.inodes[s].kind = "file"
    BY <2>1, <2>2, <2>3 DEF SegsOf
  <2>4. CASE input.inodes[s].kind # "file"
    BY <2>1, <2>2, <2>4 DEF SegsOf, Whole
  <2>5. QED
    BY <2>3, <2>4
<1>4. QED
  BY <1>1, <1>2, <1>3

LEMMA WholeFacts ==
  ASSUME NEW n \in Nat \ {0}
  PROVE  /\ SegsOK(Whole(n)) /\ DOMAIN Whole(n) = {1} /\ Len(Whole(n)) = 1
         /\ Whole(n)[1].offset = 0 /\ Whole(n)[1].len = n
         /\ Before(Whole(n), 1) = 0 /\ Lengths(Whole(n)) = n
<1>1. PICK w : w = Whole(n)
  OBVIOUS
<1>2. DOMAIN w = 1 .. 1 /\ Len(w) = 1 /\ w[1].offset = 0 /\ w[1].len = n
  BY <1>1 DEF Whole
<1>3. SegsOK(w)
  BY <1>2 DEF SegsOK
<1>4. PICK m \in Nat : m = 1
  OBVIOUS
<1>5. \A k \in 1 .. m : w[k].len \in Nat
  BY <1>2, <1>4
<1>6. /\ Before(w, 1) = 0
      /\ \A k \in 1 .. m : Before(w, k + 1) = Before(w, k) + w[k].len
  BY <1>2, <1>4, <1>5, BeforeGrows
<1>7. Before(w, 2) = n
  <2>1. 1 \in 1 .. m /\ 1 + 1 = 2
    BY <1>4
  <2>2. Before(w, 2) = Before(w, 1) + w[1].len
    BY <1>6, <2>1
  <2>3. QED
    BY <1>2, <1>6, <2>2
<1>8. Lengths(w) = n
  BY <1>2, <1>7 DEF Lengths
<1>9. DOMAIN w = {1}
  BY <1>2
<1>10. QED
  BY <1>1, <1>2, <1>3, <1>6, <1>8, <1>9

LEMMA FileFacts ==
  ASSUME input \in Inputs, NEW s \in Slots, input.inodes[s].kind = "file"
  PROVE  /\ SegsOK(SegsOf(s))
         /\ DataBlocks(input.inodes[s]) \in Seq(Nat \ {0})
         /\ Len(SegsOf(s)) = Len(DataBlocks(input.inodes[s]))
         /\ DOMAIN SegsOf(s) = DOMAIN DataBlocks(input.inodes[s])
         /\ \A k \in DOMAIN SegsOf(s) : SegsOf(s)[k].len = DataBlocks(input.inodes[s])[k]
<1>1. PICK d, o : d = input.inodes[s].data /\ o = input.inodes[s].offset
  OBVIOUS
<1>2. d \in Seq(Nat \ {0}) /\ o \in Seq(Nat)
  <2>1. input.inodes[s] \in Inode
    BY SlotsType
  <2>2. QED
    BY <1>1, <2>1 DEF Inode
<1>3. PICK n \in Nat : n = Len(d) /\ DOMAIN d = 1 .. n
  BY <1>2
<1>4. s \in DOMAIN input.inodes
  BY DEF Slots
<1>5. /\ DOMAIN o = 1 .. n
      /\ \A k, m \in 1 .. n : k < m => o[k] + CeilDiv(d[k], BlockUnits) <= o[m]
  BY <1>1, <1>3, <1>4, SealAssumption
<1>6. PICK c : c = DataBlocks(input.inodes[s])
  OBVIOUS
<1>7. c = [k \in 1 .. n |-> CeilDiv(d[k], BlockUnits)]
  BY <1>1, <1>3, <1>6 DEF DataBlocks
<1>8. \A k \in 1 .. n : c[k] = CeilDiv(d[k], BlockUnits) /\ c[k] \in Nat \ {0} /\ o[k] \in Nat
  <2>1. SUFFICES ASSUME NEW k \in 1 .. n PROVE CeilDiv(d[k], BlockUnits) \in Nat \ {0} /\ o[k] \in Nat
    BY <1>7
  <2>2. PICK x \in Nat \ {0} : x = d[k]
    BY <1>2, <1>3
  <2>3. PICK u \in Nat \ {0} : u = BlockUnits
    BY BlockUnitsAssumption
  <2>4. PICK y \in Nat : y = CeilDiv(x, u)
    BY CeilOf
  <2>5. x <= u * y
    BY <2>4, CeilOf
  <2>6. y # 0
    BY <2>5
  <2>7. o[k] \in Nat
    BY <1>2, <1>5
  <2>8. QED
    BY <2>2, <2>3, <2>4, <2>6, <2>7
<1>9. c \in Seq(Nat \ {0}) /\ Len(c) = n /\ DOMAIN c = 1 .. n
  <2>1. c \in [1 .. n -> Nat \ {0}]
    BY <1>7, <1>8
  <2>2. QED
    BY <2>1
<1>10. PICK g : g = SegsOf(s)
  OBVIOUS
<1>11. g = [k \in 1 .. n |-> [offset |-> o[k], len |-> c[k]]]
  BY <1>1, <1>3, <1>6, <1>10, SegsAre
<1>12. /\ Len(g) = n /\ DOMAIN g = 1 .. n
       /\ \A k \in 1 .. n : g[k].offset = o[k] /\ g[k].len = c[k]
  <2>1. PICK R : R = [offset : Nat, len : Nat \ {0}]
    OBVIOUS
  <2>2. \A k \in 1 .. n : [offset |-> o[k], len |-> c[k]] \in R
    BY <1>8, <2>1
  <2>3. g \in [1 .. n -> R]
    BY <1>11, <2>2
  <2>4. Len(g) = n /\ DOMAIN g = 1 .. n
    BY <2>3
  <2>5. QED
    BY <1>11, <2>4
<1>13. \A k, m \in 1 .. n : k < m => g[k].offset + g[k].len <= g[m].offset
  BY <1>5, <1>8, <1>12
<1>14. SegsOK(g)
  BY <1>8, <1>12, <1>13 DEF SegsOK
<1>15. QED
  BY <1>6, <1>9, <1>10, <1>12, <1>14

LEMMA SegsFacts ==
  ASSUME input \in Inputs, NEW s \in Owners
  PROVE  /\ SegsOK(SegsOf(s))
         /\ KindOf(s) = "dir" => \E n \in Nat \ {0} : SegsOf(s) = Whole(n) /\ SizeOf(s) = n * BlockUnits
<1>1. CASE s = -1
  <2>1. SegsOf(s) = Whole(input.journal) /\ input.journal \in Nat \ {0}
    BY <1>1, SegsAre, Parameters
  <2>2. KindOf(s) # "dir"
    BY <1>1 DEF KindOf
  <2>3. QED
    BY <2>1, <2>2, WholeFacts
<1>2. CASE s = 0
  <2>1. SegsOf(s) = Whole(LostFoundBlocks) /\ LostFoundBlocks \in Nat \ {0}
    BY <1>2, SegsAre, Parameters
  <2>2. SizeOf(s) = LostFoundBlocks * BlockUnits
    <3>1. s \notin Slots /\ s # -1
      BY <1>2, SlotsType
    <3>2. QED
      BY <1>2, <3>1, Zenon DEF SizeOf
  <2>3. QED
    BY <2>1, <2>2, WholeFacts
<1>3. CASE s \in Slots /\ input.inodes[s].kind = "file"
  <2>1. s # -1 /\ s # 0
    BY <1>3, SlotsType
  <2>2. KindOf(s) # "dir"
    BY <1>3, <2>1 DEF KindOf
  <2>3. QED
    BY <1>3, <2>2, FileFacts
<1>4. CASE s \in Slots /\ input.inodes[s].kind # "file"
  <2>1. s # -1 /\ s # 0 /\ input.inodes[s] \in Inode
    BY <1>4, SlotsType
  <2>2. KindOf(s) = input.inodes[s].kind
    BY <2>1 DEF KindOf
  <2>3. PICK n \in Nat \ {0} : n = input.inodes[s].content
    <3>1. s \in DOMAIN input.inodes
      BY <1>4 DEF Slots
    <3>2. input.inodes[s].content > 0
      BY <1>4, <3>1, SealAssumption
    <3>3. input.inodes[s].content \in Nat
      BY <2>1 DEF Inode
    <3>4. QED
      BY <3>2, <3>3
  <2>4. SegsOf(s) = Whole(n)
    BY <1>4, <2>3, SegsAre
  <2>5. KindOf(s) = "dir" => SizeOf(s) = n * BlockUnits
    BY <1>4, <2>1, <2>3 DEF SizeOf
  <2>6. QED
    BY <2>4, <2>5, WholeFacts
<1>5. QED
  BY <1>1, <1>2, <1>3, <1>4 DEF Owners
-----------------------------------------------------------------------------
(* The invariant of the plans: what an inode has been given follows its     *)
(* segments.                                                                *)

\* The inodes whose content, or data, is placed.
NextContent ==
  IF pc = "metadata" THEN slot
  ELSE IF pc \in {"data", "sealed", "written", "torn"} THEN Len(input.inodes) + 1 ELSE 1
NextData ==
  IF pc = "data" THEN slot
  ELSE IF pc \in {"sealed", "written", "torn"} THEN Len(input.inodes) + 1 ELSE 1
Served(s) ==
  IF s = -1 THEN pc \notin Early \cup {"journal"}
  ELSE IF s = 0 THEN pc \notin Early \cup {"journal", "lost_found"}
  ELSE IF input.inodes[s].kind = "file" THEN s < NextData ELSE s < NextContent

RunsFollow ==
  \A s \in Owners :
    /\ Served(s) => Follows(plans[s].runs, SegsOf(s))
    /\ ~Served(s) => plans[s].runs = <<>>
RunInv ==
  pc # "refused" =>
    /\ RunsFollow
    /\ pc \in {"metadata", "data"} => slot # 0

LEMMA SameSegs ==
  ASSUME input' = input
  PROVE  \A s : SegsOf(s)' = SegsOf(s)
<1>1. Slots' = Slots
  BY DEF Slots
<1>2. \A s : KindOf(s)' = KindOf(s)
  BY DEF KindOf
<1>3. QED
  BY <1>1, <1>2 DEF SegsOf

\* A step that places nothing.
LEMMA NothingServed ==
  ASSUME RunsFollow, input' = input, plans' = plans, \A s \in Owners : (Served(s)' <=> Served(s))
  PROVE  RunsFollow'
<1>1. Owners' = Owners
  BY DEF Owners, Slots
<1>2. \A s : SegsOf(s)' = SegsOf(s)
  BY SameSegs
<1>3. ASSUME NEW s \in Owners'
      PROVE  /\ Served(s)' => Follows(plans'[s].runs, SegsOf(s)')
             /\ ~Served(s)' => plans'[s].runs = <<>>
  <2>1. s \in Owners /\ (Served(s)' <=> Served(s)) /\ SegsOf(s)' = SegsOf(s)
    BY <1>1, <1>2, <1>3
  <2>2. /\ Served(s) => Follows(plans[s].runs, SegsOf(s))
        /\ ~Served(s) => plans[s].runs = <<>>
    BY <2>1 DEF RunsFollow
  <2>3. QED
    BY <2>1, <2>2
<1>4. QED
  BY <1>3 DEF RunsFollow

LEMMA NothingPlaced ==
  ASSUME input \in Inputs, cursor \in Nat, NEW acl, NEW sizes, sizes = <<>>,
         NEW p, p = Place(acl, sizes), p.fits
  PROVE  p.runs = <<>>
<1>1. sizes \in Seq(Nat) /\ Total(sizes) = 0
  BY TotalOfNone
<1>2. PICK runs : runs = p.runs
  OBVIOUS
<1>3. runs \in Seq(Run) /\ Ascend(runs) /\ Cardinality(Given(runs)) = 0
  BY <1>1, <1>2, PlaceFacts, PlacedInFull
<1>4. Given(runs) = {}
  <2>1. IsFiniteSet(Given(runs))
    BY <1>3, AscendingTile
  <2>2. QED
    BY <1>3, <2>1, FS_EmptySet
<1>5. ASSUME NEW i \in DOMAIN runs PROVE FALSE
  <2>1. runs[i] \in Run
    BY <1>3
  <2>2. PICK a \in Nat, n \in Nat \ {0} : a = runs[i].start /\ n = runs[i].len
    BY <2>1 DEF Run
  <2>3. a \in BlocksOf(runs[i])
    BY <2>2 DEF BlocksOf, RunEnd
  <2>4. a \in Given(runs)
    BY <2>3 DEF Given
  <2>5. QED
    BY <1>4, <2>4
<1>6. runs = <<>>
  <2>1. PICK n \in Nat : n = Len(runs) /\ DOMAIN runs = 1 .. n
    BY <1>3
  <2>2. n = 0
    <3>1. SUFFICES ASSUME n # 0 PROVE FALSE
      OBVIOUS
    <3>2. 1 \in DOMAIN runs
      BY <2>1, <3>1
    <3>3. QED
      BY <1>5, <3>2
  <2>3. QED
    BY <1>3, <2>1, <2>2
<1>7. QED
  BY <1>2, <1>6

\* A step that places something for an inode: what its segments need, or
\* nothing.
LEMMA OneServed ==
  ASSUME RunsFollow, input \in Inputs, cursor \in Nat, input' = input, DOMAIN plans = Owners,
         NEW acl, NEW sizes \in Seq(Nat \ {0}), NEW p, p = Place(acl, sizes), p.fits,
         NEW o \in Owners, plans' = [plans EXCEPT ![o] = Planned(@, p)], plans[o].runs \in Seq(Run),
         \A s \in Owners : s # o => (Served(s)' <=> Served(s)),
         \/ /\ ~Served(o) /\ Served(o)'
            /\ Len(SegsOf(o)) = Len(sizes) /\ DOMAIN SegsOf(o) = DOMAIN sizes
            /\ \A k \in DOMAIN SegsOf(o) : SegsOf(o)[k].len = sizes[k]
         \/ sizes = <<>> /\ (Served(o)' <=> Served(o))
  PROVE  RunsFollow'
<1>1. Owners' = Owners
  BY DEF Owners, Slots
<1>2. \A s : SegsOf(s)' = SegsOf(s)
  BY SameSegs
<1>3. p.runs \in Seq(Run)
  BY PlaceFacts
<1>4. plans'[o].runs = plans[o].runs \o p.runs
  <2>1. plans'[o] = Planned(plans[o], p)
    OBVIOUS
  <2>2. Planned(plans[o], p).runs = plans[o].runs \o p.runs
    BY DEF Planned
  <2>3. QED
    BY <2>1, <2>2
<1>5. /\ Served(o)' => Follows(plans'[o].runs, SegsOf(o))
      /\ ~Served(o)' => plans'[o].runs = <<>>
  <2>1. CASE /\ ~Served(o) /\ Served(o)'
             /\ Len(SegsOf(o)) = Len(sizes) /\ DOMAIN SegsOf(o) = DOMAIN sizes
             /\ \A k \in DOMAIN SegsOf(o) : SegsOf(o)[k].len = sizes[k]
    <3>1. plans[o].runs = <<>>
      BY <2>1 DEF RunsFollow
    <3>2. plans'[o].runs = p.runs
      BY <1>3, <1>4, <3>1
    <3>3. Follows(p.runs, SegsOf(o))
      BY <2>1, PlaceFollows
    <3>4. QED
      BY <2>1, <3>2, <3>3
  <2>2. CASE sizes = <<>> /\ (Served(o)' <=> Served(o))
    <3>1. p.runs = <<>>
      BY <2>2, NothingPlaced
    <3>2. plans'[o].runs = plans[o].runs
      BY <1>4, <3>1
    <3>3. QED
      BY <2>2, <3>2 DEF RunsFollow
  <2>3. QED
    BY <2>1, <2>2
<1>6. ASSUME NEW s \in Owners'
      PROVE  /\ Served(s)' => Follows(plans'[s].runs, SegsOf(s)')
             /\ ~Served(s)' => plans'[s].runs = <<>>
  <2>1. s \in Owners /\ SegsOf(s)' = SegsOf(s)
    BY <1>1, <1>2, <1>6
  <2>2. CASE s = o
    BY <1>5, <2>1, <2>2
  <2>3. CASE s # o
    <3>1. plans'[s] = plans[s] /\ (Served(s)' <=> Served(s))
      BY <2>1, <2>3
    <3>2. /\ Served(s) => Follows(plans[s].runs, SegsOf(s))
          /\ ~Served(s) => plans[s].runs = <<>>
      BY <2>1 DEF RunsFollow
    <3>3. QED
      BY <2>1, <3>1, <3>2
  <2>4. QED
    BY <2>2, <2>3
<1>7. QED
  BY <1>6 DEF RunsFollow

LEMMA ServedFiles ==
  ASSUME input \in Inputs, NEW s \in Slots
  PROVE  /\ s \in Nat \ {0} /\ s <= Len(input.inodes) /\ Len(input.inodes) \in Nat /\ s \in Owners
         /\ Served(s) <=> IF input.inodes[s].kind = "file" THEN s < NextData ELSE s < NextContent
<1>1. s \in 1 .. Len(input.inodes) /\ Len(input.inodes) \in Nat
  BY SlotsType
<1>2. QED
  BY <1>1 DEF Served, Owners

LEMMA RunsAtFirst ==
  ASSUME Init
  PROVE  RunInv
<1>1. input \in Inputs /\ pc = "geometry" /\ plans = [s \in Slots \cup {0, -1} |-> NoPlan]
  BY DEF Init
<1>2. \A s \in Owners : plans[s].runs = <<>>
  BY <1>1 DEF Owners, NoPlan
<1>3. ASSUME NEW s \in Owners PROVE ~Served(s)
  <2>1. CASE s \in Slots
    BY <1>1, <2>1, ServedFiles DEF NextData, NextContent
  <2>2. CASE s \in {0, -1}
    BY <1>1, <2>2 DEF Served, Early
  <2>3. QED
    BY <2>1, <2>2 DEF Owners
<1>4. QED
  BY <1>1, <1>2, <1>3 DEF RunInv, RunsFollow

LEMMA JournalKeepsRuns ==
  ASSUME IInv, PlanInv, RunInv, PlaceJournal
  PROVE  RunInv'
<1>1. PICK sizes : sizes = <<input.journal>>
  OBVIOUS
<1>2. PICK acl : acl = FALSE
  OBVIOUS
<1>3. PICK p : p = Place(FALSE, <<input.journal>>)
  OBVIOUS
<1>4. PICK o : o = -1
  OBVIOUS
<1>5. /\ input \in Inputs /\ cursor \in Nat /\ pc = "journal" /\ pc' = "lost_found" /\ input' = input
      /\ p.fits /\ plans' = [plans EXCEPT ![o] = Planned(@, p)]
  BY <1>3, <1>4 DEF IInv, PlaceJournal
<1>6. p = Place(acl, sizes)
  BY <1>1, <1>2, <1>3
<1>7. input.journal \in Nat \ {0}
  BY <1>5, Parameters
<1>8. sizes \in Seq(Nat \ {0}) /\ Len(sizes) = 1 /\ DOMAIN sizes = {1} /\ sizes[1] = input.journal
  BY <1>1, <1>7
<1>9. /\ Len(SegsOf(o)) = Len(sizes) /\ DOMAIN SegsOf(o) = DOMAIN sizes
      /\ \A k \in DOMAIN SegsOf(o) : SegsOf(o)[k].len = sizes[k]
  <2>1. SegsOf(o) = Whole(input.journal)
    BY <1>4, <1>5, SegsAre
  <2>2. QED
    BY <1>7, <1>8, <2>1, WholeFacts
<1>10. ~Served(o) /\ Served(o)'
  BY <1>4, <1>5 DEF Served, Early
<1>11. ASSUME NEW s \in Owners, s # o PROVE (Served(s)' <=> Served(s))
  <2>1. CASE s \in Slots
    <3>1. NextData' = NextData /\ NextContent' = NextContent
      BY <1>5 DEF NextData, NextContent
    <3>2. QED
      BY <1>4, <1>5, <1>11, <3>1 DEF Served, Early
  <2>2. CASE s = 0
    BY <1>5, <2>2 DEF Served, Early
  <2>3. QED
    BY <1>4, <1>11, <2>1, <2>2 DEF Owners
<1>12. o \in Owners /\ DOMAIN plans = Owners /\ plans[o].runs \in Seq(Run) /\ RunsFollow
  <2>1. o \in Owners
    BY <1>4 DEF Owners
  <2>2. DOMAIN plans = Owners /\ plans[o] = NoPlan
    BY <1>5, <2>1 DEF PlanInv
  <2>3. plans[o].runs \in Seq(Run)
    BY <2>2 DEF NoPlan
  <2>4. QED
    BY <1>5, <2>1, <2>2, <2>3 DEF RunInv
<1>13. RunsFollow'
  BY <1>5, <1>6, <1>8, <1>9, <1>10, <1>11, <1>12, OneServed
<1>14. QED
  BY <1>5, <1>13 DEF RunInv

LEMMA LostFoundKeepsRuns ==
  ASSUME IInv, PlanInv, RunInv, PlaceLostFound
  PROVE  RunInv'
<1>1. PICK sizes : sizes = <<LostFoundBlocks>>
  OBVIOUS
<1>2. PICK acl : acl = FALSE
  OBVIOUS
<1>3. PICK p : p = Place(FALSE, <<LostFoundBlocks>>)
  OBVIOUS
<1>4. PICK o : o = 0
  OBVIOUS
<1>5. /\ input \in Inputs /\ cursor \in Nat /\ pc = "lost_found" /\ pc' = "metadata" /\ input' = input
      /\ p.fits /\ plans' = [plans EXCEPT ![o] = Planned(@, p)] /\ slot' = 1
  BY <1>3, <1>4 DEF IInv, PlaceLostFound
<1>6. p = Place(acl, sizes)
  BY <1>1, <1>2, <1>3
<1>7. LostFoundBlocks \in Nat \ {0}
  BY <1>5, Parameters
<1>8. sizes \in Seq(Nat \ {0}) /\ Len(sizes) = 1 /\ DOMAIN sizes = {1} /\ sizes[1] = LostFoundBlocks
  BY <1>1, <1>7
<1>9. /\ Len(SegsOf(o)) = Len(sizes) /\ DOMAIN SegsOf(o) = DOMAIN sizes
      /\ \A k \in DOMAIN SegsOf(o) : SegsOf(o)[k].len = sizes[k]
  <2>1. SegsOf(o) = Whole(LostFoundBlocks)
    BY <1>4, <1>5, SegsAre
  <2>2. QED
    BY <1>7, <1>8, <2>1, WholeFacts
<1>10. ~Served(o) /\ Served(o)'
  BY <1>4, <1>5 DEF Served, Early
<1>11. ASSUME NEW s \in Owners, s # o PROVE (Served(s)' <=> Served(s))
  <2>1. CASE s \in Slots
    <3>1. NextData' = NextData /\ NextContent' = NextContent
      BY <1>5 DEF NextData, NextContent
    <3>2. QED
      BY <1>4, <1>5, <1>11, <3>1 DEF Served, Early
  <2>2. CASE s = -1
    BY <1>5, <2>2 DEF Served, Early
  <2>3. QED
    BY <1>4, <1>11, <2>1, <2>2 DEF Owners
<1>12. o \in Owners /\ DOMAIN plans = Owners /\ plans[o].runs \in Seq(Run) /\ RunsFollow
  <2>1. o \in Owners /\ o # -1
    BY <1>4 DEF Owners
  <2>2. DOMAIN plans = Owners /\ RunsFollow
    BY <1>5 DEF PlanInv, RunInv
  <2>3. plans[o].runs = <<>>
    BY <1>10, <2>1, <2>2 DEF RunsFollow
  <2>4. QED
    BY <2>1, <2>2, <2>3
<1>13. RunsFollow'
  BY <1>5, <1>6, <1>8, <1>9, <1>10, <1>11, <1>12, OneServed
<1>14. slot' # 0
  BY <1>5
<1>15. QED
  BY <1>13, <1>14 DEF RunInv

LEMMA MetadataKeepsRuns ==
  ASSUME IInv, PlanInv, RunInv, PlaceMetadata
  PROVE  RunInv'
<1>1. PICK sizes : sizes = ContentOf(TheInode)
  OBVIOUS
<1>2. PICK acl : acl = TheInode.acl
  OBVIOUS
<1>3. PICK p : p = PlaceOfMetadata
  OBVIOUS
<1>4. PICK o : o = slot
  OBVIOUS
<1>5. /\ input \in Inputs /\ cursor \in Nat /\ pc = "metadata" /\ pc' = "metadata" /\ input' = input
      /\ p.fits /\ plans' = [plans EXCEPT ![o] = Planned(@, p)] /\ slot' = slot + 1 /\ slot \in Slots
  BY <1>3, <1>4 DEF IInv, PlaceMetadata
<1>6. p = Place(acl, sizes)
  BY <1>1, <1>2, <1>3 DEF PlaceOfMetadata
<1>7. /\ o \in Slots /\ o \in Nat \ {0} /\ o <= Len(input.inodes) /\ Len(input.inodes) \in Nat
      /\ o \in Owners /\ o # -1 /\ o # 0
  BY <1>4, <1>5, ServedFiles
<1>8. PICK n \in Nat : /\ n = input.inodes[o].content
                       /\ input.inodes[o].kind = "file" => n = 0
                       /\ input.inodes[o].kind # "file" => n # 0
  <2>1. o \in DOMAIN input.inodes
    BY <1>7 DEF Slots
  <2>2. /\ input.inodes[o].kind = "file" => input.inodes[o].content = 0
        /\ input.inodes[o].kind # "file" => input.inodes[o].content > 0
    BY <1>5, <2>1, SealAssumption
  <2>3. input.inodes[o] \in Inode
    BY <1>5, <1>7, SlotsType
  <2>4. input.inodes[o].content \in Nat
    BY <2>3 DEF Inode
  <2>5. QED
    BY <2>2, <2>4
<1>9. sizes = IF n = 0 THEN <<>> ELSE <<n>>
  BY <1>1, <1>4, <1>8 DEF ContentOf, TheInode
<1>10. sizes \in Seq(Nat \ {0})
  <2>1. CASE n = 0
    BY <1>9, <2>1
  <2>2. CASE n # 0
    BY <1>8, <1>9, <2>2
  <2>3. QED
    BY <2>1, <2>2
<1>11. NextContent = o /\ NextContent' = o + 1 /\ NextData = 1 /\ NextData' = 1
  BY <1>4, <1>5 DEF NextContent, NextData
<1>12. \A s \in Slots : /\ Served(s) <=> (input.inodes[s].kind = "file" /\ s < 1)
                                            \/ (input.inodes[s].kind # "file" /\ s < o)
                        /\ Served(s)' <=> (input.inodes[s].kind = "file" /\ s < 1)
                                             \/ (input.inodes[s].kind # "file" /\ s < o + 1)
  <2>1. \A s \in Slots : s # -1 /\ s # 0
    BY <1>5, ServedFiles
  <2>2. QED
    BY <1>5, <1>11, <2>1 DEF Served
<1>13. ASSUME NEW s \in Owners, s # o PROVE (Served(s)' <=> Served(s))
  <2>1. CASE s \in Slots
    <3>1. s \in Nat \ {0}
      BY <1>5, <2>1, ServedFiles
    <3>2. s < o + 1 <=> s < o
      BY <1>7, <1>13, <3>1
    <3>3. QED
      BY <1>12, <2>1, <3>2
  <2>2. CASE s \in {0, -1}
    BY <1>5, <2>2 DEF Served, Early
  <2>3. QED
    BY <2>1, <2>2 DEF Owners
<1>14. \/ /\ ~Served(o) /\ Served(o)'
          /\ Len(SegsOf(o)) = Len(sizes) /\ DOMAIN SegsOf(o) = DOMAIN sizes
          /\ \A k \in DOMAIN SegsOf(o) : SegsOf(o)[k].len = sizes[k]
       \/ sizes = <<>> /\ (Served(o)' <=> Served(o))
  <2>1. ~(o < 1) /\ ~(o < o) /\ o < o + 1
    BY <1>7
  <2>2. CASE input.inodes[o].kind = "file"
    BY <1>7, <1>8, <1>9, <1>12, <2>1, <2>2
  <2>3. CASE input.inodes[o].kind # "file"
    <3>1. ~Served(o) /\ Served(o)'
      BY <1>7, <1>12, <2>1, <2>3
    <3>2. SegsOf(o) = Whole(n) /\ n \in Nat \ {0}
      BY <1>5, <1>7, <1>8, <2>3, SegsAre
    <3>3. sizes = <<n>>
      BY <1>8, <1>9, <2>3
    <3>4. Len(sizes) = 1 /\ DOMAIN sizes = {1} /\ sizes[1] = n
      BY <3>3
    <3>5. /\ Len(SegsOf(o)) = 1 /\ DOMAIN SegsOf(o) = {1} /\ SegsOf(o)[1].len = n
      BY <3>2, WholeFacts
    <3>6. QED
      BY <3>1, <3>4, <3>5
  <2>4. QED
    BY <2>2, <2>3
<1>15. DOMAIN plans = Owners /\ plans[o].runs \in Seq(Run) /\ RunsFollow
  <2>1. DOMAIN plans = Owners /\ RunsFollow /\ PlansIn(PassedRoom)
    BY <1>5 DEF PlanInv, RunInv, Early
  <2>2. plans[o].runs \in Seq(Run)
    BY <1>7, <2>1 DEF PlansIn, PlanShape
  <2>3. QED
    BY <2>1, <2>2
<1>16. RunsFollow'
  BY <1>5, <1>6, <1>7, <1>10, <1>13, <1>14, <1>15, OneServed
<1>17. slot' # 0
  BY <1>4, <1>5, <1>7
<1>18. QED
  BY <1>16, <1>17 DEF RunInv

LEMMA DataKeepsRuns ==
  ASSUME IInv, PlanInv, RunInv, PlaceData
  PROVE  RunInv'
<1>1. PICK sizes : sizes = DataBlocks(TheInode)
  OBVIOUS
<1>2. PICK acl : acl = FALSE
  OBVIOUS
<1>3. PICK p : p = PlaceOfData
  OBVIOUS
<1>4. PICK o : o = slot
  OBVIOUS
<1>5. /\ input \in Inputs /\ cursor \in Nat /\ pc = "data" /\ pc' = "data" /\ input' = input
      /\ p.fits /\ plans' = [plans EXCEPT ![o] = Planned(@, p)] /\ slot' = slot + 1 /\ slot \in Slots
  BY <1>3, <1>4 DEF IInv, PlaceData
<1>6. p = Place(acl, sizes)
  BY <1>1, <1>2, <1>3 DEF PlaceOfData
<1>7. /\ o \in Slots /\ o \in Nat \ {0} /\ o <= Len(input.inodes) /\ Len(input.inodes) \in Nat
      /\ o \in Owners /\ o # -1 /\ o # 0
  BY <1>4, <1>5, ServedFiles
<1>8. sizes = DataBlocks(input.inodes[o])
  BY <1>1, <1>4 DEF TheInode
<1>9. input.inodes[o].kind # "file" => sizes = <<>>
  <2>1. SUFFICES ASSUME input.inodes[o].kind # "file" PROVE sizes = <<>>
    OBVIOUS
  <2>2. o \in DOMAIN input.inodes
    BY <1>7 DEF Slots
  <2>3. input.inodes[o].data = <<>>
    BY <1>5, <2>1, <2>2, SealAssumption
  <2>4. PICK d : d = input.inodes[o].data
    OBVIOUS
  <2>5. sizes = [k \in DOMAIN d |-> CeilDiv(d[k], BlockUnits)]
    BY <1>8, <2>4 DEF DataBlocks
  <2>6. DOMAIN d = {}
    BY <2>3, <2>4
  <2>7. QED
    BY <2>5, <2>6
<1>10. sizes \in Seq(Nat \ {0})
  <2>1. CASE input.inodes[o].kind = "file"
    BY <1>5, <1>7, <1>8, <2>1, FileFacts
  <2>2. CASE input.inodes[o].kind # "file"
    <3>1. <<>> \in Seq(Nat \ {0})
      OBVIOUS
    <3>2. QED
      BY <1>9, <2>2, <3>1
  <2>3. QED
    BY <2>1, <2>2
<1>11. /\ NextData = o /\ NextData' = o + 1 /\ NextContent = Len(input.inodes) + 1
       /\ NextContent' = Len(input.inodes) + 1
  BY <1>4, <1>5 DEF NextContent, NextData
<1>12. PICK e \in Nat : e = Len(input.inodes) + 1
  BY <1>7
<1>13. \A s \in Slots : /\ Served(s) <=> (input.inodes[s].kind = "file" /\ s < o)
                                            \/ (input.inodes[s].kind # "file" /\ s < e)
                        /\ Served(s)' <=> (input.inodes[s].kind = "file" /\ s < o + 1)
                                             \/ (input.inodes[s].kind # "file" /\ s < e)
  <2>1. \A s \in Slots : s # -1 /\ s # 0
    BY <1>5, ServedFiles
  <2>2. QED
    BY <1>5, <1>11, <1>12, <2>1 DEF Served
<1>14. ASSUME NEW s \in Owners, s # o PROVE (Served(s)' <=> Served(s))
  <2>1. CASE s \in Slots
    <3>1. s \in Nat \ {0}
      BY <1>5, <2>1, ServedFiles
    <3>2. s < o + 1 <=> s < o
      BY <1>7, <1>14, <3>1
    <3>3. QED
      BY <1>13, <2>1, <3>2
  <2>2. CASE s \in {0, -1}
    BY <1>5, <2>2 DEF Served, Early
  <2>3. QED
    BY <2>1, <2>2 DEF Owners
<1>15. \/ /\ ~Served(o) /\ Served(o)'
          /\ Len(SegsOf(o)) = Len(sizes) /\ DOMAIN SegsOf(o) = DOMAIN sizes
          /\ \A k \in DOMAIN SegsOf(o) : SegsOf(o)[k].len = sizes[k]
       \/ sizes = <<>> /\ (Served(o)' <=> Served(o))
  <2>1. ~(o < o) /\ o < o + 1
    BY <1>7
  <2>2. CASE input.inodes[o].kind = "file"
    <3>1. ~Served(o) /\ Served(o)'
      BY <1>7, <1>13, <2>1, <2>2
    <3>2. /\ Len(SegsOf(o)) = Len(sizes) /\ DOMAIN SegsOf(o) = DOMAIN sizes
          /\ \A k \in DOMAIN SegsOf(o) : SegsOf(o)[k].len = sizes[k]
      BY <1>5, <1>7, <1>8, <2>2, FileFacts
    <3>3. QED
      BY <3>1, <3>2
  <2>3. CASE input.inodes[o].kind # "file"
    BY <1>7, <1>9, <1>13, <2>3
  <2>4. QED
    BY <2>2, <2>3
<1>16. DOMAIN plans = Owners /\ plans[o].runs \in Seq(Run) /\ RunsFollow
  <2>1. DOMAIN plans = Owners /\ RunsFollow /\ PlansIn(PassedRoom)
    BY <1>5 DEF PlanInv, RunInv, Early
  <2>2. plans[o].runs \in Seq(Run)
    BY <1>7, <2>1 DEF PlansIn, PlanShape
  <2>3. QED
    BY <2>1, <2>2
<1>17. RunsFollow'
  BY <1>5, <1>6, <1>7, <1>10, <1>14, <1>15, <1>16, OneServed
<1>18. slot' # 0
  BY <1>4, <1>5, <1>7
<1>19. QED
  BY <1>17, <1>18 DEF RunInv
-----------------------------------------------------------------------------
(* The invariant of the plans at each step. *)

\* Steps before anything is placed, and those that end a phase.
LEMMA EarlyStepsKeepRuns ==
  ASSUME IInv, RunInv, CheckGeometry \/ PlaceBitmaps \/ PlaceTable \/ SpansDone
  PROVE  RunInv'
<1>1. /\ input \in Inputs /\ pc \in Early /\ pc' \in Early \cup {"journal"} /\ pc # "refused"
      /\ input' = input /\ plans' = plans
  BY DEF IInv, CheckGeometry, PlaceBitmaps, PlaceTable, SpansDone, Early, outVars
<1>2. /\ NextContent = 1 /\ NextContent' = 1 /\ NextData = 1 /\ NextData' = 1
  BY <1>1 DEF NextContent, NextData, Early
<1>3. ASSUME NEW s \in Owners PROVE Served(s)' <=> Served(s)
  <2>1. CASE s \in Slots
    BY <1>1, <1>2, <2>1, SlotsType DEF Served
  <2>2. CASE s \in {0, -1}
    BY <1>1, <2>2 DEF Served, Early
  <2>3. QED
    BY <2>1, <2>2 DEF Owners
<1>4. RunsFollow
  BY <1>1 DEF RunInv
<1>5. RunsFollow'
  BY <1>1, <1>3, <1>4, NothingServed
<1>6. pc' \notin {"metadata", "data"}
  BY <1>1 DEF Early
<1>7. QED
  BY <1>5, <1>6 DEF RunInv

LEMMA PhaseEndsKeepRuns ==
  ASSUME IInv, RunInv, MetadataDone \/ Sealed
  PROVE  RunInv'
<1>1. /\ input \in Inputs /\ pc # "refused" /\ slot \in Nat /\ slot # 0 /\ slot \notin Slots
      /\ input' = input /\ plans' = plans
      /\ \/ pc = "metadata" /\ pc' = "data" /\ slot' = 1
         \/ pc = "data" /\ pc' = "sealed"
  BY DEF IInv, RunInv, MetadataDone, Sealed, outVars
<1>2. PICK n \in Nat : n = Len(input.inodes) /\ Slots = 1 .. n
  BY <1>1, SlotsType
<1>3. \A s \in Slots : s \in Nat /\ s < slot /\ s < n + 1 /\ ~(s < 1)
  BY <1>1, <1>2
<1>4. PICK e \in Nat : e = n + 1
  OBVIOUS
<1>5. \/ NextContent = slot /\ NextContent' = e /\ NextData = 1 /\ NextData' = 1
      \/ NextContent = e /\ NextContent' = e /\ NextData = slot /\ NextData' = e
  BY <1>1, <1>2, <1>4 DEF NextContent, NextData
<1>6. ASSUME NEW s \in Owners PROVE Served(s)' <=> Served(s)
  <2>1. CASE s \in Slots
    <3>1. s # 0 /\ s # -1 /\ s < slot /\ s < e
      BY <1>1, <1>3, <1>4, <2>1, SlotsType
    <3>2. s < NextContent <=> s < NextContent'
      BY <1>5, <3>1
    <3>3. s < NextData <=> s < NextData'
      BY <1>5, <3>1
    <3>4. QED
      BY <1>1, <3>1, <3>2, <3>3 DEF Served
  <2>2. CASE s \in {0, -1}
    BY <1>1, <2>2 DEF Served, Early
  <2>3. QED
    BY <2>1, <2>2 DEF Owners
<1>7. RunsFollow
  BY <1>1 DEF RunInv
<1>8. RunsFollow'
  BY <1>1, <1>6, <1>7, NothingServed
<1>9. pc' = "data" => slot' # 0
  BY <1>1
<1>10. pc' # "metadata"
  BY <1>1
<1>11. QED
  BY <1>8, <1>9, <1>10 DEF RunInv

LEMMA LastStepsKeepRuns ==
  ASSUME IInv, RunInv, pc \in {"sealed", "written"}, pc' \in {"written", "torn"},
         input' = input, plans' = plans
  PROVE  RunInv'
<1>1. input \in Inputs
  BY DEF IInv
<1>2. NextContent' = NextContent /\ NextData' = NextData
  BY DEF NextContent, NextData
<1>3. ASSUME NEW s \in Owners PROVE Served(s)' <=> Served(s)
  BY <1>2 DEF Served, Early
<1>4. RunsFollow'
  BY <1>3, NothingServed DEF RunInv
<1>5. QED
  BY <1>4 DEF RunInv

LEMMA StutterKeepsRuns ==
  ASSUME RunInv, UNCHANGED vars
  PROVE  RunInv'
<1>1. input' = input /\ plans' = plans /\ pc' = pc /\ slot' = slot
  BY DEF vars, outVars
<1>2. NextContent' = NextContent /\ NextData' = NextData
  BY <1>1 DEF NextContent, NextData
<1>3. ASSUME NEW s \in Owners PROVE Served(s)' <=> Served(s)
  BY <1>1, <1>2 DEF Served
<1>4. CASE pc = "refused"
  BY <1>1, <1>4 DEF RunInv
<1>5. CASE pc # "refused"
  <2>1. RunsFollow'
    BY <1>1, <1>3, <1>5, NothingServed DEF RunInv
  <2>2. QED
    BY <1>1, <1>5, <2>1 DEF RunInv
<1>6. QED
  BY <1>4, <1>5

LEMMA VolumeStepKeepsRuns ==
  ASSUME IInv, PlanInv, RunInv, [VolumeNext]_volumeVars
  PROVE  RunInv'
<1>1. CASE CheckGeometry \/ PlaceBitmaps \/ PlaceTable \/ SpansDone
  BY <1>1, EarlyStepsKeepRuns
<1>2. CASE PlaceJournal
  BY <1>2, JournalKeepsRuns
<1>3. CASE PlaceLostFound
  BY <1>3, LostFoundKeepsRuns
<1>4. CASE PlaceMetadata
  BY <1>4, MetadataKeepsRuns
<1>5. CASE PlaceData
  BY <1>5, DataKeepsRuns
<1>6. CASE MetadataDone \/ Sealed
  BY <1>6, PhaseEndsKeepRuns
<1>7. CASE Write \/ LoseOne \/ Tear
  <2>1. /\ pc \in {"sealed", "written"} /\ pc' \in {"written", "torn"}
        /\ UNCHANGED <<input, span, cursor, inVars, outVars>>
    BY <1>7, Losing DEF Write
  <2>2. input' = input /\ plans' = plans
    BY <2>1 DEF outVars
  <2>3. QED
    BY <2>1, <2>2, LastStepsKeepRuns
<1>8. CASE Refused
  BY <1>8 DEF Refused, RunInv
<1>9. CASE UNCHANGED vars
  BY <1>9, StutterKeepsRuns
<1>10. [Next]_vars \/ Write \/ LoseOne \/ Tear
  BY DEF VolumeNext, volumeVars
<1>11. QED
  BY <1>1, <1>2, <1>3, <1>4, <1>5, <1>6, <1>7, <1>8, <1>9, <1>10 DEF Next

\* In the end every inode has its segments.
LEMMA AllFollow ==
  ASSUME IInv, RunInv, pc \in {"written", "torn"}, NEW s \in Owners
  PROVE  Follows(plans[s].runs, SegsOf(s))
<1>1. input \in Inputs /\ RunsFollow
  BY DEF IInv, RunInv
<1>2. Served(s)
  <2>1. CASE s \in Slots
    <3>1. PICK n \in Nat : n = Len(input.inodes) /\ Slots = 1 .. n
      BY <1>1, SlotsType
    <3>2. PICK e \in Nat : e = n + 1 /\ s < e
      BY <2>1, <3>1
    <3>3. NextContent = e /\ NextData = e
      BY <3>1, <3>2 DEF NextContent, NextData
    <3>4. QED
      BY <1>1, <2>1, <3>2, <3>3, ServedFiles
  <2>2. CASE s \in {0, -1}
    BY <2>2 DEF Served, Early
  <2>3. QED
    BY <2>1, <2>2 DEF Owners
<1>3. QED
  BY <1>1, <1>2 DEF RunsFollow
-----------------------------------------------------------------------------
(* One block holds one thing. *)

LEMMA SuperPiece ==
  ASSUME input \in Inputs, NEW p \in SuperPieces
  PROVE  \E r \in SuperRuns, k \in 0 .. GdtBlocks :
           /\ p.block = r.start + k /\ p.block \in BlocksOf(r) /\ p.block \in SuperBlocks
           /\ k = 0 => p.content = [what |-> "super"]
           /\ k > 0 => p.content = GdtBlock(k - 1)
<1>1. GdtBlocks \in Nat \ {0}
  BY Parameters
<1>2. ASSUME NEW r \in SuperRuns, NEW k \in 0 .. GdtBlocks
      PROVE  r.start + k \in BlocksOf(r) /\ r.start \in Nat /\ r.start + k \in SuperBlocks
  <2>1. PICK g \in Nat : r.start = group_start(g) /\ BlocksOf(r) = group_start(g) .. group_start(g) + GdtBlocks
    BY SuperShape
  <2>2. PICK a \in Nat : a = group_start(g)
    BY StartType
  <2>3. a + k \in a .. a + GdtBlocks
    BY <1>1, <2>2
  <2>4. QED
    BY <2>1, <2>2, <2>3 DEF SuperBlocks
<1>3. CASE p \in {At(r.start, [what |-> "super"]) : r \in SuperRuns}
  <2>1. PICK r \in SuperRuns : p = At(r.start, [what |-> "super"])
    BY <1>3
  <2>2. p.block = r.start /\ p.content = [what |-> "super"]
    BY <2>1 DEF At
  <2>3. PICK k \in 0 .. GdtBlocks : k = 0
    BY <1>1
  <2>4. p.block = r.start + k
    BY <1>2, <2>2, <2>3
  <2>5. QED
    BY <1>2, <2>2, <2>3, <2>4
<1>4. CASE \E k \in 0 .. GdtBlocks - 1 : p \in {At(r.start + 1 + k, GdtBlock(k)) : r \in SuperRuns}
  <2>1. PICK k \in 0 .. GdtBlocks - 1 : p \in {At(r.start + 1 + k, GdtBlock(k)) : r \in SuperRuns}
    BY <1>4
  <2>2. PICK r \in SuperRuns : p = At(r.start + 1 + k, GdtBlock(k))
    BY <2>1
  <2>3. p.block = r.start + 1 + k /\ p.content = GdtBlock(k)
    BY <2>2 DEF At
  <2>4. PICK j \in 0 .. GdtBlocks : j = k + 1 /\ j > 0 /\ j - 1 = k
    BY <1>1
  <2>5. p.block = r.start + j
    <3>1. r.start \in Nat
      BY <1>2, <2>4
    <3>2. QED
      BY <2>3, <2>4, <3>1
  <2>6. p.content = GdtBlock(j - 1)
    BY <2>3, <2>4
  <2>7. QED
    BY <1>2, <2>4, <2>5, <2>6
<1>5. QED
  BY <1>3, <1>4 DEF SuperPieces

TablePart(p, g, k) == p.block = It(g) + k /\ p.block \in Table(g) /\ p.content = TableBlock(g, k)
GroupPart(p, g) ==
  \/ p.block = Bb(g) /\ p.content = Bits(block_bits(g))
  \/ p.block = Ib(g) /\ p.content = Bits(inode_bits(g))
  \/ \E k \in 0 .. used_itable(g) - 1 : TablePart(p, g, k)

LEMMA GroupPiece ==
  ASSUME input \in Inputs, MetaPlaced, NEW p \in GroupPieces
  PROVE  \E g \in Groups : p.block \in Meta(g) /\ GroupPart(p, g)
<1>1. PICK g \in Groups :
        p \in {At(Bb(g), Bits(block_bits(g))), At(Ib(g), Bits(inode_bits(g)))}
                \cup {At(It(g) + k, TableBlock(g, k)) : k \in 0 .. used_itable(g) - 1}
  BY DEF GroupPieces, Groups, Bb, Ib, It
<1>2. CASE p = At(Bb(g), Bits(block_bits(g)))
  <2>1. p.block = Bb(g) /\ p.content = Bits(block_bits(g))
    BY <1>2 DEF At
  <2>2. QED
    BY <2>1 DEF Meta, GroupPart
<1>3. CASE p = At(Ib(g), Bits(inode_bits(g)))
  <2>1. p.block = Ib(g) /\ p.content = Bits(inode_bits(g))
    BY <1>3 DEF At
  <2>2. QED
    BY <2>1 DEF Meta, GroupPart
<1>4. CASE \E k \in 0 .. used_itable(g) - 1 : p = At(It(g) + k, TableBlock(g, k))
  <2>1. PICK k \in 0 .. used_itable(g) - 1 : p = At(It(g) + k, TableBlock(g, k))
    BY <1>4
  <2>2. p.block = It(g) + k /\ p.content = TableBlock(g, k)
    BY <2>1 DEF At
  <2>3. It(g) + k \in Table(g)
    <3>1. used_itable(g) \in Nat /\ used_itable(g) <= input.itable /\ input.itable \in Nat
      <4>1. g \in Nat
        BY GroupsHoldImage DEF Groups
      <4>2. QED
        BY <4>1, UsedTable, Parameters
    <3>2. PICK a \in Nat : a = It(g)
      BY DEF MetaPlaced
    <3>3. QED
      BY <3>1, <3>2 DEF Table
  <2>4. TablePart(p, g, k)
    BY <2>2, <2>3 DEF TablePart
  <2>5. QED
    BY <2>2, <2>3, <2>4 DEF Meta, GroupPart
<1>5. QED
  BY <1>1, <1>2, <1>3, <1>4

RunPart(p, s, i, k) ==
  /\ p.block = plans[s].runs[i].start + k /\ p.block \in BlocksOf(plans[s].runs[i])
  /\ p.content = ContentAt(s, Before(plans[s].runs, i) + k)
OwnerPart(p, s) ==
  \/ p.block \in plans[s].acl /\ p.content = AttributeBlock(p.block)
  \/ p.block \in plans[s].tree /\ p.content = Owned(s, "tree")
  \/ \E i \in DOMAIN plans[s].runs : \E k \in 0 .. plans[s].runs[i].len - 1 : RunPart(p, s, i, k)

LEMMA OwnerPiece ==
  ASSUME PlansPlaced, NEW s \in Owners, NEW p \in OwnerPieces(s)
  PROVE  p.block \in PlanBlocks(plans[s]) /\ OwnerPart(p, s)
<1>1. plans[s].runs \in Seq(Run)
  BY DEF PlansPlaced, PlanShape
<1>2. CASE p \in {At(b, AttributeBlock(b)) : b \in plans[s].acl}
  <2>1. PICK b \in plans[s].acl : p = At(b, AttributeBlock(b))
    BY <1>2
  <2>2. p.block = b /\ p.content = AttributeBlock(b)
    BY <2>1 DEF At
  <2>3. QED
    BY <2>2 DEF PlanBlocks, OwnerPart
<1>3. CASE p \in {At(b, Owned(s, "tree")) : b \in plans[s].tree}
  <2>1. PICK b \in plans[s].tree : p = At(b, Owned(s, "tree"))
    BY <1>3
  <2>2. p.block = b /\ p.content = Owned(s, "tree")
    BY <2>1 DEF At
  <2>3. QED
    BY <2>2 DEF PlanBlocks, OwnerPart
<1>4. CASE \E i \in DOMAIN plans[s].runs : p \in RunPieces(s, i)
  <2>1. PICK i \in DOMAIN plans[s].runs : p \in RunPieces(s, i)
    BY <1>4
  <2>2. PICK e : e = plans[s].runs[i]
    OBVIOUS
  <2>3. PICK k \in 0 .. e.len - 1 : p = At(e.start + k, ContentAt(s, Before(plans[s].runs, i) + k))
    BY <2>1, <2>2 DEF RunPieces
  <2>4. p.block = e.start + k /\ p.content = ContentAt(s, Before(plans[s].runs, i) + k)
    BY <2>3 DEF At
  <2>5. p.block \in BlocksOf(plans[s].runs[i])
    <3>1. plans[s].runs[i] \in Run
      BY <1>1
    <3>2. PICK a \in Nat, n \in Nat \ {0} : a = plans[s].runs[i].start /\ n = plans[s].runs[i].len
      BY <3>1 DEF Run
    <3>3. BlocksOf(plans[s].runs[i]) = a .. (a + n) - 1
      BY <3>2 DEF BlocksOf, RunEnd
    <3>4. p.block = a + k /\ k \in 0 .. n - 1
      BY <2>2, <2>4, <3>2
    <3>5. QED
      BY <3>3, <3>4
  <2>6. RunPart(p, s, i, k) /\ k \in 0 .. plans[s].runs[i].len - 1
    BY <2>2, <2>4, <2>5 DEF RunPart
  <2>7. QED
    BY <2>5, <2>6 DEF PlanBlocks, Given, OwnerPart
<1>5. QED
  BY <1>2, <1>3, <1>4 DEF OwnerPieces

\* Two pieces at one block are of one kind, and say the same.
LEMMA OneContentOfGroup ==
  ASSUME MetaPlaced, NEW g \in Groups, NEW p, NEW q, GroupPart(p, g), GroupPart(q, g), p.block = q.block
  PROVE  p.content = q.content
<1>1. Bb(g) # Ib(g) /\ Bb(g) \notin Table(g) /\ Ib(g) \notin Table(g) /\ It(g) \in Nat
  BY DEF MetaPlaced
<1>2. ASSUME NEW k, NEW l, k \in Nat, l \in Nat, TablePart(p, g, k), TablePart(q, g, l)
      PROVE  p.content = q.content
  <2>1. k = l
    <3>1. PICK a \in Nat : a = It(g)
      BY <1>1
    <3>2. a + k = a + l
      BY <1>2, <3>1 DEF TablePart
    <3>3. k \in Nat /\ l \in Nat
      BY <1>2
    <3>4. QED
      BY <3>2, <3>3
  <2>2. QED
    BY <1>2, <2>1 DEF TablePart
<1>3. ASSUME NEW k, TablePart(p, g, k) PROVE p.block \in Table(g)
  BY <1>3 DEF TablePart
<1>4. ASSUME NEW k, TablePart(q, g, k) PROVE q.block \in Table(g)
  BY <1>4 DEF TablePart
<1>5. CASE p.block \in Table(g)
  <2>1. PICK k \in 0 .. used_itable(g) - 1 : TablePart(p, g, k)
    BY <1>1, <1>5 DEF GroupPart
  <2>2. PICK l \in 0 .. used_itable(g) - 1 : TablePart(q, g, l)
    BY <1>1, <1>5 DEF GroupPart
  <2>3. k \in Nat /\ l \in Nat
    OBVIOUS
  <2>4. QED
    BY <1>2, <2>1, <2>2, <2>3
<1>6. CASE p.block \notin Table(g)
  BY <1>1, <1>3, <1>4, <1>6 DEF GroupPart
<1>7. QED
  BY <1>5, <1>6

LEMMA OneContentOfOwner ==
  ASSUME PlansPlaced, NEW s \in Owners, NEW p, NEW q, OwnerPart(p, s), OwnerPart(q, s), p.block = q.block
  PROVE  p.content = q.content
<1>1. PICK runs : runs = plans[s].runs
  OBVIOUS
<1>2. /\ runs \in Seq(Run) /\ Ascend(runs)
      /\ plans[s].acl \cap plans[s].tree = {} /\ plans[s].acl \cap Given(runs) = {}
      /\ plans[s].tree \cap Given(runs) = {}
  BY <1>1 DEF PlansPlaced, PlanShape
<1>3. RunsApart(runs)
  BY <1>2, AscendingTile, TilesGive
<1>4. ASSUME NEW i \in DOMAIN runs, NEW k, RunPart(p, s, i, k) PROVE p.block \in Given(runs)
  BY <1>1, <1>4 DEF RunPart, Given
<1>5. ASSUME NEW i \in DOMAIN runs, NEW k, RunPart(q, s, i, k) PROVE q.block \in Given(runs)
  BY <1>1, <1>5 DEF RunPart, Given
<1>6. ASSUME NEW i \in DOMAIN runs, NEW k \in Nat, RunPart(p, s, i, k),
             NEW j \in DOMAIN runs, NEW l \in Nat, RunPart(q, s, j, l)
      PROVE  p.content = q.content
  <2>1. p.block \in BlocksOf(runs[i]) /\ q.block \in BlocksOf(runs[j])
    BY <1>1, <1>6 DEF RunPart
  <2>2. i = j
    BY <1>3, <2>1 DEF RunsApart
  <2>3. runs[i] \in Run
    BY <1>2
  <2>4. PICK a \in Nat : a = runs[i].start
    BY <2>3 DEF Run
  <2>5. p.block = a + k /\ q.block = a + l
    BY <1>1, <1>6, <2>2, <2>4 DEF RunPart
  <2>6. k = l
    <3>1. a + k = a + l
      BY <2>5
    <3>2. QED
      BY <3>1
  <2>7. QED
    BY <1>6, <2>2, <2>6 DEF RunPart
<1>7. CASE p.block \in Given(runs)
  <2>1. PICK i \in DOMAIN runs : \E k \in 0 .. runs[i].len - 1 : RunPart(p, s, i, k)
    BY <1>1, <1>2, <1>7 DEF OwnerPart
  <2>2. PICK j \in DOMAIN runs : \E l \in 0 .. runs[j].len - 1 : RunPart(q, s, j, l)
    BY <1>1, <1>2, <1>7 DEF OwnerPart
  <2>3. PICK k \in 0 .. runs[i].len - 1 : RunPart(p, s, i, k)
    BY <2>1
  <2>4. PICK l \in 0 .. runs[j].len - 1 : RunPart(q, s, j, l)
    BY <2>2
  <2>5. k \in Nat /\ l \in Nat
    OBVIOUS
  <2>6. QED
    BY <1>6, <2>3, <2>4, <2>5
<1>8. CASE p.block \notin Given(runs)
  <2>1. \/ p.block \in plans[s].acl /\ p.content = AttributeBlock(p.block)
        \/ p.block \in plans[s].tree /\ p.content = Owned(s, "tree")
    BY <1>1, <1>4, <1>8 DEF OwnerPart
  <2>2. \/ q.block \in plans[s].acl /\ q.content = AttributeBlock(q.block)
        \/ q.block \in plans[s].tree /\ q.content = Owned(s, "tree")
    BY <1>1, <1>5, <1>8 DEF OwnerPart
  <2>3. QED
    BY <1>2, <2>1, <2>2
<1>9. QED
  BY <1>7, <1>8

LEMMA OneContentOfSuper ==
  ASSUME input \in Inputs, NEW p \in SuperPieces, NEW q \in SuperPieces, p.block = q.block
  PROVE  p.content = q.content
<1>1. PICK r \in SuperRuns : \E k \in 0 .. GdtBlocks :
        /\ p.block = r.start + k /\ p.block \in BlocksOf(r)
        /\ k = 0 => p.content = [what |-> "super"]
        /\ k > 0 => p.content = GdtBlock(k - 1)
  BY SuperPiece
<1>2. PICK k \in 0 .. GdtBlocks :
        /\ p.block = r.start + k
        /\ k = 0 => p.content = [what |-> "super"]
        /\ k > 0 => p.content = GdtBlock(k - 1)
  BY <1>1
<1>3. PICK t \in SuperRuns : \E l \in 0 .. GdtBlocks :
        /\ q.block = t.start + l /\ q.block \in BlocksOf(t)
        /\ l = 0 => q.content = [what |-> "super"]
        /\ l > 0 => q.content = GdtBlock(l - 1)
  BY SuperPiece
<1>4. PICK l \in 0 .. GdtBlocks :
        /\ q.block = t.start + l
        /\ l = 0 => q.content = [what |-> "super"]
        /\ l > 0 => q.content = GdtBlock(l - 1)
  BY <1>3
<1>5. r = t
  <2>1. p.block \in BlocksOf(r) /\ p.block \in BlocksOf(t)
    BY <1>1, <1>3
  <2>2. r # t => BlocksOf(r) \cap BlocksOf(t) = {}
    BY SupersApart
  <2>3. QED
    BY <2>1, <2>2
<1>6. PICK a \in Nat : a = r.start
  <2>1. PICK g \in Nat : r.start = group_start(g)
    BY SuperShape
  <2>2. QED
    BY <2>1, StartType
<1>7. k = l
  <2>1. a + k = a + l
    BY <1>2, <1>4, <1>5, <1>6
  <2>2. QED
    BY <2>1
<1>8. k = 0 \/ k > 0
  OBVIOUS
<1>9. QED
  BY <1>2, <1>4, <1>7, <1>8

LEMMA OneContent ==
  ASSUME input \in Inputs, MetaPlaced, PlansPlaced,
         NEW p \in Pieces, NEW q \in Pieces, p.block = q.block
  PROVE  p.content = q.content
<1>1. ASSUME NEW x \in Pieces
      PROVE  \/ x \in SuperPieces /\ x.block \in SuperBlocks
             \/ \E g \in Groups : x.block \in Meta(g) /\ GroupPart(x, g)
             \/ \E s \in Owners : x.block \in PlanBlocks(plans[s]) /\ OwnerPart(x, s)
  <2>1. CASE x \in SuperPieces
    <3>1. x.block \in SuperBlocks
      BY <2>1, SuperPiece
    <3>2. QED
      BY <2>1, <3>1
  <2>2. CASE x \in GroupPieces
    BY <2>2, GroupPiece
  <2>3. CASE \E s \in Owners : x \in OwnerPieces(s)
    BY <2>3, OwnerPiece
  <2>4. QED
    BY <2>1, <2>2, <2>3 DEF Pieces
<1>2. \A g \in Groups : \A b \in Meta(g) : b \notin SuperBlocks
  BY DEF MetaPlaced, InsideFree
<1>3. \A s \in Owners : \A b \in PlanBlocks(plans[s]) : b \notin SuperBlocks
  BY DEF PlansPlaced, InsideFree
<1>4. \A s \in Owners, g \in Groups : PlanBlocks(plans[s]) \cap Meta(g) = {}
  BY DEF PlansPlaced
<1>5. CASE p \in SuperPieces /\ p.block \in SuperBlocks
  <2>1. q \in SuperPieces
    BY <1>1, <1>2, <1>3, <1>5
  <2>2. QED
    BY <1>5, <2>1, OneContentOfSuper
<1>6. ASSUME NEW g \in Groups, p.block \in Meta(g), GroupPart(p, g)
      PROVE  p.content = q.content
  <2>1. PICK h \in Groups : q.block \in Meta(h) /\ GroupPart(q, h)
    BY <1>1, <1>2, <1>4, <1>6
  <2>2. g = h
    BY <1>6, <2>1 DEF MetaPlaced
  <2>3. QED
    BY <1>6, <2>1, <2>2, OneContentOfGroup
<1>7. ASSUME NEW s \in Owners, p.block \in PlanBlocks(plans[s]), OwnerPart(p, s)
      PROVE  p.content = q.content
  <2>1. PICK t \in Owners : q.block \in PlanBlocks(plans[t]) /\ OwnerPart(q, t)
    BY <1>1, <1>3, <1>4, <1>7
  <2>2. s = t
    BY <1>7, <2>1 DEF PlansPlaced
  <2>3. QED
    BY <1>7, <2>1, <2>2, OneContentOfOwner
<1>8. QED
  BY <1>1, <1>5, <1>6, <1>7

\* What the sealed image has at a block.
LEMMA ImageHolds ==
  ASSUME input \in Inputs, MetaPlaced, PlansPlaced, NEW p \in Pieces,
         p.block \in 0 .. input.blocks - 1
  PROVE  TheImage[p.block] = p.content
<1>1. PICK S : S = Pieces
  OBVIOUS
<1>2. PICK q : q = CHOOSE x \in S : x.block = p.block
  OBVIOUS
<1>3. q \in S /\ q.block = p.block
  BY <1>1, <1>2
<1>4. q.content = p.content
  BY <1>1, <1>3, OneContent
<1>5. p.block \in {x.block : x \in S}
  BY <1>1
<1>6. TheImage[p.block] = q.content
  BY <1>1, <1>2, <1>5 DEF TheImage
<1>7. QED
  BY <1>4, <1>6

LEMMA ImageOfPieces ==
  ASSUME NEW b \in 0 .. input.blocks - 1, TheImage[b] # Zeros
  PROVE  \E p \in Pieces : p.block = b /\ p.content = TheImage[b]
<1>1. PICK S : S = Pieces
  OBVIOUS
<1>2. b \in {x.block : x \in S}
  BY <1>1 DEF TheImage
<1>3. TheImage[b] = (CHOOSE x \in S : x.block = b).content
  BY <1>1, <1>2 DEF TheImage
<1>4. QED
  BY <1>1, <1>2, <1>3
-----------------------------------------------------------------------------
(* What the image reads as. *)

\* A block reads as the content c it was written with, or it is lost; only
\* blocks with content count as lost.
Reads(b, c) == IF b \in lost THEN image[b] = Zeros /\ c # Zeros ELSE image[b] = c

FixedReads ==
  /\ Reads(0, [what |-> "super"])
  /\ \A k \in 0 .. GdtBlocks - 1 : Reads(1 + k, GdtBlock(k))
GroupReads(g) ==
  /\ Reads(Bb(g), Bits(block_bits(g))) /\ Reads(Ib(g), Bits(inode_bits(g)))
  /\ \A k \in 0 .. used_itable(g) - 1 : Reads(It(g) + k, TableBlock(g, k))
OwnerReads(s) ==
  /\ \A b \in plans[s].acl : Reads(b, AttributeBlock(b))
  /\ \A b \in plans[s].tree : Reads(b, Owned(s, "tree"))
  /\ \A i \in DOMAIN plans[s].runs : \A k \in 0 .. plans[s].runs[i].len - 1 :
       Reads(plans[s].runs[i].start + k, ContentAt(s, Before(plans[s].runs, i) + k))

LEMMA PieceReads ==
  ASSUME ImageInv, pc \in {"written", "torn"}, input \in Inputs, MetaPlaced, PlansPlaced,
         NEW b, NEW c, At(b, c) \in Pieces, b \in 0 .. input.blocks - 1
  PROVE  Reads(b, c)
<1>1. PICK p \in Pieces : p = At(b, c)
  OBVIOUS
<1>2. p.block = b /\ p.content = c
  BY <1>1 DEF At
<1>3. TheImage[b] = c
  BY <1>2, ImageHolds
<1>4. /\ image[b] = IF b \in lost THEN Zeros ELSE TheImage[b]
      /\ b \in lost => TheImage[b] # Zeros
  BY DEF ImageInv
<1>5. QED
  BY <1>3, <1>4 DEF Reads

LEMMA FixedAreRead ==
  ASSUME ImageInv, pc \in {"written", "torn"}, input \in Inputs, groups \in Nat \ {0},
         MetaPlaced, PlansPlaced
  PROVE  FixedReads
<1>1. PICK r \in SuperRuns : r.start = 0 /\ GdtBlocks < input.blocks
  BY PrimaryCopy
<1>2. GdtBlocks \in Nat \ {0} /\ input.blocks \in Nat
  BY Parameters
<1>3. At(0, [what |-> "super"]) \in Pieces
  <2>1. At(r.start, [what |-> "super"]) \in SuperPieces
    BY DEF SuperPieces
  <2>2. QED
    BY <1>1, <2>1 DEF Pieces
<1>4. Reads(0, [what |-> "super"])
  <2>1. 0 \in 0 .. input.blocks - 1
    BY <1>1, <1>2
  <2>2. QED
    BY <1>3, <2>1, PieceReads
<1>5. ASSUME NEW k \in 0 .. GdtBlocks - 1 PROVE Reads(1 + k, GdtBlock(k))
  <2>1. At(r.start + 1 + k, GdtBlock(k)) \in SuperPieces
    BY DEF SuperPieces
  <2>2. PICK b : b = 1 + k
    OBVIOUS
  <2>3. r.start + 1 + k = b /\ b \in 0 .. input.blocks - 1
    BY <1>1, <1>2, <2>2
  <2>4. At(b, GdtBlock(k)) \in Pieces
    BY <2>1, <2>3 DEF Pieces
  <2>5. Reads(b, GdtBlock(k))
    BY <2>3, <2>4, PieceReads
  <2>6. QED
    BY <2>2, <2>5
<1>6. QED
  BY <1>4, <1>5 DEF FixedReads

LEMMA GroupIsRead ==
  ASSUME ImageInv, pc \in {"written", "torn"}, input \in Inputs, MetaPlaced, PlansPlaced,
         NEW g \in Groups
  PROVE  GroupReads(g)
<1>1. input.blocks \in Nat /\ input.itable \in Nat
  BY Parameters
<1>2. \A b \in Meta(g) : b \in 0 .. input.blocks - 1
  BY <1>1 DEF MetaPlaced, InsideFree
<1>3. PICK S : S = {At(Bb(g), Bits(block_bits(g))), At(Ib(g), Bits(inode_bits(g)))}
                     \cup {At(It(g) + k, TableBlock(g, k)) : k \in 0 .. used_itable(g) - 1}
  OBVIOUS
<1>4. S \subseteq Pieces
  <2>1. S \subseteq GroupPieces
    BY <1>3 DEF GroupPieces, Groups, Bb, Ib, It
  <2>2. QED
    BY <2>1 DEF Pieces
<1>5. Reads(Bb(g), Bits(block_bits(g)))
  <2>1. At(Bb(g), Bits(block_bits(g))) \in Pieces /\ Bb(g) \in Meta(g)
    BY <1>3, <1>4 DEF Meta
  <2>2. Bb(g) \in 0 .. input.blocks - 1
    BY <1>2, <2>1
  <2>3. QED
    BY <2>1, <2>2, PieceReads
<1>6. Reads(Ib(g), Bits(inode_bits(g)))
  <2>1. At(Ib(g), Bits(inode_bits(g))) \in Pieces /\ Ib(g) \in Meta(g)
    BY <1>3, <1>4 DEF Meta
  <2>2. Ib(g) \in 0 .. input.blocks - 1
    BY <1>2, <2>1
  <2>3. QED
    BY <2>1, <2>2, PieceReads
<1>7. ASSUME NEW k \in 0 .. used_itable(g) - 1 PROVE Reads(It(g) + k, TableBlock(g, k))
  <2>1. At(It(g) + k, TableBlock(g, k)) \in Pieces
    BY <1>3, <1>4
  <2>2. used_itable(g) \in Nat /\ used_itable(g) <= input.itable
    <3>1. g \in Nat
      BY GroupsHoldImage DEF Groups
    <3>2. QED
      BY <3>1, UsedTable
  <2>3. PICK a \in Nat : a = It(g)
    BY DEF MetaPlaced
  <2>4. a + k \in Table(g)
    BY <1>1, <2>2, <2>3 DEF Table
  <2>5. a + k \in 0 .. input.blocks - 1
    BY <1>2, <2>4 DEF Meta
  <2>6. PICK b : b = a + k
    OBVIOUS
  <2>7. Reads(b, TableBlock(g, k))
    BY <2>1, <2>3, <2>5, <2>6, PieceReads
  <2>8. QED
    BY <2>3, <2>6, <2>7
<1>8. QED
  BY <1>5, <1>6, <1>7 DEF GroupReads

LEMMA OwnerIsRead ==
  ASSUME ImageInv, pc \in {"written", "torn"}, input \in Inputs, MetaPlaced, PlansPlaced,
         NEW s \in Owners
  PROVE  OwnerReads(s)
<1>1. input.blocks \in Nat
  BY Parameters
<1>2. \A b \in PlanBlocks(plans[s]) : b \in 0 .. input.blocks - 1
  BY <1>1 DEF PlansPlaced, InsideFree
<1>3. OwnerPieces(s) \subseteq Pieces
  BY DEF Pieces
<1>4. ASSUME NEW b \in plans[s].acl PROVE Reads(b, AttributeBlock(b))
  <2>1. At(b, AttributeBlock(b)) \in OwnerPieces(s)
    BY DEF OwnerPieces
  <2>2. b \in 0 .. input.blocks - 1
    BY <1>2 DEF PlanBlocks
  <2>3. QED
    BY <1>3, <2>1, <2>2, PieceReads
<1>5. ASSUME NEW b \in plans[s].tree PROVE Reads(b, Owned(s, "tree"))
  <2>1. At(b, Owned(s, "tree")) \in OwnerPieces(s)
    BY DEF OwnerPieces
  <2>2. b \in 0 .. input.blocks - 1
    BY <1>2 DEF PlanBlocks
  <2>3. QED
    BY <1>3, <2>1, <2>2, PieceReads
<1>6. ASSUME NEW i \in DOMAIN plans[s].runs, NEW k \in 0 .. plans[s].runs[i].len - 1
      PROVE  Reads(plans[s].runs[i].start + k, ContentAt(s, Before(plans[s].runs, i) + k))
  <2>1. PICK b : b = plans[s].runs[i].start + k
    OBVIOUS
  <2>2. PICK c : c = ContentAt(s, Before(plans[s].runs, i) + k)
    OBVIOUS
  <2>3. At(b, c) \in RunPieces(s, i)
    BY <2>1, <2>2 DEF RunPieces
  <2>4. At(b, c) \in OwnerPieces(s)
    BY <2>3 DEF OwnerPieces
  <2>5. b \in PlanBlocks(plans[s])
    <3>1. plans[s].runs \in Seq(Run)
      BY DEF PlansPlaced, PlanShape
    <3>2. plans[s].runs[i] \in Run
      BY <3>1
    <3>3. PICK a \in Nat, n \in Nat \ {0} : a = plans[s].runs[i].start /\ n = plans[s].runs[i].len
      BY <3>2 DEF Run
    <3>4. BlocksOf(plans[s].runs[i]) = a .. (a + n) - 1
      BY <3>3 DEF BlocksOf, RunEnd
    <3>5. b \in BlocksOf(plans[s].runs[i])
      <4>1. b = a + k /\ k \in 0 .. n - 1
        BY <2>1, <3>3
      <4>2. a + k \in a .. (a + n) - 1
        BY <4>1
      <4>3. QED
        BY <3>4, <4>1, <4>2
    <3>6. QED
      BY <3>5 DEF PlanBlocks, Given
  <2>6. At(b, c) \in Pieces /\ b \in 0 .. input.blocks - 1
    BY <1>2, <1>3, <2>4, <2>5
  <2>7. Reads(b, c)
    BY <2>6, PieceReads
  <2>8. QED
    BY <2>1, <2>2, <2>7
<1>7. QED
  BY <1>4, <1>5, <1>6 DEF OwnerReads
-----------------------------------------------------------------------------
(* What is needed and what is not. *)

LEMMA OwnersAre ==
  ASSUME input \in Inputs
  PROVE  /\ \E n \in Nat \ {0} : n = Len(input.inodes) /\ Slots = 1 .. n
         /\ 0 \in Owners /\ -1 \in Owners
         /\ \A s \in Owners : s = -1 \/ s = 0 \/ s \in Slots
         /\ \A s \in Slots : s \in Nat /\ s # 0 /\ s # -1 /\ s \in Owners
         /\ KindOf(-1) = "file" /\ KindOf(0) = "dir"
<1>1. input.inodes \in Seq(Inode) /\ input.inodes # <<>>
  BY Parameters, SealAssumption
<1>2. PICK n \in Nat : n = Len(input.inodes) /\ DOMAIN input.inodes = 1 .. n
  BY <1>1
<1>3. n # 0
  BY <1>1, <1>2
<1>4. Slots = 1 .. n
  BY <1>2 DEF Slots
<1>5. \A s \in Slots : s \in Nat /\ s # 0 /\ s # -1
  BY <1>4
<1>6. KindOf(-1) = "file" /\ KindOf(0) = "dir"
  BY DEF KindOf
<1>7. QED
  BY <1>2, <1>3, <1>4, <1>5, <1>6 DEF Owners

\* The journal's first block is the first of its runs.
LEMMA FirstLogical ==
  ASSUME NEW runs \in Seq(Run), NEW i \in DOMAIN runs, NEW k \in 0 .. runs[i].len - 1,
         Before(runs, i) + k = 0
  PROVE  i = 1 /\ k = 0
<1>1. PICK n \in Nat : n = Len(runs) /\ DOMAIN runs = 1 .. n
  OBVIOUS
<1>2. \A j \in 1 .. n : runs[j] \in Run
  BY <1>1
<1>3. \A j \in 1 .. n : runs[j].len \in Nat \ {0}
  BY <1>2 DEF Run
<1>4. \A j \in 1 .. n : runs[j].len \in Nat
  BY <1>3
<1>5. Before(runs, 1) = 0 /\ \A j \in 1 .. n + 1 : Before(runs, j) \in Nat
  BY <1>1, <1>4, BeforeGrows
<1>6. PICK b \in Nat : b = Before(runs, i)
  BY <1>1, <1>5
<1>7. b = 0 /\ k = 0
  BY <1>6
<1>8. 1 \in DOMAIN runs /\ 0 \in 0 .. runs[1].len - 1
  <2>1. 1 \in 1 .. n
    BY <1>1
  <2>2. PICK l \in Nat \ {0} : l = runs[1].len
    BY <1>3, <2>1
  <2>3. QED
    BY <1>1, <2>1, <2>2
<1>9. PICK o \in DOMAIN runs : o = 1
  BY <1>8
<1>10. Before(runs, i) + k \in Before(runs, o) .. Before(runs, o) + runs[o].len - 1
  <2>1. Before(runs, o) = 0 /\ runs[o].len \in Nat \ {0}
    BY <1>1, <1>3, <1>5, <1>9
  <2>2. QED
    BY <2>1
<1>11. o = i
  BY <1>10, LogicalBlocks
<1>12. QED
  BY <1>7, <1>9, <1>11

LEMMA NeededOfOwner ==
  ASSUME NEW s \in Owners
  PROVE  /\ plans[s].acl \cup plans[s].tree \subseteq Needed
         /\ s \in DirOwners => Given(plans[s].runs) \subseteq Needed
<1>1. plans[s].acl \cup plans[s].tree \subseteq InodesNeed
  BY DEF InodesNeed
<1>2. s \in DirOwners => Given(plans[s].runs) \subseteq DirsNeed
  BY DEF DirsNeed
<1>3. QED
  BY <1>1, <1>2 DEF Needed

LEMMA UnreadOfOwner ==
  ASSUME NEW s \in Slots, KindOf(s) # "dir"
  PROVE  Given(plans[s].runs) \subseteq Unread
<1>1. PICK T : T = {t \in Slots : KindOf(t) # "dir"}
  OBVIOUS
<1>2. s \in T
  BY <1>1
<1>3. \A i \in DOMAIN plans[s].runs :
        plans[s].runs[i] \in UNION {{plans[t].runs[j] : j \in DOMAIN plans[t].runs} : t \in T}
  BY <1>2
<1>4. Given(plans[s].runs)
        \subseteq UNION {BlocksOf(r) : r \in UNION {{plans[t].runs[j] : j \in DOMAIN plans[t].runs} : t \in T}}
  BY <1>3 DEF Given
<1>5. QED
  <2>1. UNION {BlocksOf(r) : r \in UNION {{plans[t].runs[j] : j \in DOMAIN plans[t].runs} : t \in T}} \subseteq Unread
    BY <1>1 DEF Unread
  <2>2. QED
    BY <1>4, <2>1

LEMMA HeldIsKnown ==
  ASSUME input \in Inputs, groups \in Nat \ {0}, MetaPlaced, PlansPlaced,
         NEW b \in 0 .. input.blocks - 1, TheImage[b] # Zeros
  PROVE  b \in Needed \cup Unread
<1>1. PICK p \in Pieces : p.block = b /\ p.content # Zeros
  BY ImageOfPieces
<1>2. CASE p \in SuperPieces
  <2>1. PICK r \in SuperRuns : b \in BlocksOf(r)
    BY <1>1, <1>2, SuperPiece
  <2>2. CASE r = [start |-> 0, len |-> 1 + GdtBlocks]
    <3>1. b \in 0 .. GdtBlocks
      <4>1. PICK q \in SuperRuns : q = [start |-> 0, len |-> 1 + GdtBlocks] /\ BlocksOf(q) = 0 .. GdtBlocks
        BY PrimaryCopy
      <4>2. QED
        BY <2>1, <2>2, <4>1
    <3>2. QED
      BY <3>1 DEF Needed
  <2>3. CASE r # [start |-> 0, len |-> 1 + GdtBlocks]
    BY <2>1, <2>3 DEF Unread
  <2>4. QED
    BY <2>2, <2>3
<1>3. CASE p \in GroupPieces
  <2>1. PICK g \in Groups : GroupPart(p, g)
    BY <1>3, GroupPiece
  <2>2. b \in {Bb(g), Ib(g)} \cup {It(g) + k : k \in 0 .. used_itable(g) - 1}
    BY <1>1, <2>1 DEF GroupPart, TablePart
  <2>3. b \in {group_meta[g + 1].bb, group_meta[g + 1].ib} \cup TableRead(g)
    BY <2>2 DEF Bb, Ib, It, TableRead
  <2>4. b \in GroupsNeed
    BY <2>3 DEF GroupsNeed, Groups
  <2>5. QED
    BY <2>4 DEF Needed
<1>4. ASSUME NEW s \in Owners, p \in OwnerPieces(s) PROVE b \in Needed \cup Unread
  <2>1. OwnerPart(p, s) /\ plans[s].runs \in Seq(Run)
    BY <1>4, OwnerPiece DEF PlansPlaced, PlanShape
  <2>2. CASE b \in plans[s].acl \cup plans[s].tree
    BY <2>2, NeededOfOwner
  <2>3. ASSUME NEW i \in DOMAIN plans[s].runs, NEW k \in 0 .. plans[s].runs[i].len - 1, RunPart(p, s, i, k)
        PROVE  b \in Needed \cup Unread
    <3>1. b \in BlocksOf(plans[s].runs[i]) /\ b = plans[s].runs[i].start + k
          /\ ContentAt(s, Before(plans[s].runs, i) + k) # Zeros
      BY <1>1, <2>3 DEF RunPart
    <3>2. CASE KindOf(s) = "dir"
      <4>1. s \in DirOwners /\ b \in Given(plans[s].runs)
        BY <3>1, <3>2 DEF DirOwners, Given
      <4>2. QED
        BY <4>1, NeededOfOwner
    <3>3. CASE s = -1
      <4>1. PICK l \in Nat : l = Before(plans[s].runs, i) + k
        BY <2>1, LogicalBlocks
      <4>2. ~(l > 0)
        <5>1. ContentAt(-1, l) # Zeros
          BY <3>1, <3>3, <4>1
        <5>2. l > 0 => ContentKind(-1, l) = "zeros"
          BY DEF ContentKind
        <5>3. QED
          BY <5>1, <5>2 DEF ContentAt
      <4>3. i = 1 /\ k = 0
        BY <2>1, <4>1, <4>2, FirstLogical
      <4>4. b = JournalHead
        <5>1. PICK runs \in Seq(Run) : runs = plans[s].runs /\ i \in DOMAIN runs
          BY <2>1
        <5>2. runs[i] \in Run
          BY <5>1
        <5>3. PICK a \in Nat : a = runs[i].start
          BY <5>2 DEF Run
        <5>4. b = a
          BY <3>1, <4>3, <5>1, <5>3
        <5>5. QED
          BY <3>3, <4>3, <5>1, <5>3, <5>4 DEF JournalHead
      <4>5. QED
        BY <4>4 DEF Needed
    <3>4. CASE s # -1 /\ KindOf(s) # "dir"
      <4>1. s \in Slots
        BY <3>4, OwnersAre
      <4>2. b \in Given(plans[s].runs)
        BY <3>1 DEF Given
      <4>3. QED
        BY <3>4, <4>1, <4>2, UnreadOfOwner
    <3>5. QED
      BY <3>2, <3>3, <3>4
  <2>4. QED
    BY <1>1, <2>1, <2>2, <2>3 DEF OwnerPart
<1>5. QED
  BY <1>2, <1>3, <1>4 DEF Pieces

LEMMA UnreadIs ==
  ASSUME NEW b \in Unread
  PROVE  \/ \E r \in SuperRuns : r # [start |-> 0, len |-> 1 + GdtBlocks] /\ b \in BlocksOf(r)
         \/ \E s \in Slots : KindOf(s) # "dir" /\ b \in Given(plans[s].runs)
<1>1. PICK T : T = {t \in Slots : KindOf(t) # "dir"}
  OBVIOUS
<1>2. PICK U : U = UNION {{plans[t].runs[j] : j \in DOMAIN plans[t].runs} : t \in T}
  OBVIOUS
<1>3. \/ b \in UNION {BlocksOf(r) : r \in SuperRuns \ {[start |-> 0, len |-> 1 + GdtBlocks]}}
      \/ b \in UNION {BlocksOf(r) : r \in U}
  BY <1>1, <1>2 DEF Unread
<1>4. CASE b \in UNION {BlocksOf(r) : r \in SuperRuns \ {[start |-> 0, len |-> 1 + GdtBlocks]}}
  BY <1>4
<1>5. CASE b \in UNION {BlocksOf(r) : r \in U}
  <2>1. PICK r \in U : b \in BlocksOf(r)
    BY <1>5
  <2>2. PICK t \in T : r \in {plans[t].runs[j] : j \in DOMAIN plans[t].runs}
    BY <1>2, <2>1
  <2>3. b \in Given(plans[t].runs)
    BY <2>1, <2>2 DEF Given
  <2>4. QED
    BY <1>1, <2>2, <2>3
<1>6. QED
  BY <1>3, <1>4, <1>5

LEMMA JournalHeadIsGiven ==
  ASSUME PlansPlaced, -1 \in Owners
  PROVE  /\ 1 \in DOMAIN plans[-1].runs /\ plans[-1].runs[1].len \in Nat \ {0}
         /\ JournalHead \in Given(plans[-1].runs) /\ JournalHead \in Nat
<1>1. PICK runs \in Seq(Run) : runs = plans[-1].runs
  BY DEF PlansPlaced, PlanShape
<1>2. 1 \in DOMAIN runs
  BY <1>1 DEF PlansPlaced
<1>3. runs[1] \in Run
  BY <1>2
<1>4. PICK a \in Nat, n \in Nat \ {0} : a = runs[1].start /\ n = runs[1].len
  BY <1>3 DEF Run
<1>5. BlocksOf(runs[1]) = a .. (a + n) - 1
  BY <1>4 DEF BlocksOf, RunEnd
<1>6. a \in BlocksOf(runs[1])
  BY <1>5
<1>7. a \in Given(runs)
  BY <1>2, <1>6 DEF Given
<1>8. JournalHead = a
  BY <1>1, <1>4 DEF JournalHead
<1>9. QED
  BY <1>1, <1>2, <1>4, <1>7, <1>8

LEMMA NeededIsRead ==
  ASSUME input \in Inputs, groups \in Nat \ {0}, MetaPlaced, PlansPlaced
  PROVE  Needed \cap Unread = {}
<1>1. PICK q \in SuperRuns : q = [start |-> 0, len |-> 1 + GdtBlocks] /\ BlocksOf(q) = 0 .. GdtBlocks
  BY PrimaryCopy
<1>2. \A s \in Owners : \A b \in PlanBlocks(plans[s]) : b \notin SuperBlocks
  BY DEF PlansPlaced, InsideFree
<1>3. \A g \in Groups : \A b \in Meta(g) : b \notin SuperBlocks
  BY DEF MetaPlaced, InsideFree
<1>4. -1 \in Owners /\ \A s \in Slots : s \in Owners /\ s # -1
  BY OwnersAre
<1>5. ASSUME NEW b \in GroupsNeed PROVE \E g \in Groups : b \in Meta(g)
  <2>1. PICK g \in Groups : b \in {Bb(g), Ib(g)} \cup {It(g) + k : k \in 0 .. used_itable(g) - 1}
    BY DEF GroupsNeed, TableRead, Groups, Bb, Ib, It
  <2>2. CASE b \in {Bb(g), Ib(g)}
    BY <2>2 DEF Meta
  <2>3. ASSUME NEW k \in 0 .. used_itable(g) - 1, b = It(g) + k PROVE b \in Meta(g)
    <3>1. g \in Nat
      BY DEF Groups
    <3>2. used_itable(g) \in Nat /\ used_itable(g) <= input.itable /\ input.itable \in Nat
      BY <3>1, UsedTable, Parameters
    <3>3. PICK a \in Nat : a = It(g)
      BY DEF MetaPlaced
    <3>4. b \in Table(g)
      BY <2>3, <3>2, <3>3 DEF Table
    <3>5. QED
      BY <3>4 DEF Meta
  <2>4. QED
    BY <2>1, <2>2, <2>3
<1>6. ASSUME NEW b \in Needed
      PROVE  \/ b \in BlocksOf(q)
             \/ \E g \in Groups : b \in Meta(g)
             \/ \E s \in Owners : b \in plans[s].acl \cup plans[s].tree
             \/ \E s \in Owners : (KindOf(s) = "dir" \/ s = -1) /\ b \in Given(plans[s].runs)
  <2>1. CASE b \in 0 .. GdtBlocks
    BY <1>1, <2>1
  <2>2. CASE b \in GroupsNeed
    BY <1>5, <2>2
  <2>3. CASE b \in InodesNeed
    BY <2>3 DEF InodesNeed
  <2>4. CASE b \in DirsNeed
    BY <2>4 DEF DirsNeed, DirOwners
  <2>5. CASE b = JournalHead
    BY <1>4, <2>5, JournalHeadIsGiven
  <2>6. QED
    BY <2>1, <2>2, <2>3, <2>4, <2>5 DEF Needed
<1>7. SUFFICES ASSUME NEW b \in Needed, b \in Unread PROVE FALSE
  OBVIOUS
<1>8. ASSUME NEW r \in SuperRuns, r # q, b \in BlocksOf(r) PROVE FALSE
  <2>1. b \in SuperBlocks
    BY <1>8 DEF SuperBlocks
  <2>2. b \notin BlocksOf(q)
    BY <1>8, SupersApart
  <2>3. QED
    BY <1>2, <1>3, <1>6, <2>1, <2>2 DEF PlanBlocks
<1>9. ASSUME NEW s \in Slots, KindOf(s) # "dir", b \in Given(plans[s].runs) PROVE FALSE
  <2>1. s \in Owners /\ s # -1 /\ b \in PlanBlocks(plans[s])
    BY <1>4, <1>9 DEF PlanBlocks
  <2>2. b \notin BlocksOf(q)
    <3>1. b \notin SuperBlocks
      BY <1>2, <2>1
    <3>2. QED
      BY <3>1 DEF SuperBlocks
  <2>3. \A g \in Groups : b \notin Meta(g)
    BY <2>1 DEF PlansPlaced
  <2>4. ASSUME NEW t \in Owners, b \in PlanBlocks(plans[t]) PROVE t = s
    BY <2>1, <2>4 DEF PlansPlaced
  <2>5. b \notin plans[s].acl \cup plans[s].tree
    BY <1>9, <2>1 DEF PlansPlaced, PlanShape
  <2>6. ASSUME NEW t \in Owners, b \in plans[t].acl \cup plans[t].tree PROVE FALSE
    <3>1. b \in PlanBlocks(plans[t])
      BY <2>6 DEF PlanBlocks
    <3>2. QED
      BY <2>4, <2>5, <2>6, <3>1
  <2>7. ASSUME NEW t \in Owners, KindOf(t) = "dir" \/ t = -1, b \in Given(plans[t].runs) PROVE FALSE
    <3>1. b \in PlanBlocks(plans[t])
      BY <2>7 DEF PlanBlocks
    <3>2. QED
      BY <1>9, <2>1, <2>4, <2>7, <3>1
  <2>8. QED
    BY <1>6, <2>2, <2>3, <2>6, <2>7
<1>10. QED
  BY <1>1, <1>7, <1>8, <1>9, UnreadIs
-----------------------------------------------------------------------------
(* Inode numbers. *)

LEMMA InodeCounts ==
  ASSUME input \in Inputs, GeometryOK
  PROVE  /\ groups \in Nat \ {0} /\ inodes_per_group \in Nat \ {0} /\ max_ino \in Nat
         /\ InodesPerBlock \in Nat \ {0} /\ LostFoundIno \in Nat \ {0}
         /\ LostFoundIno <= max_ino /\ max_ino <= inodes_per_group * groups
<1>1. groups \in Nat \ {0}
  BY GroupsHoldImage
<1>2. PICK t \in Nat \ {0}, u \in Nat \ {0} : t = input.itable /\ u = InodesPerBlock
  BY Parameters, SealAssumption
<1>3. PICK p \in Nat : p = t * u /\ p # 0
  OBVIOUS
<1>4. inodes_per_group = p
  BY <1>2, <1>3 DEF inodes_per_group
<1>5. PICK n \in Nat \ {0} : n = Len(input.inodes)
  BY OwnersAre
<1>6. PICK f \in Nat \ {0} : f = LostFoundIno
  BY SealAssumption
<1>7. max_ino = f + n - 1
  BY <1>5, <1>6 DEF max_ino
<1>8. max_ino \in Nat /\ f <= max_ino
  BY <1>7
<1>9. inodes_count = p * groups
  BY <1>2, <1>3 DEF inodes_count
<1>10. max_ino <= inodes_count
  BY DEF GeometryOK
<1>11. QED
  BY <1>1, <1>2, <1>3, <1>4, <1>6, <1>8, <1>9, <1>10

\* The inodes a group has in use are those up to the last number.
LEMMA UsedInodes ==
  ASSUME input \in Inputs, GeometryOK, NEW g \in Nat
  PROVE  /\ used_inodes_in_group(g) \in Nat /\ used_inodes_in_group(g) <= inodes_per_group
         /\ \A i \in 0 .. inodes_per_group - 1 :
              i < used_inodes_in_group(g) <=> g * inodes_per_group + i + 1 <= max_ino
<1>1. PICK p \in Nat \ {0}, m \in Nat : p = inodes_per_group /\ m = max_ino
  BY InodeCounts
<1>2. PICK a \in Nat : a = g * p
  OBVIOUS
<1>3. PICK z \in Int : z = m - a
  OBVIOUS
<1>4. PICK x \in Nat : x = Max({z, 0}) /\ x = IF z > 0 THEN z ELSE 0
  <2>1. \E y \in {z, 0} : \A w \in {z, 0} : y >= w
    OBVIOUS
  <2>2. Max({z, 0}) \in {z, 0} /\ \A w \in {z, 0} : Max({z, 0}) >= w
    BY <2>1 DEF Max
  <2>3. QED
    BY <2>2
<1>5. used_inodes_in_group(g) = Least(x, p)
  <2>1. used_inodes_in_group(g) = Least(Max({max_ino - g * inodes_per_group, 0}), inodes_per_group)
    BY DEF used_inodes_in_group
  <2>2. max_ino - g * inodes_per_group = z
    BY <1>1, <1>2, <1>3
  <2>3. QED
    BY <1>1, <1>4, <2>1, <2>2, Zenon
<1>6. Least(x, p) \in Nat /\ Least(x, p) <= p
  BY DEF Least
<1>7. ASSUME NEW i \in 0 .. p - 1
      PROVE  i < Least(x, p) <=> a + i + 1 <= m
  BY <1>3, <1>4 DEF Least
<1>8. QED
  BY <1>1, <1>2, <1>5, <1>6, <1>7

LEMMA PlaceOfInode ==
  ASSUME input \in Inputs, GeometryOK, NEW ino \in 1 .. inodes_per_group * groups
  PROVE  \E g \in Groups, i \in 0 .. inodes_per_group - 1 :
           /\ PlaceOf(ino) = [group |-> g, index |-> i] /\ ino = g * inodes_per_group + i + 1
           /\ g \in Nat
<1>1. PICK p \in Nat \ {0}, n \in Nat \ {0} : p = inodes_per_group /\ n = groups
  BY InodeCounts
<1>2. PICK w \in Nat : w = p * n
  OBVIOUS
<1>3. PICK u \in Nat : u = ino - 1 /\ u < w
  BY <1>1, <1>2
<1>4. PICK g \in Nat, i \in 0 .. p - 1 : g = u \div p /\ i = u % p /\ u = p * g + i
  BY QuotientAndRest
<1>5. g < n
  <2>1. u < n * p
    BY <1>2, <1>3
  <2>2. QED
    BY <1>4, <2>1, BelowBlock
<1>6. g \in Groups
  BY <1>1, <1>5 DEF Groups
<1>7. PlaceOf(ino) = [group |-> g, index |-> i]
  BY <1>1, <1>3, <1>4 DEF PlaceOf
<1>8. ino = g * p + i + 1
  <2>1. g * p = p * g /\ g * p \in Nat
    OBVIOUS
  <2>2. QED
    BY <1>3, <1>4, <2>1
<1>9. QED
  BY <1>1, <1>6, <1>7, <1>8

\* Every number is at one place.
LEMMA InodeAtPlace ==
  ASSUME input \in Inputs, GeometryOK, NEW g \in Groups, NEW i \in 0 .. inodes_per_group - 1
  PROVE  /\ g * inodes_per_group + i + 1 \in 1 .. inodes_per_group * groups
         /\ PlaceOf(g * inodes_per_group + i + 1) = [group |-> g, index |-> i]
<1>1. PICK p \in Nat \ {0}, n \in Nat \ {0} : p = inodes_per_group /\ n = groups
  BY InodeCounts
<1>2. g \in Nat /\ g < n /\ i \in 0 .. p - 1
  BY <1>1 DEF Groups
<1>3. PICK a \in Nat : a = g * p
  BY <1>2
<1>4. PICK u \in Nat : u = a + i
  BY <1>2
<1>5. u < n * p /\ n * p = p * n /\ p * n \in Nat
  <2>1. (g + 1) * p <= n * p
    <3>1. g + 1 \in Int /\ g + 1 <= n
      BY <1>2
    <3>2. QED
      BY <3>1, TimesKeepsOrder
  <2>2. (g + 1) * p = a + p
    BY <1>2, <1>3
  <2>3. QED
    BY <1>2, <1>4, <2>1, <2>2
<1>6. PICK d \in Nat, m \in 0 .. p - 1 : d = u \div p /\ m = u % p /\ u = p * d + m
  BY QuotientAndRest
<1>7. d = g /\ m = i
  <2>1. PICK v \in 1 .. p, w \in 1 .. p : v = m + 1 /\ w = i + 1
    BY <1>1, <1>6
  <2>2. p * d + v = p * g + w
    <3>1. p * g = a /\ p * d \in Nat
      BY <1>2, <1>3
    <3>2. QED
      BY <1>4, <1>6, <2>1, <3>1
  <2>3. d = g /\ v = w
    BY <1>2, <2>2, OneQuotient
  <2>4. QED
    BY <1>2, <2>1, <2>3
<1>8. PICK ino \in Nat : ino = g * p + i + 1
  BY <1>2, <1>3
<1>9. ino - 1 = u /\ ino \in 1 .. p * n
  BY <1>2, <1>3, <1>4, <1>5, <1>8
<1>10. PlaceOf(ino) = [group |-> g, index |-> i]
  BY <1>1, <1>6, <1>7, <1>9 DEF PlaceOf
<1>11. QED
  BY <1>1, <1>8, <1>9, <1>10
-----------------------------------------------------------------------------
(* Groups. *)

LEMMA DescriptorBlocks ==
  ASSUME input \in Inputs
  PROVE  /\ DescsPerBlock \in Nat \ {0} /\ GdtBlocks \in Nat \ {0}
         /\ \A g \in Groups : g \div DescsPerBlock \in 0 .. GdtBlocks - 1
         /\ \A k \in 0 .. GdtBlocks - 1 : \E g \in Groups : g \div DescsPerBlock = k
<1>1. PICK d \in Nat \ {0}, c \in Nat \ {0}, n \in Nat \ {0} : d = DescsPerBlock /\ c = GdtBlocks /\ n = groups
  BY Parameters, GroupsHoldImage, VolumeAssumption
<1>2. c = CeilDiv(n, d)
  BY <1>1, VolumeAssumption DEF groups
<1>3. d * c - d < n /\ n <= d * c
  BY <1>2, CeilOf
<1>4. d * c = c * d /\ c * d \in Nat
  OBVIOUS
<1>5. ASSUME NEW g \in Groups PROVE g \div d \in 0 .. c - 1
  <2>1. g \in Nat /\ g < c * d
    BY <1>1, <1>3, <1>4 DEF Groups
  <2>2. g \div d < c /\ g \div d \in Nat
    BY <2>1, BelowBlock, QuotientAndRest
  <2>3. QED
    BY <2>2
<1>6. ASSUME NEW k \in 0 .. c - 1 PROVE \E g \in Groups : g \div d = k
  <2>1. PICK g \in Nat : g = k * d
    OBVIOUS
  <2>2. k * d <= (c - 1) * d
    <3>1. k <= c - 1 /\ k \in Int /\ c - 1 \in Int
      OBVIOUS
    <3>2. QED
      BY <3>1, TimesKeepsOrder
  <2>3. (c - 1) * d = d * c - d
    OBVIOUS
  <2>4. g < n
    BY <1>3, <1>4, <2>1, <2>2, <2>3
  <2>5. g \in Groups
    BY <1>1, <2>4 DEF Groups
  <2>6. g \div d = k
    <3>1. PICK q \in Nat, r \in 0 .. d - 1 : q = g \div d /\ g = d * q + r
      BY QuotientAndRest
    <3>2. PICK v \in 1 .. d, w \in 1 .. d : v = r + 1 /\ w = 1
      OBVIOUS
    <3>3. d * q + v = d * k + w
      <4>1. d * k = g /\ d * q \in Nat
        BY <2>1
      <4>2. QED
        BY <3>1, <3>2, <4>1
    <3>4. q = k
      BY <3>3, OneQuotient
    <3>5. QED
      BY <3>1, <3>4
  <2>7. QED
    BY <2>5, <2>6
<1>7. QED
  BY <1>1, <1>5, <1>6

LEMMA DescriptorIsRead ==
  ASSUME input \in Inputs, FixedReads, NEW g \in Groups
  PROVE  /\ 1 + g \div DescsPerBlock \notin lost => group_desc(g) = Descriptor(g)
         /\ 1 + g \div DescsPerBlock \in lost => group_desc(g) = ZeroDesc
         /\ Descriptor(g) # ZeroDesc
<1>1. PICK k \in 0 .. GdtBlocks - 1 : k = g \div DescsPerBlock
  BY DescriptorBlocks
<1>2. Reads(1 + k, GdtBlock(k))
  BY DEF FixedReads
<1>3. ASSUME 1 + k \notin lost PROVE group_desc(g) = Descriptor(g)
  <2>1. image[1 + k] = GdtBlock(k)
    BY <1>2, <1>3 DEF Reads
  <2>2. GdtBlock(k).what = "gdt" /\ GdtBlock(k).descs[g] = Descriptor(g)
    BY <1>1 DEF GdtBlock, Groups
  <2>3. QED
    BY <1>1, <2>1, <2>2 DEF group_desc
<1>4. ASSUME 1 + k \in lost PROVE group_desc(g) = ZeroDesc
  <2>1. image[1 + k] = Zeros
    BY <1>2, <1>4 DEF Reads
  <2>2. Zeros.what # "gdt"
    BY DEF Zeros
  <2>3. QED
    BY <1>1, <2>1, <2>2 DEF group_desc
<1>5. Descriptor(g) # ZeroDesc
  <2>1. Descriptor(g).block_bitmap_csum = <<block_bits(g)>> /\ ZeroDesc.block_bitmap_csum = <<>>
    BY DEF Descriptor, ZeroDesc
  <2>2. <<block_bits(g)>> # <<>>
    OBVIOUS
  <2>3. QED
    BY <2>1, <2>2
<1>6. QED
  BY <1>1, <1>3, <1>4, <1>5

\* A block of bits reads as those bits, or as none when it had some.
LEMMA BitsAreRead ==
  ASSUME NEW b, NEW S, Reads(b, Bits(S))
  PROVE  IF b \in lost THEN BitsAt(b) = {} /\ S # {} ELSE BitsAt(b) = S
<1>1. Zeros.what # "bits"
  BY DEF Zeros
<1>2. CASE b \in lost
  <2>1. image[b] = Zeros /\ Bits(S) # Zeros
    BY <1>2 DEF Reads
  <2>2. S # {}
    BY <2>1 DEF Bits
  <2>3. BitsAt(b) = {}
    BY <1>1, <2>1 DEF BitsAt
  <2>4. QED
    BY <1>2, <2>2, <2>3
<1>3. CASE b \notin lost
  <2>1. image[b] = Bits(S)
    BY <1>3 DEF Reads
  <2>2. CASE S = {}
    BY <1>1, <1>3, <2>1, <2>2 DEF BitsAt, Bits
  <2>3. CASE S # {}
    <3>1. Bits(S).what = "bits" /\ Bits(S).bits = S
      BY <2>3 DEF Bits
    <3>2. QED
      BY <1>3, <2>1, <3>1 DEF BitsAt
  <2>4. QED
    BY <2>2, <2>3
<1>4. QED
  BY <1>2, <1>3

\* A group is clean exactly when its descriptor and its bitmaps are there.
LEMMA GroupCleanIs ==
  ASSUME input \in Inputs, FixedReads, NEW g \in Groups, GroupReads(g)
  PROVE  GroupClean(g) <=> {1 + g \div DescsPerBlock, Bb(g), Ib(g)} \cap lost = {}
<1>1. PICK dl : dl = 1 + g \div DescsPerBlock
  OBVIOUS
<1>2. /\ dl \notin lost => group_desc(g) = Descriptor(g)
      /\ dl \in lost => group_desc(g) = ZeroDesc
      /\ Descriptor(g) # ZeroDesc
  BY <1>1, DescriptorIsRead
<1>3. CASE dl \in lost
  <2>1. ~GroupClean(g)
    BY <1>2, <1>3 DEF GroupClean
  <2>2. QED
    BY <1>1, <1>3, <2>1
<1>4. CASE dl \notin lost
  <2>1. PICK d : d = Descriptor(g)
    OBVIOUS
  <2>2. /\ d.block_bitmap = Bb(g) /\ d.inode_bitmap = Ib(g) /\ d.uninit = IsUninit(g)
        /\ d.block_bitmap_csum = <<block_bits(g)>> /\ d.inode_bitmap_csum = inode_bitmap_csum(g)
    BY <2>1 DEF Descriptor, Bb, Ib
  <2>3. group_desc(g) = d /\ d # ZeroDesc
    BY <1>2, <1>4, <2>1
  <2>4. PICK B, C : B = BitsAt(Bb(g)) /\ C = BitsAt(Ib(g))
    OBVIOUS
  <2>5. GroupClean(g) <=>
          /\ <<B>> = <<block_bits(g)>>
          /\ Padding(blocks_in_group(g)) \subseteq B
          /\ IF IsUninit(g) THEN inode_bitmap_csum(g) = <<>>
             ELSE <<C>> = inode_bitmap_csum(g) /\ Padding(inodes_per_group) \subseteq C
    BY <2>2, <2>3, <2>4 DEF GroupClean
  <2>6. Padding(blocks_in_group(g)) \subseteq block_bits(g)
    BY DEF block_bits
  <2>7. IF Bb(g) \in lost THEN B = {} /\ block_bits(g) # {} ELSE B = block_bits(g)
    BY <2>4, BitsAreRead DEF GroupReads
  <2>8. IF Ib(g) \in lost THEN C = {} /\ inode_bits(g) # {} ELSE C = inode_bits(g)
    BY <2>4, BitsAreRead DEF GroupReads
  <2>9. <<B>> = <<block_bits(g)>> <=> Bb(g) \notin lost
    BY <2>7
  <2>10. CASE IsUninit(g)
    <3>1. inode_bits(g) = {} /\ inode_bitmap_csum(g) = <<>>
      BY <2>10 DEF inode_bits, inode_bitmap_csum
    <3>2. Ib(g) \notin lost
      BY <2>8, <3>1
    <3>3. QED
      BY <1>1, <1>4, <2>5, <2>6, <2>7, <2>9, <2>10, <3>1, <3>2
  <2>11. CASE ~IsUninit(g)
    <3>1. inode_bitmap_csum(g) = <<inode_bits(g)>> /\ Padding(inodes_per_group) \subseteq inode_bits(g)
      BY <2>11 DEF inode_bits, inode_bitmap_csum
    <3>2. <<C>> = inode_bitmap_csum(g) <=> Ib(g) \notin lost
      BY <2>8, <3>1
    <3>3. GroupClean(g) <=> Bb(g) \notin lost /\ Ib(g) \notin lost
      BY <2>5, <2>6, <2>7, <2>8, <2>9, <2>11, <3>1, <3>2
    <3>4. QED
      BY <1>1, <1>4, <3>3
  <2>12. QED
    BY <2>10, <2>11
<1>5. QED
  BY <1>3, <1>4
-----------------------------------------------------------------------------
(* Inodes. *)

\* What is known of the image, all told.
AllReads ==
  /\ input \in Inputs /\ GeometryOK /\ MetaPlaced /\ PlansPlaced /\ FixedReads
  /\ \A g \in Groups : GroupReads(g)
  /\ \A s \in Owners : OwnerReads(s)
  /\ \A s \in Owners : Follows(plans[s].runs, SegsOf(s))
GroupsClean == \A g \in Groups : GroupClean(g)

LEMMA InodeInUse ==
  ASSUME AllReads, GroupsClean, NEW ino \in 1 .. inodes_per_group * groups
  PROVE  inode_in_use(ino) <=> ino <= max_ino
<1>1. PICK g \in Groups, i \in 0 .. inodes_per_group - 1 :
        /\ PlaceOf(ino) = [group |-> g, index |-> i] /\ ino = g * inodes_per_group + i + 1
        /\ g \in Nat
  BY PlaceOfInode DEF AllReads
<1>2. /\ input \in Inputs /\ GeometryOK /\ FixedReads /\ GroupReads(g) /\ GroupClean(g)
  BY DEF AllReads, GroupsClean
<1>3. 1 + g \div DescsPerBlock \notin lost /\ Bb(g) \notin lost /\ Ib(g) \notin lost
  BY <1>2, GroupCleanIs
<1>4. group_desc(g) = Descriptor(g)
  BY <1>2, <1>3, DescriptorIsRead
<1>5. BitsAt(Ib(g)) = inode_bits(g)
  BY <1>2, <1>3, BitsAreRead DEF GroupReads
<1>6. inode_in_use(ino) <=> ~IsUninit(g) /\ i \in inode_bits(g)
  <2>1. PlaceOf(ino).group = g /\ PlaceOf(ino).index = i
    BY <1>1
  <2>2. Descriptor(g).uninit = IsUninit(g) /\ Descriptor(g).inode_bitmap = Ib(g)
    BY DEF Descriptor, Ib
  <2>3. QED
    BY <1>4, <1>5, <2>1, <2>2 DEF inode_in_use
<1>7. PICK u \in Nat, p \in Nat \ {0} : u = used_inodes_in_group(g) /\ p = inodes_per_group
  BY <1>1, <1>2, UsedInodes, InodeCounts
<1>8. i < u <=> ino <= max_ino
  BY <1>1, <1>2, <1>7, UsedInodes
<1>9. IsUninit(g) <=> u = 0
  BY <1>7 DEF IsUninit
<1>10. i \in Padding(inodes_per_group) <=> FALSE
  BY <1>7 DEF Padding
<1>11. ~IsUninit(g) => (i \in inode_bits(g) <=> i < u)
  <2>1. ~IsUninit(g) => inode_bits(g) = (0 .. u - 1) \cup Padding(inodes_per_group)
    BY <1>7 DEF inode_bits
  <2>2. i \in 0 .. u - 1 <=> i < u
    BY <1>7
  <2>3. QED
    BY <1>10, <2>1, <2>2
<1>12. i < u => u # 0
  BY <1>7
<1>13. QED
  BY <1>6, <1>8, <1>9, <1>11, <1>12

LEMMA InUseIs ==
  ASSUME AllReads, GroupsClean
  PROVE  InUse = 1 .. max_ino /\ \A ino \in 1 .. LostFoundIno - 1 : inode_in_use(ino)
<1>1. PICK p \in Nat \ {0}, n \in Nat \ {0}, m \in Nat, f \in Nat \ {0} :
        /\ p = inodes_per_group /\ n = groups /\ m = max_ino /\ f = LostFoundIno
        /\ f <= m /\ m <= p * n
  BY InodeCounts DEF AllReads
<1>2. PICK w \in Nat : w = p * n
  OBVIOUS
<1>3. \A ino \in 1 .. w : inode_in_use(ino) <=> ino <= m
  BY <1>1, <1>2, InodeInUse
<1>4. InUse = {ino \in 1 .. w : inode_in_use(ino)}
  BY <1>1, <1>2 DEF InUse
<1>5. InUse = 1 .. m
  BY <1>1, <1>2, <1>3, <1>4
<1>6. \A ino \in 1 .. f - 1 : inode_in_use(ino)
  BY <1>1, <1>2, <1>3
<1>7. QED
  BY <1>1, <1>5, <1>6

InodeBlock(ino) == It(PlaceOf(ino).group) + PlaceOf(ino).index \div InodesPerBlock

LEMMA BlockOfInode ==
  ASSUME input \in Inputs, GeometryOK, NEW ino \in 1 .. max_ino
  PROVE  \E g \in Groups, k \in Nat, j \in 0 .. InodesPerBlock - 1 :
           /\ PlaceOf(ino).group = g /\ PlaceOf(ino).index \div InodesPerBlock = k
           /\ PlaceOf(ino).index % InodesPerBlock = j
           /\ k \in 0 .. used_itable(g) - 1
           /\ g * inodes_per_group + k * InodesPerBlock + j + 1 = ino
<1>1. PICK p \in Nat \ {0}, n \in Nat \ {0}, m \in Nat, b \in Nat \ {0} :
        /\ p = inodes_per_group /\ n = groups /\ m = max_ino /\ m <= p * n /\ b = InodesPerBlock
  BY InodeCounts
<1>2. ino \in 1 .. inodes_per_group * groups
  <2>1. PICK w \in Nat : w = p * n
    OBVIOUS
  <2>2. ino \in 1 .. w
    BY <1>1, <2>1
  <2>3. QED
    BY <1>1, <2>1, <2>2
<1>3. PICK g \in Groups, i \in 0 .. inodes_per_group - 1 :
        /\ PlaceOf(ino) = [group |-> g, index |-> i] /\ ino = g * inodes_per_group + i + 1
        /\ g \in Nat
  BY <1>2, PlaceOfInode
<1>4. PICK u \in Nat : u = used_inodes_in_group(g)
  BY <1>3, UsedInodes
<1>5. i < u
  <2>1. i < used_inodes_in_group(g) <=> g * inodes_per_group + i + 1 <= max_ino
    BY <1>3, UsedInodes
  <2>2. ino <= max_ino
    BY <1>1
  <2>3. QED
    BY <1>3, <1>4, <2>1, <2>2
<1>6. i \in Nat
  BY <1>1
<1>7. PICK k \in Nat, j \in 0 .. b - 1 : k = i \div b /\ j = i % b /\ i = b * k + j
  <2>1. i \div b \in Nat /\ i % b \in 0 .. b - 1 /\ i = b * (i \div b) + (i % b)
    BY <1>6, QuotientAndRest
  <2>2. QED
    BY <2>1
<1>8. PICK c \in Nat : c = used_itable(g) /\ u <= b * c
  BY <1>1, <1>4, CeilOf DEF used_itable
<1>9. k < c
  <2>1. b * c = c * b /\ b * c \in Nat
    OBVIOUS
  <2>2. i < c * b
    BY <1>5, <1>6, <1>8, <2>1
  <2>3. QED
    BY <1>6, <1>7, <2>2, BelowBlock
<1>10. g * p + k * b + j + 1 = ino
  <2>1. PICK a \in Nat : a = g * p
    BY <1>3
  <2>2. PICK d \in Nat : d = k * b /\ d = b * k
    OBVIOUS
  <2>3. ino = a + i + 1 /\ i = d + j
    BY <1>1, <1>3, <1>7, <2>1, <2>2
  <2>4. a + d + j + 1 = a + i + 1
    BY <2>3
  <2>5. QED
    BY <2>1, <2>2, <2>3, <2>4
<1>11. PlaceOf(ino).group = g /\ PlaceOf(ino).index = i
  BY <1>3
<1>12. k \in 0 .. used_itable(g) - 1
  BY <1>8, <1>9
<1>13. QED
  BY <1>1, <1>7, <1>10, <1>11, <1>12

LEMMA InodeIsRead ==
  ASSUME AllReads, GroupsClean, NEW ino \in 1 .. max_ino
  PROVE  inode_raw(ino) = IF InodeBlock(ino) \in lost THEN ReservedInode(0) ELSE InodeSlot(ino)
<1>1. PICK g \in Groups, k \in Nat, j \in 0 .. InodesPerBlock - 1 :
        /\ PlaceOf(ino).group = g /\ PlaceOf(ino).index \div InodesPerBlock = k
        /\ PlaceOf(ino).index % InodesPerBlock = j
        /\ k \in 0 .. used_itable(g) - 1
        /\ g * inodes_per_group + k * InodesPerBlock + j + 1 = ino
  BY BlockOfInode DEF AllReads
<1>2. input \in Inputs /\ FixedReads /\ GroupReads(g) /\ GroupClean(g)
  BY DEF AllReads, GroupsClean
<1>3. 1 + g \div DescsPerBlock \notin lost
  BY <1>2, GroupCleanIs
<1>4. group_desc(g) = Descriptor(g)
  BY <1>2, <1>3, DescriptorIsRead
<1>5. group_desc(g).inode_table = It(g)
  BY <1>4 DEF Descriptor, It
<1>6. PICK b : b = It(g) + k
  OBVIOUS
<1>7. InodeBlock(ino) = b
  BY <1>1, <1>6 DEF InodeBlock
<1>8. Reads(b, TableBlock(g, k))
  BY <1>1, <1>2, <1>6 DEF GroupReads
<1>9. inode_raw(ino) = IF image[b].what = "inodes" THEN image[b].inodes[j] ELSE ReservedInode(0)
  BY <1>1, <1>5, <1>6 DEF inode_raw
<1>10. TableBlock(g, k).what = "inodes" /\ TableBlock(g, k).inodes[j] = InodeSlot(ino)
  <2>1. TableBlock(g, k).inodes[j] = InodeSlot(g * inodes_per_group + k * InodesPerBlock + j + 1)
    BY DEF TableBlock
  <2>2. TableBlock(g, k).what = "inodes"
    BY DEF TableBlock
  <2>3. QED
    BY <1>1, <2>1, <2>2
<1>11. Zeros.what # "inodes"
  BY DEF Zeros
<1>12. QED
  BY <1>7, <1>8, <1>9, <1>10, <1>11 DEF Reads
-----------------------------------------------------------------------------
(* What the inodes hold. *)

\* Every inode with content has a number of its own, and these are all but
\* the reserved ones.
LEMMA InodeNumbers ==
  ASSUME input \in Inputs, GeometryOK
  PROVE  /\ \A s \in Owners : ino_of(s) \in 1 .. max_ino
         /\ \A s, t \in Owners : ino_of(s) = ino_of(t) => s = t
         /\ \A ino \in 1 .. max_ino :
              ino \notin 1 .. LostFoundIno - 1 \ {RootIno, JournalIno} =>
                \E s \in Owners : ino_of(s) = ino
         /\ \A s \in Owners : ino_of(s) \notin 1 .. LostFoundIno - 1 \ {RootIno, JournalIno}
         /\ ino_of(-1) = JournalIno /\ JournalIno \in 1 .. max_ino
<1>1. PICK f \in Nat \ {0} : f = LostFoundIno
  BY SealAssumption
<1>2. PICK r \in 1 .. f - 1, j \in 1 .. f - 1 : r = RootIno /\ j = JournalIno /\ r # j
  BY <1>1, VolumeAssumption
<1>3. PICK n \in Nat \ {0} : n = Len(input.inodes) /\ Slots = 1 .. n
  BY OwnersAre
<1>4. PICK m \in Nat : m = max_ino /\ m = f + n - 1
  <2>1. max_ino = f + n - 1
    BY <1>1, <1>3 DEF max_ino
  <2>2. PICK m \in Nat : m = f + n - 1
    OBVIOUS
  <2>3. QED
    BY <2>1, <2>2
<1>5. Owners = (1 .. n) \cup {0, -1}
  BY <1>3 DEF Owners
<1>6. ino_of(-1) = j /\ ino_of(0) = f /\ ino_of(1) = r
  BY <1>1, <1>2 DEF ino_of
<1>7. \A s \in 2 .. n : ino_of(s) = f + s - 1
  BY <1>1 DEF ino_of
<1>8. \A s \in Owners : s = -1 \/ s = 0 \/ s = 1 \/ s \in 2 .. n
  BY <1>5
<1>9. \A s \in Owners : ino_of(s) \in 1 .. m
  <2>1. \A s \in 2 .. n : f + s - 1 \in 1 .. m
    BY <1>4
  <2>2. j \in 1 .. m /\ f \in 1 .. m /\ r \in 1 .. m
    BY <1>4
  <2>3. QED
    BY <1>6, <1>7, <1>8, <2>1, <2>2
<1>10. ASSUME NEW s \in Owners, NEW t \in Owners, ino_of(s) = ino_of(t) PROVE s = t
  <2>1. \A u \in 2 .. n : f + u - 1 > f
    OBVIOUS
  <2>2. \A u \in 2 .. n, v \in 2 .. n : f + u - 1 = f + v - 1 => u = v
    OBVIOUS
  <2>3. j < f /\ r < f
    OBVIOUS
  <2>4. CASE s \in 2 .. n
    BY <1>6, <1>7, <1>8, <1>10, <2>1, <2>2, <2>3, <2>4
  <2>5. CASE s = -1 \/ s = 0 \/ s = 1
    BY <1>2, <1>6, <1>7, <1>8, <1>10, <2>1, <2>3, <2>5
  <2>6. QED
    BY <1>8, <2>4, <2>5
<1>11. ASSUME NEW ino \in 1 .. m, ino \notin 1 .. f - 1 \ {r, j}
       PROVE  \E s \in Owners : ino_of(s) = ino
  <2>1. CASE ino = r \/ ino = j \/ ino = f
    BY <1>5, <1>6, <2>1
  <2>2. CASE ino > f
    <3>1. PICK s \in 2 .. n : s = ino - f + 1
      BY <1>4, <2>2
    <3>2. f + s - 1 = ino
      BY <3>1
    <3>3. s \in Owners
      BY <1>5
    <3>4. QED
      BY <1>7, <3>2, <3>3
  <2>3. QED
    BY <1>11, <2>1, <2>2
<1>12. ASSUME NEW s \in Owners PROVE ino_of(s) \notin 1 .. f - 1 \ {r, j}
  <2>1. \A u \in 2 .. n : f + u - 1 > f
    OBVIOUS
  <2>2. QED
    BY <1>6, <1>7, <1>8, <2>1
<1>13. QED
  BY <1>1, <1>2, <1>4, <1>5, <1>6, <1>9, <1>10, <1>11, <1>12

LEMMA SlotOfInode ==
  ASSUME input \in Inputs, GeometryOK
  PROVE  /\ \A s \in Owners : InodeSlot(ino_of(s)) = InodeOf(s)
         /\ \A ino \in 1 .. max_ino : InodeSlot(ino).ino = ino
<1>1. ASSUME NEW s \in Owners PROVE InodeSlot(ino_of(s)) = InodeOf(s)
  <2>1. PICK ino : ino = ino_of(s)
    OBVIOUS
  <2>2. (CHOOSE t \in Owners : ino_of(t) = ino) = s
    BY <2>1, InodeNumbers
  <2>3. \E t \in Owners : ino_of(t) = ino
    BY <2>1
  <2>4. QED
    BY <2>1, <2>2, <2>3 DEF InodeSlot
<1>2. ASSUME NEW ino \in 1 .. max_ino PROVE InodeSlot(ino).ino = ino
  <2>1. CASE \E s \in Owners : ino_of(s) = ino
    <3>1. PICK s \in Owners : ino_of(s) = ino
      BY <2>1
    <3>2. InodeSlot(ino) = InodeOf(s)
      BY <1>1, <3>1
    <3>3. QED
      BY <3>1, <3>2 DEF InodeOf
  <2>2. CASE ~\E s \in Owners : ino_of(s) = ino
    <3>1. ino \in 1 .. LostFoundIno - 1
      BY <2>2, InodeNumbers
    <3>2. InodeSlot(ino) = ReservedInode(ino)
      BY <2>2, <3>1 DEF InodeSlot
    <3>3. QED
      BY <3>2 DEF ReservedInode
  <2>3. QED
    BY <2>1, <2>2
<1>3. QED
  BY <1>1, <1>2

\* An inode is good exactly when its block of the table is there.
LEMMA InodeOKIs ==
  ASSUME AllReads, GroupsClean, NEW ino \in 1 .. max_ino
  PROVE  /\ InodeOK(ino) <=> InodeBlock(ino) \notin lost
         /\ InodeOK(ino) => inode_raw(ino) = InodeSlot(ino)
<1>1. inode_raw(ino) = IF InodeBlock(ino) \in lost THEN ReservedInode(0) ELSE InodeSlot(ino)
  BY InodeIsRead
<1>2. InodeSlot(ino).ino = ino
  BY SlotOfInode DEF AllReads
<1>3. ReservedInode(0).ino = 0
  BY DEF ReservedInode
<1>4. ino # 0
  <2>1. max_ino \in Nat
    BY InodeCounts DEF AllReads
  <2>2. QED
    BY <2>1
<1>5. QED
  BY <1>1, <1>2, <1>3, <1>4 DEF InodeOK

\* The blocks of the tables that are in use are those of the inodes in use.
LEMMA TablesAreInodes ==
  ASSUME input \in Inputs, GeometryOK
  PROVE  /\ \A ino \in 1 .. max_ino : InodeBlock(ino) \in GroupsNeed
         /\ \A g \in Groups : \A b \in TableRead(g) : \E ino \in 1 .. max_ino : InodeBlock(ino) = b
<1>1. ASSUME NEW ino \in 1 .. max_ino PROVE InodeBlock(ino) \in GroupsNeed
  <2>1. PICK g \in Groups, k \in Nat, j \in 0 .. InodesPerBlock - 1 :
          /\ PlaceOf(ino).group = g /\ PlaceOf(ino).index \div InodesPerBlock = k
          /\ PlaceOf(ino).index % InodesPerBlock = j
          /\ k \in 0 .. used_itable(g) - 1
          /\ g * inodes_per_group + k * InodesPerBlock + j + 1 = ino
    BY BlockOfInode
  <2>2. InodeBlock(ino) = It(g) + k
    BY <2>1 DEF InodeBlock
  <2>3. InodeBlock(ino) \in TableRead(g)
    BY <2>1, <2>2 DEF TableRead, It
  <2>4. QED
    BY <2>3 DEF GroupsNeed, Groups
<1>2. ASSUME NEW g \in Groups, NEW b \in TableRead(g)
      PROVE  \E ino \in 1 .. max_ino : InodeBlock(ino) = b
  <2>1. PICK k \in 0 .. used_itable(g) - 1 : b = It(g) + k
    BY DEF TableRead, It
  <2>2. PICK p \in Nat \ {0}, m \in Nat, n \in Nat \ {0} : p = inodes_per_group /\ m = max_ino /\ n = InodesPerBlock
    BY InodeCounts
  <2>3. PICK u \in Nat : u = used_inodes_in_group(g) /\ u <= p
    BY <2>2, UsedInodes DEF Groups
  <2>4. PICK c \in Nat : c = used_itable(g) /\ n * c - n < u
    BY <2>2, <2>3, CeilOf DEF used_itable
  <2>5. k \in Nat /\ k <= c - 1
    BY <2>1, <2>4
  <2>6. PICK i \in Nat : i = k * n
    BY <2>5
  <2>7. i < u
    <3>1. k * n <= (c - 1) * n
      <4>1. k \in Int /\ c - 1 \in Int
        BY <2>5
      <4>2. QED
        BY <2>5, <4>1, TimesKeepsOrder
    <3>2. (c - 1) * n = n * c - n
      OBVIOUS
    <3>3. QED
      BY <2>4, <2>6, <3>1, <3>2
  <2>8. i \in 0 .. p - 1
    BY <2>3, <2>7
  <2>9. PICK ino \in Nat : ino = g * inodes_per_group + i + 1
    BY <2>2 DEF Groups
  <2>10. ino <= m /\ 0 < ino
    <3>1. i < used_inodes_in_group(g) <=> g * inodes_per_group + i + 1 <= max_ino
      BY <2>2, <2>8, UsedInodes DEF Groups
    <3>2. PICK a \in Nat : a = g * inodes_per_group
      BY <2>2 DEF Groups
    <3>3. 0 < ino
      BY <2>9, <3>2
    <3>4. QED
      BY <2>2, <2>3, <2>7, <2>9, <3>1, <3>3
  <2>11. PlaceOf(ino) = [group |-> g, index |-> i]
    <3>1. i \in 0 .. inodes_per_group - 1
      BY <2>2, <2>8
    <3>2. QED
      BY <2>9, <3>1, InodeAtPlace
  <2>12. i \div n = k
    <3>1. PICK q \in Nat, r \in 0 .. n - 1 : q = i \div n /\ i = n * q + r
      BY QuotientAndRest
    <3>2. PICK v \in 1 .. n, w \in 1 .. n : v = r + 1 /\ w = 1
      OBVIOUS
    <3>3. n * q + v = n * k + w
      <4>1. n * k = i /\ n * q \in Nat
        BY <2>5, <2>6
      <4>2. QED
        BY <3>1, <3>2, <4>1
    <3>4. q = k
      BY <2>5, <3>3, OneQuotient
    <3>5. QED
      BY <3>1, <3>4
  <2>13. InodeBlock(ino) = b
    <3>1. PlaceOf(ino).group = g /\ PlaceOf(ino).index = i
      BY <2>11
    <3>2. QED
      BY <2>1, <2>2, <2>12, <3>1 DEF InodeBlock
  <2>14. ino \in 1 .. max_ino
    BY <2>2, <2>10
  <2>15. QED
    BY <2>13, <2>14
<1>3. QED
  BY <1>1, <1>2
-----------------------------------------------------------------------------
(* What an inode leads to. *)

\* A block that names its owner is good exactly when it is there.
LEMMA HeldForOwner ==
  ASSUME NEW s, NEW b, NEW what, what # "zeros", Reads(b, Owned(s, what))
  PROVE  HoldsFor(b, what, ino_of(s)) <=> b \notin lost
<1>1. Zeros.what = "zeros"
  BY DEF Zeros
<1>2. Owned(s, what).what = what /\ Owned(s, what).ino = ino_of(s)
  BY DEF Owned
<1>3. QED
  BY <1>1, <1>2 DEF Reads, HoldsFor

LEMMA TreeCleanIs ==
  ASSUME NEW s, OwnerReads(s)
  PROVE  ExtentsOK(InodeOf(s)) <=> plans[s].tree \cap lost = {}
<1>1. InodeOf(s).tree = plans[s].tree /\ InodeOf(s).ino = ino_of(s)
  BY DEF InodeOf
<1>2. \A b \in plans[s].tree : HoldsFor(b, "tree", ino_of(s)) <=> b \notin lost
  BY HeldForOwner DEF OwnerReads
<1>3. QED
  BY <1>1, <1>2 DEF ExtentsOK

LEMMA AttributesCleanIs ==
  ASSUME NEW s, OwnerReads(s)
  PROVE  (\A b \in InodeOf(s).acl : image[b] = AttributeBlock(b)) <=> plans[s].acl \cap lost = {}
<1>1. InodeOf(s).acl = plans[s].acl
  BY DEF InodeOf
<1>2. ASSUME NEW b \in plans[s].acl PROVE image[b] = AttributeBlock(b) <=> b \notin lost
  <2>1. Reads(b, AttributeBlock(b))
    BY DEF OwnerReads
  <2>2. AttributeBlock(b).what = "attributes" /\ Zeros.what = "zeros"
    BY DEF AttributeBlock, Zeros
  <2>3. AttributeBlock(b) # Zeros
    BY <2>2
  <2>4. QED
    BY <2>1, <2>3 DEF Reads
<1>3. QED
  BY <1>1, <1>2

\* The logical blocks of an inode's extents ascend.
InOrder(inode) ==
  \A i \in DOMAIN inode.extents :
    i < Len(inode.extents) =>
      inode.extents[i].logical + inode.extents[i].len <= inode.extents[i + 1].logical

\* All that the verifier can find in the extents is their order: they end
\* inside the image.
LEMMA ExtentsCleanIs ==
  ASSUME NEW runs \in Seq(Run), \A b \in Given(runs) : InsideFree(b), input.blocks \in Nat,
         NEW segs, NEW inode, inode.extents = Extents(runs, segs)
  PROVE  ExtentsClean(inode) <=> InOrder(inode)
<1>1. PICK e : e = inode.extents
  OBVIOUS
<1>2. DOMAIN e = DOMAIN runs /\ \A i \in DOMAIN runs : e[i].start = runs[i].start /\ e[i].len = runs[i].len
  BY <1>1 DEF Extents
<1>3. ASSUME NEW i \in DOMAIN e PROVE e[i].start + e[i].len <= input.blocks
  <2>1. i \in DOMAIN runs /\ e[i].start = runs[i].start /\ e[i].len = runs[i].len
    BY <1>2, <1>3
  <2>2. runs[i] \in Run
    BY <2>1
  <2>3. PICK a \in Nat, m \in Nat \ {0} : a = runs[i].start /\ m = runs[i].len
    BY <2>2 DEF Run
  <2>4. BlocksOf(runs[i]) = a .. (a + m) - 1
    BY <2>3 DEF BlocksOf, RunEnd
  <2>5. PICK b \in Nat : b = (a + m) - 1
    OBVIOUS
  <2>6. b \in Given(runs)
    BY <2>1, <2>4, <2>5 DEF Given
  <2>7. b < input.blocks
    BY <2>6 DEF InsideFree
  <2>8. a + m <= input.blocks
    BY <2>5, <2>7
  <2>9. QED
    BY <2>1, <2>3, <2>8
<1>4. ExtentsClean(inode) <=>
        \A i \in DOMAIN e : /\ e[i].start + e[i].len <= input.blocks
                            /\ i < Len(e) => e[i].logical + e[i].len <= e[i + 1].logical
  BY <1>1, Zenon DEF ExtentsClean
<1>5. InOrder(inode) <=> \A i \in DOMAIN e : i < Len(e) => e[i].logical + e[i].len <= e[i + 1].logical
  BY <1>1, Zenon DEF InOrder
<1>6. QED
  BY <1>3, <1>4, <1>5, Zenon

LEMMA ExtentsInOrder ==
  ASSUME NEW runs \in Seq(Run), NEW segs, SegsOK(segs), SegsFit(segs), Follows(runs, segs),
         NEW inode, inode.extents = Extents(runs, segs)
  PROVE  InOrder(inode)
<1>1. PICK e : e = Extents(runs, segs)
  OBVIOUS
<1>2. PICK n \in Nat : n = Len(runs) /\ DOMAIN runs = 1 .. n
  OBVIOUS
<1>3. DOMAIN e = 1 .. n /\ Len(e) = n /\ \A i \in DOMAIN runs : e[i].len = runs[i].len
  <2>1. DOMAIN e = 1 .. n /\ \A i \in DOMAIN runs : e[i].len = runs[i].len
    BY <1>1, <1>2 DEF Extents
  <2>2. e = [i \in 1 .. n |-> e[i]]
    BY <1>1, <1>2 DEF Extents
  <2>3. QED
    BY <2>1, <2>2, SMTT(30)
<1>4. ASSUME NEW i \in DOMAIN e, i < Len(e) PROVE e[i].logical + e[i].len <= e[i + 1].logical
  <2>1. PICK j \in DOMAIN runs : j = i + 1 /\ i < j /\ i \in DOMAIN runs
    BY <1>2, <1>3, <1>4
  <2>2. e[i].logical + runs[i].len <= e[j].logical
    BY <1>1, <2>1, ExtentsAscend
  <2>3. QED
    BY <1>3, <2>1, <2>2
<1>5. inode.extents = e
  BY <1>1
<1>6. QED
  BY <1>4, <1>5, Zenon DEF InOrder

\* The numbers of an inode without holes are those of blocks in the image.
LEMMA DenseFits ==
  ASSUME input \in Inputs, NEW runs \in Seq(Run), Ascend(runs), \A b \in Given(runs) : InsideFree(b),
         NEW n \in Nat \ {0}, Follows(runs, Whole(n))
  PROVE  SegsOK(Whole(n)) /\ SegsFit(Whole(n)) /\ Lengths(runs) = n
<1>1. Lengths(runs) = n
  BY WholeFacts DEF Follows
<1>2. IsFiniteSet(Given(runs)) /\ Cardinality(Given(runs)) = n
  BY <1>1, AscendingTile
<1>3. PICK m \in Nat : m = input.blocks /\ m < LogicalSpan
  BY Parameters, VolumeAssumption
<1>4. PICK z \in Int : z = m - 1
  OBVIOUS
<1>5. Given(runs) \subseteq 0 .. z
  BY <1>3, <1>4 DEF InsideFree
<1>6. IsFiniteSet(0 .. z) /\ Cardinality(0 .. z) = m
  <2>1. IsFiniteSet(0 .. z) /\ Cardinality(0 .. z) = IF 0 > z THEN 0 ELSE z - 0 + 1
    BY FS_Interval
  <2>2. (IF 0 > z THEN 0 ELSE z - 0 + 1) = m
    BY <1>4
  <2>3. QED
    BY <2>1, <2>2
<1>7. n <= m
  BY <1>2, <1>5, <1>6, FS_Subset
<1>8. LogicalSpan \in Nat
  BY VolumeAssumption
<1>9. n <= LogicalSpan
  BY <1>3, <1>7, <1>8
<1>10. SegsFit(Whole(n))
  <2>1. DOMAIN Whole(n) = {1} /\ Whole(n)[1].offset = 0 /\ Whole(n)[1].len = n
    BY WholeFacts
  <2>2. 0 + n = n
    OBVIOUS
  <2>3. QED
    BY <1>9, <2>1, <2>2 DEF SegsFit
<1>11. QED
  BY <1>1, <1>10, WholeFacts

\* The reader finds the blocks of such an inode in the order of its runs.
DenseLead(inode, runs) ==
  \A i \in DOMAIN runs : \A x \in Nat :
    x < runs[i].len => file_block(inode, Before(runs, i) + x) = {runs[i].start + x}
LEMMA DenseExtents ==
  ASSUME input \in Inputs, NEW runs \in Seq(Run), Ascend(runs), \A b \in Given(runs) : InsideFree(b),
         NEW n \in Nat \ {0}, Follows(runs, Whole(n)),
         NEW inode, inode.extents = Extents(runs, Whole(n))
  PROVE  DenseLead(inode, runs)
<1>1. PICK segs : segs = Whole(n)
  OBVIOUS
<1>2. SegsOK(segs) /\ SegsFit(segs) /\ Follows(runs, segs) /\ Lengths(runs) = n
  BY <1>1, DenseFits
<1>3. PICK e : e = Extents(runs, segs)
  OBVIOUS
<1>4. ExtentsLead(inode, runs, e)
  <2>1. ExtentsLead(inode, runs, Extents(runs, segs))
    BY <1>1, <1>2, ExtentFound
  <2>2. QED
    BY <1>3, <2>1
<1>5. ASSUME NEW i \in DOMAIN runs PROVE e[i].logical = Before(runs, i)
  <2>1. PICK m \in Nat : m = Len(runs) /\ DOMAIN runs = 1 .. m
    OBVIOUS
  <2>2. \A j \in 1 .. m : runs[j] \in Run
    BY <2>1
  <2>3. \A j \in 1 .. m : runs[j].len \in Nat \ {0}
    BY <2>2 DEF Run
  <2>4. 0 \in 0 .. runs[i].len - 1
    <3>1. PICK l \in Nat \ {0} : l = runs[i].len
      BY <2>1, <2>3
    <3>2. QED
      BY <3>1
  <2>5. Before(runs, i) \in Nat
    <3>1. \A j \in 1 .. m : runs[j].len \in Nat
      BY <2>3
    <3>2. \A j \in 1 .. m + 1 : Before(runs, j) \in Nat
      BY <2>1, <3>1, BeforeGrows
    <3>3. i \in 1 .. m + 1
      BY <2>1
    <3>4. QED
      BY <3>2, <3>3
  <2>6. PICK r \in Nat : r = Before(runs, i) /\ r < n
    <3>1. Before(runs, i) + 0 \in 0 .. Lengths(runs) - 1
      BY <2>4, LogicalBlocks
    <3>2. PICK r \in Nat : r = Before(runs, i)
      BY <2>5
    <3>3. r + 0 \in 0 .. n - 1
      BY <1>2, <3>1, <3>2
    <3>4. r < n
      BY <3>3
    <3>5. QED
      BY <3>2, <3>4
  <2>7. PICK k \in DOMAIN segs : k = 1 /\ segs[k].offset = 0 /\ segs[k].len = n /\ Before(segs, k) = 0
    BY <1>1, WholeFacts
  <2>8. r \in 0 .. segs[k].len - 1
    BY <2>6, <2>7
  <2>9. LogicalOf(segs, Before(segs, k) + r) = segs[k].offset + r
    BY <1>2, <2>8, LogicalIs
  <2>10. Before(segs, k) + r = r /\ segs[k].offset + r = r
    BY <2>6, <2>7
  <2>11. LogicalOf(segs, r) = r
    BY <2>9, <2>10
  <2>12. e[i].logical = LogicalOf(segs, Before(runs, i))
    BY <1>3 DEF Extents
  <2>13. QED
    BY <2>6, <2>11, <2>12
<1>6. QED
  BY <1>4, <1>5 DEF DenseLead, ExtentsLead
-----------------------------------------------------------------------------
(* What the verifier makes of it. *)

LEMMA DirContent ==
  ASSUME NEW s, s # -1, KindOf(s) = "dir", NEW l
  PROVE  ContentAt(s, l) = Owned(s, "dirents")
<1>1. ContentKind(s, l) = "dirents"
  BY DEF ContentKind
<1>2. QED
  BY <1>1 DEF ContentAt

LEMMA DirCleanIs ==
  ASSUME AllReads, NEW s \in Owners, KindOf(s) = "dir"
  PROVE  DirBlocksClean(InodeOf(s)) <=> Given(plans[s].runs) \cap lost = {}
<1>1. /\ input \in Inputs /\ OwnerReads(s) /\ s # -1 /\ plans[s].runs \in Seq(Run) /\ Ascend(plans[s].runs)
      /\ Follows(plans[s].runs, SegsOf(s)) /\ \A b \in Given(plans[s].runs) : InsideFree(b)
  BY OwnersAre DEF AllReads, PlansPlaced, PlanShape, PlanBlocks
<1>2. PICK runs \in Seq(Run) : runs = plans[s].runs
  BY <1>1
<1>3. PICK inode : /\ inode = InodeOf(s) /\ inode.ino = ino_of(s)
                   /\ inode.size = SizeOf(s) /\ inode.extents = Extents(runs, SegsOf(s))
  <2>1. /\ InodeOf(s).size = SizeOf(s) /\ InodeOf(s).extents = Extents(plans[s].runs, SegsOf(s))
        /\ InodeOf(s).ino = ino_of(s)
    BY DEF InodeOf
  <2>2. QED
    BY <1>2, <2>1
<1>4. PICK n \in Nat \ {0} : SegsOf(s) = Whole(n) /\ SizeOf(s) = n * BlockUnits
  BY <1>1, SegsFacts
<1>5. DenseLead(inode, runs) /\ Lengths(runs) = n
  <2>1. /\ input \in Inputs /\ Ascend(runs) /\ \A b \in Given(runs) : InsideFree(b)
    BY <1>1, <1>2
  <2>2. Follows(runs, Whole(n))
    BY <1>1, <1>2, <1>4
  <2>3. inode.extents = Extents(runs, Whole(n))
    BY <1>3, <1>4
  <2>4. QED
    BY <2>1, <2>2, <2>3, DenseFits, DenseExtents
<1>6. inode.size \div BlockUnits = n
  <2>1. PICK u \in Nat \ {0} : u = BlockUnits
    BY BlockUnitsAssumption
  <2>2. (n * u) \div u = n
    <3>1. PICK q \in Nat, r \in 0 .. u - 1 : q = (n * u) \div u /\ n * u = u * q + r
      <4>1. n * u \in Nat
        OBVIOUS
      <4>2. QED
        BY <4>1, QuotientAndRest
    <3>2. PICK v \in 1 .. u, w \in 1 .. u : v = r + 1 /\ w = 1
      OBVIOUS
    <3>3. u * q + v = u * n + w
      <4>1. u * n = n * u /\ u * n \in Nat /\ u * q \in Nat
        OBVIOUS
      <4>2. QED
        BY <3>1, <3>2, <4>1
    <3>4. q = n
      BY <3>3, OneQuotient
    <3>5. QED
      BY <3>1, <3>4
  <2>3. QED
    BY <1>3, <1>4, <2>1, <2>2
<1>7. DirBlocksClean(inode) <=>
        \A l \in 0 .. n - 1 : \E b \in file_block(inode, l) : HoldsFor(b, "dirents", inode.ino)
  BY <1>6, Zenon DEF DirBlocksClean
<1>8. ASSUME NEW i \in DOMAIN runs, NEW k \in 0 .. runs[i].len - 1
      PROVE  /\ Before(runs, i) + k \in 0 .. n - 1
             /\ file_block(inode, Before(runs, i) + k) = {runs[i].start + k}
             /\ HoldsFor(runs[i].start + k, "dirents", inode.ino) <=> runs[i].start + k \notin lost
  <2>1. Before(runs, i) + k \in 0 .. n - 1
    BY <1>5, LogicalBlocks
  <2>2. file_block(inode, Before(runs, i) + k) = {runs[i].start + k}
    <3>1. runs[i] \in Run
      OBVIOUS
    <3>2. k \in Nat /\ k < runs[i].len
      BY <3>1 DEF Run
    <3>3. QED
      BY <1>5, <3>2 DEF DenseLead
  <2>3. Reads(runs[i].start + k, Owned(s, "dirents"))
    <3>1. Reads(runs[i].start + k, ContentAt(s, Before(runs, i) + k))
      BY <1>1, <1>2 DEF OwnerReads
    <3>2. ContentAt(s, Before(runs, i) + k) = Owned(s, "dirents")
      BY <1>1, DirContent
    <3>3. QED
      BY <3>1, <3>2
  <2>4. QED
    BY <1>3, <2>1, <2>2, <2>3, HeldForOwner
<1>9. ASSUME NEW b \in Given(runs)
      PROVE  \E i \in DOMAIN runs : \E k \in 0 .. runs[i].len - 1 : b = runs[i].start + k
  <2>1. PICK i \in DOMAIN runs : b \in BlocksOf(runs[i])
    BY DEF Given
  <2>2. runs[i] \in Run
    BY <2>1
  <2>3. PICK a \in Nat, m \in Nat \ {0} : a = runs[i].start /\ m = runs[i].len
    BY <2>2 DEF Run
  <2>4. b \in a .. (a + m) - 1
    BY <2>1, <2>3 DEF BlocksOf, RunEnd
  <2>5. PICK k \in 0 .. m - 1 : b = a + k
    <3>1. b - a \in 0 .. m - 1 /\ b = a + (b - a)
      BY <2>4
    <3>2. QED
      BY <3>1
  <2>6. QED
    BY <2>1, <2>3, <2>5
<1>10. ASSUME NEW i \in DOMAIN runs, NEW k \in 0 .. runs[i].len - 1
      PROVE  runs[i].start + k \in Given(runs)
  <2>1. runs[i] \in Run
    OBVIOUS
  <2>2. PICK a \in Nat, m \in Nat \ {0} : a = runs[i].start /\ m = runs[i].len
    BY <2>1 DEF Run
  <2>3. BlocksOf(runs[i]) = a .. (a + m) - 1
    BY <2>2 DEF BlocksOf, RunEnd
  <2>4. a + k \in BlocksOf(runs[i])
    BY <2>2, <2>3
  <2>5. QED
    BY <2>2, <2>4 DEF Given
<1>11. ASSUME DirBlocksClean(inode), NEW b \in Given(runs) PROVE b \notin lost
  <2>1. PICK i \in DOMAIN runs : \E k \in 0 .. runs[i].len - 1 : b = runs[i].start + k
    BY <1>9
  <2>2. PICK k \in 0 .. runs[i].len - 1 : b = runs[i].start + k
    BY <2>1
  <2>3. PICK l \in 0 .. n - 1 : l = Before(runs, i) + k
    BY <1>8
  <2>4. file_block(inode, l) = {b} /\ (HoldsFor(b, "dirents", inode.ino) <=> b \notin lost)
    BY <1>8, <2>2, <2>3
  <2>5. \E c \in file_block(inode, l) : HoldsFor(c, "dirents", inode.ino)
    BY <1>11, <1>7
  <2>6. QED
    BY <2>4, <2>5
<1>12. ASSUME Given(runs) \cap lost = {}, NEW l \in 0 .. n - 1
      PROVE  \E b \in file_block(inode, l) : HoldsFor(b, "dirents", inode.ino)
  <2>1. \A x \in 0 .. Lengths(runs) - 1 :
          \E i \in DOMAIN runs : \E k \in 0 .. runs[i].len - 1 : x = Before(runs, i) + k
    BY LogicalBlocks
  <2>2. PICK i \in DOMAIN runs : \E k \in 0 .. runs[i].len - 1 : l = Before(runs, i) + k
    BY <1>5, <2>1
  <2>3. PICK k \in 0 .. runs[i].len - 1 : l = Before(runs, i) + k
    BY <2>2
  <2>4. PICK b : b = runs[i].start + k
    OBVIOUS
  <2>5. file_block(inode, l) = {b} /\ (HoldsFor(b, "dirents", inode.ino) <=> b \notin lost)
    BY <1>8, <2>3, <2>4
  <2>6. b \notin lost
    BY <1>10, <1>12, <2>4
  <2>7. QED
    BY <2>5, <2>6
<1>13. DirBlocksClean(inode) <=> Given(runs) \cap lost = {}
  <2>1. Given(runs) \cap lost = {} => DirBlocksClean(inode)
    BY <1>12, <1>7
  <2>2. DirBlocksClean(inode) => Given(runs) \cap lost = {}
    BY <1>11
  <2>3. QED
    BY <2>1, <2>2
<1>14. QED
  BY <1>2, <1>3, <1>13


\* The blocks that must be there for an inode's content to be clean.
OwnerNeeds(s) ==
  plans[s].acl \cup plans[s].tree \cup (IF s \in DirOwners THEN Given(plans[s].runs) ELSE {})
LEMMA ContentCleanIs ==
  ASSUME AllReads, NEW s \in Owners
  PROVE  ContentClean(InodeOf(s)) <=> OwnerNeeds(s) \cap lost = {} /\ InOrder(InodeOf(s))
<1>1. OwnerReads(s) /\ plans[s].runs \in Seq(Run) /\ input \in Inputs
  BY DEF AllReads, PlansPlaced, PlanShape
<1>2. PICK inode : /\ inode = InodeOf(s) /\ inode.extents = Extents(plans[s].runs, SegsOf(s))
                   /\ inode.kind = KindOf(s) /\ inode.size = SizeOf(s)
  <2>1. /\ InodeOf(s).extents = Extents(plans[s].runs, SegsOf(s)) /\ InodeOf(s).kind = KindOf(s)
        /\ InodeOf(s).size = SizeOf(s)
    BY DEF InodeOf
  <2>2. QED
    BY <2>1
<1>3. \A b \in Given(plans[s].runs) : InsideFree(b)
  BY DEF AllReads, PlansPlaced, PlanBlocks
<1>4. input.blocks \in Nat
  BY <1>1, Parameters
<1>5. ExtentsClean(inode) <=> InOrder(inode)
  BY <1>1, <1>2, <1>3, <1>4, ExtentsCleanIs
<1>6. KindOf(s) = "symlink" => SizeOf(s) \in 1 .. BlockUnits - 1
  <2>1. SUFFICES ASSUME KindOf(s) = "symlink" PROVE SizeOf(s) \in 1 .. BlockUnits - 1
    OBVIOUS
  <2>2. s # -1 /\ s # 0
    BY <2>1 DEF KindOf
  <2>3. s \in Slots
    BY <2>2 DEF Owners
  <2>4. input.inodes[s].kind = "symlink"
    BY <2>1, <2>2, Zenon DEF KindOf
  <2>5. SizeOf(s) = input.inodes[s].size
    BY <2>1, <2>2 DEF SizeOf
  <2>6. s \in DOMAIN input.inodes
    BY <2>3 DEF Slots
  <2>7. input.inodes[s].size \in 1 .. BlockUnits - 1
    BY <1>1, <2>4, <2>6, SealAssumption
  <2>8. QED
    BY <2>5, <2>7
<1>7. ContentClean(inode) <=>
        /\ ExtentsOK(inode)
        /\ InOrder(inode)
        /\ KindOf(s) = "dir" => DirBlocksClean(inode)
        /\ \A b \in inode.acl : image[b] = AttributeBlock(b)
  BY <1>2, <1>5, <1>6, Zenon DEF ContentClean
<1>8. ExtentsOK(inode) <=> plans[s].tree \cap lost = {}
  BY <1>1, <1>2, TreeCleanIs
<1>9. (\A b \in inode.acl : image[b] = AttributeBlock(b)) <=> plans[s].acl \cap lost = {}
  BY <1>1, <1>2, AttributesCleanIs
<1>10. CASE KindOf(s) = "dir"
  <2>1. DirBlocksClean(inode) <=> Given(plans[s].runs) \cap lost = {}
    BY <1>2, <1>10, DirCleanIs
  <2>2. OwnerNeeds(s) = plans[s].acl \cup plans[s].tree \cup Given(plans[s].runs)
    BY <1>10 DEF OwnerNeeds, DirOwners
  <2>3. QED
    BY <1>2, <1>7, <1>8, <1>9, <1>10, <2>1, <2>2
<1>11. CASE KindOf(s) # "dir"
  <2>1. OwnerNeeds(s) = plans[s].acl \cup plans[s].tree
    BY <1>11 DEF OwnerNeeds, DirOwners
  <2>2. QED
    BY <1>2, <1>7, <1>8, <1>9, <1>11, <2>1
<1>12. QED
  BY <1>10, <1>11

LEMMA JournalCleanIs ==
  ASSUME AllReads, GroupsClean
  PROVE  JournalClean <=>
           InodeBlock(JournalIno) \notin lost /\ plans[-1].tree \cap lost = {} /\ JournalHead \notin lost
<1>1. input \in Inputs /\ GeometryOK /\ PlansPlaced /\ -1 \in Owners
  BY OwnersAre DEF AllReads
<1>2. JournalIno \in 1 .. max_ino /\ ino_of(-1) = JournalIno
  BY <1>1, InodeNumbers
<1>3. InodeSlot(JournalIno) = InodeOf(-1)
  BY <1>1, <1>2, SlotOfInode
<1>4. /\ InodeOK(JournalIno) <=> InodeBlock(JournalIno) \notin lost
      /\ InodeOK(JournalIno) => inode_raw(JournalIno) = InodeOf(-1)
  BY <1>2, <1>3, InodeOKIs
<1>5. OwnerReads(-1)
  BY <1>1 DEF AllReads
<1>6. ExtentsOK(InodeOf(-1)) <=> plans[-1].tree \cap lost = {}
  BY <1>5, TreeCleanIs
<1>7. PICK runs \in Seq(Run) : runs = plans[-1].runs
  BY <1>1 DEF PlansPlaced, PlanShape
<1>8. 1 \in DOMAIN runs /\ runs[1].len \in Nat \ {0} /\ JournalHead \in Nat /\ JournalHead = runs[1].start
  BY <1>1, <1>7, JournalHeadIsGiven DEF JournalHead
<1>9. PICK o \in DOMAIN runs, k \in 0 .. runs[1].len - 1 : o = 1 /\ k = 0
  BY <1>8
<1>10. Before(runs, o) = 0
  <2>1. PICK n \in Nat : n = Len(runs) /\ DOMAIN runs = 1 .. n
    OBVIOUS
  <2>2. \A j \in 1 .. n : runs[j] \in Run
    BY <2>1
  <2>3. \A j \in 1 .. n : runs[j].len \in Nat
    BY <2>2 DEF Run
  <2>4. QED
    BY <1>9, <2>1, <2>3, BeforeGrows
<1>11. Before(runs, o) + k = 0 /\ runs[o].start + k = JournalHead
  BY <1>8, <1>9, <1>10
<1>12. file_block(InodeOf(-1), 0) = {JournalHead}
  <2>1. PICK inode : inode = InodeOf(-1)
    OBVIOUS
  <2>2. PICK n \in Nat \ {0} : n = input.journal
    BY <1>1, Parameters
  <2>3. SegsOf(-1) = Whole(n)
    BY <1>1, <2>2, SegsAre
  <2>4. inode.extents = Extents(runs, Whole(n))
    BY <1>7, <2>1, <2>3 DEF InodeOf
  <2>5. Ascend(runs) /\ \A b \in Given(runs) : InsideFree(b)
    BY <1>1, <1>7 DEF PlansPlaced, PlanShape, PlanBlocks
  <2>6. Follows(runs, Whole(n))
    BY <1>1, <1>7, <2>3 DEF AllReads
  <2>7. DenseLead(inode, runs)
    BY <1>1, <2>4, <2>5, <2>6, DenseExtents
  <2>8. k \in Nat /\ k < runs[o].len
    BY <1>8, <1>9
  <2>9. file_block(inode, Before(runs, o) + k) = {runs[o].start + k}
    BY <2>7, <2>8 DEF DenseLead
  <2>10. QED
    BY <1>11, <2>1, <2>9
<1>13. Reads(JournalHead, Owned(-1, "journal superblock"))
  <2>1. Reads(runs[o].start + k, ContentAt(-1, Before(runs, o) + k))
    BY <1>5, <1>7, <1>9 DEF OwnerReads
  <2>2. ContentAt(-1, 0) = Owned(-1, "journal superblock")
    BY DEF ContentAt, ContentKind
  <2>3. QED
    BY <1>11, <2>1, <2>2
<1>14. HoldsFor(JournalHead, "journal superblock", JournalIno) <=> JournalHead \notin lost
  BY <1>2, <1>13, HeldForOwner
<1>15. QED
  <2>1. CASE InodeOK(JournalIno)
    <3>1. inode_raw(JournalIno) = InodeOf(-1)
      BY <1>4, <2>1
    <3>2. JournalClean <=>
            /\ ExtentsOK(InodeOf(-1))
            /\ \E b \in file_block(InodeOf(-1), 0) : HoldsFor(b, "journal superblock", JournalIno)
      BY <2>1, <3>1, Zenon DEF JournalClean
    <3>3. (\E b \in file_block(InodeOf(-1), 0) : HoldsFor(b, "journal superblock", JournalIno))
            <=> JournalHead \notin lost
      BY <1>12, <1>14
    <3>4. QED
      BY <1>4, <1>6, <2>1, <3>2, <3>3
  <2>2. CASE ~InodeOK(JournalIno)
    BY <1>4, <2>2 DEF JournalClean
  <2>3. QED
    BY <2>1, <2>2
-----------------------------------------------------------------------------
(* The verdict. *)

LEMMA InodesCleanIs ==
  ASSUME AllReads, GroupsClean
  PROVE  (\A ino \in InUse : InodeClean(ino)) <=>
           /\ \A ino \in 1 .. max_ino : InodeBlock(ino) \notin lost
           /\ \A s \in Owners : OwnerNeeds(s) \cap lost = {} /\ InOrder(InodeOf(s))
<1>1. InUse = 1 .. max_ino
  BY InUseIs
<1>2. input \in Inputs /\ GeometryOK
  BY DEF AllReads
<1>3. PICK R : R = 1 .. LostFoundIno - 1 \ {RootIno, JournalIno}
  OBVIOUS
<1>4. \A ino : InodeClean(ino) <=> InodeOK(ino) /\ (ino \notin R => ContentClean(inode_raw(ino)))
  BY <1>3 DEF InodeClean
<1>5. /\ \A s \in Owners : ino_of(s) \in 1 .. max_ino /\ ino_of(s) \notin R
      /\ \A ino \in 1 .. max_ino : ino \notin R => \E s \in Owners : ino_of(s) = ino
  BY <1>2, <1>3, InodeNumbers
<1>6. \A s \in Owners : InodeSlot(ino_of(s)) = InodeOf(s)
  BY <1>2, SlotOfInode
<1>7. \A ino \in 1 .. max_ino :
        /\ InodeOK(ino) <=> InodeBlock(ino) \notin lost
        /\ InodeOK(ino) => inode_raw(ino) = InodeSlot(ino)
  BY InodeOKIs
<1>8. \A s \in Owners : ContentClean(InodeOf(s)) <=> OwnerNeeds(s) \cap lost = {} /\ InOrder(InodeOf(s))
  BY ContentCleanIs
<1>9. ASSUME \A ino \in 1 .. max_ino : InodeClean(ino)
      PROVE  /\ \A ino \in 1 .. max_ino : InodeBlock(ino) \notin lost
             /\ \A s \in Owners : OwnerNeeds(s) \cap lost = {} /\ InOrder(InodeOf(s))
  <2>1. \A ino \in 1 .. max_ino : InodeOK(ino)
    BY <1>4, <1>9
  <2>2. ASSUME NEW s \in Owners PROVE OwnerNeeds(s) \cap lost = {} /\ InOrder(InodeOf(s))
    <3>1. PICK ino \in 1 .. max_ino : ino = ino_of(s) /\ ino \notin R
      BY <1>5
    <3>2. ContentClean(inode_raw(ino))
      BY <1>4, <1>9, <3>1
    <3>3. inode_raw(ino) = InodeOf(s)
      BY <1>6, <1>7, <2>1, <3>1
    <3>4. QED
      BY <1>8, <3>2, <3>3
  <2>3. QED
    BY <1>7, <2>1, <2>2
<1>10. ASSUME \A ino \in 1 .. max_ino : InodeBlock(ino) \notin lost,
              \A s \in Owners : OwnerNeeds(s) \cap lost = {} /\ InOrder(InodeOf(s)),
              NEW ino \in 1 .. max_ino
       PROVE  InodeClean(ino)
  <2>1. InodeOK(ino) /\ inode_raw(ino) = InodeSlot(ino)
    BY <1>7, <1>10
  <2>2. ASSUME ino \notin R PROVE ContentClean(inode_raw(ino))
    <3>1. PICK s \in Owners : ino_of(s) = ino
      BY <1>5, <2>2
    <3>2. inode_raw(ino) = InodeOf(s)
      BY <1>6, <2>1, <3>1
    <3>3. QED
      BY <1>8, <1>10, <3>2
  <2>3. QED
    BY <1>4, <2>1, <2>2
<1>11. QED
  BY <1>1, <1>9, <1>10

\* What must be there for the verifier to be content, part by part.
PartsHeld ==
  /\ 0 \notin lost
  /\ \A g \in Groups : {1 + g \div DescsPerBlock, Bb(g), Ib(g)} \cap lost = {}
  /\ \A ino \in 1 .. max_ino : InodeBlock(ino) \notin lost
  /\ \A s \in Owners : OwnerNeeds(s) \cap lost = {}
  /\ JournalHead \notin lost
Ordered == \A s \in Owners : InOrder(InodeOf(s))
LEMMA VerdictOfParts ==
  ASSUME AllReads
  PROVE  VerifyClean <=> PartsHeld /\ Ordered
<1>1. OpenOK <=> 0 \notin lost
  <2>1. Reads(0, [what |-> "super"])
    BY DEF AllReads, FixedReads
  <2>2. Zeros.what # "super"
    BY DEF Zeros
  <2>3. QED
    BY <2>1, <2>2 DEF OpenOK, Reads
<1>2. GroupsClean <=> \A g \in Groups : {1 + g \div DescsPerBlock, Bb(g), Ib(g)} \cap lost = {}
  <2>1. ASSUME NEW g \in Groups
        PROVE  GroupClean(g) <=> {1 + g \div DescsPerBlock, Bb(g), Ib(g)} \cap lost = {}
    <3>1. input \in Inputs /\ FixedReads /\ GroupReads(g)
      BY DEF AllReads
    <3>2. QED
      BY <3>1, GroupCleanIs
  <2>2. QED
    BY <2>1 DEF GroupsClean
<1>3. VerifyClean <=>
        /\ OpenOK /\ GroupsClean
        /\ \A ino \in 1 .. LostFoundIno - 1 : inode_in_use(ino)
        /\ \A ino \in InUse : InodeClean(ino)
        /\ JournalClean
  BY DEF VerifyClean, GroupsClean, Groups
<1>4. CASE ~GroupsClean
  BY <1>2, <1>3, <1>4 DEF PartsHeld
<1>5. CASE GroupsClean
  <2>1. \A ino \in 1 .. LostFoundIno - 1 : inode_in_use(ino)
    BY <1>5, InUseIs
  <2>2. (\A ino \in InUse : InodeClean(ino)) <=>
          /\ \A ino \in 1 .. max_ino : InodeBlock(ino) \notin lost
          /\ \A s \in Owners : OwnerNeeds(s) \cap lost = {} /\ InOrder(InodeOf(s))
    BY <1>5, InodesCleanIs
  <2>3. JournalClean <=>
          InodeBlock(JournalIno) \notin lost /\ plans[-1].tree \cap lost = {} /\ JournalHead \notin lost
    BY <1>5, JournalCleanIs
  <2>4. JournalIno \in 1 .. max_ino /\ plans[-1].tree \subseteq OwnerNeeds(-1) /\ -1 \in Owners
    BY InodeNumbers, OwnersAre DEF AllReads, OwnerNeeds
  <2>5. ASSUME VerifyClean PROVE PartsHeld /\ Ordered
    BY <1>1, <1>2, <1>3, <2>2, <2>3, <2>5 DEF PartsHeld, Ordered
  <2>6. ASSUME PartsHeld, Ordered PROVE VerifyClean
    <3>1. /\ \A ino \in 1 .. max_ino : InodeBlock(ino) \notin lost
          /\ \A s \in Owners : OwnerNeeds(s) \cap lost = {} /\ InOrder(InodeOf(s))
          /\ JournalHead \notin lost /\ OpenOK
      BY <1>1, <2>6 DEF PartsHeld, Ordered
    <3>2. plans[-1].tree \cap lost = {}
      BY <2>4, <3>1
    <3>3. QED
      BY <1>3, <1>5, <2>1, <2>2, <2>3, <2>4, <3>1, <3>2
  <2>7. QED
    BY <2>5, <2>6
<1>6. QED
  BY <1>4, <1>5

\* The parts are there exactly when no block the verifier depends on is lost.
LEMMA PartsAre ==
  ASSUME AllReads
  PROVE  PartsHeld <=> Needed \cap lost = {}
<1>1. input \in Inputs /\ GeometryOK
  BY DEF AllReads
<1>2. PICK n \in Nat \ {0} : n = GdtBlocks
  BY SealAssumption
<1>3. /\ \A g \in Groups : g \div DescsPerBlock \in 0 .. n - 1
      /\ \A k \in 0 .. n - 1 : \E g \in Groups : g \div DescsPerBlock = k
  BY <1>1, <1>2, DescriptorBlocks
<1>4. /\ \A ino \in 1 .. max_ino : InodeBlock(ino) \in GroupsNeed
      /\ \A g \in Groups : \A b \in TableRead(g) : \E ino \in 1 .. max_ino : InodeBlock(ino) = b
  BY <1>1, TablesAreInodes
<1>5. ASSUME Needed \cap lost = {} PROVE PartsHeld
  <2>1. 0 \notin lost /\ JournalHead \notin lost
    BY <1>2, <1>5 DEF Needed
  <2>2. ASSUME NEW g \in Groups PROVE {1 + g \div DescsPerBlock, Bb(g), Ib(g)} \cap lost = {}
    <3>1. 1 + g \div DescsPerBlock \in 0 .. GdtBlocks
      <4>1. PICK k \in 0 .. n - 1 : k = g \div DescsPerBlock
        BY <1>3
      <4>2. 1 + k \in 0 .. n
        OBVIOUS
      <4>3. QED
        BY <1>2, <4>1, <4>2
    <3>2. {Bb(g), Ib(g)} \subseteq GroupsNeed
      BY DEF GroupsNeed, Groups, Bb, Ib
    <3>3. QED
      BY <1>5, <3>1, <3>2 DEF Needed
  <2>3. \A ino \in 1 .. max_ino : InodeBlock(ino) \notin lost
    BY <1>4, <1>5 DEF Needed
  <2>4. ASSUME NEW s \in Owners PROVE OwnerNeeds(s) \cap lost = {}
    <3>1. OwnerNeeds(s) \subseteq Needed
      BY NeededOfOwner DEF OwnerNeeds
    <3>2. QED
      BY <1>5, <3>1
  <2>5. QED
    BY <2>1, <2>2, <2>3, <2>4 DEF PartsHeld
<1>6. ASSUME PartsHeld, NEW b \in Needed PROVE b \notin lost
  <2>1. CASE b \in 0 .. GdtBlocks
    <3>1. CASE b = 0
      BY <1>6, <3>1 DEF PartsHeld
    <3>2. CASE b # 0
      <4>1. PICK k \in 0 .. n - 1 : b = 1 + k
        <5>1. b - 1 \in 0 .. n - 1 /\ b = 1 + (b - 1)
          BY <1>2, <2>1, <3>2
        <5>2. QED
          BY <5>1
      <4>2. PICK g \in Groups : g \div DescsPerBlock = k
        BY <1>3
      <4>3. QED
        BY <1>6, <4>1, <4>2 DEF PartsHeld
    <3>3. QED
      BY <3>1, <3>2
  <2>2. CASE b \in GroupsNeed
    <3>1. PICK g \in Groups : b \in {Bb(g), Ib(g)} \cup TableRead(g)
      BY <2>2 DEF GroupsNeed, Groups, Bb, Ib
    <3>2. CASE b \in {Bb(g), Ib(g)}
      BY <1>6, <3>2 DEF PartsHeld
    <3>3. CASE b \in TableRead(g)
      BY <1>4, <1>6, <3>3 DEF PartsHeld
    <3>4. QED
      BY <3>1, <3>2, <3>3
  <2>3. CASE b \in InodesNeed
    <3>1. PICK s \in Owners : b \in OwnerNeeds(s)
      BY <2>3 DEF InodesNeed, OwnerNeeds
    <3>2. QED
      BY <1>6, <3>1 DEF PartsHeld
  <2>4. CASE b \in DirsNeed
    <3>1. PICK s \in DirOwners : b \in Given(plans[s].runs)
      BY <2>4 DEF DirsNeed
    <3>2. b \in OwnerNeeds(s) /\ s \in Owners
      BY <3>1 DEF OwnerNeeds, DirOwners
    <3>3. QED
      BY <1>6, <3>2 DEF PartsHeld
  <2>5. CASE b = JournalHead
    BY <1>6, <2>5 DEF PartsHeld
  <2>6. QED
    BY <2>1, <2>2, <2>3, <2>4, <2>5 DEF Needed
<1>7. QED
  BY <1>5, <1>6

\* The verifier is content exactly when, besides, the extents are in order.
LEMMA VerdictIs ==
  ASSUME AllReads
  PROVE  VerifyClean <=> Needed \cap lost = {} /\ Ordered
BY VerdictOfParts, PartsAre

\* Where the numbers suffice, they are.
LEMMA SufficientIsOrdered ==
  ASSUME AllReads, NumbersSuffice
  PROVE  Ordered
<1>1. ASSUME NEW s \in Owners PROVE InOrder(InodeOf(s))
  <2>1. PICK segs : segs = SegsOf(s)
    OBVIOUS
  <2>2. PICK inode : inode = InodeOf(s)
    OBVIOUS
  <2>3. PICK runs \in Seq(Run) : runs = plans[s].runs
    BY DEF AllReads, PlansPlaced, PlanShape
  <2>4. SegsOK(segs)
    BY <2>1, SegsFacts DEF AllReads
  <2>5. SegsFit(segs)
    <3>1. NumbersFit(s)
      BY DEF NumbersSuffice
    <3>2. QED
      BY <2>1, <3>1 DEF NumbersFit, SegsFit
  <2>6. Follows(runs, segs)
    BY <2>1, <2>3 DEF AllReads
  <2>7. inode.extents = Extents(runs, segs)
    BY <2>1, <2>2, <2>3 DEF InodeOf
  <2>8. InOrder(inode)
    BY <2>4, <2>5, <2>6, <2>7, ExtentsInOrder
  <2>9. QED
    BY <2>2, <2>8
<1>2. QED
  BY <1>1 DEF Ordered
-----------------------------------------------------------------------------
(* The properties. *)

LEMMA AllIsRead ==
  ASSUME IInv, PlanInv, RunInv, ImageInv, pc \in {"written", "torn"}
  PROVE  AllReads /\ groups \in Nat \ {0} /\ lost \subseteq Needed \cup Unread /\ Needed \cap Unread = {}
<1>1. input \in Inputs /\ groups \in Nat \ {0} /\ GeometryOK /\ MetaPlaced /\ PlansPlaced
  BY Settled
<1>2. FixedReads
  BY <1>1, FixedAreRead
<1>3. \A g \in Groups : GroupReads(g)
  BY <1>1, GroupIsRead
<1>4. \A s \in Owners : OwnerReads(s)
  BY <1>1, OwnerIsRead
<1>5. lost \subseteq Needed \cup Unread
  <2>1. lost \subseteq {b \in 0 .. input.blocks - 1 : TheImage[b] # Zeros}
    BY DEF ImageInv
  <2>2. \A b \in 0 .. input.blocks - 1 : TheImage[b] # Zeros => b \in Needed \cup Unread
    BY <1>1, HeldIsKnown
  <2>3. QED
    BY <2>1, <2>2
<1>6. Needed \cap Unread = {}
  BY <1>1, NeededIsRead
<1>7. \A s \in Owners : Follows(plans[s].runs, SegsOf(s))
  BY AllFollow
<1>8. QED
  BY <1>1, <1>2, <1>3, <1>4, <1>5, <1>6, <1>7 DEF AllReads

LEMMA WholeImageIsAccepted ==
  ASSUME IInv, PlanInv, RunInv, ImageInv
  PROVE  VerifierAcceptsImage
<1>1. SUFFICES ASSUME pc = "written", NumbersSuffice PROVE VerifyClean
  BY DEF VerifierAcceptsImage
<1>2. AllReads
  BY <1>1, AllIsRead
<1>3. lost = {}
  BY <1>1 DEF ImageInv
<1>4. Ordered
  BY <1>1, <1>2, SufficientIsOrdered
<1>5. QED
  BY <1>2, <1>3, <1>4, VerdictIs

LEMMA LossesAreReported ==
  ASSUME IInv, PlanInv, RunInv, ImageInv
  PROVE  LossIsReported
<1>1. SUFFICES ASSUME pc = "torn"
               PROVE  /\ VerifyClean => lost \subseteq Unread
                      /\ NumbersSuffice /\ lost \subseteq Unread => VerifyClean
  BY DEF LossIsReported
<1>2. AllReads /\ lost \subseteq Needed \cup Unread /\ Needed \cap Unread = {}
  BY <1>1, AllIsRead
<1>3. VerifyClean <=> Needed \cap lost = {} /\ Ordered
  BY <1>2, VerdictIs
<1>4. Needed \cap lost = {} <=> lost \subseteq Unread
  BY <1>2
<1>5. NumbersSuffice => Ordered
  BY <1>2, SufficientIsOrdered
<1>6. QED
  BY <1>3, <1>4, <1>5

\* What a good inode leads to, where its numbers fit.
LEMMA SegmentsAndHoles ==
  ASSUME AllReads, NEW s \in Owners, inode_raw(ino_of(s)) = InodeOf(s), NumbersFit(s)
  PROVE  SegmentsAreFound(s) /\ HolesAreEmpty(s)
<1>1. PICK segs : segs = SegsOf(s)
  OBVIOUS
<1>2. PICK inode : inode = inode_raw(ino_of(s))
  OBVIOUS
<1>3. PICK runs \in Seq(Run) : runs = plans[s].runs /\ Ascend(runs)
  BY DEF AllReads, PlansPlaced, PlanShape
<1>4. SegsOK(segs)
  BY <1>1, SegsFacts DEF AllReads
<1>5. SegsFit(segs)
  BY <1>1 DEF NumbersFit, SegsFit
<1>6. Follows(runs, segs)
  BY <1>1, <1>3 DEF AllReads
<1>7. inode.extents = Extents(runs, segs)
  <2>1. InodeOf(s).extents = Extents(plans[s].runs, SegsOf(s))
    BY DEF InodeOf
  <2>2. QED
    BY <1>1, <1>2, <1>3, <2>1
<1>8. BlocksPlaced(s) = Given(runs)
  BY <1>3 DEF BlocksPlaced, Given
<1>9. SegmentsLead(inode, Given(runs), segs)
  BY <1>3, <1>4, <1>5, <1>6, <1>7, SegmentFound
<1>10. SegmentsAreFound(s)
  <2>1. SegmentsAreFound(s) <=> SegmentsLead(inode_raw(ino_of(s)), BlocksPlaced(s), SegsOf(s))
    BY Zenon DEF SegmentsAreFound, SegmentsLead
  <2>2. QED
    BY <1>1, <1>2, <1>8, <1>9, <2>1, Zenon
<1>11. ASSUME NEW l \in 0 .. CeilDiv(SizeOf(s), BlockUnits) - 1, ~InSegment(segs, l)
       PROVE  file_block(inode, l) = {}
  <2>1. l \in Nat
    OBVIOUS
  <2>2. QED
    BY <1>4, <1>5, <1>6, <1>7, <1>11, <2>1, HoleIsEmpty
<1>12. HolesAreEmpty(s)
  BY <1>1, <1>2, <1>11, Zenon DEF HolesAreEmpty
<1>13. QED
  BY <1>10, <1>12

LEMMA InodesOfImageAreFound ==
  ASSUME IInv, PlanInv, RunInv, ImageInv
  PROVE  InodesAreFound
<1>1. SUFFICES ASSUME pc = "written"
      PROVE  /\ InUse = 1 .. max_ino
             /\ \A s \in Owners :
                  /\ InodeOK(ino_of(s))
                  /\ inode_raw(ino_of(s)).size = SizeOf(s)
                  /\ Cardinality(BlocksPlaced(s)) = Lengths(SegsOf(s))
                  /\ NumbersFit(s) => SegmentsAreFound(s) /\ HolesAreEmpty(s)
  BY DEF InodesAreFound
<1>2. AllReads
  BY <1>1, AllIsRead
<1>3. lost = {}
  BY <1>1 DEF ImageInv
<1>4. GroupsClean
  <2>1. ASSUME NEW g \in Groups PROVE GroupClean(g)
    <3>1. input \in Inputs /\ FixedReads /\ GroupReads(g)
      BY <1>2 DEF AllReads
    <3>2. QED
      BY <1>3, <3>1, GroupCleanIs
  <2>2. QED
    BY <2>1 DEF GroupsClean
<1>5. InUse = 1 .. max_ino
  BY <1>2, <1>4, InUseIs
<1>6. ASSUME NEW s \in Owners
      PROVE  /\ InodeOK(ino_of(s))
             /\ inode_raw(ino_of(s)).size = SizeOf(s)
             /\ Cardinality(BlocksPlaced(s)) = Lengths(SegsOf(s))
             /\ NumbersFit(s) => SegmentsAreFound(s) /\ HolesAreEmpty(s)
  <2>1. input \in Inputs /\ GeometryOK /\ PlanShape(plans[s])
    BY <1>2 DEF AllReads, PlansPlaced
  <2>2. PICK ino \in 1 .. max_ino : ino = ino_of(s)
    BY <2>1, InodeNumbers
  <2>3. InodeOK(ino) /\ inode_raw(ino) = InodeSlot(ino)
    BY <1>2, <1>3, <1>4, InodeOKIs
  <2>4. inode_raw(ino) = InodeOf(s)
    BY <2>1, <2>2, <2>3, SlotOfInode
  <2>5. PICK runs \in Seq(Run) : runs = plans[s].runs /\ Ascend(runs)
    BY <2>1 DEF PlanShape
  <2>6. InodeOf(s).size = SizeOf(s)
    BY DEF InodeOf
  <2>7. Cardinality(BlocksPlaced(s)) = Lengths(SegsOf(s))
    <3>1. Lengths(runs) = Cardinality(Given(runs))
      BY <2>5, AscendingTile
    <3>2. Lengths(runs) = Lengths(SegsOf(s))
      BY <1>2, <2>5 DEF AllReads, Follows
    <3>3. BlocksPlaced(s) = Given(runs)
      BY <2>5 DEF BlocksPlaced, Given
    <3>4. QED
      BY <3>1, <3>2, <3>3
  <2>8. NumbersFit(s) => SegmentsAreFound(s) /\ HolesAreEmpty(s)
    BY <1>2, <2>2, <2>4, SegmentsAndHoles
  <2>9. QED
    BY <2>2, <2>3, <2>4, <2>6, <2>7, <2>8
<1>7. QED
  BY <1>5, <1>6

VolumeInv == IInv /\ PlanInv /\ RunInv /\ ImageInv

LEMMA VolumeAtFirst ==
  ASSUME VolumeInit
  PROVE  VolumeInv
<1>1. Init
  BY DEF VolumeInit
<1>2. QED
  BY <1>1, AtFirst, PlansAtFirst, RunsAtFirst, ImageAtFirst DEF VolumeInv

LEMMA VolumeInvariant == VolumeSpec => []VolumeInv
<1>1. VolumeInit => VolumeInv
  BY VolumeAtFirst
<1>2. VolumeInv /\ [VolumeNext]_volumeVars => VolumeInv'
  <2>1. SUFFICES ASSUME IInv, PlanInv, RunInv, ImageInv, [VolumeNext]_volumeVars
                 PROVE  IInv' /\ PlanInv' /\ RunInv' /\ ImageInv'
    BY DEF VolumeInv
  <2>2. IInv'
    BY <2>1, VolumeStepKeeps
  <2>3. PlanInv'
    BY <2>1, VolumeStepKeepsPlans
  <2>4. RunInv'
    BY <2>1, VolumeStepKeepsRuns
  <2>5. ImageInv'
    BY <2>1, VolumeStepKeepsImage
  <2>6. QED
    BY <2>2, <2>3, <2>4, <2>5
<1>3. QED
  BY <1>1, <1>2, PTL DEF VolumeSpec

\* The verifier accepts every image that was written to the end, for every
\* volume that can be laid out and whose logical block numbers a u32 can hold:
\* open() finds the superblock, and verify() no fault in groups, inodes, trees,
\* extents, directories, attributes and the journal.  The numbers bound file
\* offsets, which nothing else does: holes are not limited by the image.
THEOREM WrittenImagesAreClean == VolumeSpec => []VerifierAcceptsImage
<1>1. VolumeInv => VerifierAcceptsImage
  BY WholeImageIsAccepted DEF VolumeInv
<1>2. QED
  BY <1>1, VolumeInvariant, PTL

\* An image of which a block is lost that is not data, not the target of a
\* symlink and not a backup is reported by open() or verify(), whatever the
\* offsets of its files; of an image that lacks no such block nothing is
\* reported if the logical block numbers fit.
THEOREM LostBlocksAreReported == VolumeSpec => []LossIsReported
<1>1. VolumeInv => LossIsReported
  BY LossesAreReported DEF VolumeInv
<1>2. QED
  BY <1>1, VolumeInvariant, PTL

\* In every image that was written to the end, the inodes the bitmaps have in
\* use are those that were numbered; each has its size, holes included, and
\* the blocks its segments need.  If its logical block numbers fit, it leads
\* the reader from every block of a segment to the one that seal() placed for
\* it, and from every block of a hole to none.
THEOREM WrittenInodesAreFound == VolumeSpec => []InodesAreFound
<1>1. VolumeInv => InodesAreFound
  BY InodesOfImageAreFound DEF VolumeInv
<1>2. QED
  BY <1>1, VolumeInvariant, PTL
==============================================================================
