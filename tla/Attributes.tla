------------------------------- MODULE Attributes ----------------------------
(***************************************************************************)
(* The extended attributes of one inode: from set_xattr() calls to the     *)
(* bytes in the inode body and in one block, and back to what the reader   *)
(* returns and the verifier accepts.                                       *)
(*                                                                         *)
(* Lengths are in units of 4 bytes.  A region is a function from unit to   *)
(* what was written there last: nothing, the head of an entry with the     *)
(* fields a parser takes from it, the rest of an entry, or part of a       *)
(* value.                                                                  *)
(***************************************************************************)
EXTENDS Integers, Sequences, FiniteSets, SequencesExt

CONSTANTS
  BodyLen,       \* IBODY_AREA after its magic: 92 bytes
  XattrBlockLen  \* BLOCK_SIZE

HeaderLen == 8   \* of the block: 32 bytes
EntryLen == 4    \* of an entry, without its name: 16 bytes

\* A name is ordered by namespace, length and text; a value is a length and
\* something to tell values of that length apart.
Name == [index : Nat \ {0}, len : Nat, text : Nat]
Value == [len : Nat \ {0}, text : Nat] \cup [len : {0}, text : {0}]
Attr == [name : Name, value : Value]

ASSUME AttributesAssumption ==
  /\ BodyLen \in Nat \ {0}
  /\ XattrBlockLen \in Nat /\ XattrBlockLen > HeaderLen

VARIABLES
  calls,      \* the arguments of set_xattr, in the order of the calls
  called,     \* how many of them have been made
  attrs,      \* FsBuilder.xattrs of the inode
  plan,       \* "none", "made", "refused" or "rendered"
  split,      \* how many of the sorted attributes stay in the inode
  ibody,      \* the region in the inode, without the magic; <<>> for none
  xblock      \* the region in the block, behind its header; <<>> for no block

attrVars == <<calls, called, attrs, plan, split, ibody, xblock>>

-----------------------------------------------------------------------------
(* set_xattr() *)

Updated(list, attr) ==
  IF \E i \in DOMAIN list : list[i].name = attr.name
  THEN LET i == CHOOSE k \in DOMAIN list : list[k].name = attr.name
       IN [list EXCEPT ![i].value = attr.value]
  ELSE Append(list, attr)

set_xattr ==
  /\ plan = "none" /\ called < Len(calls)
  /\ called' = called + 1
  /\ attrs' = Updated(attrs, calls[called'])
  /\ UNCHANGED <<calls, plan, split, ibody, xblock>>

-----------------------------------------------------------------------------
(* xattr_build::plan() *)

LessName(a, b) ==
  \/ a.index < b.index
  \/ a.index = b.index /\ a.len < b.len
  \/ a.index = b.index /\ a.len = b.len /\ a.text < b.text

\* The list in canonical order; equal names keep their order.
Sorted(list) ==
  LET before(i, j) == \/ LessName(list[i].name, list[j].name)
                      \/ list[i].name = list[j].name /\ i < j
      place(k) == CHOOSE i \in DOMAIN list : Cardinality({j \in DOMAIN list : before(j, i)}) = k - 1
  IN [k \in DOMAIN list |-> list[place(k)]]

entry_bytes(a) == EntryLen + a.name.len
TotalBytes(list) == FoldLeft(LAMBDA sum, a : sum + entry_bytes(a) + a.value.len, 0, list)

\* Fault: no room is kept for the end of the list.
FitsWithoutEnd(list) == TotalBytes(list) <= BodyLen

\* With one unit of zeros to end the list.
FitsBody(list) == TotalBytes(list) + 1 <= BodyLen
FitsBlock(list) == HeaderLen + 1 + TotalBytes(list) <= XattrBlockLen

\* The first that does not fit the inode and all after it go to the block.
SplitOf(list) ==
  CHOOSE n \in 0 .. Len(list) :
    /\ \A k \in 1 .. n : FitsBody(SubSeq(list, 1, k))
    /\ n < Len(list) => ~FitsBody(SubSeq(list, 1, n + 1))

ValuesPossible == \A i \in DOMAIN attrs :
  attrs[i].value.len <= XattrBlockLen - HeaderLen - 1 - entry_bytes(attrs[i])
InBody(list, n) == SubSeq(list, 1, n)
InBlock(list, n) == SubSeq(list, n + 1, Len(list))

Plan ==
  /\ plan = "none" /\ called = Len(calls)
  /\ split' = SplitOf(Sorted(attrs))
  /\ ValuesPossible /\ FitsBlock(InBlock(Sorted(attrs), split'))
  /\ plan' = "made"
  /\ UNCHANGED <<calls, called, attrs, ibody, xblock>>

Refuse ==
  /\ plan = "none" /\ called = Len(calls)
  /\ ~(ValuesPossible /\ FitsBlock(InBlock(Sorted(attrs), SplitOf(Sorted(attrs)))))
  /\ plan' = "refused"
  /\ UNCHANGED <<calls, called, attrs, split, ibody, xblock>>

-----------------------------------------------------------------------------
(* render_entries() *)

Empty == [part |-> "none"]

\* The region after entry and value of `a` have been written: entries go up
\* from 0, values down from the end; `base` is added to stored offsets.
WithAttr(acc, a, base) ==
  LET val  == acc.val - a.value.len
      head == [part |-> "head", name |-> a.name, offs |-> base + val, size |-> a.value.len]
  IN [ent |-> acc.ent + entry_bytes(a),
      val |-> val,
      region |-> [u \in DOMAIN acc.region |->
                    CASE u = acc.ent -> head
                      [] u \in acc.ent + 1 .. acc.ent + entry_bytes(a) - 1 -> [part |-> "name"]
                      [] u \in val .. acc.val - 1 /\ u \notin acc.ent .. acc.ent + entry_bytes(a) - 1
                           -> [part |-> "value", text |-> a.value.text, at |-> u - val]
                      [] OTHER -> acc.region[u]]]

render_entries(list, usable, base) ==
  FoldLeft(LAMBDA acc, a : WithAttr(acc, a, base),
           [ent |-> 0, val |-> usable, region |-> [u \in 0 .. usable - 1 |-> Empty]],
           list).region

RenderAttrs ==
  /\ plan = "made"
  /\ LET list == Sorted(attrs)
     IN /\ ibody' = IF split = 0 THEN <<>> ELSE render_entries(InBody(list, split), BodyLen, 0)
        /\ xblock' = IF split = Len(list) THEN <<>>
                     ELSE render_entries(InBlock(list, split), XattrBlockLen - HeaderLen, HeaderLen)
  /\ plan' = "rendered"
  /\ UNCHANGED <<calls, called, attrs, split>>

-----------------------------------------------------------------------------
(* spec::xattr and the reader *)

\* Where the value of an entry starts in the region.
ValueStart(offs, base) == offs - base

Bad == [name |-> "bad"]

\* The value at `start`, if these units hold all of one.
ValueAt(region, start, len) ==
  LET cell(k) == region[start + k]
  IN IF len = 0 THEN [len |-> 0, text |-> 0]
     ELSE IF \A k \in 0 .. len - 1 :
                /\ cell(k).part = "value" /\ cell(k).at = k
                /\ cell(k).text = cell(0).text
          THEN [len |-> len, text |-> cell(0).text]
          ELSE [len |-> len, text |-> -1]

\* parse_entries(): the list from unit `off`; an error ends it with Bad.
parse_entries(region, base) ==
  LET end == Cardinality(DOMAIN region)
      parse[off \in 0 .. end] ==
        IF off = end THEN <<Bad>>
        ELSE LET c == region[off] IN
          IF c = Empty THEN <<>>
          ELSE IF \/ c.part # "head"
                  \/ off + EntryLen + c.name.len > end
                  \/ ValueStart(c.offs, base) + c.size > end
               THEN <<Bad>>
          ELSE <<[name |-> c.name, value |-> ValueAt(region, ValueStart(c.offs, base), c.size)]>>
                 \o parse[off + EntryLen + c.name.len]
  IN IF region = <<>> THEN <<>> ELSE parse[0]

\* Fs::xattrs
xattrs == parse_entries(ibody, 0) \o parse_entries(xblock, HeaderLen)

\* verify_xattr_block() adds no issue.
XattrBlockClean ==
  xblock # <<>> =>
    LET list == parse_entries(xblock, HeaderLen)
    IN /\ ~Contains(list, Bad)
       /\ \A i \in 1 .. Len(list) - 1 : ~LessName(list[i + 1].name, list[i].name)

-----------------------------------------------------------------------------
AttrInit(list) ==
  /\ calls = list
  /\ called = 0 /\ attrs = <<>> /\ plan = "none" /\ split = 0
  /\ ibody = <<>> /\ xblock = <<>>

AttrNext == set_xattr \/ Plan \/ Refuse \/ RenderAttrs

-----------------------------------------------------------------------------
\* What is read back is, for every name ever set, the value it was set to
\* last, each name once and in canonical order over inode and block; and the
\* verifier accepts the block.
ReadBack ==
  /\ ToSet(xattrs) = {calls[i] : i \in {k \in DOMAIN calls :
                        \A j \in k + 1 .. Len(calls) : calls[j].name # calls[k].name}}
  /\ \A i \in 1 .. Len(xattrs) - 1 : LessName(xattrs[i].name, xattrs[i + 1].name)
  /\ XattrBlockClean

\* One attribute has no room in a block of its own, or no split of the sorted
\* list fits inode and block.
NothingFits ==
  \/ ~ValuesPossible
  \/ \A n \in 0 .. Len(attrs) :
       ~(FitsBody(InBody(Sorted(attrs), n)) /\ FitsBlock(InBlock(Sorted(attrs), n)))

\* The attributes set are read back, or refused for want of room: the greedy
\* split between inode body and block loses no split that would have fit.
AttributesReadBack ==
  /\ plan = "rendered" => ReadBack
  /\ plan = "refused" => NothingFits
==============================================================================
