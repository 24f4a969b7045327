---------------------------- MODULE InodeContents ----------------------------
(***************************************************************************)
(* What seal() renders for one directory inode, in its order: first the    *)
(* attributes that set_xattr() collected, which may refuse the image, then *)
(* the directory blocks.                                                   *)
(***************************************************************************)
EXTENDS DirectoryReader, Attributes

CONSTANTS
  Inodes   \* the directories to render: entries, and calls of set_xattr

ASSUME InodesAssumption == Inodes \subseteq [entries : Seq(Entry), calls : Seq(Attr)]

vars == <<dirVars, attrVars>>

Init == \E in \in Inodes : DirInit(in.entries) /\ AttrInit(in.calls)

RenderAttributes == AttrNext /\ UNCHANGED dirVars
RenderDirectory == plan = "rendered" /\ DirNext /\ UNCHANGED attrVars

Next == RenderAttributes \/ RenderDirectory

Spec == Init /\ [][Next]_vars
==============================================================================
