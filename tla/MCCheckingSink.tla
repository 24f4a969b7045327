---------------------------- MODULE MCCheckingSink ---------------------------
(***************************************************************************)
(* Every sequence of four calls on six bytes, over images of zero, four    *)
(* and five bytes: calls past the end, empty calls and all ways of         *)
(* joining ranges.                                                         *)
(***************************************************************************)
EXTENDS CheckingSink
==============================================================================
