--------------------------- MODULE MCRecordMarking ---------------------------
(* Two records of 1, 3, 4 or 7 bytes with W = 2, so that a fragment holds *)
(* at most 3 bytes: a record shorter than a fragment, one that fills it   *)
(* exactly (offset + size >= len on the first fragment), one split 3 + 1  *)
(* and one split 3 + 3 + 1.  The header arithmetic is the code's with 31  *)
(* replaced by W; its boundaries (flag bit, mask, u32 wrap) sit at the   *)
(* same places relative to W.                                              *)
EXTENDS RecordMarking
=============================================================================
