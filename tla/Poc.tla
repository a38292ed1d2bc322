-------------------------------- MODULE Poc ---------------------------------
(***************************************************************************)
(* decode_poc of the decoder (ldecod/header.c): the picture order counts   *)
(* of a picture, from its slice header, from the memory of the pictures    *)
(* before it that VideoParameters holds, and from what the slice object    *)
(* still holds of the picture it was last used for.                        *)
(***************************************************************************)
EXTENDS Integers, SequencesExt

CONSTANTS
  MaxLsb,        (* MaxPicOrderCntLsb                                      *)
  MaxFrameNum,   (* max_frame_num                                          *)
  RefOffsets,    (* offset_for_ref_frame                                   *)
  NonRefOffset,  (* offset_for_non_ref_pic                                 *)
  BottomOffset   (* offset_for_top_to_bottom_field                         *)

ASSUME ModuliAssumption == MaxFrameNum \in Nat \ {0} /\ MaxLsb \in Nat \ {0} /\ MaxLsb % 2 = 0
ASSUME OffsetsAssumption ==
  RefOffsets \in Seq(Int) /\ NonRefOffset \in Int /\ BottomOffset \in Int

(***************************************************************************)
(* Of a slice header h only these fields matter: struct ("frame", "top" or *)
(* "bottom"), idr, ref (nal_reference_idc # 0), num (frame_num), lsb       *)
(* (pic_order_cnt_lsb), dbottom (delta_pic_order_cnt_bottom) and d0, d1    *)
(* (delta_pic_order_cnt).  The memory m has msb and lsb (PrevPicOrderCnt-  *)
(* Msb and -Lsb), num and off (PreviousFrameNum and -Offset), mm5          *)
(* (last_has_mmco_5) and bottom (last_pic_bottom_field).  A slice object   *)
(* holds top, bottom and frame (toppoc, bottompoc and framepoc).           *)
(***************************************************************************)
FirstMemory ==
  [msb |-> 0, lsb |-> 0, num |-> 0, off |-> 0, mm5 |-> FALSE, bottom |-> FALSE]
FirstPoc == [top |-> 0, bottom |-> 0, frame |-> 0]

Min2(a, b) == IF a < b THEN a ELSE b

(* PrevPicOrderCntLsb is unsigned.  Wrap stands for 2^32: all that matters  *)
(* of a negative value is that it is far above every lsb.                   *)
Wrap == 1073741824
AsUnsigned(x) == IF x < 0 THEN x + Wrap ELSE x

-----------------------------------------------------------------------------
(* Type 0: the most significant bits follow from the previous reference     *)
(* picture.  After operation 5 the code takes its top field's count from p, *)
(* the old content of the slice object.                                     *)
From(m, lsb) ==
  [msb |-> 0, lsb |-> lsb, num |-> m.num, off |-> m.off, mm5 |-> m.mm5, bottom |-> m.bottom]
Previous(m, h, p) ==
  IF h.idr \/ (m.mm5 /\ m.bottom) THEN From(m, 0)
  ELSE IF m.mm5 THEN From(m, AsUnsigned(p.top))
  ELSE m

MsbStrict(m, lsb) ==   (* Mutant of Msb. *)
  IF lsb < m.lsb /\ m.lsb - lsb > MaxLsb \div 2 THEN m.msb + MaxLsb
  ELSE IF lsb > m.lsb /\ lsb - m.lsb >= MaxLsb \div 2 THEN m.msb - MaxLsb
  ELSE m.msb
Msb(m, lsb) ==
  IF lsb < m.lsb /\ m.lsb - lsb >= MaxLsb \div 2 THEN m.msb + MaxLsb
  ELSE IF lsb > m.lsb /\ lsb - m.lsb > MaxLsb \div 2 THEN m.msb - MaxLsb
  ELSE m.msb

(* The counts of a picture whose top field, or whose one field, is at x and *)
(* whose bottom field, in a frame, is at y.                                 *)
Counts(h, p, x, y) ==
  IF h.struct = "frame" THEN [top |-> x, bottom |-> y, frame |-> Min2(x, y)]
  ELSE IF h.struct = "top" THEN [top |-> x, bottom |-> p.bottom, frame |-> x]
  ELSE [top |-> p.top, bottom |-> x, frame |-> x]

DecodeType0(m, h, p) ==
  LET q == Previous(m, h, p)
      msb == Msb(q, h.lsb)
      x == msb + h.lsb
  IN [poc |-> Counts(h, p, x, x + h.dbottom),
      mem |-> IF h.ref THEN [q EXCEPT !.msb = msb, !.lsb = h.lsb, !.num = h.num]
                       ELSE [q EXCEPT !.num = h.num]]

-----------------------------------------------------------------------------
(* Types 1 and 2 count frame_num without its wrap.                          *)
FrameNumOffset(m, h) ==
  IF h.idr THEN 0
  ELSE LET num == IF m.mm5 THEN 0 ELSE m.num
           off == IF m.mm5 THEN 0 ELSE m.off
       IN IF h.num < num THEN off + MaxFrameNum ELSE off

SumOfOffsets(n) == FoldLeft(LAMBDA a, x : a + x, 0, SubSeq(RefOffsets, 1, n))

(* The n-th reference frame of the cycles of RefOffsets, counted from 1.    *)
CyclePosition(n) ==
  LET cycle == (n - 1) \div Len(RefOffsets)
      place == (n - 1) % Len(RefOffsets)
  IN cycle * SumOfOffsets(Len(RefOffsets)) + SumOfOffsets(place + 1)

ExpectedPicOrderCnt(off, h) ==
  LET number == IF RefOffsets = <<>> THEN 0 ELSE off + h.num
      abs == IF ~h.ref /\ number > 0 THEN number - 1 ELSE number
  IN (IF abs = 0 THEN 0 ELSE CyclePosition(abs)) + (IF h.ref THEN 0 ELSE NonRefOffset)

Counted(m, h) ==
  [m EXCEPT !.num = h.num, !.off = FrameNumOffset(m, h)]

DecodeType1(m, h, p) ==
  LET e == ExpectedPicOrderCnt(FrameNumOffset(m, h), h)
      x == IF h.struct = "bottom" THEN e + BottomOffset + h.d0 ELSE e + h.d0
  IN [poc |-> Counts(h, p, x, x + BottomOffset + h.d1), mem |-> Counted(m, h)]

DecodeType2(m, h, p) ==
  LET abs == FrameNumOffset(m, h) + h.num
      x == IF h.ref THEN 2 * abs ELSE 2 * abs - 1
  IN [poc |-> IF h.idr THEN FirstPoc ELSE Counts(h, p, x, x), mem |-> Counted(m, h)]

(* The counts and the memory after decode_poc; type is pic_order_cnt_type.  *)
DecodePoc(type, m, h, p) ==
  IF type = 0 THEN DecodeType0(m, h, p)
  ELSE IF type = 1 THEN DecodeType1(m, h, p) ELSE DecodeType2(m, h, p)
=============================================================================
