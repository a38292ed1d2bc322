----------------------------- MODULE FrameStore -----------------------------
(***************************************************************************)
(* The FrameStore of the decoded picture buffer and the operations that    *)
(* change its reference marking (ldecod/mbuffer.c, lcommon/                *)
(* mbuffer_common.c).                                                      *)
(*                                                                         *)
(* The code marks reference use twice: the bit fields is_reference and     *)
(* is_long_term of the store (bit 0 the top field, bit 1 the bottom one),  *)
(* and the flags used_for_reference and is_long_term of each of the up to  *)
(* three pictures the store owns (frame, top_field, bottom_field).  Both   *)
(* copies are kept here, as sets: sliding window and output test the bits, *)
(* the lists of reference frames are built from the flags.                 *)
(***************************************************************************)
EXTENDS Integers, Sequences, FiniteSets

CONSTANTS
  MaxFrameNum,   (* frame_num is coded modulo MaxFrameNum                   *)
  FrameMbsOnly   (* frame_mbs_only_flag: no field views of frames are made  *)

ASSUME MaxFrameNumAssumption == MaxFrameNum \in Nat \ {0}
ASSUME FrameMbsOnlyAssumption == FrameMbsOnly \in BOOLEAN

Fields == {"top", "bottom"}
Views == Fields \cup {"frame"}

Opposite(f) == IF f = "top" THEN "bottom" ELSE "top"

(* The pictures a stored frame owns: dpb_split_field makes the field views  *)
(* only when the sequence may contain fields.                               *)
FrameViews == IF FrameMbsOnly THEN {"frame"} ELSE Views

(***************************************************************************)
(* A frame store.  used, ref, orig and lt are is_used, is_reference,       *)
(* is_orig_reference and is_long_term; pref and plt are the pictures whose *)
(* used_for_reference and is_long_term flags are set; short and long say   *)
(* that fs_ref and fs_ltref point to the store (both arrays list stores in *)
(* the order of fs, so membership is all they hold).                       *)
(***************************************************************************)
StoreOf(Nums, Pocs, Idxs, Ids) ==
  [used : SUBSET Fields, ref : SUBSET Fields, orig : SUBSET Fields,
   lt : SUBSET Fields, pref : SUBSET Views, plt : SUBSET Views,
   num : Nums, poc : Pocs, idx : Idxs, out : BOOLEAN,
   short : BOOLEAN, long : BOOLEAN, id : Ids]

(* A store taken from the unused end of fs: remove_frame_from_dpb reset it. *)
EmptyStore(id) ==
  [used |-> {}, ref |-> {}, orig |-> {}, lt |-> {}, pref |-> {}, plt |-> {},
   num |-> 0, poc |-> 0, idx |-> 0, out |-> FALSE,
   short |-> FALSE, long |-> FALSE, id |-> id]

-----------------------------------------------------------------------------
(* Which pictures of the store exist: frame once both fields are there, a   *)
(* field when its bit is set and the picture was made.                      *)
PicturesOf(fs) ==
  fs.used \cup (IF fs.used = Fields THEN {"frame"} ELSE {})

IsShortTerm(fs) == \E v \in PicturesOf(fs) : v \in fs.pref /\ v \notin fs.plt
IsLongTerm(fs)  == \E v \in PicturesOf(fs) : v \in fs.pref /\ v \in fs.plt

UsedForReference(fs) == fs.ref # {} \/ \E v \in PicturesOf(fs) : v \in fs.pref

(* unmark_for_reference leaves the long-term marks alone.                   *)
Unmark(fs) == [fs EXCEPT !.ref = {}, !.pref = {}]

(* unmark_for_long_term_reference.                                          *)
UnmarkLong(fs) == [fs EXCEPT !.ref = {}, !.lt = {}, !.pref = {}, !.plt = {}]

(* One field of the store stops being a reference, and so does the frame    *)
(* made of both.                                                            *)
UnmarkFieldOnly(fs, f) ==   (* Mutant of UnmarkField. *)
  [fs EXCEPT !.ref = @ \ {f}, !.pref = @ \ {f}]
UnmarkField(fs, f) == [fs EXCEPT !.ref = @ \ {f}, !.pref = @ \ {f, "frame"}]

UnmarkLongField(fs, f) ==
  [fs EXCEPT !.ref = @ \ {f}, !.pref = @ \ {f, "frame"},
             !.lt = @ \ {f}, !.plt = @ \ {f, "frame"}]

(* mark_pic_long_term, for a frame and for one field of a store.            *)
MarkFrameLong(fs, idx) ==
  [fs EXCEPT !.idx = idx, !.lt = Fields, !.plt = @ \cup FrameViews]

MarkFieldLong(fs, f, idx) ==
  [fs EXCEPT !.idx = idx, !.lt = @ \cup {f},
             !.plt = @ \cup {f} \cup (IF fs.lt \cup {f} = Fields
                                      THEN {"frame"} ELSE {})]

-----------------------------------------------------------------------------
(* dpb_combine_field: the frame made of two fields is a reference (long-    *)
(* term) only when both fields are, and takes the smaller POC.              *)
Combined(fs, poc) ==
  [fs EXCEPT !.used = Fields,
             !.poc = IF poc < @ THEN poc ELSE @,
             !.pref = IF Fields \subseteq @ THEN @ \cup {"frame"} ELSE @ \ {"frame"},
             !.plt = IF Fields \subseteq @ THEN @ \cup {"frame"} ELSE @ \ {"frame"}]

(* The picture given to store_picture_in_dpb: struct is "frame" or a field. *)
PictureOf(Nums, Pocs, Idxs, Ids) ==
  [struct : Views, num : Nums, poc : Pocs, id : Ids, ref : BOOLEAN,
   idr : BOOLEAN, adaptive : BOOLEAN, ltflag : BOOLEAN, noout : BOOLEAN,
   lt : BOOLEAN, idx : Idxs, out : BOOLEAN]

(* insert_picture_in_dpb, by the structure of the picture.                  *)
InsertFrame(fs, p) ==
  [fs EXCEPT !.used = Fields, !.num = p.num, !.poc = p.poc, !.out = p.out,
             !.id = p.id,
             !.ref  = IF p.ref THEN Fields ELSE @,
             !.orig = IF p.ref THEN Fields ELSE @,
             !.pref = IF p.ref THEN FrameViews ELSE {},
             !.lt   = IF p.ref /\ p.lt THEN Fields ELSE @,
             !.plt  = IF p.lt THEN FrameViews ELSE {},
             !.idx  = IF p.ref /\ p.lt THEN p.idx ELSE @]

WithField(fs, p) ==
  [fs EXCEPT !.used = @ \cup {p.struct}, !.num = p.num, !.out = p.out,
             !.id = p.id,
             !.ref  = IF p.ref THEN @ \cup {p.struct} ELSE @,
             !.orig = IF p.ref THEN @ \cup {p.struct} ELSE @,
             !.pref = IF p.ref THEN @ \cup {p.struct} ELSE @,
             !.lt   = IF p.ref /\ p.lt THEN @ \cup {p.struct} ELSE @,
             !.plt  = IF p.lt THEN @ \cup {p.struct} ELSE @,
             !.idx  = IF p.ref /\ p.lt THEN p.idx ELSE @]

InsertField(fs, p) ==
  IF fs.used \cup {p.struct} = Fields
    THEN Combined(WithField(fs, p), p.poc)
    ELSE [WithField(fs, p) EXCEPT !.poc = p.poc]

Insert(fs, p) == IF p.struct = "frame" THEN InsertFrame(fs, p) ELSE InsertField(fs, p)

(* write_unpaired_field: a blank second field is made, whose flags and POC  *)
(* are zero, and the two are combined.                                      *)
FillUnpaired(fs) == Combined(fs, 0)

-----------------------------------------------------------------------------
(* update_pic_num, seen from the picture p that reads it: FrameNumWrap, the *)
(* picture number of a view and its long-term picture number.               *)
FrameNumWrapAll(fs, p) ==   (* Mutant of FrameNumWrap: >= for >. *)
  IF fs.num >= p.num THEN fs.num - MaxFrameNum ELSE fs.num
FrameNumWrap(fs, p) == IF fs.num > p.num THEN fs.num - MaxFrameNum ELSE fs.num

PicNum(fs, v, p) ==
  IF v = "frame" THEN FrameNumWrap(fs, p)
  ELSE 2 * FrameNumWrap(fs, p) + (IF v = p.struct THEN 1 ELSE 0)

LongTermPicNum(fs, v, p) ==
  IF v = "frame" THEN fs.idx ELSE 2 * fs.idx + (IF v = p.struct THEN 1 ELSE 0)

(* get_pic_num_x                                                            *)
PicNumX(p, diff) == (IF p.struct = "frame" THEN p.num ELSE 2 * p.num + 1) - (diff + 1)
=============================================================================
