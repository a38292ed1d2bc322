----------------------------- MODULE CodedStream -----------------------------
(***************************************************************************)
(* The bitstream the decoder reads: which coded pictures may come next, in *)
(* which slices, and the picture order counts they are meant to have.  The *)
(* counts are defined from the history of the stream, which knows every    *)
(* picture, and not from the memory a decoder keeps.                       *)
(***************************************************************************)
EXTENDS Poc, FiniteSetsExt

CONSTANTS
  Structures,        (* those a frame, or the first field of one, may have *)
  NonReference,      (* are there non-reference pictures?                  *)
  PocTypes,          (* values of pic_order_cnt_type                       *)
  GapsAllowed,       (* values of gaps_in_frame_num_value_allowed_flag     *)
  Mmco5Structures,   (* for each type, those of the pictures that may      *)
                     (* carry operation 5                                  *)
  MaxGap,            (* for each type, frames left out of a stream that    *)
                     (* allows gaps, at a time                             *)
  Steps,             (* type 0: from the count of the last reference       *)
  BottomSteps,       (* type 0: from the top field to the bottom field     *)
  Deltas,            (* type 1: values of delta_pic_order_cnt              *)
  PicParameterSets,  (* ids of picture parameter sets                      *)
  MaxSlices,         (* slices of a picture                                *)
  MaxPictures        (* bound: coded pictures in the stream                *)

ASSUME StreamAssumption ==
  /\ Structures \subseteq {"frame", "top", "bottom"} /\ PocTypes \subseteq {0, 1, 2}
  /\ GapsAllowed \subseteq BOOLEAN /\ Mmco5Structures \in [PocTypes -> SUBSET Structures]
  /\ MaxGap \in [PocTypes -> 0 .. MaxFrameNum - 2]
  /\ NonReference \in BOOLEAN /\ MaxSlices \in {1, 2} /\ MaxPictures \in Nat \ {0}
  /\ Steps \subseteq {d \in -MaxLsb .. MaxLsb : -MaxLsb < 2 * d /\ 2 * d <= MaxLsb}
  /\ BottomSteps \subseteq Nat /\ 0 \in BottomSteps /\ Deltas \subseteq Int /\ 0 \in Deltas

(* PicSizeInMbs macroblocks, and the ways to cut them into slices.          *)
Macroblocks == {1, 2}
Slicings == {q \in {<<{1, 2}>>, <<{1}, {2}>>} : Len(q) <= MaxSlices}

NoHead ==
  [id |-> 0, count |-> 0, struct |-> "frame", idr |-> FALSE, idrid |-> 0, ref |-> FALSE, mmco5 |-> FALSE,
   num |-> 0, lsb |-> 0, dbottom |-> 0, d0 |-> 0, d1 |-> 0, pps |-> 0, version |-> 0,
   first |-> 0, second |-> 0]

(***************************************************************************)
(* The stream s so far: what its sequence parameter set says (type, gaps),  *)
(* its last picture (head), that of the last slice which arrived (heard),   *)
(* the slices of its last picture still to come (left), whether it is a     *)
(* field that waits for its second (open), has a parameter set closed it    *)
(* (closed), the frame number without the wrap of the last reference frame, *)
(* frames left out included (refs), the order count of the last reference   *)
(* picture (base), and the picture parameter sets as sent (versions).  The  *)
(* head of a picture also has its frame number without the wrap (count).    *)
(***************************************************************************)
FirstStreams ==
  {[type |-> t, gaps |-> g, head |-> NoHead, heard |-> NoHead, left |-> <<>>, open |-> FALSE,
    closed |-> FALSE, refs |-> 0, base |-> 0, versions |-> [i \in PicParameterSets |-> 0]] :
     t \in PocTypes, g \in GapsAllowed}

(* What kind of picture may come next: the second field of an open one, or  *)
(* a new frame.                                                             *)
SecondField(s) ==
  [struct |-> IF s.head.struct = "top" THEN "bottom" ELSE "top",
   idr |-> FALSE, ref |-> s.head.ref, mmco5 |-> FALSE, gap |-> 0]
Kinds(s) ==
  IF s.open THEN {SecondField(s)}
  ELSE {x \in [struct : Structures, idr : BOOLEAN, ref : BOOLEAN, mmco5 : BOOLEAN, gap : 0 .. MaxGap[s.type]] :
          /\ s.head.id = 0 => x.idr
          /\ x.idr \/ ~s.gaps => x.gap = 0
          /\ x.idr => x.ref /\ ~x.mmco5
          /\ x.mmco5 => x.ref /\ x.struct \in Mmco5Structures[s.type]
          /\ x.ref \/ NonReference
          /\ s.type = 2 => x.ref \/ s.head.ref}

CountOf(s, x) ==
  IF x.idr THEN 0
  ELSE IF s.open THEN IF s.head.mmco5 THEN 0 ELSE s.head.count
  ELSE s.refs + 1 + x.gap

(* The definition of the expected count: the sum of the offsets of all      *)
(* frames, taking the cycle round and round.                                *)
OffsetOfFrame(i) == RefOffsets[((i - 1) % Len(RefOffsets)) + 1]
ExpectedCount(c, ref) ==
  LET n == IF RefOffsets = <<>> THEN 0 ELSE IF ref \/ c = 0 THEN c ELSE c - 1
  IN MapThenSumSet(OffsetOfFrame, 1 .. n) + (IF ref THEN 0 ELSE NonRefOffset)

(* The counts of a picture (first: of its top or only field; second: of the *)
(* bottom field of a frame) with the header fields that code them.          *)
Coded(first, second, lsb, dbottom, d0, d1) ==
  [first |-> first, second |-> second, lsb |-> lsb, dbottom |-> dbottom, d0 |-> d0, d1 |-> d1]
OnlyFrames(x, S) == IF x.struct = "frame" /\ ~x.idr THEN S ELSE {0}
Counted0(s, x) ==
  {Coded(t, t + e, t % MaxLsb, e, 0, 0) :
     t \in IF x.idr THEN {0} ELSE {s.base + d : d \in Steps}, e \in OnlyFrames(x, BottomSteps)}
Counted1(s, x) ==
  LET e == ExpectedCount(CountOf(s, x), x.ref)
               + (IF x.struct = "bottom" THEN BottomOffset ELSE 0)
  IN {Coded(e + a, e + a + BottomOffset + b, 0, 0, a, b) :
        a \in IF x.idr THEN {0} ELSE Deltas, b \in OnlyFrames(x, Deltas)}
Counted2(s, x) ==
  LET t == IF x.ref THEN 2 * CountOf(s, x) ELSE 2 * CountOf(s, x) - 1
  IN {Coded(t, t, 0, 0, 0, 0)}
CountsOf(s, x) ==
  CASE s.type = 0 -> Counted0(s, x) [] s.type = 1 -> Counted1(s, x) [] s.type = 2 -> Counted2(s, x)

HeadOf(s, x, c, i) ==
  [id |-> s.head.id + 1, count |-> CountOf(s, x), struct |-> x.struct, idr |-> x.idr,
   idrid |-> IF x.idr THEN s.head.id + 1 ELSE 0, ref |-> x.ref, mmco5 |-> x.mmco5,
   num |-> CountOf(s, x) % MaxFrameNum, pps |-> i, version |-> s.versions[i],
   lsb |-> c.lsb, dbottom |-> c.dbottom, d0 |-> c.d0, d1 |-> c.d1,
   first |-> c.first, second |-> c.second]

(* The fields by which the first slice of a picture is told from the last   *)
(* slice of the picture before: the stream makes consecutive pictures       *)
(* differ in one of them.                                                   *)
Key(h) == <<h.pps, h.num, h.struct, h.ref, h.idr, h.idrid, h.lsb, h.dbottom, h.d0, h.d1>>

Heads(s) ==
  {h \in UNION {{HeadOf(s, x, c, i) : c \in CountsOf(s, x), i \in PicParameterSets} : x \in Kinds(s)} :
     Key(h) # Key(s.head)}

(* After operation 5 a reference frame counts as the first one.             *)
BaseAfter(s, h) ==
  IF ~h.ref THEN s.base
  ELSE IF ~h.mmco5 THEN h.first
  ELSE IF h.struct = "frame" THEN h.first - Min2(h.first, h.second) ELSE 0

Begin(s, h, left) ==
  [s EXCEPT !.head = h, !.left = left, !.closed = FALSE, !.open = h.struct # "frame" /\ ~s.open,
            !.refs = IF ~h.ref THEN h.count - 1 ELSE IF h.mmco5 THEN 0 ELSE h.count,
            !.base = BaseAfter(s, h)]

(* The next slices: one of the picture begun, or the first one of the next. *)
NextSlices(s) ==
  IF s.left # <<>> THEN {[head |-> s.head, part |-> Head(s.left), after |-> [s EXCEPT !.left = Tail(@)]]}
  ELSE IF s.head.id = MaxPictures THEN {}
  ELSE {[head |-> h, part |-> Head(q), after |-> Begin(s, h, Tail(q))] : h \in Heads(s), q \in Slicings}

Resent(s, i) == [s EXCEPT !.versions[i] = 1 - @, !.closed = TRUE]
=============================================================================
