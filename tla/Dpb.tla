-------------------------------- MODULE Dpb --------------------------------
(***************************************************************************)
(* The decoded picture buffer of the decoder, layer 0, without error       *)
(* concealment (conceal_mode = 0): store_picture_in_dpb and everything it  *)
(* calls in ldecod/mbuffer.c, lcommon/mbuffer_common.c and ldecod/output.c,*)
(* flush_dpb and error().                                                  *)
(*                                                                         *)
(* The decoder is one thread.  A call of store_picture_in_dpb is a sequence*)
(* of steps: pc is the place in the call, and each iteration of a loop of  *)
(* the code is a step, so that whether its loops end is a liveness         *)
(* property.  Between two calls (pc = "idle") the stream supplies the next *)
(* picture; the actions Receive... say which pictures it may supply.       *)
(***************************************************************************)
EXTENDS FrameStore, SequencesExt

CONSTANTS
  DpbSize,      (* p_Dpb->size                                             *)
  NumRefFrames, (* p_Dpb->num_ref_frames                                   *)
  Structures,   (* picture structures the stream uses                      *)
  Mmcos,        (* memory management control operations the stream uses    *)
  MaxMmco,      (* bound: operations in one picture                        *)
  MaxIdx,       (* bound: largest long_term_frame_idx                      *)
  MaxK,         (* bound: frames of a coded video sequence are 0 .. MaxK   *)
  MaxGap,       (* bound: frames that fill one gap in frame_num            *)
  Unpaired      (* the stream may leave a field without its second field   *)

ASSUME DpbSizeAssumption == DpbSize \in Nat \ {0}
ASSUME NumRefFramesAssumption == NumRefFrames \in Nat /\ NumRefFrames <= DpbSize
ASSUME StructuresAssumption ==
  /\ Structures \subseteq Views
  /\ FrameMbsOnly => Structures \subseteq {"frame"}
ASSUME MmcosAssumption == Mmcos \subseteq 1 .. 6 /\ MaxMmco \in Nat
ASSUME BoundsAssumption == MaxIdx \in Nat /\ MaxK \in Nat /\ MaxGap \in Nat
ASSUME StreamAssumption == Unpaired \in BOOLEAN

(***************************************************************************)
(* A frame of the stream is known by the parity of its coded video         *)
(* sequence and its place k in the output order of that sequence.  Its POC *)
(* is 2k; its fields, in decoding order, have POCs 2k and 2k + 1.          *)
(***************************************************************************)
FrameNums == 0 .. MaxFrameNum - 1
Pocs == 0 .. 2 * MaxK + 1
Idxs == 0 .. MaxIdx
Ids == [seq : {0, 1}, k : 0 .. MaxK]
NoId == [seq |-> 0, k |-> MaxK + 1]
Stores == StoreOf(FrameNums, Pocs, Idxs, Ids \cup {NoId})
Pictures == PictureOf(FrameNums, Pocs, Idxs, Ids \cup {NoId})
NoPicture ==
  [struct |-> "none", num |-> 0, poc |-> 0, id |-> NoId, ref |-> FALSE, idr |-> FALSE,
   adaptive |-> FALSE, ltflag |-> FALSE, noout |-> FALSE, lt |-> FALSE, idx |-> 0,
   out |-> FALSE]
INT_MIN == -1

(* What write_picture writes: the frame a field comes from, or NoId for a   *)
(* blank field.                                                             *)
Blank == [f \in Fields |-> NoId]
Written == [Fields -> Ids \cup {NoId}]

MaxRef == IF NumRefFrames > 1 THEN NumRefFrames ELSE 1

VARIABLES
  dpb,      (* fs[0 .. used_size-1]                                        *)
  last,     (* last_picture: its place in dpb, 0 for none or an empty store*)
  maxLt,    (* max_long_term_pic_idx                                       *)
  lastPoc,  (* last_output_poc                                             *)
  outbuf,   (* p_Vid->out_buffer: fields waiting in direct_output          *)
  pc, ret,  (* place in the code, and where flush_dpb returns to           *)
  cur,      (* the picture being stored                                    *)
  mm5,      (* last_has_mmco_5                                             *)
  nops,     (* operations of cur's dec_ref_pic_marking_buffer done         *)
  err,      (* the text error() was called with                            *)
  written,  (* what the last step wrote to the output file                 *)
  stream    (* what the stream must remember to supply legal pictures      *)

vars == <<dpb, last, maxLt, lastPoc, outbuf, pc, ret, cur, mm5, nops, err, written, stream>>

StreamOf ==
  [pre : FrameNums, gap : 0 .. MaxGap, seq : {0, 1}, ks : SUBSET (0 .. MaxK),
   first : Pictures \cup {NoPicture}, started : BOOLEAN]

Labels == {"idle", "idr", "idrtail", "mmco", "pair", "trim", "room", "purge", "drain", "halt"}

Errors ==
  {"none",
   "output POC must be in ascending order",
   "duplicate frame_num in short-term reference picture buffer",
   "Max. number of reference frames exceeded. Invalid stream.",
   "field for long term marking not found"}

Init ==
  /\ dpb = <<>> /\ last = 0 /\ maxLt = -1 /\ lastPoc = INT_MIN
  /\ outbuf = Blank
  /\ pc = "idle" /\ ret = "halt" /\ cur = NoPicture /\ mm5 = FALSE /\ nops = 0
  /\ err = "none" /\ written = <<>>
  /\ stream = [pre |-> 0, gap |-> 0, seq |-> 0, ks |-> {}, first |-> NoPicture,
               started |-> FALSE]

-----------------------------------------------------------------------------
(* The store a loop over fs stops at, of those in S that make it stop.      *)
LastOf(S) == {i \in S : \A j \in S : j <= i}   (* Mutant of FirstOf. *)
FirstOf(S) == {i \in S : \A j \in S : i <= j}

(* The buffer after the stores in S were unmarked.                          *)
UnmarkIn(d, S) == [i \in DOMAIN d |-> IF i \in S THEN Unmark(d[i]) ELSE d[i]]
UnmarkLongIn(d, S) == [i \in DOMAIN d |-> IF i \in S THEN UnmarkLong(d[i]) ELSE d[i]]

UpdateRefList(d) == [i \in DOMAIN d |-> [d[i] EXCEPT !.short = IsShortTerm(d[i])]]
UpdateLtRefList(d) == [i \in DOMAIN d |-> [d[i] EXCEPT !.long = IsLongTerm(d[i])]]
UpdateShortOnly(d) == UpdateRefList(d)   (* Mutant of UpdateLists. *)
UpdateLists(d) == UpdateLtRefList(UpdateRefList(d))

ShortList(d) == {i \in DOMAIN d : d[i].short}
LongList(d) == {i \in DOMAIN d : d[i].long}

(* check_num_ref adds the lengths of the two lists.                         *)
TooManyShortRefs(d) == Cardinality(ShortList(d)) > MaxRef   (* Mutant of TooManyRefs. *)
TooManyRefs(d) == Cardinality(LongList(d)) + Cardinality(ShortList(d)) > MaxRef

Overfull == Len(dpb) > DpbSize   (* Mutant of Full. *)
Full == Len(dpb) = DpbSize

-----------------------------------------------------------------------------
(* The stream.  It starts with an IDR picture.  A frame or first field has  *)
(* frame_num one above that of the last reference picture (init_picture     *)
(* fills a gap otherwise), and a POC no other frame of the sequence has; a  *)
(* second field agrees with its first field in all but parity.  An operation*)
(* is chosen when the code reaches it.                                      *)

Started(p, s) ==
  /\ cur' = p
  /\ stream' = s
  /\ pc' = IF p.idr THEN "idr" ELSE IF p.ref /\ p.adaptive THEN "mmco" ELSE "pair"
  /\ mm5' = FALSE
  /\ nops' = 0
  /\ written' = <<>>
  /\ UNCHANGED <<dpb, last, maxLt, lastPoc, outbuf, ret, err>>

Waiting == pc = "idle" /\ (stream.first = NoPicture \/ Unpaired)

NewPicture(s, k, r, seq) ==
  [struct |-> s, num |-> (stream.pre + 1) % MaxFrameNum, poc |-> 2 * k,
   id |-> [seq |-> seq, k |-> k], ref |-> r, idr |-> FALSE, adaptive |-> FALSE,
   ltflag |-> FALSE, noout |-> FALSE, lt |-> FALSE, idx |-> 0, out |-> FALSE]

FirstField(p) == IF p.struct = "frame" THEN NoPicture ELSE p

(* Two non-reference fields of opposite parity in a row with one frame_num  *)
(* are a pair, whatever the stream intended.                                *)
MakesPair(f, p) ==
  f.struct \in Fields /\ p.struct = Opposite(f.struct) /\ ~f.ref /\ ~p.ref /\ f.num = p.num

ReceiveIdr ==
  /\ Waiting /\ stream.gap = 0
  /\ \E s \in Structures, lt \in BOOLEAN, noout \in BOOLEAN :
       LET seq == 1 - stream.seq
           p == [NewPicture(s, 0, TRUE, seq) EXCEPT
                   !.num = 0, !.idr = TRUE, !.ltflag = lt, !.noout = noout]
       IN /\ lt => 3 \in Mmcos \/ 6 \in Mmcos
          /\ Started(p, [pre |-> 0, gap |-> 0, seq |-> seq, ks |-> {0},
                         first |-> FirstField(p), started |-> TRUE])

ReceivePicture ==
  /\ Waiting /\ stream.started
  /\ \E s \in Structures, r \in BOOLEAN, a \in BOOLEAN, k \in (0 .. MaxK) \ stream.ks :
       LET p == [NewPicture(s, k, r, stream.seq) EXCEPT !.adaptive = a]
       IN /\ a => r /\ Mmcos # {}
          /\ ~MakesPair(stream.first, p)
          /\ Started(p, [stream EXCEPT !.pre = IF r THEN p.num ELSE @, !.gap = 0,
                                       !.ks = @ \cup {k}, !.first = FirstField(p)])

ReceiveSecondField ==
  /\ pc = "idle" /\ stream.first # NoPicture
  /\ \E a \in BOOLEAN :
       LET f == stream.first
           p == [NewPicture(Opposite(f.struct), f.id.k, f.ref, f.id.seq) EXCEPT
                   !.num = f.num, !.poc = 2 * f.id.k + 1, !.adaptive = a]
       IN /\ a => f.ref /\ Mmcos # {}
          /\ Started(p, [stream EXCEPT !.first = NoPicture])

(* One round of the loop of fill_frame_num_gap.  The frame is never output, *)
(* so its POC, a leftover of the current slice, is not told apart here, and *)
(* it is no frame of the stream.                                            *)
FillFrameNumGap ==
  /\ Waiting /\ stream.started /\ stream.gap < MaxGap
  /\ stream.ks # 0 .. MaxK
  /\ LET p == [NewPicture("frame", 0, TRUE, stream.seq) EXCEPT !.out = TRUE, !.id = NoId]
     IN Started(p, [stream EXCEPT !.pre = p.num, !.gap = @ + 1, !.first = NoPicture])

-----------------------------------------------------------------------------
(* flush_dpb, called with the buffer d: all stores are unmarked and the     *)
(* loops purge and drain follow, after which the code goes on at label to.  *)
Flush(d, to) ==
  /\ dpb' = [i \in DOMAIN d |-> Unmark(d[i])]
  /\ pc' = "purge"
  /\ ret' = to

(* error(): the buffer is flushed and the program exits.                    *)
Fail(d, text) == Flush(d, "halt") /\ err' = text

(* When store i leaves, the stores behind it move up: last_picture too.     *)
LastAfterRemove(i) == IF last = i THEN 0 ELSE IF last > i THEN last - 1 ELSE last

UnusedUnwritten == {i \in DOMAIN dpb : ~UsedForReference(dpb[i])}   (* Mutant of Unused. *)
UnusedListed ==   (* Mutant of Unused: the arrays are asked, not the marks. *)
  {i \in DOMAIN dpb : dpb[i].out /\ ~dpb[i].short /\ ~dpb[i].long}
Unused == {i \in DOMAIN dpb : dpb[i].out /\ ~UsedForReference(dpb[i])}

(* remove_unused_frame_from_dpb, when there is one to remove.               *)
RemoveUnused ==
  \E i \in FirstOf(Unused) :
    /\ dpb' = RemoveAt(dpb, i)
    /\ last' = LastAfterRemove(i)

(* flush_direct_output writes a waiting field with a blank second field.    *)
PendingDirect == IF outbuf = Blank THEN <<>> ELSE <<outbuf>>

(* What write_stored_frame writes for a store.                              *)
ImageOf(fs) == [f \in Fields |-> IF f \in fs.used THEN fs.id ELSE NoId]

NotOutput == {i \in DOMAIN dpb : ~dpb[i].out}

(* get_smallest_poc: the first of the stores not yet output whose POC is    *)
(* the smallest.                                                            *)
IsSmallestPoc(i) ==
  /\ i \in NotOutput
  /\ \A j \in NotOutput :
       /\ dpb[i].poc <= dpb[j].poc
       /\ dpb[j].poc = dpb[i].poc => i <= j

(* The store after write_stored_frame.                                      *)
AfterWrite(fs) ==
  [(IF fs.used = Fields THEN fs ELSE FillUnpaired(fs)) EXCEPT !.out = TRUE]

(* output_one_frame_from_dpb when a frame is left to output.  The order of  *)
(* the output is checked after the frame was written.                       *)
OutputOne ==
  \E i \in NotOutput :
    /\ IsSmallestPoc(i)
    /\ written' = PendingDirect \o <<ImageOf(dpb[i])>>
    /\ outbuf' = Blank
    /\ LET d == [dpb EXCEPT ![i] = AfterWrite(@)]
       IN IF lastPoc >= dpb[i].poc
            THEN /\ Fail(d, "output POC must be in ascending order")
                 /\ UNCHANGED <<last, lastPoc>>
            ELSE /\ lastPoc' = dpb[i].poc
                 /\ IF UsedForReference(d[i])
                      THEN dpb' = d /\ last' = last
                      ELSE dpb' = RemoveAt(d, i) /\ last' = LastAfterRemove(i)
                 /\ UNCHANGED <<pc, ret, err>>

FlushPurge ==
  /\ pc = "purge"
  /\ IF Unused = {} THEN pc' = "drain" /\ UNCHANGED <<dpb, last>>
     ELSE RemoveUnused /\ UNCHANGED pc
  /\ written' = <<>>
  /\ UNCHANGED <<maxLt, lastPoc, outbuf, ret, cur, mm5, nops, err, stream>>

FlushDrain ==
  /\ pc = "drain" /\ NotOutput # {}
  /\ OutputOne
  /\ UNCHANGED <<maxLt, cur, mm5, nops, stream>>

FlushDone ==
  /\ pc = "drain" /\ NotOutput = {}
  /\ lastPoc' = INT_MIN
  /\ pc' = ret
  /\ cur' = IF ret = "halt" THEN NoPicture ELSE cur
  /\ written' = <<>>
  /\ UNCHANGED <<dpb, last, maxLt, outbuf, ret, mm5, nops, err, stream>>

(* FinitDecoder at the end of the stream.                                   *)
EndOfStream ==
  /\ Waiting /\ stream.gap = 0
  /\ Flush(dpb, "halt")
  /\ written' = <<>>
  /\ UNCHANGED <<last, maxLt, lastPoc, outbuf, cur, mm5, nops, err, stream>>

-----------------------------------------------------------------------------
(* idr_memory_management                                                    *)

IdrStart ==
  /\ pc = "idr"
  /\ IF cur.noout
       THEN dpb' = <<>> /\ last' = 0 /\ pc' = "idrtail" /\ UNCHANGED ret
       ELSE Flush(dpb, "idrtail") /\ UNCHANGED last
  /\ written' = <<>>
  /\ UNCHANGED <<maxLt, lastPoc, outbuf, cur, mm5, nops, err, stream>>

IdrTail ==
  /\ pc = "idrtail"
  /\ last' = 0
  /\ dpb' = UpdateLists(dpb)
  /\ lastPoc' = INT_MIN
  /\ maxLt' = IF cur.ltflag THEN 0 ELSE -1
  /\ cur' = [cur EXCEPT !.lt = cur.ltflag, !.idx = IF cur.ltflag THEN 0 ELSE @]
  /\ pc' = "pair"
  /\ written' = <<>>
  /\ UNCHANGED <<outbuf, ret, mm5, nops, err, stream>>

-----------------------------------------------------------------------------
(* adaptive_memory_management: one action per operation.  The stream gives  *)
(* operation 6 last, so that no other one takes the index it assigned, and  *)
(* no operation but 6 with operation 5.                                     *)

Operation(n) ==
  /\ pc = "mmco" /\ n \in Mmcos /\ nops < MaxMmco
  /\ ~cur.lt
  /\ mm5 => n = 6
  /\ nops' = nops + 1
  /\ written' = <<>>
  /\ UNCHANGED <<lastPoc, outbuf, last, stream>>

PicNumDiffs == 0 .. 2 * MaxFrameNum - 1

(* The fields of d[i] that are references and whose picture number is x.    *)
ShortFields(d, i, x) ==
  {f \in d[i].ref : PicNum(d[i], f, cur) = x}

(* mm_unmark_short_term_for_reference                                       *)
UnmarkShortTerm(d, x) ==
  IF cur.struct = "frame"
    THEN LET hits == {i \in ShortList(d) : /\ d[i].ref = Fields /\ d[i].lt = {}
                                           /\ PicNum(d[i], "frame", cur) = x}
         IN UnmarkIn(d, FirstOf(hits))
    ELSE LET hits == {i \in ShortList(d) : ShortFields(d, i, x) \ d[i].lt # {}}
         IN [i \in DOMAIN d |->
               IF i \notin FirstOf(hits) THEN d[i]
               ELSE UnmarkField(d[i], CHOOSE f \in Fields :
                                        f \in ShortFields(d, i, x) \ d[i].lt)]

Mmco1 ==
  /\ Operation(1)
  /\ \E diff \in PicNumDiffs : dpb' = UpdateRefList(UnmarkShortTerm(dpb, PicNumX(cur, diff)))
  /\ UNCHANGED <<maxLt, pc, ret, cur, mm5, err>>

(* mm_unmark_long_term_for_reference: for a frame the loop does not stop at *)
(* the first match.                                                         *)
LongFields(d, i, n) ==
  {f \in d[i].ref \cap d[i].lt : LongTermPicNum(d[i], f, cur) = n}

UnmarkLongTerm(d, n) ==
  IF cur.struct = "frame"
    THEN UnmarkLongIn(d, {i \in LongList(d) : /\ d[i].ref = Fields /\ d[i].lt = Fields
                                              /\ LongTermPicNum(d[i], "frame", cur) = n})
    ELSE LET hits == {i \in LongList(d) : LongFields(d, i, n) # {}}
         IN [i \in DOMAIN d |->
               IF i \notin FirstOf(hits) THEN d[i]
               ELSE UnmarkLongField(d[i], CHOOSE f \in Fields : f \in LongFields(d, i, n))]

Mmco2 ==
  /\ Operation(2)
  /\ \E n \in 0 .. 2 * MaxIdx + 1 : dpb' = UpdateLtRefList(UnmarkLongTerm(dpb, n))
  /\ UNCHANGED <<maxLt, pc, ret, cur, mm5, err>>

(* unmark_long_term_frame_for_reference_by_frame_idx                        *)
FreeFrameIdx(d, idx) == UnmarkLongIn(d, {i \in LongList(d) : d[i].idx = idx})

(* unmark_long_term_field_for_reference_by_frame_idx: a store that holds    *)
(* idx keeps it only if it holds just the field complementary to the one    *)
(* that gets idx; mates are the stores that field may belong to.            *)
FreeSameField(d, f, idx, mates) ==   (* Mutant of FreeFieldIdx. *)
  UnmarkLongIn(d, {i \in LongList(d) : d[i].idx = idx /\ f \in d[i].lt})
FreeFieldIdx(d, f, idx, mates) ==
  UnmarkLongIn(d, {i \in LongList(d) : d[i].idx = idx /\ (f \in d[i].lt \/ i \notin mates)})

(* mark_pic_long_term                                                       *)
MarkPicLongTerm(d, x, idx) ==
  IF cur.struct = "frame"
    THEN LET hits == {i \in ShortList(d) : /\ d[i].ref = Fields /\ "frame" \notin d[i].plt
                                           /\ PicNum(d[i], "frame", cur) = x}
         IN [i \in DOMAIN d |-> IF i \in FirstOf(hits) THEN MarkFrameLong(d[i], idx) ELSE d[i]]
    ELSE LET hits == {i \in ShortList(d) : ShortFields(d, i, x) \ d[i].plt # {}}
         IN [i \in DOMAIN d |->
               IF i \notin FirstOf(hits) THEN d[i]
               ELSE MarkFieldLong(d[i], CHOOSE f \in Fields : f \in ShortFields(d, i, x) \ d[i].plt,
                                  idx)]

(* The field the operation names, searched in the list of short-term stores *)
(* whether or not the field itself is long-term.                            *)
NamedFields(x) ==
  {f \in Fields : \E i \in ShortList(dpb) :
     /\ f \in ShortFields(dpb, i, x)
     /\ i \in FirstOf({j \in ShortList(dpb) : ShortFields(dpb, j, x) # {}})}

(* mm_assign_long_term_frame_idx.  A stream gives both fields of a frame    *)
(* the same long_term_frame_idx (the code only warns of another one).       *)
Mmco3 ==
  /\ Operation(3)
  /\ \E diff \in PicNumDiffs, idx \in Idxs :
       LET x == PicNumX(cur, diff)
           num == (IF x < 0 THEN x + 2 * MaxFrameNum ELSE x) \div 2
           mates == {i \in DOMAIN dpb : dpb[i].num = num}
       IN IF cur.struct = "frame"
            THEN /\ dpb' = UpdateLists(MarkPicLongTerm(FreeFrameIdx(dpb, idx), x, idx))
                 /\ UNCHANGED <<pc, ret, err>>
          ELSE IF NamedFields(x) = {}
            THEN Fail(dpb, "field for long term marking not found")
          ELSE \E f \in NamedFields(x) :
                 /\ \A i \in ShortList(dpb) :
                      f \in ShortFields(dpb, i, x) /\ dpb[i].lt # {} => dpb[i].idx = idx
                 /\ dpb' = UpdateLists(MarkPicLongTerm(FreeFieldIdx(dpb, f, idx, mates), x, idx))
                 /\ UNCHANGED <<pc, ret, err>>
  /\ UNCHANGED <<maxLt, cur, mm5>>

(* mm_update_max_long_term_frame_idx                                        *)
BoundFrameIdx(d, max) == UnmarkLongIn(d, {i \in LongList(d) : d[i].idx > max})

Mmco4 ==
  /\ Operation(4)
  /\ \E plus1 \in 0 .. MaxIdx + 1 :
       /\ maxLt' = plus1 - 1
       /\ dpb' = UpdateLtRefList(BoundFrameIdx(dpb, plus1 - 1))
  /\ UNCHANGED <<pc, ret, cur, mm5, err>>

(* Both kinds of references are unmarked; fs_ltref is left as it was.       *)
Mmco5 ==
  /\ Operation(5) /\ nops = 0
  /\ cur.struct = "frame" \/ stream.first # NoPicture
  /\ maxLt' = -1
  /\ dpb' = BoundFrameIdx(UpdateRefList(UnmarkIn(dpb, ShortList(dpb))), -1)
  /\ mm5' = TRUE
  /\ UNCHANGED <<pc, ret, cur, err>>

(* mm_mark_current_picture_long_term, then check_num_ref: fs_ltref still    *)
(* has the stores that were unmarked.                                       *)
Mmco6 ==
  /\ Operation(6)
  /\ \E idx \in Idxs :
       LET mates == {i \in {last} \cap DOMAIN dpb : dpb[i].num = cur.num}
           d == IF cur.struct = "frame" THEN FreeFrameIdx(dpb, idx)
                ELSE FreeFieldIdx(dpb, cur.struct, idx, mates)
       IN /\ last # 0 /\ cur.struct # "frame" /\ dpb[last].num = cur.num /\ dpb[last].lt # {}
               => dpb[last].idx = idx
          /\ cur' = [cur EXCEPT !.lt = TRUE, !.idx = idx]
          /\ IF TooManyRefs(d)
               THEN Fail(d, "Max. number of reference frames exceeded. Invalid stream.")
               ELSE dpb' = d /\ UNCHANGED <<pc, ret, err>>
  /\ UNCHANGED <<maxLt, mm5>>

(* The end of the list of operations.  After operation 5 the picture        *)
(* becomes frame 0 of a sequence, exit_picture resets pre_frame_num, and    *)
(* the buffer is flushed.                                                   *)
MmcoEnd ==
  /\ pc = "mmco"
  /\ IF mm5
       THEN LET seq == 1 - stream.seq
                p == [cur EXCEPT !.num = 0, !.poc = 0, !.id = [seq |-> seq, k |-> 0]]
            IN /\ cur' = p
               /\ stream' = [stream EXCEPT !.pre = 0, !.seq = seq, !.ks = {0},
                                           !.first = FirstField(p)]
               /\ Flush(dpb, "pair")
       ELSE pc' = "pair" /\ UNCHANGED <<dpb, ret, cur, stream>>
  /\ written' = <<>>
  /\ UNCHANGED <<last, maxLt, lastPoc, outbuf, mm5, nops, err>>

-----------------------------------------------------------------------------
(* store_picture_in_dpb, after the marking of earlier pictures              *)

(* Mutant: the first field must still be a reference.                       *)
IsSecondFieldNow ==   (* Mutant of IsSecondField. *)
  /\ cur.struct # "frame" /\ last # 0
  /\ dpb[last].num = cur.num
  /\ dpb[last].used = {Opposite(cur.struct)}
  /\ cur.ref <=> dpb[last].ref # {}
IsSecondField ==
  /\ cur.struct # "frame" /\ last # 0
  /\ dpb[last].num = cur.num
  /\ dpb[last].used = {Opposite(cur.struct)}
  /\ cur.ref <=> dpb[last].orig # {}

RefFrames(d) == {i \in DOMAIN d : UsedForReference(d[i])}

Sliding == cur.ref /\ ~cur.idr /\ ~cur.adaptive

(* A second field joins the first field, with no check of the limits.       *)
Pair ==
  /\ pc = "pair" /\ IsSecondField
  /\ dpb' = UpdateLists([dpb EXCEPT ![last] = Insert(@, cur)])
  /\ last' = 0
  /\ pc' = "idle" /\ cur' = NoPicture
  /\ written' = <<>>
  /\ UNCHANGED <<maxLt, lastPoc, outbuf, ret, mm5, nops, err, stream>>

(* sliding_window_memory_management                                         *)
WaitingVictims ==   (* Mutant of SlidingVictims. *)
  {i \in DOMAIN dpb : dpb[i].ref # {} /\ dpb[i].lt = {} /\ ~dpb[i].out}
SlidingVictims == {i \in DOMAIN dpb : dpb[i].ref # {} /\ dpb[i].lt = {}}

Slide ==
  /\ pc = "pair" /\ ~IsSecondField
  /\ dpb' = IF Sliding /\ Cardinality(ShortList(dpb)) = MaxRef - Cardinality(LongList(dpb))
              THEN UpdateRefList(UnmarkIn(dpb, FirstOf(SlidingVictims)))
              ELSE dpb
  /\ pc' = "trim"
  /\ written' = <<>>
  /\ UNCHANGED <<last, maxLt, lastPoc, outbuf, ret, cur, mm5, nops, err, stream>>

(* A full buffer first loses one frame that nobody needs.                   *)
Trim ==
  /\ pc = "trim"
  /\ IF Full /\ Unused # {} THEN RemoveUnused ELSE UNCHANGED <<dpb, last>>
  /\ pc' = "room"
  /\ written' = <<>>
  /\ UNCHANGED <<maxLt, lastPoc, outbuf, ret, cur, mm5, nops, err, stream>>

(* A non-reference picture that precedes all that wait, or finds none       *)
(* waiting, does not enter a full buffer.                                   *)
GoesOutBefore ==   (* Mutant of GoesOutDirectly: something must wait. *)
  ~cur.ref /\ \E i \in NotOutput : IsSmallestPoc(i) /\ cur.poc < dpb[i].poc
GoesOutDirectly ==
  ~cur.ref /\ \A i \in NotOutput : cur.poc < dpb[i].poc

(* direct_output: a frame is written after any waiting field; a field waits *)
(* for one of the other parity.                                             *)
DirectOutput ==
  /\ pc = "room" /\ Full /\ GoesOutDirectly
  /\ IF cur.struct = "frame"
       THEN /\ written' = PendingDirect \o <<[f \in Fields |-> cur.id]>>
            /\ outbuf' = Blank
       ELSE LET clash == outbuf[cur.struct] # NoId
                buf == [(IF clash THEN Blank ELSE outbuf) EXCEPT ![cur.struct] = cur.id]
                whole == \A f \in Fields : buf[f] # NoId
            IN /\ written' = (IF clash THEN PendingDirect ELSE <<>>)
                               \o (IF whole THEN <<buf>> ELSE <<>>)
               /\ outbuf' = IF whole THEN Blank ELSE buf
  /\ pc' = "idle" /\ cur' = NoPicture
  /\ UNCHANGED <<dpb, last, maxLt, lastPoc, ret, mm5, nops, err, stream>>

Bump ==
  /\ pc = "room" /\ Full /\ ~GoesOutDirectly /\ NotOutput # {}
  /\ OutputOne
  /\ UNCHANGED <<maxLt, cur, mm5, nops, stream>>

(* With nothing to output the loop goes round and nothing changes.          *)
Spin ==
  /\ pc = "room" /\ Full /\ ~GoesOutDirectly /\ NotOutput = {}
  /\ UNCHANGED vars

DuplicateFrameNum ==
  cur.ref /\ ~cur.lt /\ \E i \in ShortList(dpb) : dpb[i].num = cur.num

(* The picture takes the first empty store, and the limit is checked.       *)
Store ==
  /\ pc = "room" /\ ~Full
  /\ LET d == UpdateLists(Append(dpb, Insert(EmptyStore(cur.id), cur)))
     IN IF DuplicateFrameNum
          THEN /\ Fail(dpb, "duplicate frame_num in short-term reference picture buffer")
               /\ UNCHANGED <<last, cur>>
        ELSE /\ last' = IF cur.struct = "frame" THEN 0 ELSE Len(d)
             /\ IF TooManyRefs(d)
                  THEN /\ Fail(d, "Max. number of reference frames exceeded. Invalid stream.")
                       /\ UNCHANGED cur
                  ELSE /\ dpb' = d /\ pc' = "idle" /\ cur' = NoPicture
                       /\ UNCHANGED <<ret, err>>
  /\ written' = <<>>
  /\ UNCHANGED <<maxLt, lastPoc, outbuf, mm5, nops, stream>>

-----------------------------------------------------------------------------
Receive == ReceiveIdr \/ ReceivePicture \/ ReceiveSecondField \/ FillFrameNumGap

Mmco == Mmco1 \/ Mmco2 \/ Mmco3 \/ Mmco4 \/ Mmco5 \/ Mmco6 \/ MmcoEnd

Work ==
  \/ IdrStart \/ IdrTail \/ FlushPurge \/ FlushDrain \/ FlushDone
  \/ Mmco \/ Pair \/ Slide \/ Trim \/ DirectOutput \/ Bump \/ Spin \/ Store

(* The program has exited.                                                  *)
Exited == pc = "halt" /\ UNCHANGED vars

Next == Receive \/ EndOfStream \/ Work \/ Exited

(* One thread: a call that was made goes on, and after it the next picture  *)
(* is read; and a stream has an end.                                        *)
CallFairness == WF_vars(Work)
StreamFairness == WF_vars(Receive \/ EndOfStream) /\ SF_vars(EndOfStream)

Spec == Init /\ [][Next]_vars
CallSpec == Spec /\ CallFairness
FairSpec == CallSpec /\ StreamFairness

-----------------------------------------------------------------------------
TypeOK ==
  /\ dpb \in Seq(Stores) /\ Len(dpb) <= DpbSize
  /\ last \in 0 .. Len(dpb)
  /\ maxLt \in -1 .. MaxIdx
  /\ lastPoc \in Pocs \cup {INT_MIN}
  /\ outbuf \in Written
  /\ pc \in Labels /\ ret \in {"idrtail", "pair", "halt"}
  /\ cur \in Pictures \cup {NoPicture}
  /\ mm5 \in BOOLEAN /\ nops \in 0 .. MaxMmco
  /\ err \in Errors
  /\ written \in Seq(Written)
  /\ stream \in StreamOf

(* The bits of every store agree with the flags of its pictures: a field is *)
(* marked in both or in neither, and the frame exactly when both fields are.*)
BitsAgree(bits, flags) ==
  /\ "frame" \in flags <=> bits = Fields
  /\ IF FrameMbsOnly THEN bits \in {{}, Fields} /\ flags \subseteq {"frame"}
     ELSE flags \cap Fields = bits

MarksAgree ==
  \A i \in DOMAIN dpb :
    BitsAgree(dpb[i].ref, dpb[i].pref) /\ BitsAgree(dpb[i].lt, dpb[i].plt)

(* Between two calls fs_ref and fs_ltref list the stores whose pictures are *)
(* marked, whatever unmarking, output and removal went before.              *)
ListsFresh ==
  pc = "idle" => \A i \in DOMAIN dpb : /\ dpb[i].short <=> IsShortTerm(dpb[i])
                                       /\ dpb[i].long <=> IsLongTerm(dpb[i])

(* Between two calls no more frames are references than the sequence allows.*)
RefsWithinLimit == pc = "idle" => Cardinality(RefFrames(dpb)) <= MaxRef

(* The loop that makes room finds nothing to output only if the picture is  *)
(* a reference that the limit leaves no room for: a frame that the marking  *)
(* of this very call has freed was removed before, so that a stream within  *)
(* its limits never makes store_picture_in_dpb hang.                        *)
OverLimit == cur.ref /\ Cardinality(RefFrames(dpb)) >= MaxRef
Hangs == pc = "room" /\ Full /\ ~GoesOutDirectly /\ NotOutput = {}
HangsOnlyOverLimit == Hangs => OverLimit

(* Between two calls no two stores hold the same long-term frame index:     *)
(* operations 3 and 6 take it from the frame that had it, also when only a  *)
(* field of it has, and from no other.  But one of a field leaves it to a   *)
(* store that holds the other parity and has the same frame_num, which the  *)
(* code takes for the same frame; it is an older one when frame_num has     *)
(* wrapped since (see the README).                                          *)
MayShareIdx(fs, gs) == fs.num = gs.num /\ fs.lt \cap gs.lt = {}
LongTermIdxUnique ==
  pc = "idle" => \A i, j \in LongList(dpb) :
    dpb[i].idx = dpb[j].idx => i = j \/ MayShareIdx(dpb[i], dpb[j])

(* A stream that keeps the rules is not refused for its references: the     *)
(* window slides and gaps are filled so that no frame_num is met twice and  *)
(* no reference frame is one too many.                                      *)
LegalStreamAccepted ==
  err \notin {"duplicate frame_num in short-term reference picture buffer",
              "Max. number of reference frames exceeded. Invalid stream."}

(* The two fields of a frame never end up in two stores: last_picture still *)
(* names the store of the first field when the second arrives, whatever was *)
(* output, unmarked or removed in between.                                  *)
OneStorePerFrame ==
  \A i, j \in DOMAIN dpb : dpb[i].id = dpb[j].id /\ dpb[i].id # NoId => i = j

(* The frame that leaves the window is the one with the smallest            *)
(* FrameNumWrap, though the code takes the first in the buffer.             *)
SlidesOldest ==
  [][\A i \in DOMAIN dpb :
       Slide /\ dpb[i].ref # {} /\ dpb'[i].ref = {} =>
         \A j \in ShortList(dpb) : FrameNumWrap(dpb[i], cur) <= FrameNumWrap(dpb[j], cur)]_vars

(* What has entered the buffer or the direct output and waits to be written.*)
Pending ==
  {dpb[i].id : i \in NotOutput} \cup ({outbuf[f] : f \in Fields} \ {NoId})

Output == INSTANCE PictureOutput WITH
  Frames <- Ids, pending <- Pending,
  dropping <- (pc = "idr" /\ cur.noout)

(* The buffer implements PictureOutput: what store_picture_in_dpb accepts   *)
(* is written once, whole, by bumping, directly or in a flush, and none     *)
(* waits forever, unless an IDR picture says to drop it.                    *)
ImplementsOutput == Output!Spec

(* Every call of store_picture_in_dpb returns, or the program exits: the    *)
(* loops that make room, flush and mark always find something to do, but    *)
(* for a stream that exceeds the limit on reference frames.                 *)
Rests == pc \in {"idle", "halt"}
CallsEnd == []<>(Rests \/ (Hangs /\ OverLimit))
=============================================================================
