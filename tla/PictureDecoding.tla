--------------------------- MODULE PictureDecoding ---------------------------
(***************************************************************************)
(* decode_one_frame of the decoder (ldecod/image.c) and what it calls to   *)
(* find the slices of a picture in the stream, to fill gaps in frame_num,  *)
(* to give the picture its order counts and to store it; with the picture  *)
(* parameter sets (ldecod/parset.c) that change meanwhile.  The buffer     *)
(* behind store_picture_in_dpb is in Dpb.                                  *)
(*                                                                         *)
(* A picture ends where the next begins, so its slices are known only when *)
(* the first slice of the next picture has been read: this one is kept in  *)
(* pNextSlice while the picture is decoded and stored.                     *)
(***************************************************************************)
EXTENDS CodedStream

CONSTANTS
  MaxLost,        (* bound: slices the stream loses                         *)
  MaxRedundant,   (* bound: redundant slices in the stream                  *)
  MaxResent       (* bound: picture parameter sets sent again, changed      *)

ASSUME DecodingAssumption ==
  MaxLost \in Nat /\ MaxRedundant \in Nat /\ MaxResent \in Nat
(* 0 stands for no parameter set.                                           *)
ASSUME ParameterSetsAssumption == 0 \notin PicParameterSets

VARIABLES
  slots,      (* ppSliceList; slots[1] is ppSliceList[0]                    *)
  next,       (* pNextSlice                                                 *)
  n,          (* iSliceNumOfCurrPic                                         *)
  newframe,   (* newframe: the first slice of the picture was read before   *)
  old,        (* old_slice: the header of the last slice                    *)
  pic,        (* dec_picture: its head and counts, or None                  *)
  preNum,     (* pre_frame_num                                              *)
  prevNum,    (* previous_frame_num                                         *)
  mem,        (* the memory of decode_poc                                   *)
  pps,        (* PicParSet: the content (a version) of each set             *)
  nextPps,    (* pNextPPS                                                   *)
  activePps,  (* active_pps: the id of the set it points to, or None        *)
  pc,         (* the place in decode_one_frame                              *)
  stored,     (* the last picture given to store_picture_in_dpb             *)
  stream, lost, spent  (* the stream: what was sent, lost and used up       *)

decoder == <<slots, next, n, newframe, old, pic, preNum, prevNum, mem, pps, nextPps,
             activePps, pc, stored>>
vars == <<decoder, stream, lost, spent>>

None == 0

(* A slice object as malloc_slice makes it.                                 *)
FreshSlice == [head |-> NoHead, part |-> {}, redundant |-> FALSE, poc |-> FirstPoc]
NoPps == [valid |-> FALSE, id |-> 0, version |-> 0]
NoPicture == [head |-> NoHead, poc |-> FirstPoc]

(* Of a picture given to the buffer: is it an IDR picture, its frame_num,   *)
(* the macroblocks it was decoded from, each with the picture it was sent   *)
(* in; and the frame_num the next reference picture has to follow.          *)
NothingStored == [idr |-> FALSE, num |-> 0, from |-> {}, base |-> 0]

Init ==
  /\ slots = <<FreshSlice>> /\ next = FreshSlice
  /\ n = 0 /\ newframe = FALSE /\ old = NoHead /\ pic = NoPicture
  /\ preNum = 0 /\ prevNum = 0 /\ mem = FirstMemory
  /\ pps = [i \in PicParameterSets |-> 0] /\ nextPps = NoPps /\ activePps = None
  /\ pc = "read" /\ stored = NothingStored
  /\ stream \in FirstStreams /\ lost = {}
  /\ spent = [lost |-> 0, redundant |-> 0, resent |-> 0]

-----------------------------------------------------------------------------
(* The beginning of a call: the first slice, read by the call before,       *)
(* becomes slot 0, and the parameter set it was read with is put back.      *)
RestorePps ==
  IF nextPps.valid
  THEN /\ pps' = [pps EXCEPT ![nextPps.id] = nextPps.version]
       /\ nextPps' = [nextPps EXCEPT !.valid = FALSE]
  ELSE UNCHANGED <<pps, nextPps>>

Start ==
  /\ pc = "start"
  /\ RestorePps
  /\ slots' = [slots EXCEPT ![1] = next]
  /\ next' = slots[1]
  /\ activePps' = next.head.pps
  /\ n' = 0
  /\ pc' = "init"
  /\ UNCHANGED <<newframe, old, pic, preNum, prevNum, mem, stored, stream, lost, spent>>

(* init_picture.  dec_picture of a picture that was not finished is         *)
(* overwritten: exit_picture returns at once, since no macroblock of the    *)
(* new picture is decoded yet.                                              *)
Current == slots[1]
AfterPreNumUnwrapped == preNum + 1   (* Mutant of AfterPreNum. *)
AfterPreNum == (preNum + 1) % MaxFrameNum
IsGapAhead == Current.head.num > AfterPreNum   (* Mutant of IsGap. *)
IsGap == Current.head.num # preNum /\ Current.head.num # AfterPreNum

UnintentionalLoss ==
  /\ pc = "init" /\ IsGap /\ ~stream.gaps
  /\ pc' = "exit"
  /\ UNCHANGED <<slots, next, n, newframe, old, pic, preNum, prevNum, mem, pps, nextPps,
                 activePps, stored, stream, lost, spent>>

(* One round of fill_frame_num_gap.  The store clears last_has_mmco_5.      *)
GapPoc ==
  LET h == [Current.head EXCEPT !.num = AfterPreNum, !.d0 = 0, !.d1 = 0]
  IN IF stream.type = 0 THEN [poc |-> Current.poc, mem |-> mem]
     ELSE DecodePoc(stream.type, mem, h, Current.poc)

FillGap ==
  /\ pc = "init" /\ IsGap /\ stream.gaps
  /\ slots' = [slots EXCEPT ![1].poc = GapPoc.poc]
  /\ mem' = [GapPoc.mem EXCEPT !.mm5 = FALSE, !.bottom = FALSE]
  /\ preNum' = AfterPreNum
  /\ stored' = [stored EXCEPT !.idr = FALSE, !.num = AfterPreNum, !.base = AfterPreNum]
  /\ UNCHANGED <<next, n, newframe, old, pic, prevNum, pps, nextPps, activePps, pc, stream, lost, spent>>

(* A slice that is not kept.                                                *)
Discarded(s) == s.redundant /\ s.head.num = prevNum

InitPicture ==
  /\ pc = "init" /\ ~IsGap
  /\ LET d == DecodePoc(stream.type, mem, Current.head, Current.poc)
     IN /\ slots' = [slots EXCEPT ![1].poc = d.poc]
        /\ mem' = d.mem
        /\ pic' = [head |-> Current.head, poc |-> d.poc]
  /\ preNum' = IF Current.head.ref THEN Current.head.num ELSE preNum
  /\ IF newframe \/ ~Discarded(Current)
     THEN n' = 1 /\ pc' = "read"
     ELSE n' = 0 /\ pc' = "decode"
  /\ UNCHANGED <<next, newframe, old, prevNum, pps, nextPps, activePps, stored, stream, lost, spent>>

-----------------------------------------------------------------------------
(* The stream gives a slice of the picture it is in, the first slice of the *)
(* next picture, or, behind the slices of a picture, a redundant one of it. *)
Arriving ==
  {[head |-> a.head, part |-> a.part, redundant |-> FALSE, after |-> a.after] : a \in NextSlices(stream)}
Redundant ==
  IF spent.redundant = MaxRedundant \/ stream.head = NoHead \/ stream.left # <<>> \/ stream.closed THEN {}
  ELSE {[head |-> stream.head, part |-> p, redundant |-> TRUE, after |-> stream] :
          p \in UNION {Range(q) : q \in Slicings}}

(* After a loss the slices of two pictures may look like those of one: both  *)
(* pictures count as lost.                                                  *)
Merged(a) ==
  IF a.head.id # stream.heard.id /\ Key(a.head) = Key(stream.heard)
  THEN {a.head.id, stream.heard.id} ELSE {}

Sent(a) ==
  /\ stream' = [a.after EXCEPT !.heard = a.head]
  /\ spent' = IF a.redundant THEN [spent EXCEPT !.redundant = @ + 1] ELSE spent
  /\ lost' = lost \cup Merged(a)

(* read_new_slice fills the object in slot n, made when it is missing; the  *)
(* object keeps its order counts.                                           *)
Objects == IF n + 1 > Len(slots) THEN Append(slots, FreshSlice) ELSE slots
ReadInto(a) ==
  [Objects[n + 1] EXCEPT !.head = a.head, !.part = a.part, !.redundant = a.redundant]

IsNewFrameNum(a) == pic = NoPicture \/ a.head.num # old.num   (* Mutant of IsNewPicture. *)
IsNewPicture(a) == pic = NoPicture \/ Key(a.head) # Key(old)

(* What reading a slice header changes.                                     *)
HeaderRead(a) ==
  /\ pc = "read"
  /\ activePps' = a.head.pps
  /\ preNum' = IF a.head.idr THEN a.head.num ELSE preNum
  /\ UNCHANGED <<pic, prevNum, mem, pps, nextPps, stored>>

(* The first slice of all: its picture is begun at once.                    *)
ReadFirst(a) ==
  /\ HeaderRead(a) /\ n = 0 /\ IsNewPicture(a)
  /\ slots' = [Objects EXCEPT ![1] = ReadInto(a)]
  /\ old' = IF Discarded(ReadInto(a)) THEN old ELSE a.head
  /\ pc' = "init"
  /\ UNCHANGED <<next, n, newframe>>

(* A further slice of the picture has the order counts of the first one.    *)
KeepPoc(s) == s   (* Mutant of CopyPoc. *)
CopyPoc(s) == IF n > 0 THEN [s EXCEPT !.poc = Current.poc] ELSE s

ReadSlice(a) ==
  /\ HeaderRead(a) /\ ~IsNewPicture(a) /\ ~Discarded(ReadInto(a))
  /\ slots' = [Objects EXCEPT ![n + 1] = CopyPoc(ReadInto(a))]
  /\ n' = n + 1
  /\ old' = a.head
  /\ UNCHANGED <<next, newframe, pc>>

(* The first slice of the next picture.                                     *)
ReadAhead(a) ==
  /\ HeaderRead(a) /\ n > 0 /\ IsNewPicture(a) /\ ~Discarded(ReadInto(a))
  /\ slots' = [Objects EXCEPT ![n + 1] = next]
  /\ next' = ReadInto(a)
  /\ newframe' = TRUE
  /\ old' = a.head
  /\ pc' = "decode"
  /\ UNCHANGED n

(* A redundant slice that is discarded stays in the slot that the next      *)
(* slice is read into, but it ends the picture when it looks like a new one.*)
Discard(a) ==
  /\ HeaderRead(a) /\ Discarded(ReadInto(a)) /\ (n > 0 \/ ~IsNewPicture(a))
  /\ slots' = [Objects EXCEPT ![n + 1] = ReadInto(a)]
  /\ pc' = IF IsNewPicture(a) THEN "decode" ELSE "read"
  /\ UNCHANGED <<next, n, newframe, old>>

ReceiveFirst == \E a \in Arriving \cup Redundant : ReadFirst(a) /\ Sent(a)
ReceiveSlice == \E a \in Arriving \cup Redundant : ReadSlice(a) /\ Sent(a)
ReceiveAhead == \E a \in Arriving \cup Redundant : ReadAhead(a) /\ Sent(a)
ReceiveRedundant == \E a \in Redundant : Discard(a) /\ Sent(a)

(* A slice is lost on the way to the decoder; the first of all is not.      *)
LoseSlice ==
  /\ pc = "read" /\ stream.head # NoHead /\ spent.lost < MaxLost
  /\ \E a \in Arriving :
       /\ stream' = a.after
       /\ lost' = lost \cup {a.head.id}
  /\ spent' = [spent EXCEPT !.lost = @ + 1]
  /\ UNCHANGED decoder

(* ProcessPPS: between two pictures a parameter set is sent again, changed. *)
(* If it is the active one its old content is kept for the picture at work. *)
ProcessPps(i, version) ==
  /\ IF activePps = i /\ version # pps[i]
     THEN /\ nextPps' = [valid |-> TRUE, id |-> i, version |-> pps[i]]
          /\ activePps' = None
     ELSE UNCHANGED <<nextPps, activePps>>
  /\ pps' = [pps EXCEPT ![i] = version]

ReceivePps ==
  /\ pc = "read" /\ stream.left = <<>> /\ spent.resent < MaxResent
  /\ \E i \in PicParameterSets :
       /\ stream' = Resent(stream, i)
       /\ ProcessPps(i, stream'.versions[i])
  /\ spent' = [spent EXCEPT !.resent = @ + 1]
  /\ UNCHANGED <<slots, next, n, newframe, old, pic, preNum, prevNum, mem, pc, stored, lost>>

(* The end of the stream ends the picture; the object of the slot the next  *)
(* slice would have gone to is taken for it.                                *)
EndOfStream ==
  /\ pc = "read" /\ n > 0 /\ stream.left = <<>>
  /\ slots' = [Objects EXCEPT ![n + 1] = next]
  /\ next' = Objects[n + 1]
  /\ newframe' = TRUE
  /\ old' = Objects[n + 1].head
  /\ pc' = "last"
  /\ UNCHANGED <<n, pic, preNum, prevNum, mem, pps, nextPps, activePps, stored, stream, lost, spent>>

-----------------------------------------------------------------------------
(* init_picture_decoding, the slices, exit_picture.  The set that the       *)
(* picture was read with is made available again, and what was sent since   *)
(* is kept for the next picture.                                            *)
SwapNothing == UNCHANGED <<pps, nextPps>>   (* Mutant of SwapPps. *)
SwapPps ==
  LET i == Current.head.pps
  IN IF nextPps.valid /\ nextPps.id = i
     THEN /\ pps' = [pps EXCEPT ![i] = nextPps.version]
          /\ nextPps' = [nextPps EXCEPT !.version = pps[i]]
     ELSE UNCHANGED <<pps, nextPps>>

Decoded == {slots[i] : i \in 1 .. n}
NumDecMb == FoldFunctionOnSet(+, 0, [i \in 1 .. n |-> Cardinality(slots[i].part)], 1 .. n)
IsComplete == NumDecMb = Cardinality(Macroblocks)

StorePicture ==
  /\ stored' = [idr |-> pic.head.idr, num |-> pic.head.num,
                from |-> UNION {{s.head.id} \X s.part : s \in Decoded},
                base |-> IF ~pic.head.ref THEN stored.base
                         ELSE IF pic.head.mmco5 THEN 0 ELSE pic.head.num]
  /\ mem' = [mem EXCEPT !.mm5 = pic.head.mmco5, !.bottom = pic.head.struct = "bottom"]
  /\ preNum' = IF pic.head.mmco5 THEN 0 ELSE preNum
  /\ pic' = NoPicture

Decode ==
  /\ pc \in {"decode", "last"}
  /\ SwapPps
  /\ activePps' = Current.head.pps
  /\ IF IsComplete THEN StorePicture ELSE UNCHANGED <<stored, mem, preNum, pic>>
  /\ prevNum' = Current.head.num
  /\ n' = 0
  /\ pc' = IF pc = "last" THEN "end" ELSE IF newframe THEN "start" ELSE "read"
  /\ UNCHANGED <<slots, next, newframe, old, stream, lost, spent>>

Ended ==
  /\ pc \in {"end", "exit"}
  /\ UNCHANGED vars

Next ==
  \/ Start \/ UnintentionalLoss \/ FillGap \/ InitPicture
  \/ ReceiveFirst \/ ReceiveSlice \/ ReceiveAhead \/ ReceiveRedundant
  \/ LoseSlice \/ ReceivePps \/ EndOfStream
  \/ Decode \/ Ended

(* One thread that never waits, reading a file that ends.                   *)
Spec == Init /\ [][Next]_vars /\ WF_vars(Next)

-----------------------------------------------------------------------------
(* The frame numbers in use are below max_frame_num, there is an object for *)
(* each slice of the picture, and the active parameter set exists.          *)
TypeOK ==
  /\ n \in 0 .. Len(slots) /\ Len(slots) > 0
  /\ {preNum, prevNum, stored.num, stored.base} \subseteq 0 .. MaxFrameNum - 1
  /\ newframe \in BOOLEAN /\ activePps \in PicParameterSets \cup {None}
  /\ pps \in [PicParameterSets -> {0, 1}] /\ nextPps.id \in PicParameterSets \cup {None}
  /\ pc \in {"start", "init", "read", "decode", "last", "end", "exit"}
  /\ lost \subseteq 1 .. MaxPictures

(* The picture at work has the order counts the stream means it to have:    *)
(* decode_poc recovers them from a wrapped field or a wrapped frame number, *)
(* over gaps, operation 5 and pairs of fields, from what the pictures       *)
(* before left in VideoParameters and in the slice object.                  *)
PocRight ==
  LET h == pic.head
  IN pic # NoPicture =>
       CASE h.struct = "frame" ->
              /\ pic.poc.top = h.first /\ pic.poc.bottom = h.second
              /\ pic.poc.frame = Min2(h.first, h.second)
         [] h.struct = "top" -> pic.poc.top = h.first /\ pic.poc.frame = h.first
         [] h.struct = "bottom" -> pic.poc.bottom = h.first /\ pic.poc.frame = h.first

(* All slices of a picture are decoded with the order counts of its first   *)
(* one, which CopyPOC took there while the objects went from list to list.  *)
SlicesAgree ==
  pc \in {"decode", "last"} => \A s \in Decoded : s.poc = pic.poc

(* Each slice is decoded with the content of the picture parameter set that *)
(* it was written for, though the set may have been sent again before the   *)
(* first slice of the next picture, which is read with the new content      *)
(* before the picture at work is decoded with the old one.  Of a stream     *)
(* that lost nothing: see the README for one that did.                      *)
OwnParameterSet ==
  [][Decode /\ lost = {} => \A s \in Decoded : pps'[s.head.pps] = s.head.version]_vars

(* What the buffer relies on: the frame_num of a picture it is given is     *)
(* that of the last reference picture, or one more, the gaps being filled.  *)
FrameNumsFollow ==
  [][stored' # stored =>
       stored'.idr \/ stored'.num \in {stored.base, (stored.base + 1) % MaxFrameNum}]_vars

(* Pictures are stored once, whole, in order and unmixed, those without a   *)
(* lost slice are stored, and the program gives up only after a loss.       *)
Delivery ==
  INSTANCE PictureDelivery WITH
    sent <- stream.head.id, stored <- stored.from, stopped <- pc = "exit"
ImplementsDelivery == Delivery!Spec

(* "If primary and redundant are received and primary is correct, discard   *)
(* the redundant" (image.c): no redundant slice is decoded where a primary  *)
(* slice of the same macroblocks is.                                        *)
RedundantDiscarded ==
  pc \in {"decode", "last"} =>
    \A r, s \in Decoded : r.redundant /\ ~s.redundant => r.part \cap s.part = {}
=============================================================================
