------------------------------ MODULE DpbProofs ------------------------------
(***************************************************************************)
(* Proofs about Dpb for every value of its constants: the type invariant   *)
(* and the agreement of the two copies of the reference marking.           *)
(***************************************************************************)
EXTENDS Dpb, SequenceTheorems, TLAPS

(***************************************************************************)
(* The stores that keep what the proof is about.  A sequence that codes    *)
(* frames only has no store with a single field.                           *)
(***************************************************************************)
GoodStores ==
  {fs \in Stores : /\ BitsAgree(fs.ref, fs.pref)
                   /\ BitsAgree(fs.lt, fs.plt)
                   /\ fs.ref \subseteq fs.used /\ fs.lt \subseteq fs.used
                   /\ FrameMbsOnly => fs.used = Fields}

(* What the picture being stored keeps, by the place in the code: only a    *)
(* reference picture becomes long-term, and a sequence of frames has no     *)
(* fields.                                                                  *)
Busy == pc \in {"idr", "idrtail", "mmco", "pair", "trim", "room"}
Flushing == pc \in {"purge", "drain"}

GoodPicture(p) ==
  /\ p \in Pictures
  /\ p.lt => p.ref
  /\ FrameMbsOnly => p.struct = "frame"

CurGood ==
  /\ Busy \/ (Flushing /\ ret # "halt") => GoodPicture(cur)
  /\ pc \in {"idr", "idrtail", "mmco"} \/ (Flushing /\ ret = "idrtail") => cur.ref

(* The first field of a pair that waits for its second field.               *)
FirstGood ==
  stream.first # NoPicture =>
    /\ GoodPicture(stream.first)
    /\ stream.first.struct \in Fields
    /\ stream.first.id \in Ids

IndInv == TypeOK /\ dpb \in Seq(GoodStores) /\ CurGood /\ FirstGood

(* Every operation on a store keeps it good.                                *)
LEMMA UnmarkGood == \A fs \in GoodStores : Unmark(fs) \in GoodStores
  BY FrameMbsOnlyAssumption, ZenonT(40)
     DEF GoodStores, Stores, StoreOf, Unmark, BitsAgree, Fields, Views

LEMMA UnmarkLongGood == \A fs \in GoodStores : UnmarkLong(fs) \in GoodStores
  BY FrameMbsOnlyAssumption, ZenonT(40)
     DEF GoodStores, Stores, StoreOf, UnmarkLong, BitsAgree, Fields, Views

LEMMA UnmarkFieldGood ==
  ASSUME NEW fs \in GoodStores, NEW f \in Fields, ~FrameMbsOnly
  PROVE  UnmarkField(fs, f) \in GoodStores
  BY DEF GoodStores, Stores, StoreOf, UnmarkField, BitsAgree, Fields, Views

LEMMA UnmarkLongFieldGood ==
  ASSUME NEW fs \in GoodStores, NEW f \in Fields, ~FrameMbsOnly
  PROVE  UnmarkLongField(fs, f) \in GoodStores
  BY ZenonT(30) DEF GoodStores, Stores, StoreOf, UnmarkLongField, BitsAgree, Fields, Views

LEMMA MarkFrameLongGood ==
  ASSUME NEW fs \in GoodStores, NEW idx \in Idxs, fs.ref = Fields
  PROVE  MarkFrameLong(fs, idx) \in GoodStores
  BY FrameMbsOnlyAssumption
     DEF GoodStores, Stores, StoreOf, MarkFrameLong, FrameViews, BitsAgree, Fields, Views

LEMMA MarkFieldLongGood ==
  ASSUME NEW fs \in GoodStores, NEW idx \in Idxs, NEW f \in fs.ref, ~FrameMbsOnly
  PROVE  MarkFieldLong(fs, f, idx) \in GoodStores
<1> DEFINE e == MarkFieldLong(fs, f, idx)
           lt == fs.lt \cup {f}
           plt == fs.plt \cup {f} \cup (IF lt = Fields THEN {"frame"} ELSE {})
<1>1. /\ f \in Fields /\ f \in fs.used
      /\ fs \in Stores /\ fs.lt \in SUBSET Fields /\ fs.plt \in SUBSET Views
      /\ BitsAgree(fs.lt, fs.plt) /\ BitsAgree(fs.ref, fs.pref)
      /\ fs.ref \subseteq fs.used /\ fs.lt \subseteq fs.used
  BY DEF GoodStores, Stores, StoreOf
<1>2. lt \in SUBSET Fields /\ plt \in SUBSET Views /\ lt \subseteq fs.used
  BY <1>1 DEF Fields, Views
<1>3. BitsAgree(lt, plt)
  BY <1>1 DEF BitsAgree, Fields, Views
<1>4. e = [fs EXCEPT !.idx = idx, !.lt = lt, !.plt = plt]
  BY DEF MarkFieldLong
<1> HIDE DEF e, lt, plt
<1>5. /\ e \in Stores /\ e.lt = lt /\ e.plt = plt
      /\ e.ref = fs.ref /\ e.pref = fs.pref /\ e.used = fs.used
  BY <1>1, <1>2, <1>4 DEF Stores, StoreOf
<1>6. e \in GoodStores
  BY <1>1, <1>2, <1>3, <1>5 DEF GoodStores
<1> QED
  BY <1>6 DEF e

(* A frame gets a mark exactly when both of its fields have it.             *)
JoinMarks(flags) == IF Fields \subseteq flags THEN flags \cup {"frame"} ELSE flags \ {"frame"}

LEMMA JoinAgrees ==
  ASSUME NEW bits \in SUBSET Fields, NEW flags \in SUBSET Views,
         flags \cap Fields = bits, ~FrameMbsOnly
  PROVE  BitsAgree(bits, JoinMarks(flags)) /\ JoinMarks(flags) \in SUBSET Views
  BY DEF JoinMarks, BitsAgree, Fields, Views

(* A store whose field marks agree, whatever its frame is marked as.        *)
HalfStores == {fs \in Stores : fs.pref \cap Fields = fs.ref /\ fs.plt \cap Fields = fs.lt}

LEMMA CombinedGood ==
  ASSUME NEW fs \in HalfStores, NEW poc \in Pocs, ~FrameMbsOnly
  PROVE  Combined(fs, poc) \in GoodStores
<1>1. /\ fs \in Stores /\ fs.ref \in SUBSET Fields /\ fs.pref \in SUBSET Views
      /\ fs.lt \in SUBSET Fields /\ fs.plt \in SUBSET Views /\ fs.poc \in Pocs
      /\ fs.pref \cap Fields = fs.ref /\ fs.plt \cap Fields = fs.lt
  BY DEF HalfStores, Stores, StoreOf
<1> DEFINE e == [fs EXCEPT !.used = Fields, !.poc = IF poc < @ THEN poc ELSE @,
                           !.pref = JoinMarks(@), !.plt = JoinMarks(@)]
<1>2. Combined(fs, poc) = e
  BY DEF Combined, JoinMarks
<1>3. /\ JoinMarks(fs.pref) \in SUBSET Views /\ BitsAgree(fs.ref, JoinMarks(fs.pref))
      /\ JoinMarks(fs.plt) \in SUBSET Views /\ BitsAgree(fs.lt, JoinMarks(fs.plt))
  BY <1>1, JoinAgrees
<1>4. e \in Stores
  BY <1>1, <1>3 DEF Stores, StoreOf
<1>5. /\ e.ref = fs.ref /\ e.lt = fs.lt /\ e.used = Fields
      /\ e.pref = JoinMarks(fs.pref) /\ e.plt = JoinMarks(fs.plt)
  BY <1>1 DEF Stores, StoreOf
<1> HIDE DEF e
<1> QED
  BY <1>1, <1>2, <1>3, <1>4, <1>5 DEF GoodStores

LEMMA GoodIsHalf ==
  ASSUME NEW fs \in GoodStores, ~FrameMbsOnly
  PROVE  fs \in HalfStores
  BY DEF GoodStores, HalfStores, BitsAgree

LEMMA BoundsLemma == 0 \in FrameNums /\ 0 \in Pocs /\ 0 \in Idxs
  BY MaxFrameNumAssumption, BoundsAssumption DEF FrameNums, Pocs, Idxs

LEMMA AfterWriteGood ==
  ASSUME NEW fs \in GoodStores
  PROVE  AfterWrite(fs) \in GoodStores
<1>1. CASE fs.used = Fields
  BY <1>1 DEF AfterWrite, GoodStores, Stores, StoreOf, BitsAgree
<1>2. CASE fs.used # Fields
  <2>1. ~FrameMbsOnly
    BY <1>2 DEF GoodStores
  <2>2. FillUnpaired(fs) \in GoodStores
    BY <2>1, CombinedGood, GoodIsHalf, BoundsLemma DEF FillUnpaired
  <2> QED
    BY <1>2, <2>2 DEF AfterWrite, GoodStores, Stores, StoreOf, BitsAgree
<1> QED
  BY <1>1, <1>2

LEMMA PictureFields ==
  ASSUME NEW p, GoodPicture(p)
  PROVE  /\ p.num \in FrameNums /\ p.poc \in Pocs /\ p.idx \in Idxs
         /\ p.id \in Ids \cup {NoId} /\ p.ref \in BOOLEAN /\ p.lt \in BOOLEAN
         /\ p.out \in BOOLEAN /\ (p.lt => p.ref)
  BY DEF GoodPicture, Pictures, PictureOf

LEMMA InsertFrameGood ==
  ASSUME NEW p, GoodPicture(p), p.struct = "frame"
  PROVE  InsertFrame(EmptyStore(p.id), p) \in GoodStores
<1> DEFINE fs == EmptyStore(p.id)
           e == InsertFrame(fs, p)
           ref == IF p.ref THEN Fields ELSE fs.ref
           orig == IF p.ref THEN Fields ELSE fs.orig
           pref == IF p.ref THEN FrameViews ELSE {}
           lt == IF p.ref /\ p.lt THEN Fields ELSE fs.lt
           plt == IF p.lt THEN FrameViews ELSE {}
           idx == IF p.ref /\ p.lt THEN p.idx ELSE fs.idx
<1>0. /\ p.num \in FrameNums /\ p.poc \in Pocs /\ p.idx \in Idxs
      /\ p.id \in Ids \cup {NoId} /\ p.ref \in BOOLEAN /\ p.lt \in BOOLEAN
      /\ p.out \in BOOLEAN /\ (p.lt => p.ref)
  BY PictureFields
<1>1. FrameViews \in SUBSET Views /\ BitsAgree(Fields, FrameViews) /\ BitsAgree({}, {})
  BY FrameMbsOnlyAssumption DEF FrameViews, BitsAgree, Fields, Views
<1>2. /\ fs \in Stores /\ fs.ref = {} /\ fs.orig = {} /\ fs.lt = {} /\ fs.idx \in Idxs
  BY <1>0, BoundsLemma DEF EmptyStore, Stores, StoreOf
<1> HIDE DEF fs
<1>3. /\ ref \in SUBSET Fields /\ orig \in SUBSET Fields /\ pref \in SUBSET Views
      /\ BitsAgree(ref, pref)
  BY <1>1, <1>2
<1>4. /\ lt \in SUBSET Fields /\ plt \in SUBSET Views /\ idx \in Idxs
      /\ BitsAgree(lt, plt)
  <2>1. CASE p.lt
    BY <1>1, <1>2, <2>1, <1>0
  <2>2. CASE ~p.lt
    BY <1>1, <1>2, <2>2, <1>0
  <2> QED
    BY <2>1, <2>2
<1>5. e = [fs EXCEPT !.used = Fields, !.num = p.num, !.poc = p.poc, !.out = p.out,
                     !.id = p.id, !.ref = ref, !.orig = orig, !.pref = pref,
                     !.lt = lt, !.plt = plt, !.idx = idx]
  BY DEF InsertFrame
<1> HIDE DEF e, ref, orig, pref, lt, plt, idx
<1>6. /\ e \in Stores /\ e.used = Fields
      /\ e.ref = ref /\ e.pref = pref /\ e.lt = lt /\ e.plt = plt
  BY <1>2, <1>3, <1>4, <1>5, <1>0 DEF Stores, StoreOf
<1>7. e \in GoodStores
  BY <1>3, <1>4, <1>6 DEF GoodStores
<1> QED
  BY <1>7 DEF e, fs

LEMMA EmptyStoreGood ==
  ASSUME ~FrameMbsOnly, NEW id \in Ids \cup {NoId}
  PROVE  EmptyStore(id) \in GoodStores
  BY BoundsLemma DEF EmptyStore, GoodStores, Stores, StoreOf, BitsAgree, Fields, Views

LEMMA WithFieldHalf ==
  ASSUME NEW fs \in HalfStores, NEW p, GoodPicture(p), p.struct \in Fields
  PROVE  /\ WithField(fs, p) \in HalfStores
         /\ WithField(fs, p).used = fs.used \cup {p.struct}
         /\ WithField(fs, p).ref \subseteq fs.ref \cup {p.struct}
         /\ WithField(fs, p).pref \subseteq fs.pref \cup {p.struct}
         /\ WithField(fs, p).lt \subseteq fs.lt \cup {p.struct}
         /\ WithField(fs, p).plt \subseteq fs.plt \cup {p.struct}
<1> DEFINE e == WithField(fs, p)
           used == fs.used \cup {p.struct}
           ref == IF p.ref THEN fs.ref \cup {p.struct} ELSE fs.ref
           orig == IF p.ref THEN fs.orig \cup {p.struct} ELSE fs.orig
           pref == IF p.ref THEN fs.pref \cup {p.struct} ELSE fs.pref
           lt == IF p.ref /\ p.lt THEN fs.lt \cup {p.struct} ELSE fs.lt
           plt == IF p.lt THEN fs.plt \cup {p.struct} ELSE fs.plt
           idx == IF p.ref /\ p.lt THEN p.idx ELSE fs.idx
<1>0. /\ p.num \in FrameNums /\ p.poc \in Pocs /\ p.idx \in Idxs
      /\ p.id \in Ids \cup {NoId} /\ p.ref \in BOOLEAN /\ p.lt \in BOOLEAN
      /\ p.out \in BOOLEAN /\ (p.lt => p.ref)
  BY PictureFields
<1>1. /\ fs \in Stores /\ fs.used \in SUBSET Fields /\ fs.ref \in SUBSET Fields
      /\ fs.orig \in SUBSET Fields /\ fs.lt \in SUBSET Fields /\ fs.pref \in SUBSET Views
      /\ fs.plt \in SUBSET Views /\ fs.idx \in Idxs
      /\ fs.pref \cap Fields = fs.ref /\ fs.plt \cap Fields = fs.lt
  BY DEF HalfStores, Stores, StoreOf
<1>2. /\ used \in SUBSET Fields /\ ref \in SUBSET Fields /\ orig \in SUBSET Fields
      /\ lt \in SUBSET Fields /\ pref \in SUBSET Views /\ plt \in SUBSET Views
      /\ idx \in Idxs
  BY <1>1, <1>0 DEF Views
<1>3. pref \cap Fields = ref /\ plt \cap Fields = lt
  <2>1. pref \cap Fields = ref
    BY <1>1
  <2>2. plt \cap Fields = lt
    <3>1. CASE p.lt
      BY <1>1, <3>1, <1>0
    <3>2. CASE ~p.lt
      BY <1>1, <3>2, <1>0
    <3> QED
      BY <3>1, <3>2
  <2> QED
    BY <2>1, <2>2
<1>4. /\ ref \subseteq fs.ref \cup {p.struct} /\ pref \subseteq fs.pref \cup {p.struct}
      /\ lt \subseteq fs.lt \cup {p.struct} /\ plt \subseteq fs.plt \cup {p.struct}
  OBVIOUS
<1>5. e = [fs EXCEPT !.used = used, !.num = p.num, !.out = p.out, !.id = p.id,
                     !.ref = ref, !.orig = orig, !.pref = pref,
                     !.lt = lt, !.plt = plt, !.idx = idx]
  BY DEF WithField
<1> HIDE DEF e, used, ref, orig, pref, lt, plt, idx
<1>6. /\ e \in Stores /\ e.used = used
      /\ e.ref = ref /\ e.pref = pref /\ e.lt = lt /\ e.plt = plt
  BY <1>1, <1>2, <1>5, <1>0 DEF Stores, StoreOf
<1>7. e \in HalfStores
  BY <1>3, <1>6 DEF HalfStores
<1> QED
  BY <1>4, <1>6, <1>7 DEF e, used

LEMMA InsertFieldGood ==
  ASSUME NEW fs \in GoodStores, NEW p, GoodPicture(p), p.struct \in Fields
  PROVE  InsertField(fs, p) \in GoodStores
<1>1. ~FrameMbsOnly /\ p.poc \in Pocs
  BY PictureFields DEF GoodPicture, Fields
<1>2. WithField(fs, p) \in HalfStores
  BY <1>1, GoodIsHalf, WithFieldHalf
<1>3. CASE fs.used \cup {p.struct} = Fields
  BY <1>1, <1>2, <1>3, CombinedGood DEF InsertField
<1>4. CASE fs.used \cup {p.struct} # Fields
  <2> DEFINE e == WithField(fs, p)
  <2>1. /\ fs \in Stores
        /\ fs.ref \subseteq fs.used /\ fs.lt \subseteq fs.used
        /\ BitsAgree(fs.ref, fs.pref) /\ BitsAgree(fs.lt, fs.plt)
    BY DEF GoodStores
  <2>2. /\ e.used = fs.used \cup {p.struct}
        /\ e.ref \subseteq fs.ref \cup {p.struct} /\ e.pref \subseteq fs.pref \cup {p.struct}
        /\ e.lt \subseteq fs.lt \cup {p.struct} /\ e.plt \subseteq fs.plt \cup {p.struct}
    BY <1>1, GoodIsHalf, WithFieldHalf
  <2> HIDE DEF e
  <2>3. e \in Stores /\ e.pref \cap Fields = e.ref /\ e.plt \cap Fields = e.lt
    BY <1>2 DEF e, HalfStores
  <2>4. [e EXCEPT !.poc = p.poc] \in GoodStores
    BY <1>1, <1>4, <2>1, <2>2, <2>3 DEF GoodStores, Stores, StoreOf, BitsAgree, Fields, Views
  <2> QED
    BY <1>4, <2>4 DEF InsertField, e
<1> QED
  BY <1>3, <1>4

(* The picture in a store of its own, and the second field of a pair.       *)
LEMMA InsertGood ==
  ASSUME NEW p, GoodPicture(p)
  PROVE  /\ Insert(EmptyStore(p.id), p) \in GoodStores
         /\ \A fs \in GoodStores : p.struct # "frame" => Insert(fs, p) \in GoodStores
<1>1. p.struct \in Views /\ p.id \in Ids \cup {NoId}
  BY DEF GoodPicture, Pictures, PictureOf
<1>2. CASE p.struct = "frame"
  BY <1>2, InsertFrameGood DEF Insert
<1>3. CASE p.struct # "frame"
  <2>1. p.struct \in Fields /\ ~FrameMbsOnly
    BY <1>1, <1>3 DEF Views, GoodPicture
  <2>2. EmptyStore(p.id) \in GoodStores
    BY <1>1, <2>1, EmptyStoreGood
  <2> QED
    BY <1>3, <2>1, <2>2, InsertFieldGood DEF Insert
<1> QED
  BY <1>2, <1>3

-----------------------------------------------------------------------------
(* The operations on the whole buffer keep its length and its stores good.  *)
Buffers == Seq(GoodStores)

LEMMA SameLength ==
  ASSUME NEW d \in Buffers, NEW e \in [DOMAIN d -> GoodStores]
  PROVE  e \in Buffers /\ Len(e) = Len(d)
<1>1. DOMAIN d = 1 .. Len(d) /\ Len(d) \in Nat
  BY LenProperties DEF Buffers
<1> QED
  BY <1>1, SeqDef DEF Buffers

LEMMA BufferElements ==
  ASSUME NEW d \in Buffers
  PROVE  /\ \A i \in DOMAIN d : d[i] \in GoodStores
         /\ DOMAIN d = 1 .. Len(d)
         /\ Len(d) \in Nat
  BY LenProperties, ElementOfSeq DEF Buffers

LEMMA UpdateListsGood ==
  ASSUME NEW d \in Buffers
  PROVE  /\ UpdateRefList(d) \in Buffers /\ Len(UpdateRefList(d)) = Len(d)
         /\ UpdateLtRefList(d) \in Buffers /\ Len(UpdateLtRefList(d)) = Len(d)
<1>1. \A fs \in GoodStores :
        /\ [fs EXCEPT !.short = IsShortTerm(fs)] \in GoodStores
        /\ [fs EXCEPT !.long = IsLongTerm(fs)] \in GoodStores
  <2>1. \A fs : IsShortTerm(fs) \in BOOLEAN /\ IsLongTerm(fs) \in BOOLEAN
    BY DEF IsShortTerm, IsLongTerm
  <2>2. \A fs \in GoodStores, b \in BOOLEAN :
          [fs EXCEPT !.short = b] \in GoodStores /\ [fs EXCEPT !.long = b] \in GoodStores
    BY DEF GoodStores, Stores, StoreOf, BitsAgree
  <2> QED
    BY <2>1, <2>2
<1>2. UpdateRefList(d) \in [DOMAIN d -> GoodStores]
  BY <1>1, BufferElements DEF UpdateRefList
<1>3. UpdateLtRefList(d) \in [DOMAIN d -> GoodStores]
  BY <1>1, BufferElements DEF UpdateLtRefList
<1> QED
  BY <1>2, <1>3, SameLength

LEMMA BothListsGood ==
  ASSUME NEW d \in Buffers
  PROVE  UpdateLists(d) \in Buffers /\ Len(UpdateLists(d)) = Len(d)
  BY UpdateListsGood DEF UpdateLists

(* flush_dpb unmarks every store.                                           *)
LEMMA UnmarkAllGood ==
  ASSUME NEW d \in Buffers
  PROVE  /\ [i \in DOMAIN d |-> Unmark(d[i])] \in Buffers
         /\ Len([i \in DOMAIN d |-> Unmark(d[i])]) = Len(d)
<1>1. [i \in DOMAIN d |-> Unmark(d[i])] \in [DOMAIN d -> GoodStores]
  BY BufferElements, UnmarkGood
<1> QED
  BY <1>1, SameLength

LEMMA UnmarkShortTermGood ==
  ASSUME NEW d \in Buffers, NEW x, GoodPicture(cur)
  PROVE  UnmarkShortTerm(d, x) \in Buffers /\ Len(UnmarkShortTerm(d, x)) = Len(d)
<1>1. CASE cur.struct = "frame"
  <2>1. UnmarkShortTerm(d, x) \in [DOMAIN d -> GoodStores]
    BY <1>1, BufferElements, UnmarkGood DEF UnmarkShortTerm, UnmarkIn
  <2> QED
    BY <2>1, SameLength
<1>2. CASE cur.struct # "frame"
  <2> DEFINE hits == {i \in ShortList(d) : ShortFields(d, i, x) \ d[i].lt # {}}
             Hit(i) == CHOOSE f \in Fields : f \in ShortFields(d, i, x) \ d[i].lt
  <2>1. ~FrameMbsOnly
    BY <1>2 DEF GoodPicture
  <2>2. \A i \in DOMAIN d : i \in FirstOf(hits) => Hit(i) \in Fields
    BY BufferElements DEF FirstOf, ShortFields, GoodStores, Stores, StoreOf
  <2>3. \A i \in DOMAIN d : i \in FirstOf(hits) => UnmarkField(d[i], Hit(i)) \in GoodStores
    BY <2>1, <2>2, BufferElements, UnmarkFieldGood
  <2>4. UnmarkShortTerm(d, x) =
          [i \in DOMAIN d |-> IF i \notin FirstOf(hits) THEN d[i] ELSE UnmarkField(d[i], Hit(i))]
    BY <1>2 DEF UnmarkShortTerm
  <2> HIDE DEF hits, Hit
  <2>5. UnmarkShortTerm(d, x) \in [DOMAIN d -> GoodStores]
    BY <2>3, <2>4, BufferElements
  <2> QED
    BY <2>5, SameLength
<1> QED
  BY <1>1, <1>2

(* Long-term stores lose their mark: operations 2, 4, 5 and the stores that *)
(* hold an index another picture gets.                                      *)
LEMMA UnmarkLongInGood ==
  ASSUME NEW d \in Buffers, NEW S
  PROVE  UnmarkLongIn(d, S) \in Buffers /\ Len(UnmarkLongIn(d, S)) = Len(d)
<1>1. UnmarkLongIn(d, S) \in [DOMAIN d -> GoodStores]
  BY BufferElements, UnmarkLongGood DEF UnmarkLongIn
<1> QED
  BY <1>1, SameLength

LEMMA FreeFrameIdxGood ==
  ASSUME NEW d \in Buffers, NEW idx
  PROVE  FreeFrameIdx(d, idx) \in Buffers /\ Len(FreeFrameIdx(d, idx)) = Len(d)
  BY UnmarkLongInGood DEF FreeFrameIdx

LEMMA BoundFrameIdxGood ==
  ASSUME NEW d \in Buffers, NEW max
  PROVE  BoundFrameIdx(d, max) \in Buffers /\ Len(BoundFrameIdx(d, max)) = Len(d)
  BY UnmarkLongInGood DEF BoundFrameIdx

(* Short-term stores lose their mark: sliding window and operation 5.       *)
LEMMA UnmarkInGood ==
  ASSUME NEW d \in Buffers, NEW S
  PROVE  UnmarkIn(d, S) \in Buffers /\ Len(UnmarkIn(d, S)) = Len(d)
<1>1. UnmarkIn(d, S) \in [DOMAIN d -> GoodStores]
  BY BufferElements, UnmarkGood DEF UnmarkIn
<1> QED
  BY <1>1, SameLength

LEMMA UnmarkLongTermGood ==
  ASSUME NEW d \in Buffers, NEW n, GoodPicture(cur)
  PROVE  UnmarkLongTerm(d, n) \in Buffers /\ Len(UnmarkLongTerm(d, n)) = Len(d)
<1>1. CASE cur.struct = "frame"
  <2>1. UnmarkLongTerm(d, n) =
          UnmarkLongIn(d, {i \in LongList(d) : /\ d[i].ref = Fields /\ d[i].lt = Fields
                                               /\ LongTermPicNum(d[i], "frame", cur) = n})
    BY <1>1 DEF UnmarkLongTerm
  <2> QED
    BY <2>1, UnmarkLongInGood
<1>2. CASE cur.struct # "frame"
  <2> DEFINE hits == {i \in LongList(d) : LongFields(d, i, n) # {}}
             Hit(i) == CHOOSE f \in Fields : f \in LongFields(d, i, n)
  <2>1. ~FrameMbsOnly
    BY <1>2 DEF GoodPicture
  <2>2. \A i \in DOMAIN d : i \in FirstOf(hits) => Hit(i) \in Fields
    BY BufferElements DEF FirstOf, LongFields, GoodStores, Stores, StoreOf
  <2>3. \A i \in DOMAIN d : i \in FirstOf(hits) => UnmarkLongField(d[i], Hit(i)) \in GoodStores
    BY <2>1, <2>2, BufferElements, UnmarkLongFieldGood
  <2>4. UnmarkLongTerm(d, n) =
          [i \in DOMAIN d |-> IF i \notin FirstOf(hits) THEN d[i] ELSE UnmarkLongField(d[i], Hit(i))]
    BY <1>2 DEF UnmarkLongTerm
  <2> HIDE DEF hits, Hit
  <2>5. UnmarkLongTerm(d, n) \in [DOMAIN d -> GoodStores]
    BY <2>3, <2>4, BufferElements
  <2> QED
    BY <2>5, SameLength
<1> QED
  BY <1>1, <1>2

LEMMA MarkPicLongTermGood ==
  ASSUME NEW d \in Buffers, NEW x, NEW idx \in Idxs, GoodPicture(cur)
  PROVE  MarkPicLongTerm(d, x, idx) \in Buffers /\ Len(MarkPicLongTerm(d, x, idx)) = Len(d)
<1>1. CASE cur.struct = "frame"
  <2> DEFINE hits == {i \in ShortList(d) : /\ d[i].ref = Fields /\ "frame" \notin d[i].plt
                                           /\ PicNum(d[i], "frame", cur) = x}
  <2>1. \A i \in DOMAIN d : i \in FirstOf(hits) => MarkFrameLong(d[i], idx) \in GoodStores
    BY BufferElements, MarkFrameLongGood DEF FirstOf
  <2>2. MarkPicLongTerm(d, x, idx) =
          [i \in DOMAIN d |-> IF i \in FirstOf(hits) THEN MarkFrameLong(d[i], idx) ELSE d[i]]
    BY <1>1 DEF MarkPicLongTerm
  <2> HIDE DEF hits
  <2>3. MarkPicLongTerm(d, x, idx) \in [DOMAIN d -> GoodStores]
    BY <2>1, <2>2, BufferElements
  <2> QED
    BY <2>3, SameLength
<1>2. CASE cur.struct # "frame"
  <2> DEFINE hits == {i \in ShortList(d) : ShortFields(d, i, x) \ d[i].plt # {}}
             Hit(i) == CHOOSE f \in Fields : f \in ShortFields(d, i, x) \ d[i].plt
  <2>1. ~FrameMbsOnly
    BY <1>2 DEF GoodPicture
  <2>2. \A i \in DOMAIN d : i \in FirstOf(hits) => Hit(i) \in d[i].ref
    BY BufferElements DEF FirstOf, ShortFields, GoodStores, Stores, StoreOf
  <2>3. \A i \in DOMAIN d : i \in FirstOf(hits) => MarkFieldLong(d[i], Hit(i), idx) \in GoodStores
    BY <2>1, <2>2, BufferElements, MarkFieldLongGood
  <2>4. MarkPicLongTerm(d, x, idx) =
          [i \in DOMAIN d |-> IF i \notin FirstOf(hits) THEN d[i]
                              ELSE MarkFieldLong(d[i], Hit(i), idx)]
    BY <1>2 DEF MarkPicLongTerm
  <2> HIDE DEF hits, Hit
  <2>5. MarkPicLongTerm(d, x, idx) \in [DOMAIN d -> GoodStores]
    BY <2>3, <2>4, BufferElements
  <2> QED
    BY <2>5, SameLength
<1> QED
  BY <1>1, <1>2

(* A store leaves the buffer.                                               *)
LEMMA RemoveGood ==
  ASSUME NEW d \in Buffers, NEW i \in DOMAIN d
  PROVE  RemoveAt(d, i) \in Buffers /\ Len(RemoveAt(d, i)) = Len(d) - 1
<1>1. i \in 1 .. Len(d) /\ Len(d) \in Nat
  BY BufferElements
<1> DEFINE front == SubSeq(d, 1, i - 1)
           back == SubSeq(d, i + 1, Len(d))
<1>2. /\ front \in Buffers /\ Len(front) = i - 1
      /\ back \in Buffers /\ Len(back) = Len(d) - i
  BY <1>1, BufferElements, SubSeqProperties DEF Buffers
<1>3. RemoveAt(d, i) = front \o back
  BY DEF RemoveAt
<1> HIDE DEF front, back
<1>4. front \o back \in Buffers /\ Len(front \o back) = Len(front) + Len(back)
  BY <1>2, ConcatProperties DEF Buffers
<1> QED
  BY <1>1, <1>2, <1>3, <1>4

(* A store enters it, or the second field joins its first field.            *)
LEMMA StoreGood ==
  ASSUME NEW d \in Buffers, GoodPicture(cur)
  PROVE  /\ UpdateLists(Append(d, Insert(EmptyStore(cur.id), cur))) \in Buffers
         /\ Len(UpdateLists(Append(d, Insert(EmptyStore(cur.id), cur)))) = Len(d) + 1
<1>1. Insert(EmptyStore(cur.id), cur) \in GoodStores
  BY InsertGood
<1>2. /\ Append(d, Insert(EmptyStore(cur.id), cur)) \in Buffers
      /\ Len(Append(d, Insert(EmptyStore(cur.id), cur))) = Len(d) + 1
  BY <1>1, AppendProperties DEF Buffers
<1> QED
  BY <1>2, BothListsGood

LEMMA ReplaceGood ==
  ASSUME NEW d \in Buffers, NEW i \in DOMAIN d, NEW fs \in GoodStores
  PROVE  [d EXCEPT ![i] = fs] \in Buffers /\ Len([d EXCEPT ![i] = fs]) = Len(d)
  BY ExceptSeq DEF Buffers

-----------------------------------------------------------------------------
(* What the steps share.  Parts of the state a lemma speaks of are named.   *)
RestOK ==
  /\ maxLt \in -1 .. MaxIdx
  /\ lastPoc \in Pocs \cup {INT_MIN}
  /\ outbuf \in Written
  /\ pc \in Labels /\ ret \in {"idrtail", "pair", "halt"}
  /\ cur \in Pictures \cup {NoPicture}
  /\ mm5 \in BOOLEAN /\ nops \in 0 .. MaxMmco
  /\ err \in Errors
  /\ written \in Seq(Written)
  /\ stream \in StreamOf

BufferOK == dpb \in Buffers /\ Len(dpb) <= DpbSize /\ last \in 0 .. Len(dpb)

LEMMA GoodIsType == Buffers \subseteq Seq(Stores)
  BY SeqMonotonic DEF Buffers, GoodStores

LEMMA IndInvParts ==
  /\ IndInv <=> BufferOK /\ RestOK /\ CurGood /\ FirstGood
  /\ IndInv' <=> BufferOK' /\ RestOK' /\ CurGood' /\ FirstGood'
  BY GoodIsType DEF IndInv, TypeOK, BufferOK, RestOK, Buffers

LEMMA InitIndInv == Init => IndInv
<1> SUFFICES ASSUME Init PROVE BufferOK /\ RestOK /\ CurGood /\ FirstGood
  BY IndInvParts
<1>1. BufferOK
  BY EmptySeq, DpbSizeAssumption DEF Init, BufferOK, Buffers
<1>2. RestOK
  <2>1. outbuf \in Written /\ written \in Seq(Written)
    BY EmptySeq DEF Init, Blank, Written
  <2>2. stream \in StreamOf
    BY BoundsLemma, BoundsAssumption DEF Init, StreamOf
  <2>3. maxLt \in -1 .. MaxIdx /\ nops \in 0 .. MaxMmco
    BY BoundsAssumption, MmcosAssumption DEF Init
  <2> QED
    BY <2>1, <2>2, <2>3 DEF Init, RestOK, Labels, Errors
<1>3. CurGood /\ FirstGood
  BY DEF Init, CurGood, FirstGood, Busy, Flushing
<1> QED
  BY <1>1, <1>2, <1>3

(* flush_dpb and error() keep the buffer and go to a loop of the flush.     *)
LEMMA FlushKeeps ==
  ASSUME NEW d \in Buffers, Len(d) <= DpbSize, NEW to, Flush(d, to),
         last' \in 0 .. Len(d)
  PROVE  BufferOK' /\ pc' = "purge" /\ ret' = to
  BY UnmarkAllGood DEF Flush, BufferOK

LEMMA RemoveUnusedKeeps ==
  ASSUME BufferOK, RemoveUnused
  PROVE  BufferOK'
<1>1. PICK i \in Unused : dpb' = RemoveAt(dpb, i) /\ last' = LastAfterRemove(i)
  BY DEF RemoveUnused, FirstOf
<1>2. i \in DOMAIN dpb
  BY DEF Unused
<1>3. dpb' \in Buffers /\ Len(dpb') = Len(dpb) - 1
  BY <1>1, <1>2, RemoveGood DEF BufferOK
<1>4. last' \in 0 .. Len(dpb) - 1
  BY <1>1, <1>2, BufferElements DEF BufferOK, LastAfterRemove
<1> QED
  BY <1>3, <1>4, BufferElements, DpbSizeAssumption DEF BufferOK

(* Output keeps the buffer, and what it writes are fields of frames.        *)
LEMMA OutputOneKeeps ==
  ASSUME BufferOK, RestOK, OutputOne
  PROVE  /\ BufferOK' /\ outbuf' \in Written /\ written' \in Seq(Written)
         /\ lastPoc' \in Pocs \cup {INT_MIN}
         /\ \/ UNCHANGED <<pc, ret, err>>
            \/ pc' = "purge" /\ ret' = "halt" /\ err' \in Errors
<1>1. PICK i \in NotOutput :
        /\ written' = PendingDirect \o <<ImageOf(dpb[i])>>
        /\ outbuf' = Blank
        /\ LET d == [dpb EXCEPT ![i] = AfterWrite(@)]
           IN IF lastPoc >= dpb[i].poc
                THEN /\ Fail(d, "output POC must be in ascending order")
                     /\ UNCHANGED <<last, lastPoc>>
                ELSE /\ lastPoc' = dpb[i].poc
                     /\ IF UsedForReference(d[i])
                          THEN dpb' = d /\ last' = last
                          ELSE dpb' = RemoveAt(d, i) /\ last' = LastAfterRemove(i)
                     /\ UNCHANGED <<pc, ret, err>>
  BY DEF OutputOne
<1> DEFINE d == [dpb EXCEPT ![i] = AfterWrite(dpb[i])]
<1>2. i \in DOMAIN dpb /\ dpb[i] \in GoodStores /\ dpb[i].poc \in Pocs
  BY BufferElements DEF NotOutput, BufferOK, GoodStores, Stores, StoreOf
<1>3. d \in Buffers /\ Len(d) = Len(dpb) /\ DOMAIN d = DOMAIN dpb
  BY <1>2, AfterWriteGood, ReplaceGood, BufferElements DEF BufferOK
<1>4. outbuf' \in Written /\ written' \in Seq(Written)
  <2>1. Blank \in Written
    BY DEF Blank, Written
  <2>2. ImageOf(dpb[i]) \in Written
    BY <1>2 DEF ImageOf, Written, GoodStores, Stores, StoreOf
  <2>3. PendingDirect \in Seq(Written)
    BY DEF PendingDirect, RestOK
  <2>4. <<ImageOf(dpb[i])>> \in Seq(Written)
    BY <2>2
  <2> HIDE DEF d
  <2> QED
    BY <1>1, <2>1, <2>3, <2>4, ConcatProperties
<1>5. CASE lastPoc >= dpb[i].poc
  <2>1. Fail(d, "output POC must be in ascending order") /\ UNCHANGED <<last, lastPoc>>
    BY <1>1, <1>5
  <2> HIDE DEF d
  <2>2. BufferOK' /\ pc' = "purge" /\ ret' = "halt"
    BY <2>1, <1>3, FlushKeeps DEF Fail, BufferOK
  <2> QED
    BY <2>1, <2>2, <1>4 DEF Fail, Errors, RestOK
<1>6. CASE ~(lastPoc >= dpb[i].poc)
  <2>1. /\ lastPoc' = dpb[i].poc /\ UNCHANGED <<pc, ret, err>>
        /\ \/ dpb' = d /\ last' = last
           \/ dpb' = RemoveAt(d, i) /\ last' = LastAfterRemove(i)
    BY <1>1, <1>6
  <2> HIDE DEF d
  <2>2. CASE dpb' = d /\ last' = last
    BY <2>1, <2>2, <1>2, <1>3, <1>4 DEF BufferOK
  <2>3. CASE dpb' = RemoveAt(d, i) /\ last' = LastAfterRemove(i)
    <3>1. dpb' \in Buffers /\ Len(dpb') = Len(dpb) - 1
      BY <2>3, <1>2, <1>3, RemoveGood
    <3>2. last' \in 0 .. Len(dpb) - 1
      BY <2>3, <1>2, BufferElements DEF BufferOK, LastAfterRemove
    <3> QED
      BY <2>1, <3>1, <3>2, <1>2, <1>4, BufferElements, DpbSizeAssumption DEF BufferOK
  <2> QED
    BY <2>1, <2>2, <2>3
<1> QED
  BY <1>5, <1>6

-----------------------------------------------------------------------------
(* The stream: a picture starts with what it needs.                         *)
LEMMA StartedKeeps ==
  ASSUME IndInv, NEW p, GoodPicture(p), p.idr => p.ref, NEW s \in StreamOf, Started(p, s),
         s.first = NoPicture \/ s.first = FirstField(p), p.id \in Ids \/ s.first = NoPicture
  PROVE  IndInv'
<1>1. BufferOK' /\ RestOK'
  <2>1. BufferOK /\ RestOK
    BY IndInvParts
  <2>2. written' \in Seq(Written)
    BY EmptySeq DEF Started
  <2>3. cur' \in Pictures \cup {NoPicture} /\ nops' \in 0 .. MaxMmco
    BY MmcosAssumption DEF Started, GoodPicture
  <2> QED
    BY <2>1, <2>2, <2>3 DEF Started, BufferOK, RestOK, Labels
<1>2. CurGood'
  BY DEF Started, CurGood, Busy, Flushing, GoodPicture
<1>3. FirstGood'
  BY DEF Started, FirstGood, FirstField, GoodPicture, Pictures, PictureOf, Views
<1> QED
  BY <1>1, <1>2, <1>3, IndInvParts

LEMMA NewPictureGood ==
  ASSUME IndInv, NEW s \in Structures \cup Fields \cup {"frame"}, NEW k \in 0 .. MaxK,
         NEW r \in BOOLEAN, NEW seq \in {0, 1}, FrameMbsOnly => s = "frame",
         NEW p, p = NewPicture(s, k, r, seq)
  PROVE  /\ GoodPicture(p) /\ p \in Pictures
         /\ p.id \in Ids /\ ~p.lt /\ ~p.idr /\ p.ref = r /\ p.struct = s
<1>1. (stream.pre + 1) % MaxFrameNum \in FrameNums
  BY MaxFrameNumAssumption DEF IndInv, TypeOK, StreamOf, FrameNums
<1>2. 2 * k \in Pocs
  BY BoundsAssumption DEF Pocs
<1>3. s \in Views /\ (FrameMbsOnly => s = "frame")
  BY StructuresAssumption DEF Views
<1> QED
  BY <1>1, <1>2, <1>3, BoundsLemma
     DEF NewPicture, GoodPicture, Pictures, PictureOf, Ids

LEMMA NewReferenceGood ==
  ASSUME IndInv, NEW s \in Structures \cup {"frame"}, NEW seq \in {0, 1},
         NEW p, p = NewPicture(s, 0, TRUE, seq)
  PROVE  /\ p \in Pictures /\ p.id \in Ids
         /\ ~p.lt /\ ~p.idr /\ p.ref /\ p.struct = s /\ (FrameMbsOnly => s = "frame")
<1>1. (stream.pre + 1) % MaxFrameNum \in FrameNums
  BY MaxFrameNumAssumption DEF IndInv, TypeOK, StreamOf, FrameNums
<1>2. 0 \in Pocs /\ 2 * 0 = 0 /\ 0 \in 0 .. MaxK
  BY BoundsAssumption DEF Pocs
<1>3. s \in Views /\ (FrameMbsOnly => s = "frame")
  BY StructuresAssumption DEF Views
<1> QED
  BY <1>1, <1>2, <1>3, BoundsLemma DEF NewPicture, Pictures, PictureOf, Ids

LEMMA StructuresLemma ==
  \A s \in Structures : s \in Views /\ (FrameMbsOnly => s = "frame")
  BY StructuresAssumption

LEMMA ReceiveIdrKeeps ==
  ASSUME IndInv, ReceiveIdr
  PROVE  IndInv'
<1> DEFINE seq == 1 - stream.seq
<1>1. stream \in StreamOf /\ seq \in {0, 1} /\ 0 \in 0 .. MaxK
  BY BoundsAssumption DEF IndInv, TypeOK, StreamOf
<1>2. PICK s \in Structures, lt \in BOOLEAN, noout \in BOOLEAN :
        LET p == [NewPicture(s, 0, TRUE, seq) EXCEPT
                    !.num = 0, !.idr = TRUE, !.ltflag = lt, !.noout = noout]
        IN Started(p, [pre |-> 0, gap |-> 0, seq |-> seq, ks |-> {0},
                       first |-> FirstField(p), started |-> TRUE])
  BY ZenonT(40) DEF ReceiveIdr
<1> DEFINE q == NewPicture(s, 0, TRUE, seq)
           p == [q EXCEPT !.num = 0, !.idr = TRUE, !.ltflag = lt, !.noout = noout]
           st == [pre |-> 0, gap |-> 0, seq |-> seq, ks |-> {0},
                  first |-> FirstField(p), started |-> TRUE]
<1>3. Started(p, st)
  BY <1>2
<1> HIDE DEF seq
<1>4. q \in Pictures /\ q.ref /\ ~q.lt /\ q.id \in Ids /\ (FrameMbsOnly => q.struct = "frame")
  BY <1>1, NewReferenceGood
<1> HIDE DEF q
<1>5. GoodPicture(p) /\ p.ref /\ p.id \in Ids
  BY <1>4, BoundsLemma DEF GoodPicture, Pictures, PictureOf
<1> HIDE DEF p
<1>6. FirstField(p) \in Pictures \cup {NoPicture}
  BY <1>5 DEF FirstField, GoodPicture
<1>7. st \in StreamOf /\ st.first = FirstField(p)
  BY <1>1, <1>6, BoundsLemma, BoundsAssumption DEF StreamOf
<1> HIDE DEF st
<1> QED
  BY <1>3, <1>5, <1>7, StartedKeeps

LEMMA ReceivePictureKeeps ==
  ASSUME IndInv, ReceivePicture
  PROVE  IndInv'
<1>1. stream \in StreamOf /\ stream.seq \in {0, 1}
  BY DEF IndInv, TypeOK, StreamOf
<1>2. PICK s \in Structures, r \in BOOLEAN, a \in BOOLEAN, k \in (0 .. MaxK) \ stream.ks :
        LET p == [NewPicture(s, k, r, stream.seq) EXCEPT !.adaptive = a]
        IN /\ a => r /\ Mmcos # {}
           /\ ~MakesPair(stream.first, p)
           /\ Started(p, [stream EXCEPT !.pre = IF r THEN p.num ELSE @, !.gap = 0,
                                        !.ks = @ \cup {k}, !.first = FirstField(p)])
  BY DEF ReceivePicture
<1> DEFINE q == NewPicture(s, k, r, stream.seq)
           p == [q EXCEPT !.adaptive = a]
           pre == IF r THEN p.num ELSE stream.pre
           ks == stream.ks \cup {k}
           st == [stream EXCEPT !.pre = pre, !.gap = 0, !.ks = ks, !.first = FirstField(p)]
<1>3. Started(p, st)
  BY <1>2
<1>4. /\ q \in Pictures /\ ~q.lt /\ ~q.idr /\ q.id \in Ids
      /\ (FrameMbsOnly => q.struct = "frame")
  BY <1>1, NewPictureGood, StructuresLemma
<1> HIDE DEF q
<1>5. GoodPicture(p) /\ ~p.idr /\ p.id \in Ids /\ p.num \in FrameNums
  BY <1>4 DEF GoodPicture, Pictures, PictureOf
<1> HIDE DEF p
<1>6. FirstField(p) \in Pictures \cup {NoPicture}
  BY <1>5 DEF FirstField, GoodPicture
<1>7. pre \in FrameNums /\ ks \in SUBSET (0 .. MaxK) /\ 0 \in 0 .. MaxGap
  BY <1>1, <1>5, BoundsAssumption DEF StreamOf
<1> HIDE DEF pre, ks
<1>8. st \in StreamOf /\ st.first = FirstField(p)
  BY <1>1, <1>6, <1>7 DEF StreamOf
<1> HIDE DEF st
<1> QED
  BY <1>3, <1>5, <1>8, StartedKeeps

LEMMA ReceiveSecondFieldKeeps ==
  ASSUME IndInv, ReceiveSecondField
  PROVE  IndInv'
<1> DEFINE f == stream.first
<1>1. /\ stream \in StreamOf /\ f # NoPicture /\ GoodPicture(f) /\ f.struct \in Fields
      /\ f.id \in Ids /\ f.num \in FrameNums /\ f.ref \in BOOLEAN
      /\ ~FrameMbsOnly
  BY PictureFields DEF ReceiveSecondField, IndInv, TypeOK, FirstGood, GoodPicture, Fields
<1>2. f.id.k \in 0 .. MaxK /\ f.id.seq \in {0, 1} /\ Opposite(f.struct) \in Fields
  BY <1>1 DEF Ids, Opposite, Fields
<1>3. PICK a \in BOOLEAN :
        LET p == [NewPicture(Opposite(f.struct), f.id.k, f.ref, f.id.seq) EXCEPT
                    !.num = f.num, !.poc = 2 * f.id.k + 1, !.adaptive = a]
        IN Started(p, [stream EXCEPT !.first = NoPicture])
  BY DEF ReceiveSecondField
<1> DEFINE q == NewPicture(Opposite(f.struct), f.id.k, f.ref, f.id.seq)
           p == [q EXCEPT !.num = f.num, !.poc = 2 * f.id.k + 1, !.adaptive = a]
           st == [stream EXCEPT !.first = NoPicture]
<1>4. Started(p, st)
  BY <1>3
<1>5. q \in Pictures /\ ~q.lt /\ ~q.idr
  BY <1>1, <1>2, NewPictureGood
<1>6. 2 * f.id.k + 1 \in Pocs
  BY <1>2, BoundsAssumption DEF Pocs
<1>7. st \in StreamOf /\ st.first = NoPicture
  BY <1>1 DEF StreamOf
<1> HIDE DEF q, f, st
<1>8. GoodPicture(p) /\ ~p.idr
  BY <1>1, <1>5, <1>6 DEF GoodPicture, Pictures, PictureOf
<1> HIDE DEF p
<1> QED
  BY <1>4, <1>7, <1>8, StartedKeeps

LEMMA FillFrameNumGapKeeps ==
  ASSUME IndInv, FillFrameNumGap
  PROVE  IndInv'
<1> DEFINE q == NewPicture("frame", 0, TRUE, stream.seq)
           p == [q EXCEPT !.out = TRUE, !.id = NoId]
           st == [stream EXCEPT !.pre = p.num, !.gap = @ + 1, !.first = NoPicture]
<1>1. /\ stream \in StreamOf /\ stream.seq \in {0, 1} /\ stream.gap + 1 \in 0 .. MaxGap
      /\ 0 \in 0 .. MaxK
  BY BoundsAssumption DEF IndInv, TypeOK, StreamOf, FillFrameNumGap
<1>2. Started(p, st)
  BY DEF FillFrameNumGap
<1>3. q \in Pictures /\ ~q.lt /\ ~q.idr /\ q.struct = "frame"
  BY <1>1, NewReferenceGood
<1> HIDE DEF q
<1>4. GoodPicture(p) /\ ~p.idr /\ p.num \in FrameNums
  BY <1>3 DEF GoodPicture, Pictures, PictureOf
<1> HIDE DEF p
<1>5. st \in StreamOf /\ st.first = NoPicture
  BY <1>1, <1>4 DEF StreamOf
<1> HIDE DEF st
<1> QED
  BY <1>2, <1>4, <1>5, StartedKeeps

LEMMA ReceiveKeeps ==
  ASSUME IndInv, Receive
  PROVE  IndInv'
  BY ReceiveIdrKeeps, ReceivePictureKeeps, ReceiveSecondFieldKeeps, FillFrameNumGapKeeps
     DEF Receive

-----------------------------------------------------------------------------
(* The steps of a call.  The stream is as before but for operation 5.       *)
LEMMA FirstKept == FirstGood /\ UNCHANGED stream => FirstGood'
  BY DEF FirstGood

LEMMA EndOfStreamKeeps ==
  ASSUME IndInv, EndOfStream
  PROVE  IndInv'
<1>1. BufferOK' /\ pc' = "purge" /\ ret' = "halt"
  BY IndInvParts, FlushKeeps DEF EndOfStream, BufferOK
<1>2. RestOK'
  BY <1>1, IndInvParts, EmptySeq DEF EndOfStream, RestOK, Labels
<1>3. CurGood'
  BY <1>1 DEF CurGood, Busy, Flushing
<1> QED
  BY <1>1, <1>2, <1>3, IndInvParts, FirstKept DEF EndOfStream

LEMMA FlushPurgeKeeps ==
  ASSUME IndInv, FlushPurge
  PROVE  IndInv'
<1>1. BufferOK'
  BY IndInvParts, RemoveUnusedKeeps DEF FlushPurge, BufferOK
<1>2. pc' \in {"purge", "drain"}
  BY DEF FlushPurge
<1>3. RestOK'
  BY <1>2, IndInvParts, EmptySeq DEF FlushPurge, RestOK, Labels
<1>4. CurGood'
  BY <1>2, IndInvParts DEF FlushPurge, CurGood, Busy, Flushing
<1> QED
  BY <1>1, <1>3, <1>4, IndInvParts, FirstKept DEF FlushPurge

LEMMA FlushDrainKeeps ==
  ASSUME IndInv, FlushDrain
  PROVE  IndInv'
<1>1. BufferOK /\ RestOK /\ OutputOne
  BY IndInvParts DEF FlushDrain
<1>2. RestOK'
  BY <1>1, OutputOneKeeps DEF FlushDrain, RestOK, Labels
<1>3. CurGood'
  BY <1>1, IndInvParts, OutputOneKeeps DEF FlushDrain, CurGood, Busy, Flushing
<1> QED
  BY <1>1, <1>2, <1>3, OutputOneKeeps, IndInvParts, FirstKept DEF FlushDrain

LEMMA FlushDoneKeeps ==
  ASSUME IndInv, FlushDone
  PROVE  IndInv'
<1>1. BufferOK'
  BY IndInvParts DEF FlushDone, BufferOK
<1>2. RestOK'
  BY IndInvParts, EmptySeq DEF FlushDone, RestOK, Labels
<1>3. CurGood'
  BY IndInvParts DEF FlushDone, CurGood, Busy, Flushing, RestOK
<1> QED
  BY <1>1, <1>2, <1>3, IndInvParts, FirstKept DEF FlushDone

LEMMA IdrStartKeeps ==
  ASSUME IndInv, IdrStart
  PROVE  IndInv'
<1>1. CASE cur.noout
  <2>1. dpb' = <<>> /\ last' = 0 /\ pc' = "idrtail"
    BY <1>1 DEF IdrStart
  <2>2. BufferOK'
    BY <2>1, EmptySeq, DpbSizeAssumption DEF BufferOK, Buffers
  <2>3. RestOK' /\ CurGood'
    BY <1>1, <2>1, IndInvParts, EmptySeq
       DEF IdrStart, RestOK, Labels, CurGood, Busy, Flushing
  <2> QED
    BY <2>2, <2>3, IndInvParts, FirstKept DEF IdrStart
<1>2. CASE ~cur.noout
  <2>1. Flush(dpb, "idrtail") /\ UNCHANGED last
    BY <1>2 DEF IdrStart
  <2>2. BufferOK' /\ pc' = "purge" /\ ret' = "idrtail"
    BY <2>1, IndInvParts, FlushKeeps DEF BufferOK
  <2>3. RestOK' /\ CurGood'
    BY <2>2, IndInvParts, EmptySeq
       DEF IdrStart, RestOK, Labels, CurGood, Busy, Flushing
  <2> QED
    BY <2>2, <2>3, IndInvParts, FirstKept DEF IdrStart
<1> QED
  BY <1>1, <1>2

LEMMA IdrTailKeeps ==
  ASSUME IndInv, IdrTail
  PROVE  IndInv'
<1>1. BufferOK'
  BY IndInvParts, BothListsGood, BufferElements DEF IdrTail, BufferOK
<1>2. GoodPicture(cur) /\ cur.ref /\ cur.ltflag \in BOOLEAN
  BY IndInvParts DEF IdrTail, CurGood, Busy, GoodPicture, Pictures, PictureOf
<1>3. GoodPicture(cur')
  <2> DEFINE idx == IF cur.ltflag THEN 0 ELSE cur.idx
  <2>1. idx \in Idxs
    BY <1>2, PictureFields, BoundsLemma
  <2>2. cur' = [cur EXCEPT !.lt = cur.ltflag, !.idx = idx]
    BY DEF IdrTail
  <2> HIDE DEF idx
  <2> QED
    BY <1>2, <2>1, <2>2 DEF GoodPicture, Pictures, PictureOf
<1>4. RestOK'
  BY <1>3, IndInvParts, EmptySeq, BoundsAssumption
     DEF IdrTail, RestOK, Labels, GoodPicture
<1>5. CurGood'
  BY <1>3 DEF IdrTail, CurGood, Busy, Flushing
<1> QED
  BY <1>1, <1>4, <1>5, IndInvParts, FirstKept DEF IdrTail

(* An operation that changes only marks, and how many were done.            *)
LEMMA OperationKeeps ==
  ASSUME IndInv, NEW n, Operation(n), BufferOK', maxLt' \in -1 .. MaxIdx, mm5' \in BOOLEAN,
         GoodPicture(cur'), cur'.ref, err' \in Errors,
         UNCHANGED <<pc, ret>> \/ (pc' = "purge" /\ ret' = "halt")
  PROVE  IndInv'
<1>1. RestOK'
  <2>1. nops' \in 0 .. MaxMmco
    BY IndInvParts, MmcosAssumption DEF Operation, RestOK
  <2> QED
    BY <2>1, IndInvParts, EmptySeq DEF Operation, RestOK, Labels, GoodPicture
<1>2. CurGood'
  BY DEF CurGood, Busy, Flushing
<1> QED
  BY <1>1, <1>2, IndInvParts, FirstKept DEF Operation

LEMMA InOperation ==
  ASSUME IndInv, NEW n, Operation(n)
  PROVE  /\ dpb \in Buffers /\ Len(dpb) \in Nat /\ Len(dpb) <= DpbSize
         /\ last \in 0 .. Len(dpb) /\ last' = last
         /\ GoodPicture(cur) /\ cur.ref /\ maxLt \in -1 .. MaxIdx
         /\ mm5 \in BOOLEAN /\ err \in Errors
  BY IndInvParts, BufferElements DEF Operation, BufferOK, RestOK, CurGood, Busy

LEMMA Mmco1Keeps ==
  ASSUME IndInv, Mmco1
  PROVE  IndInv'
<1>1. PICK diff \in PicNumDiffs :
        dpb' = UpdateRefList(UnmarkShortTerm(dpb, PicNumX(cur, diff)))
  BY DEF Mmco1
<1>2. BufferOK'
  BY <1>1, InOperation, UnmarkShortTermGood, UpdateListsGood DEF Mmco1, BufferOK
<1> QED
  BY <1>2, InOperation, OperationKeeps DEF Mmco1

LEMMA Mmco2Keeps ==
  ASSUME IndInv, Mmco2
  PROVE  IndInv'
<1>1. PICK n : dpb' = UpdateLtRefList(UnmarkLongTerm(dpb, n))
  BY DEF Mmco2
<1>2. BufferOK'
  BY <1>1, InOperation, UnmarkLongTermGood, UpdateListsGood DEF Mmco2, BufferOK
<1> QED
  BY <1>2, InOperation, OperationKeeps DEF Mmco2

(* Operation 3 frees the index, marks and refreshes both lists.             *)
LEMMA MarkedGood ==
  ASSUME NEW d \in Buffers, NEW x, NEW idx \in Idxs, GoodPicture(cur)
  PROVE  /\ UpdateLists(MarkPicLongTerm(d, x, idx)) \in Buffers
         /\ Len(UpdateLists(MarkPicLongTerm(d, x, idx))) = Len(d)
  BY MarkPicLongTermGood, BothListsGood

LEMMA Mmco3Keeps ==
  ASSUME IndInv, Mmco3
  PROVE  IndInv'
<1>1. PICK diff \in PicNumDiffs, idx \in Idxs :
       LET x == PicNumX(cur, diff)
           num == (IF x < 0 THEN x + 2 * MaxFrameNum ELSE x) \div 2
           mates == {i \in DOMAIN dpb : dpb[i].num = num}
       IN IF cur.struct = "frame"
            THEN /\ dpb' = UpdateLists(MarkPicLongTerm(FreeFrameIdx(dpb, idx), x, idx))
                 /\ UNCHANGED <<pc, ret, err>>
          ELSE IF NamedFields(x) = {}
            THEN Fail(dpb, "field for long term marking not found")
          ELSE \E f \in NamedFields(x) :
                 /\ \A i \in ShortList(dpb) :
                      f \in ShortFields(dpb, i, x) /\ dpb[i].lt # {} => dpb[i].idx = idx
                 /\ dpb' = UpdateLists(MarkPicLongTerm(FreeFieldIdx(dpb, f, idx, mates), x, idx))
                 /\ UNCHANGED <<pc, ret, err>>
  BY DEF Mmco3
<1> DEFINE x == PicNumX(cur, diff)
           num == (IF x < 0 THEN x + 2 * MaxFrameNum ELSE x) \div 2
           mates == {i \in DOMAIN dpb : dpb[i].num = num}
<1>2. CASE cur.struct = "frame"
  <2>1. /\ dpb' = UpdateLists(MarkPicLongTerm(FreeFrameIdx(dpb, idx), x, idx))
        /\ UNCHANGED <<pc, ret, err>>
    BY <1>1, <1>2
  <2> DEFINE d == FreeFrameIdx(dpb, idx)
  <2>2. d \in Buffers /\ Len(d) = Len(dpb)
    BY InOperation, FreeFrameIdxGood DEF Mmco3
  <2>3. GoodPicture(cur) /\ dpb' = UpdateLists(MarkPicLongTerm(d, x, idx))
    BY <2>1, InOperation DEF Mmco3
  <2> HIDE DEF d, x
  <2>4. dpb' \in Buffers /\ Len(dpb') = Len(d)
    BY <2>2, <2>3, MarkedGood
  <2>5. BufferOK'
    BY <2>2, <2>4, InOperation DEF Mmco3, BufferOK
  <2> QED
    BY <2>1, <2>5, InOperation, OperationKeeps DEF Mmco3
<1>3. CASE cur.struct # "frame" /\ NamedFields(x) = {}
  <2>1. Fail(dpb, "field for long term marking not found")
    BY <1>1, <1>3
  <2>2. BufferOK' /\ pc' = "purge" /\ ret' = "halt" /\ err' \in Errors
    BY <2>1, InOperation, FlushKeeps DEF Mmco3, Fail, Errors
  <2> QED
    BY <2>2, InOperation, OperationKeeps DEF Mmco3
<1>4. CASE cur.struct # "frame" /\ NamedFields(x) # {}
  <2>1. PICK f \in NamedFields(x) :
          /\ dpb' = UpdateLists(MarkPicLongTerm(FreeFieldIdx(dpb, f, idx, mates), x, idx))
          /\ UNCHANGED <<pc, ret, err>>
    BY <1>1, <1>4
  <2> DEFINE d == FreeFieldIdx(dpb, f, idx, mates)
  <2>2. dpb' = UpdateLists(MarkPicLongTerm(d, x, idx))
    BY <2>1
  <2> HIDE DEF mates, x
  <2>4. d \in Buffers /\ Len(d) = Len(dpb) /\ GoodPicture(cur)
    BY InOperation, UnmarkLongInGood DEF Mmco3, FreeFieldIdx
  <2> HIDE DEF d
  <2>5. dpb' \in Buffers /\ Len(dpb') = Len(d)
    BY <2>2, <2>4, MarkedGood
  <2>6. BufferOK'
    BY <2>4, <2>5, InOperation DEF Mmco3, BufferOK
  <2> QED
    BY <2>1, <2>6, InOperation, OperationKeeps DEF Mmco3
<1> QED
  BY <1>2, <1>3, <1>4

LEMMA Mmco4Keeps ==
  ASSUME IndInv, Mmco4
  PROVE  IndInv'
<1>1. PICK plus1 \in 0 .. MaxIdx + 1 :
        /\ maxLt' = plus1 - 1
        /\ dpb' = UpdateLtRefList(BoundFrameIdx(dpb, plus1 - 1))
  BY DEF Mmco4
<1>2. BufferOK' /\ maxLt' \in -1 .. MaxIdx
  BY <1>1, InOperation, BoundFrameIdxGood, UpdateListsGood, BoundsAssumption
     DEF Mmco4, BufferOK
<1> QED
  BY <1>2, InOperation, OperationKeeps DEF Mmco4

LEMMA Mmco5Keeps ==
  ASSUME IndInv, Mmco5
  PROVE  IndInv'
<1>1. dpb' = BoundFrameIdx(UpdateRefList(UnmarkIn(dpb, ShortList(dpb))), -1)
  BY DEF Mmco5
<1>3. BufferOK'
  BY <1>1, InOperation, UnmarkInGood, UpdateListsGood, BoundFrameIdxGood DEF Mmco5, BufferOK
<1>4. maxLt' \in -1 .. MaxIdx
  BY BoundsAssumption DEF Mmco5
<1> QED
  BY <1>3, <1>4, InOperation, OperationKeeps DEF Mmco5

LEMMA Mmco6Keeps ==
  ASSUME IndInv, Mmco6
  PROVE  IndInv'
<1> DEFINE mates == {i \in {last} \cap DOMAIN dpb : dpb[i].num = cur.num}
           D(idx) == IF cur.struct = "frame" THEN FreeFrameIdx(dpb, idx)
                     ELSE FreeFieldIdx(dpb, cur.struct, idx, mates)
<1>1. PICK idx \in Idxs :
        /\ cur' = [cur EXCEPT !.lt = TRUE, !.idx = idx]
        /\ IF TooManyRefs(D(idx))
             THEN Fail(D(idx), "Max. number of reference frames exceeded. Invalid stream.")
             ELSE dpb' = D(idx) /\ UNCHANGED <<pc, ret, err>>
  BY DEF Mmco6
<1>2. D(idx) \in Buffers /\ Len(D(idx)) = Len(dpb)
  <2>1. dpb \in Buffers
    BY InOperation DEF Mmco6
  <2>2. /\ FreeFieldIdx(dpb, cur.struct, idx, mates) \in Buffers
        /\ Len(FreeFieldIdx(dpb, cur.struct, idx, mates)) = Len(dpb)
    BY <2>1, UnmarkLongInGood DEF FreeFieldIdx
  <2> QED
    BY <2>1, <2>2, FreeFrameIdxGood
<1>3. GoodPicture(cur') /\ cur'.ref
  BY <1>1, InOperation DEF Mmco6, GoodPicture, Pictures, PictureOf
<1> HIDE DEF D
<1>4. CASE TooManyRefs(D(idx))
  <2>1. BufferOK' /\ pc' = "purge" /\ ret' = "halt" /\ err' \in Errors
    BY <1>1, <1>2, <1>4, InOperation, FlushKeeps DEF Mmco6, Fail, Errors
  <2> QED
    BY <1>3, <2>1, InOperation, OperationKeeps DEF Mmco6
<1>5. CASE ~TooManyRefs(D(idx))
  <2>1. BufferOK' /\ UNCHANGED <<pc, ret, err>>
    BY <1>1, <1>2, <1>5, InOperation DEF Mmco6, BufferOK
  <2> QED
    BY <1>3, <2>1, InOperation, OperationKeeps DEF Mmco6
<1> QED
  BY <1>4, <1>5

LEMMA MmcoEndKeeps ==
  ASSUME IndInv, MmcoEnd
  PROVE  IndInv'
<1>1. GoodPicture(cur) /\ cur.ref /\ stream \in StreamOf /\ stream.seq \in {0, 1}
  BY IndInvParts DEF MmcoEnd, CurGood, Busy, RestOK, StreamOf
<1>2. CASE mm5
  <2> DEFINE seq == 1 - stream.seq
             id == [seq |-> seq, k |-> 0]
             p == [cur EXCEPT !.num = 0, !.poc = 0, !.id = id]
             st == [stream EXCEPT !.pre = 0, !.seq = seq, !.ks = {0}, !.first = FirstField(p)]
  <2>1. cur' = p /\ stream' = st /\ Flush(dpb, "pair")
    BY <1>2 DEF MmcoEnd
  <2>2. seq \in {0, 1} /\ id \in Ids
    BY <1>1, BoundsAssumption DEF Ids
  <2> HIDE DEF seq, id
  <2>3. GoodPicture(p) /\ p.id \in Ids /\ p.struct \in Views
    BY <1>1, <2>2, BoundsLemma DEF GoodPicture, Pictures, PictureOf
  <2> HIDE DEF p
  <2>4. /\ FirstField(p) \in Pictures \cup {NoPicture}
        /\ {0} \in SUBSET (0 .. MaxK) /\ 0 \in FrameNums
    BY <2>3, BoundsLemma, BoundsAssumption DEF FirstField, GoodPicture
  <2>5. st \in StreamOf /\ st.first = FirstField(p)
    BY <1>1, <2>2, <2>4 DEF StreamOf
  <2> HIDE DEF st
  <2>6. BufferOK' /\ pc' = "purge" /\ ret' = "pair"
    BY <2>1, IndInvParts, FlushKeeps DEF MmcoEnd, BufferOK
  <2>7. RestOK'
    BY <2>1, <2>3, <2>5, <2>6, IndInvParts, EmptySeq DEF MmcoEnd, RestOK, Labels, GoodPicture
  <2>8. CurGood' /\ FirstGood'
    BY <2>1, <2>3, <2>5, <2>6 DEF CurGood, Busy, Flushing, FirstGood, FirstField, Views
  <2> QED
    BY <2>6, <2>7, <2>8, IndInvParts
<1>3. CASE ~mm5
  <2>1. pc' = "pair" /\ UNCHANGED <<dpb, ret, cur, stream>>
    BY <1>3 DEF MmcoEnd
  <2>2. BufferOK' /\ RestOK' /\ CurGood'
    BY <1>1, <2>1, IndInvParts, EmptySeq
       DEF MmcoEnd, BufferOK, RestOK, Labels, CurGood, Busy, Flushing
  <2> QED
    BY <2>1, <2>2, IndInvParts, FirstKept
<1> QED
  BY <1>2, <1>3

-----------------------------------------------------------------------------
(* store_picture_in_dpb after the marking.                                  *)
LEMMA PairKeeps ==
  ASSUME IndInv, Pair
  PROVE  IndInv'
<1>1. /\ dpb \in Buffers /\ Len(dpb) \in Nat /\ Len(dpb) <= DpbSize /\ last \in DOMAIN dpb
      /\ GoodPicture(cur) /\ cur.struct # "frame"
  BY IndInvParts, BufferElements DEF Pair, IsSecondField, BufferOK, CurGood, Busy
<1> DEFINE fs == Insert(dpb[last], cur)
           d == [dpb EXCEPT ![last] = fs]
<1>2. fs \in GoodStores
  BY <1>1, InsertGood, BufferElements
<1>3. dpb' = UpdateLists(d)
  BY DEF Pair
<1> HIDE DEF fs
<1>4. d \in Buffers /\ Len(d) = Len(dpb)
  BY <1>1, <1>2, ReplaceGood
<1> HIDE DEF d
<1>5. BufferOK'
  BY <1>1, <1>3, <1>4, BothListsGood DEF Pair, BufferOK
<1>6. RestOK' /\ CurGood'
  BY IndInvParts, EmptySeq DEF Pair, RestOK, Labels, CurGood, Busy, Flushing
<1> QED
  BY <1>5, <1>6, IndInvParts, FirstKept DEF Pair

LEMMA SlideKeeps ==
  ASSUME IndInv, Slide
  PROVE  IndInv'
<1>1. BufferOK /\ dpb \in Buffers
  BY IndInvParts DEF BufferOK
<1>2. dpb' = UpdateRefList(UnmarkIn(dpb, FirstOf(SlidingVictims))) \/ dpb' = dpb
  BY DEF Slide
<1> DEFINE d == UnmarkIn(dpb, FirstOf(SlidingVictims))
<1>3. d \in Buffers /\ Len(d) = Len(dpb)
  BY <1>1, UnmarkInGood
<1> HIDE DEF d
<1>4. dpb' \in Buffers /\ Len(dpb') = Len(dpb)
  BY <1>1, <1>2, <1>3, UpdateListsGood DEF d
<1>5. BufferOK'
  BY <1>1, <1>4 DEF Slide, BufferOK
<1>6. RestOK' /\ CurGood'
  BY IndInvParts, EmptySeq DEF Slide, RestOK, Labels, CurGood, Busy, Flushing
<1> QED
  BY <1>5, <1>6, IndInvParts, FirstKept DEF Slide

LEMMA TrimKeeps ==
  ASSUME IndInv, Trim
  PROVE  IndInv'
<1>1. BufferOK'
  BY IndInvParts, RemoveUnusedKeeps DEF Trim, BufferOK
<1>2. RestOK' /\ CurGood'
  BY IndInvParts, EmptySeq DEF Trim, RestOK, Labels, CurGood, Busy, Flushing
<1> QED
  BY <1>1, <1>2, IndInvParts, FirstKept DEF Trim

LEMMA DirectOutputKeeps ==
  ASSUME IndInv, DirectOutput
  PROVE  IndInv'
<1>1. /\ outbuf \in Written /\ GoodPicture(cur) /\ Blank \in Written
      /\ cur.id \in Ids \cup {NoId} /\ cur.struct \in Views
  BY IndInvParts, PictureFields
     DEF DirectOutput, RestOK, CurGood, Busy, Blank, Written, GoodPicture, Pictures, PictureOf
<1>2. PendingDirect \in Seq(Written)
  BY <1>1 DEF PendingDirect
<1>3. outbuf' \in Written /\ written' \in Seq(Written)
  <2>1. CASE cur.struct = "frame"
    <3>1. [f \in Fields |-> cur.id] \in Written
      BY <1>1 DEF Written
    <3>2. <<[f \in Fields |-> cur.id]>> \in Seq(Written)
      BY <3>1
    <3>3. /\ written' = PendingDirect \o <<[f \in Fields |-> cur.id]>>
          /\ outbuf' = Blank
      BY <2>1 DEF DirectOutput
    <3> QED
      BY <1>1, <1>2, <3>2, <3>3, ConcatProperties
  <2>2. CASE cur.struct # "frame"
    <3> DEFINE clash == outbuf[cur.struct] # NoId
               buf == [(IF clash THEN Blank ELSE outbuf) EXCEPT ![cur.struct] = cur.id]
               whole == \A f \in Fields : buf[f] # NoId
               front == IF clash THEN PendingDirect ELSE <<>>
               back == IF whole THEN <<buf>> ELSE <<>>
    <3>1. written' = front \o back /\ outbuf' = IF whole THEN Blank ELSE buf
      BY <2>2 DEF DirectOutput
    <3>2. buf \in Written
      BY <1>1 DEF Written
    <3> HIDE DEF buf, clash, whole
    <3>3. front \in Seq(Written) /\ back \in Seq(Written)
      BY <1>2, <3>2, EmptySeq
    <3> HIDE DEF front, back
    <3> QED
      BY <1>1, <3>1, <3>2, <3>3, ConcatProperties
  <2> QED
    BY <2>1, <2>2
<1>4. BufferOK' /\ RestOK' /\ CurGood'
  BY <1>3, IndInvParts DEF DirectOutput, BufferOK, RestOK, Labels, CurGood, Busy, Flushing
<1> QED
  BY <1>4, IndInvParts, FirstKept DEF DirectOutput

LEMMA BumpKeeps ==
  ASSUME IndInv, Bump
  PROVE  IndInv'
<1>1. BufferOK /\ RestOK /\ OutputOne
  BY IndInvParts DEF Bump
<1>2. RestOK'
  BY <1>1, OutputOneKeeps DEF Bump, RestOK, Labels
<1>3. CurGood'
  BY <1>1, IndInvParts, OutputOneKeeps DEF Bump, CurGood, Busy, Flushing
<1> QED
  BY <1>1, <1>2, <1>3, OutputOneKeeps, IndInvParts, FirstKept DEF Bump

LEMMA StoreKeeps ==
  ASSUME IndInv, Store
  PROVE  IndInv'
<1> DEFINE d == UpdateLists(Append(dpb, Insert(EmptyStore(cur.id), cur)))
<1>1. /\ BufferOK /\ dpb \in Buffers /\ Len(dpb) \in Nat /\ Len(dpb) + 1 <= DpbSize
      /\ last \in 0 .. Len(dpb) /\ GoodPicture(cur)
  <2>1. /\ dpb \in Buffers /\ Len(dpb) <= DpbSize /\ last \in 0 .. Len(dpb)
        /\ GoodPicture(cur)
    BY IndInvParts DEF Store, BufferOK, CurGood, Busy
  <2>2. Len(dpb) # DpbSize
    BY DEF Store, Full
  <2>3. Len(dpb) \in Nat
    BY <2>1, BufferElements
  <2> QED
    BY <2>1, <2>2, <2>3, DpbSizeAssumption DEF BufferOK
<1>2. d \in Buffers /\ Len(d) = Len(dpb) + 1
  BY <1>1, StoreGood
<1>3. \/ /\ Fail(dpb, "duplicate frame_num in short-term reference picture buffer")
         /\ UNCHANGED <<last, cur>>
      \/ /\ last' \in {0, Len(d)}
         /\ Fail(d, "Max. number of reference frames exceeded. Invalid stream.")
         /\ UNCHANGED cur
      \/ /\ last' \in {0, Len(d)}
         /\ dpb' = d /\ pc' = "idle" /\ cur' = NoPicture /\ UNCHANGED <<ret, err>>
  BY DEF Store
<1> HIDE DEF d
<1>4. /\ BufferOK' /\ err' \in Errors /\ cur' \in {cur, NoPicture}
      /\ (pc' = "purge" /\ ret' = "halt") \/ (pc' = "idle" /\ ret' = ret)
  <2>1. CASE Fail(dpb, "duplicate frame_num in short-term reference picture buffer")
               /\ UNCHANGED <<last, cur>>
    <3>1. Flush(dpb, "halt") /\ last' \in 0 .. Len(dpb) /\ Len(dpb) <= DpbSize
      BY <1>1, <2>1 DEF Fail, BufferOK
    <3>2. BufferOK' /\ pc' = "purge" /\ ret' = "halt"
      BY <1>1, <3>1, FlushKeeps
    <3> QED
      BY <2>1, <3>2 DEF Fail, Errors
  <2>2. CASE /\ last' \in {0, Len(d)}
             /\ Fail(d, "Max. number of reference frames exceeded. Invalid stream.")
             /\ UNCHANGED cur
    <3>1. last' \in {0, Len(d)} /\ Flush(d, "halt")
      BY <2>2 DEF Fail
    <3>2. Len(d) \in Nat /\ Len(d) <= DpbSize
      BY <1>1, <1>2
    <3>3. BufferOK' /\ pc' = "purge" /\ ret' = "halt"
      BY <1>2, <3>1, <3>2, FlushKeeps
    <3> QED
      BY <2>2, <3>3 DEF Fail, Errors
  <2>3. CASE /\ last' \in {0, Len(d)}
             /\ dpb' = d /\ pc' = "idle" /\ cur' = NoPicture /\ UNCHANGED <<ret, err>>
    BY <1>1, <1>2, <2>3, IndInvParts DEF BufferOK, RestOK
  <2> QED
    BY <1>3, <2>1, <2>2, <2>3
<1>5. RestOK'
  BY <1>4, IndInvParts, EmptySeq DEF Store, RestOK, Labels
<1>6. CurGood'
  BY <1>4 DEF CurGood, Busy, Flushing
<1> QED
  BY <1>4, <1>5, <1>6, IndInvParts, FirstKept DEF Store

LEMMA StutterKeeps == IndInv /\ UNCHANGED vars => IndInv'
  BY DEF vars, IndInv, TypeOK, CurGood, FirstGood, Busy, Flushing

(* Every step keeps the inductive invariant.                                *)
LEMMA NextKeeps ==
  ASSUME IndInv, [Next]_vars
  PROVE  IndInv'
<1>1. CASE Receive
  BY <1>1, ReceiveKeeps
<1>2. CASE EndOfStream
  BY <1>2, EndOfStreamKeeps
<1>3. CASE Mmco
  BY <1>3, Mmco1Keeps, Mmco2Keeps, Mmco3Keeps, Mmco4Keeps, Mmco5Keeps, Mmco6Keeps,
     MmcoEndKeeps DEF Mmco
<1>4. CASE Work /\ ~Mmco
  BY <1>4, IdrStartKeeps, IdrTailKeeps, FlushPurgeKeeps, FlushDrainKeeps, FlushDoneKeeps,
     PairKeeps, SlideKeeps, TrimKeeps, DirectOutputKeeps, BumpKeeps, StoreKeeps,
     StutterKeeps DEF Work, Spin
<1>5. CASE Exited \/ UNCHANGED vars
  BY <1>5, StutterKeeps DEF Exited
<1> QED
  BY <1>1, <1>2, <1>3, <1>4, <1>5 DEF Next

THEOREM Invariant == Spec => []IndInv
<1>1. IndInv /\ [Next]_vars => IndInv'
  BY NextKeeps
<1> QED
  BY InitIndInv, <1>1, PTL DEF Spec

(* Whatever the stream holds, every call of store_picture_in_dpb leaves at  *)
(* most getDpbSize stores in use, last_picture in the buffer, and all       *)
(* members of the state in their ranges.                                    *)
THEOREM TypeCorrect == Spec => []TypeOK
<1>1. IndInv => TypeOK
  BY DEF IndInv
<1> QED
  BY Invariant, <1>1, PTL

(* The bits is_reference and is_long_term of every store agree with the     *)
(* flags of its pictures after every step, so that sliding window and       *)
(* output, which test the bits, and the lists of references, which are made *)
(* from the flags, never take a different view of a store.                  *)
THEOREM MarkingAgrees == Spec => []MarksAgree
<1>1. IndInv => MarksAgree
  <2> SUFFICES ASSUME IndInv, NEW i \in DOMAIN dpb
               PROVE  BitsAgree(dpb[i].ref, dpb[i].pref) /\ BitsAgree(dpb[i].lt, dpb[i].plt)
    BY DEF MarksAgree
  <2>1. dpb[i] \in GoodStores
    BY BufferElements DEF IndInv, Buffers
  <2> QED
    BY <2>1 DEF GoodStores
<1> QED
  BY Invariant, <1>1, PTL
=============================================================================
