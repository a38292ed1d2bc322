----------------------------- MODULE OutputProofs -----------------------------
(***************************************************************************)
(* Of the frames in Dpb and what is written of them, for every value of    *)
(* the constants: the two fields of a frame share a store, and a buffer    *)
(* that accepts the pictures of a stream that leaves no field alone writes *)
(* what PictureOutput says, each frame at most once and whole.             *)
(***************************************************************************)
EXTENDS WindowProofs

(***************************************************************************)
(* The streams it is about.  A field may be left alone only if all first   *)
(* fields are of one parity: otherwise last_picture may pair it with the   *)
(* first field of a later frame.                                           *)
(***************************************************************************)
OneParity(t) == Structures \subseteq {"frame", t}
FieldsInOrder == Unpaired => \E t \in Fields : OneParity(t)

(* A call is made, and, with the buffer of one coded video sequence, the    *)
(* places in it.                                                            *)
InCall == Busy \/ (Flushing /\ ret # "halt")
Steady == pc \in {"idle", "mmco", "pair", "trim", "room"}

Known(id) == id.seq = stream.seq /\ id.k \in stream.ks
Absent(id) == \A i \in DOMAIN dpb : dpb[i].id # id

(* The POCs of the frame at place k.                                        *)
PocsOf(k) == {2 * k, 2 * k + 1}

(* The stores are of different frames of the sequence.                      *)
InSequence ==
  /\ \A i \in DOMAIN dpb : dpb[i].id # NoId => Known(dpb[i].id)
  /\ \A i \in NotOutput : dpb[i].id # NoId /\ \E k \in stream.ks : dpb[i].poc \in PocsOf(k)
  /\ \A i \in DOMAIN dpb : dpb[i].out => dpb[i].used = Fields
StoresKnown == OneStorePerFrame /\ (Steady => InSequence)

(* The picture in a call, which is the first field that waits, or new.      *)
CurKnown ==
  InCall =>
    /\ cur.out <=> cur.id = NoId
    /\ cur.id = NoId => cur.struct = "frame" /\ cur.ref /\ ~ cur.adaptive /\ ~ cur.idr
    /\ cur.id # NoId =>
         Known(cur.id) /\ cur.poc = 2 * cur.id.k + (IF Second THEN 1 ELSE 0)
    /\ Second => pc \in {"mmco", "pair", "trim", "room"} /\ (pc = "mmco" => ~ mm5)
    /\ pc = "mmco" => cur.id # NoId
    /\ IF cur.struct = "frame" THEN stream.first = NoPicture
       ELSE ~ Second => /\ stream.first.struct = cur.struct /\ stream.first.num = cur.num
                        /\ stream.first.ref = cur.ref /\ stream.first.id = cur.id

CurNew ==
  pc \in {"mmco", "pair", "trim", "room"} /\ ~ Second /\ cur.id # NoId =>
    /\ Absent(cur.id)
    /\ \A i \in NotOutput : dpb[i].poc \notin PocsOf(cur.id.k)

(* Where the first field of a pair is while the second is awaited: in the   *)
(* store last_picture names, or written directly, and then so will be the   *)
(* second.                                                                  *)
NoneWaits(d, l) ==
  \/ l = 0
  \/ Unpaired /\ \A t \in Fields : OneParity(t) => d[l].used # {Opposite(t)}

IsIn(f) ==
  /\ last # 0 /\ dpb[last].id = f.id /\ dpb[last].num = f.num
  /\ dpb[last].used = {f.struct} /\ (f.ref <=> dpb[last].orig # {})

IsOut(f) ==
  /\ ~ f.ref /\ Full /\ Unused = {} /\ Absent(f.id) /\ NoneWaits(dpb, last)
  /\ \A i \in NotOutput : 2 * f.id.k + 1 < dpb[i].poc

Mate == [cur EXCEPT !.struct = Opposite(@)]

FieldsKnown ==
  /\ stream.first # NoPicture => stream.first.struct \in Structures
  /\ pc = "idle" /\ stream.first # NoPicture =>
       Known(stream.first.id) /\ (IsIn(stream.first) \/ IsOut(stream.first))
  /\ pc = "idle" /\ stream.first = NoPicture => NoneWaits(dpb, last)
  /\ InCall /\ ~ Second => NoneWaits(dpb, last)
  /\ InCall /\ Second => (pc \in {"mmco", "pair"} /\ IsIn(Mate)) \/ (pc # "mmco" /\ IsOut(Mate))

FrameInv == StoresKnown /\ CurKnown /\ CurNew /\ FieldsKnown

-----------------------------------------------------------------------------
(* What marking leaves of a store.                                          *)
Traits(fs) == <<fs.id, fs.num, fs.used, fs.orig, fs.out, fs.poc>>
Alike(e, d) == DOMAIN e = DOMAIN d /\ \A i \in DOMAIN d : Traits(e[i]) = Traits(d[i])

LEMMA TraitsTell ==
  ASSUME NEW e, NEW d, Traits(e) = Traits(d)
  PROVE  /\ e.id = d.id /\ e.num = d.num /\ e.used = d.used /\ e.orig = d.orig
         /\ e.out = d.out /\ e.poc = d.poc
  BY DEF Traits

LEMMA StoresAlike ==
  ASSUME NEW fs \in GoodStores
  PROVE  /\ Traits(Unmark(fs)) = Traits(fs) /\ Traits(UnmarkLong(fs)) = Traits(fs)
         /\ \A f : /\ Traits(UnmarkField(fs, f)) = Traits(fs)
                   /\ Traits(UnmarkLongField(fs, f)) = Traits(fs)
         /\ \A idx : Traits(MarkFrameLong(fs, idx)) = Traits(fs)
         /\ \A f, idx : Traits(MarkFieldLong(fs, f, idx)) = Traits(fs)
         /\ \A b : /\ Traits([fs EXCEPT !.short = b]) = Traits(fs)
                   /\ Traits([fs EXCEPT !.long = b]) = Traits(fs)
  BY DEF GoodStores, Stores, StoreOf, Traits, Unmark, UnmarkLong, UnmarkField, UnmarkLongField,
         MarkFrameLong, MarkFieldLong

LEMMA AlikeTransitive ==
  ASSUME NEW d, NEW e, NEW f, Alike(f, e), Alike(e, d)
  PROVE  Alike(f, d)
  BY DEF Alike

LEMMA OperationsAlike ==
  ASSUME NEW d \in Buffers
  PROVE  /\ Alike(d, d)
         /\ Alike([i \in DOMAIN d |-> Unmark(d[i])], d)
         /\ \A S : Alike(UnmarkIn(d, S), d) /\ Alike(UnmarkLongIn(d, S), d)
         /\ Alike(UpdateRefList(d), d) /\ Alike(UpdateLtRefList(d), d)
<1>1. \A i \in DOMAIN d : d[i] \in GoodStores BY BufferElements
<1>2. QED
  BY <1>1, StoresAlike DEF Alike, UnmarkIn, UnmarkLongIn, UpdateRefList, UpdateLtRefList

LEMMA UpdateListsAlike ==
  ASSUME NEW d \in Buffers
  PROVE  Alike(UpdateLists(d), d)
  BY OperationsAlike, UpdateListsGood, AlikeTransitive DEF UpdateLists

LEMMA MarkingAlike ==
  ASSUME NEW d \in Buffers
  PROVE  /\ \A x : Alike(UnmarkShortTerm(d, x), d)
         /\ \A n : Alike(UnmarkLongTerm(d, n), d)
         /\ \A x, idx : Alike(MarkPicLongTerm(d, x, idx), d)
<1>1. \A i \in DOMAIN d : d[i] \in GoodStores BY BufferElements
<1>2. \A S : Alike(UnmarkIn(d, S), d) /\ Alike(UnmarkLongIn(d, S), d) BY OperationsAlike
<1>3. \A x : Alike(UnmarkShortTerm(d, x), d)
  <2>1. CASE cur.struct = "frame" BY <1>2, <2>1 DEF UnmarkShortTerm
  <2>2. CASE cur.struct # "frame" BY <1>1, <2>2, StoresAlike DEF UnmarkShortTerm, Alike
  <2>3. QED BY <2>1, <2>2
<1>4. \A n : Alike(UnmarkLongTerm(d, n), d)
  <2>1. CASE cur.struct = "frame" BY <1>2, <2>1 DEF UnmarkLongTerm
  <2>2. CASE cur.struct # "frame" BY <1>1, <2>2, StoresAlike DEF UnmarkLongTerm, Alike
  <2>3. QED BY <2>1, <2>2
<1>5. \A x, idx : Alike(MarkPicLongTerm(d, x, idx), d)
  <2>1. CASE cur.struct = "frame" BY <1>1, <2>1, StoresAlike DEF MarkPicLongTerm, Alike
  <2>2. CASE cur.struct # "frame" BY <1>1, <2>2, StoresAlike DEF MarkPicLongTerm, Alike
  <2>3. QED BY <2>1, <2>2
<1>6. QED BY <1>3, <1>4, <1>5

LEMMA FlushAlike ==
  ASSUME NEW d \in Buffers, Alike(d, dpb), NEW to, Flush(d, to)
  PROVE  Alike(dpb', dpb) /\ pc' = "purge" /\ ret' = to
<1>1. dpb' = [i \in DOMAIN d |-> Unmark(d[i])] /\ pc' = "purge" /\ ret' = to BY DEF Flush
<1>2. Alike(dpb', d) BY <1>1, OperationsAlike
<1>3. QED BY <1>1, <1>2, AlikeTransitive

LEMMA FreedAndMarkedAlike ==
  ASSUME NEW d \in Buffers, NEW S, NEW x, NEW idx \in Idxs, GoodPicture(cur)
  PROVE  Alike(UpdateLists(MarkPicLongTerm(UnmarkLongIn(d, S), x, idx)), d)
<1> DEFINE e == UnmarkLongIn(d, S)
           f == MarkPicLongTerm(e, x, idx)
<1>1. e \in Buffers /\ Alike(e, d) BY UnmarkLongInGood, OperationsAlike
<1> HIDE DEF e
<1>2. f \in Buffers /\ Alike(f, e) BY <1>1, MarkPicLongTermGood, MarkingAlike
<1> HIDE DEF f
<1>3. Alike(UpdateLists(f), f) BY <1>2, UpdateListsAlike
<1>4. Alike(UpdateLists(f), d) BY <1>1, <1>2, <1>3, AlikeTransitive
<1>5. QED BY <1>4 DEF e, f

(* An operation keeps what a store is, and goes on or ends the program.     *)
Goes == UNCHANGED <<pc, ret, err>> \/ (pc' = "purge" /\ ret' = "halt")

LEMMA Mmco3Alike ==
  ASSUME IndInv, Mmco3
  PROVE  Alike(dpb', dpb) /\ Goes
<1>1. PICK diff \in PicNumDiffs, idx \in Idxs :
       LET x == PicNumX(cur, diff)
           num == (IF x < 0 THEN x + 2 * MaxFrameNum ELSE x) \div 2
           mates == {i \in DOMAIN dpb : dpb[i].num = num}
       IN IF cur.struct = "frame"
            THEN /\ dpb' = UpdateLists(MarkPicLongTerm(FreeFrameIdx(dpb, idx), x, idx))
                 /\ UNCHANGED <<pc, ret, err>>
          ELSE IF NamedFields(x) = {}
            THEN Fail(dpb, "field for long term marking not found")
          ELSE \E f \in NamedFields(x) :
                 /\ dpb' = UpdateLists(MarkPicLongTerm(FreeFieldIdx(dpb, f, idx, mates), x, idx))
                 /\ UNCHANGED <<pc, ret, err>>
  BY DEF Mmco3
<1>2. dpb \in Buffers /\ GoodPicture(cur) BY InOperation DEF Mmco3
<1> DEFINE x == PicNumX(cur, diff)
<1>3. \/ Flush(dpb, "halt")
      \/ /\ \E S : dpb' = UpdateLists(MarkPicLongTerm(UnmarkLongIn(dpb, S), x, idx))
         /\ UNCHANGED <<pc, ret, err>>
  BY <1>1, Zenon DEF FreeFrameIdx, FreeFieldIdx, Fail
<1> HIDE DEF x
<1>4. CASE Flush(dpb, "halt") BY <1>2, <1>4, FlushAlike, OperationsAlike DEF Goes
<1>5. QED BY <1>2, <1>3, <1>4, FreedAndMarkedAlike DEF Goes

LEMMA Mmco6Alike ==
  ASSUME IndInv, Mmco6
  PROVE  Alike(dpb', dpb) /\ Goes
<1>1. PICK S : LET d == UnmarkLongIn(dpb, S)
               IN  (dpb' = d /\ UNCHANGED <<pc, ret, err>>) \/ Flush(d, "halt")
  <2> DEFINE mates == {i \in {last} \cap DOMAIN dpb : dpb[i].num = cur.num}
             D(idx) == IF cur.struct = "frame" THEN FreeFrameIdx(dpb, idx)
                       ELSE FreeFieldIdx(dpb, cur.struct, idx, mates)
  <2>1. PICK idx : (dpb' = D(idx) /\ UNCHANGED <<pc, ret, err>>) \/ Flush(D(idx), "halt")
    BY DEF Mmco6, Fail
  <2>2. \E S : D(idx) = UnmarkLongIn(dpb, S) BY DEF FreeFrameIdx, FreeFieldIdx
  <2> HIDE DEF D
  <2>3. QED BY <2>1, <2>2
<1>2. dpb \in Buffers BY InOperation DEF Mmco6
<1>3. UnmarkLongIn(dpb, S) \in Buffers /\ Alike(UnmarkLongIn(dpb, S), dpb)
  BY <1>2, UnmarkLongInGood, OperationsAlike
<1>4. QED BY <1>1, <1>3, FlushAlike DEF Goes

LEMMA MmcoAlike ==
  ASSUME IndInv, Mmco1 \/ Mmco2 \/ Mmco3 \/ Mmco4 \/ Mmco5 \/ Mmco6
  PROVE  Alike(dpb', dpb) /\ Goes
<1>1. CASE Mmco1
  <2>1. PICK x : dpb' = UpdateRefList(UnmarkShortTerm(dpb, x)) BY <1>1 DEF Mmco1
  <2>2. dpb \in Buffers /\ GoodPicture(cur) BY <1>1, InOperation DEF Mmco1
  <2>3. UnmarkShortTerm(dpb, x) \in Buffers /\ Alike(UnmarkShortTerm(dpb, x), dpb)
    BY <2>2, UnmarkShortTermGood, MarkingAlike
  <2>4. Alike(dpb', dpb) BY <2>1, <2>3, OperationsAlike, AlikeTransitive
  <2>5. QED BY <1>1, <2>4 DEF Goes, Mmco1
<1>2. CASE Mmco2
  <2>1. PICK n : dpb' = UpdateLtRefList(UnmarkLongTerm(dpb, n)) BY <1>2 DEF Mmco2
  <2>2. dpb \in Buffers /\ GoodPicture(cur) BY <1>2, InOperation DEF Mmco2
  <2>3. UnmarkLongTerm(dpb, n) \in Buffers /\ Alike(UnmarkLongTerm(dpb, n), dpb)
    BY <2>2, UnmarkLongTermGood, MarkingAlike
  <2>4. Alike(dpb', dpb) BY <2>1, <2>3, OperationsAlike, AlikeTransitive
  <2>5. QED BY <1>2, <2>4 DEF Goes, Mmco2
<1>3. CASE Mmco4
  <2>1. PICK max : dpb' = UpdateLtRefList(BoundFrameIdx(dpb, max)) BY <1>3 DEF Mmco4
  <2>2. dpb \in Buffers BY <1>3, InOperation DEF Mmco4
  <2>3. BoundFrameIdx(dpb, max) \in Buffers /\ Alike(BoundFrameIdx(dpb, max), dpb)
    BY <2>2, BoundFrameIdxGood, OperationsAlike DEF BoundFrameIdx
  <2>4. Alike(dpb', dpb) BY <2>1, <2>3, OperationsAlike, AlikeTransitive
  <2>5. QED BY <1>3, <2>4 DEF Goes, Mmco4
<1>4. CASE Mmco5
  <2> DEFINE d == UnmarkIn(dpb, ShortList(dpb))
             e == UpdateRefList(d)
  <2>1. dpb' = BoundFrameIdx(e, -1) BY <1>4 DEF Mmco5
  <2>2. dpb \in Buffers BY <1>4, InOperation DEF Mmco5
  <2>3. d \in Buffers /\ Alike(d, dpb) BY <2>2, UnmarkInGood, OperationsAlike
  <2> HIDE DEF d
  <2>4. e \in Buffers /\ Alike(e, d) BY <2>3, UpdateListsGood, OperationsAlike
  <2> HIDE DEF e
  <2>5. Alike(dpb', e) BY <2>1, <2>4, OperationsAlike DEF BoundFrameIdx
  <2>6. Alike(dpb', dpb) BY <2>3, <2>4, <2>5, AlikeTransitive
  <2>7. QED BY <1>4, <2>6 DEF Goes, Mmco5
<1>5. QED BY <1>1, <1>2, <1>3, <1>4, Mmco3Alike, Mmco6Alike

-----------------------------------------------------------------------------
(* A store that takes a picture, alone or as the second field of a frame.   *)
LEMMA WithFieldTraits ==
  ASSUME NEW fs \in Stores, NEW p, GoodPicture(p), p.struct # "frame"
  PROVE  LET g == WithField(fs, p)
         IN  /\ g \in Stores /\ g.id = p.id /\ g.num = p.num /\ g.out = p.out
             /\ g.used = fs.used \cup {p.struct} /\ g.poc = fs.poc
<1> DEFINE pref == IF p.ref THEN fs.pref \cup {p.struct} ELSE fs.pref
           lt == IF p.ref /\ p.lt THEN fs.lt \cup {p.struct} ELSE fs.lt
           plt == IF p.lt THEN fs.plt \cup {p.struct} ELSE fs.plt
           idx == IF p.ref /\ p.lt THEN p.idx ELSE fs.idx
           ref == IF p.ref THEN fs.ref \cup {p.struct} ELSE fs.ref
           orig == IF p.ref THEN fs.orig \cup {p.struct} ELSE fs.orig
           used == fs.used \cup {p.struct}
<1>1. p.struct \in Fields /\ p.struct \in Views
  BY DEF GoodPicture, Pictures, PictureOf, Views
<1>2. /\ ref \in SUBSET Fields /\ orig \in SUBSET Fields /\ used \in SUBSET Fields
      /\ lt \in SUBSET Fields /\ pref \in SUBSET Views /\ plt \in SUBSET Views
      /\ idx \in Idxs
  BY <1>1, PictureFields DEF Stores, StoreOf
<1>3. WithField(fs, p) = [fs EXCEPT !.used = used, !.num = p.num, !.out = p.out, !.id = p.id,
                                    !.ref = ref, !.orig = orig, !.pref = pref,
                                    !.lt = lt, !.plt = plt, !.idx = idx]
  BY DEF WithField
<1> HIDE DEF used, ref, orig, pref, lt, plt, idx
<1> DEFINE g == WithField(fs, p)
<1> HIDE DEF g
<1>4. g = [fs EXCEPT !.used = used, !.num = p.num, !.out = p.out, !.id = p.id,
                     !.ref = ref, !.orig = orig, !.pref = pref,
                     !.lt = lt, !.plt = plt, !.idx = idx]
  BY <1>3 DEF g
<1>5. p.num \in FrameNums /\ p.id \in Ids \cup {NoId} /\ p.out \in BOOLEAN BY PictureFields
<1>6. g \in Stores BY <1>2, <1>4, <1>5 DEF Stores, StoreOf
<1>7. g.id = p.id /\ g.num = p.num /\ g.out = p.out /\ g.used = used /\ g.poc = fs.poc
  BY <1>4 DEF Stores, StoreOf
<1>8. QED BY <1>6, <1>7 DEF used, g

LEMMA CombinedTraits ==
  ASSUME NEW fs \in Stores, NEW poc \in Pocs
  PROVE  LET g == Combined(fs, poc)
         IN  /\ g.id = fs.id /\ g.num = fs.num /\ g.out = fs.out /\ g.used = Fields
             /\ g.poc = IF poc < fs.poc THEN poc ELSE fs.poc
<1> DEFINE low == IF poc < fs.poc THEN poc ELSE fs.poc
<1>1. Combined(fs, poc) = [fs EXCEPT !.used = Fields, !.poc = low,
                                     !.pref = JoinMarks(fs.pref), !.plt = JoinMarks(fs.plt)]
  BY DEF Combined, JoinMarks
<1> HIDE DEF low
<1>2. /\ Combined(fs, poc).id = fs.id /\ Combined(fs, poc).num = fs.num
      /\ Combined(fs, poc).out = fs.out /\ Combined(fs, poc).used = Fields
      /\ Combined(fs, poc).poc = low
  BY <1>1 DEF Stores, StoreOf
<1>3. QED BY <1>2 DEF low

(* The second field.                                                        *)
LEMMA JoinTraits ==
  ASSUME NEW fs \in GoodStores, NEW p, GoodPicture(p), p.struct # "frame",
         fs.used = {Opposite(p.struct)}
  PROVE  LET g == Insert(fs, p)
         IN  /\ g.id = p.id /\ g.num = p.num /\ g.out = p.out /\ g.used = Fields
             /\ g.poc = IF p.poc < fs.poc THEN p.poc ELSE fs.poc
<1> DEFINE e == WithField(fs, p)
<1>1. p.struct \in Fields /\ p.poc \in Pocs /\ fs \in Stores
  BY PictureFields DEF GoodPicture, Pictures, PictureOf, Views, GoodStores
<1>2. fs.used \cup {p.struct} = Fields BY <1>1 DEF Fields, Opposite
<1>3. /\ e \in Stores /\ e.id = p.id /\ e.num = p.num /\ e.out = p.out
      /\ e.poc = fs.poc
  BY <1>1, WithFieldTraits
<1>4. Insert(fs, p) = Combined(e, p.poc) BY <1>2 DEF Insert, InsertField
<1> HIDE DEF e
<1>5. QED BY <1>1, <1>3, <1>4, CombinedTraits

(* A new store.                                                             *)
LEMMA NewTraits ==
  ASSUME NEW p, GoodPicture(p), NEW g, g = Insert(EmptyStore(p.id), p)
  PROVE  /\ g.id = p.id /\ g.num = p.num /\ g.out = p.out /\ g.poc = p.poc
         /\ g.used = IF p.struct = "frame" THEN Fields ELSE {p.struct}
         /\ p.ref <=> g.orig # {}
<1>1. /\ p.ref <=> g.orig # {}
      /\ p.struct # "frame" => g.used = {p.struct}
  BY InsertNewWindow
<1>2. CASE p.struct = "frame"
  <2> DEFINE fs == EmptyStore(p.id)
             ref == IF p.ref THEN Fields ELSE fs.ref
             orig == IF p.ref THEN Fields ELSE fs.orig
             pref == IF p.ref THEN FrameViews ELSE {}
             lt == IF p.ref /\ p.lt THEN Fields ELSE fs.lt
             plt == IF p.lt THEN FrameViews ELSE {}
             idx == IF p.ref /\ p.lt THEN p.idx ELSE fs.idx
  <2>1. g = [fs EXCEPT !.used = Fields, !.num = p.num, !.poc = p.poc, !.out = p.out,
                       !.id = p.id, !.ref = ref, !.orig = orig, !.pref = pref,
                       !.lt = lt, !.plt = plt, !.idx = idx]
    BY <1>2 DEF Insert, InsertFrame
  <2> HIDE DEF ref, orig, pref, lt, plt, idx
  <2>2. g.id = p.id /\ g.num = p.num /\ g.out = p.out /\ g.poc = p.poc /\ g.used = Fields
    BY <2>1 DEF EmptyStore
  <2>3. QED BY <1>1, <1>2, <2>2
<1>3. CASE p.struct # "frame"
  <2> DEFINE e == WithField(EmptyStore(p.id), p)
  <2>1. p.struct \in Fields /\ p.id \in Ids \cup {NoId} /\ ~ FrameMbsOnly
    BY <1>3, PictureFields DEF GoodPicture, Pictures, PictureOf, Views
  <2>2. EmptyStore(p.id) \in Stores /\ EmptyStore(p.id).used = {}
    BY <2>1, EmptyStoreGood DEF GoodStores, EmptyStore
  <2>3. e \in Stores /\ e.id = p.id /\ e.num = p.num /\ e.out = p.out
    BY <1>3, <2>2, WithFieldTraits
  <2>4. g = [e EXCEPT !.poc = p.poc]
    BY <1>3, <2>1, <2>2 DEF Insert, InsertField, Fields
  <2> HIDE DEF e
  <2>5. g.id = p.id /\ g.num = p.num /\ g.out = p.out /\ g.poc = p.poc
    BY <2>3, <2>4 DEF Stores, StoreOf
  <2>6. QED BY <1>1, <1>3, <2>5
<1>4. QED BY <1>2, <1>3

(* A store that was written.                                                *)
LEMMA WrittenTraits ==
  ASSUME NEW fs \in GoodStores
  PROVE  LET g == AfterWrite(fs)
         IN  g.id = fs.id /\ g.num = fs.num /\ g.orig = fs.orig /\ g.out /\ g.used = Fields
<1>1. fs \in Stores BY DEF GoodStores
<1>2. CASE fs.used = Fields BY <1>1, <1>2 DEF AfterWrite, Stores, StoreOf
<1>3. CASE fs.used # Fields
  <2> DEFINE g == [fs EXCEPT !.used = Fields, !.poc = IF 0 < @ THEN 0 ELSE @,
                             !.pref = JoinMarks(fs.pref), !.plt = JoinMarks(fs.plt),
                             !.out = TRUE]
  <2>1. AfterWrite(fs) = g BY <1>1, <1>3 DEF AfterWrite, FillUnpaired, Combined, JoinMarks,
                                            Stores, StoreOf
  <2>2. g.id = fs.id /\ g.num = fs.num /\ g.orig = fs.orig /\ g.out /\ g.used = Fields
    BY <1>1 DEF Stores, StoreOf
  <2>3. QED BY <2>1, <2>2
<1>4. QED BY <1>2, <1>3

-----------------------------------------------------------------------------
(* What output and marking leave of the buffer d with last_picture l: some  *)
(* of the stores, with their frames and, unless they were written, POCs.    *)
StaysAs(g, fs) ==
  /\ g.id = fs.id
  /\ \/ g.out = fs.out /\ g.poc = fs.poc /\ g.used = fs.used
     \/ g.out /\ g.used = Fields
Remains(e, m, d, l) ==
  \E h \in [DOMAIN e -> DOMAIN d] :
    /\ \A i, j \in DOMAIN e : h[i] = h[j] => i = j
    /\ \A i \in DOMAIN e : StaysAs(e[i], d[h[i]])
    /\ m = 0 \/ (m \in DOMAIN e /\ h[m] = l)

LEMMA AlikeRemains ==
  ASSUME NEW d, NEW e, NEW l, Alike(e, d), l = 0 \/ l \in DOMAIN d, NEW m \in {0, l}
  PROVE  Remains(e, m, d, l)
<1> DEFINE h == [i \in DOMAIN e |-> i]
<1>1. DOMAIN e = DOMAIN d /\ h \in [DOMAIN e -> DOMAIN d] /\ \A i \in DOMAIN e : h[i] = i
  BY DEF Alike
<1>2. \A i \in DOMAIN e : StaysAs(e[i], d[h[i]])
  <2>1. SUFFICES ASSUME NEW i \in DOMAIN e PROVE StaysAs(e[i], d[i]) BY <1>1
  <2>2. Traits(e[i]) = Traits(d[i]) BY <1>1, <2>1 DEF Alike
  <2>3. QED BY <1>1, <2>1, <2>2, TraitsTell DEF StaysAs
<1>3. m = 0 \/ (m \in DOMAIN e /\ h[m] = l) BY <1>1
<1> HIDE DEF h
<1>4. QED BY <1>1, <1>2, <1>3 DEF Remains

LEMMA RemainsTransitive ==
  ASSUME NEW d, NEW l, NEW e, NEW m, NEW f, NEW n,
         Remains(e, m, d, l), Remains(f, n, e, m), n # 0 => m # 0
  PROVE  Remains(f, n, d, l)
<1>1. PICK h \in [DOMAIN e -> DOMAIN d] :
        /\ \A i, j \in DOMAIN e : h[i] = h[j] => i = j
        /\ \A i \in DOMAIN e : StaysAs(e[i], d[h[i]])
        /\ m = 0 \/ (m \in DOMAIN e /\ h[m] = l)
  BY DEF Remains
<1>2. PICK g \in [DOMAIN f -> DOMAIN e] :
        /\ \A i, j \in DOMAIN f : g[i] = g[j] => i = j
        /\ \A i \in DOMAIN f : StaysAs(f[i], e[g[i]])
        /\ n = 0 \/ (n \in DOMAIN f /\ g[n] = m)
  BY DEF Remains
<1> DEFINE k == [i \in DOMAIN f |-> h[g[i]]]
<1>3. k \in [DOMAIN f -> DOMAIN d] /\ \A i \in DOMAIN f : k[i] = h[g[i]] BY <1>1, <1>2
<1> HIDE DEF k
<1>4. \A i, j \in DOMAIN f : k[i] = k[j] => i = j BY <1>1, <1>2, <1>3
<1>5. \A i \in DOMAIN f : StaysAs(f[i], d[k[i]])
  <2>1. SUFFICES ASSUME NEW i \in DOMAIN f PROVE StaysAs(f[i], d[h[g[i]]]) BY <1>3
  <2>2. StaysAs(f[i], e[g[i]]) /\ StaysAs(e[g[i]], d[h[g[i]]]) BY <1>1, <1>2
  <2>3. QED BY <2>2 DEF StaysAs
<1>6. n = 0 \/ (n \in DOMAIN f /\ k[n] = l) BY <1>1, <1>2, <1>3
<1>7. QED BY <1>3, <1>4, <1>5, <1>6 DEF Remains

LEMMA RemovalRemains ==
  ASSUME NEW d \in Buffers, NEW i \in DOMAIN d, last \in 0 .. Len(d)
  PROVE  Remains(RemoveAt(d, i), LastAfterRemove(i), d, last)
<1> DEFINE e == RemoveAt(d, i)
           h == [j \in DOMAIN e |-> IF j < i THEN j ELSE j + 1]
<1>1. DOMAIN d = 1 .. Len(d) /\ Len(d) \in Nat /\ i \in 1 .. Len(d) BY BufferElements
<1>2. \A j \in DOMAIN e : /\ j \in 1 .. Len(d) - 1 /\ h[j] \in DOMAIN d /\ e[j] = d[h[j]]
                          /\ h[j] = IF j < i THEN j ELSE j + 1
  BY RemoveElementAt
<1>3. e \in Buffers /\ Len(e) = Len(d) - 1 BY RemoveGood
<1>4. DOMAIN e = 1 .. Len(d) - 1 BY <1>3, BufferElements
<1> HIDE DEF e
<1>5. h \in [DOMAIN e -> DOMAIN d] BY <1>2
<1> HIDE DEF h
<1>6. \A j, k \in DOMAIN e : h[j] = h[k] => j = k BY <1>1, <1>2
<1>7. \A j \in DOMAIN e : StaysAs(e[j], d[h[j]]) BY <1>2 DEF StaysAs
<1> DEFINE m == LastAfterRemove(i)
<1>8. m = 0 \/ (m \in DOMAIN e /\ h[m] = last)
  BY <1>1, <1>2, <1>4 DEF LastAfterRemove
<1> HIDE DEF m
<1>9. Remains(e, m, d, last) BY <1>5, <1>6, <1>7, <1>8 DEF Remains
<1>10. QED BY <1>9 DEF e, m

LEMMA RemoveUnusedRemains ==
  ASSUME IndInv, RemoveUnused
  PROVE  Remains(dpb', last', dpb, last)
<1>1. PICK i \in Unused : dpb' = RemoveAt(dpb, i) /\ last' = LastAfterRemove(i)
  BY DEF RemoveUnused, FirstOf
<1>2. i \in DOMAIN dpb BY DEF Unused
<1>3. Remains(RemoveAt(dpb, i), LastAfterRemove(i), dpb, last)
  BY <1>2, IndInvBuffer, RemovalRemains
<1>4. QED BY <1>1, <1>3

LEMMA SameRemains ==
  ASSUME IndInv, dpb' = dpb, last' \in {0, last}
  PROVE  Remains(dpb', last', dpb, last)
<1>1. dpb \in Buffers /\ last \in 0 .. Len(dpb) /\ DOMAIN dpb = 1 .. Len(dpb) BY IndInvBuffer
<1>2. Alike(dpb, dpb) BY <1>1, OperationsAlike
<1>3. last = 0 \/ last \in DOMAIN dpb BY <1>1
<1>4. Remains(dpb, last', dpb, last) BY <1>2, <1>3, AlikeRemains
<1>5. QED BY <1>4

LEMMA MarkedRemains ==
  ASSUME IndInv, Alike(dpb', dpb), last' \in {0, last}
  PROVE  Remains(dpb', last', dpb, last)
<1>1. dpb \in Buffers /\ last \in 0 .. Len(dpb) /\ DOMAIN dpb = 1 .. Len(dpb) BY IndInvBuffer
<1>2. last = 0 \/ last \in DOMAIN dpb BY <1>1
<1>3. QED BY <1>2, AlikeRemains

(* A store is written, and may leave, or error() flushes the buffer.        *)
LEMMA OutputRemains ==
  ASSUME IndInv, OutputOne
  PROVE  /\ Remains(dpb', last', dpb, last)
         /\ UNCHANGED <<pc, ret, err>> \/ (pc' = "purge" /\ ret' = "halt")
<1>1. PICK i \in NotOutput :
        LET d == [dpb EXCEPT ![i] = AfterWrite(@)]
        IN IF lastPoc >= dpb[i].poc
             THEN /\ Fail(d, "output POC must be in ascending order")
                  /\ UNCHANGED <<last, lastPoc>>
             ELSE /\ IF UsedForReference(d[i])
                       THEN dpb' = d /\ last' = last
                       ELSE dpb' = RemoveAt(d, i) /\ last' = LastAfterRemove(i)
                  /\ UNCHANGED <<pc, ret, err>>
  BY DEF OutputOne
<1> DEFINE d == [dpb EXCEPT ![i] = AfterWrite(dpb[i])]
<1>2. /\ i \in DOMAIN dpb /\ dpb[i] \in GoodStores
      /\ dpb \in Buffers /\ last \in 0 .. Len(dpb) /\ DOMAIN dpb = 1 .. Len(dpb)
  BY IndInvBuffer, BufferElements DEF NotOutput
<1>3. d \in Buffers /\ Len(d) = Len(dpb) /\ DOMAIN d = DOMAIN dpb
  BY <1>2, AfterWriteGood, ReplaceGood, BufferElements
<1>4. d[i] = AfterWrite(dpb[i]) /\ \A j \in DOMAIN dpb : j # i => d[j] = dpb[j] BY <1>2
<1>5. \/ Flush(d, "halt") /\ last' = last
      \/ dpb' = d /\ last' = last /\ UNCHANGED <<pc, ret, err>>
      \/ dpb' = RemoveAt(d, i) /\ last' = LastAfterRemove(i) /\ UNCHANGED <<pc, ret, err>>
  BY <1>1 DEF Fail
<1> HIDE DEF d
<1>6. last = 0 \/ last \in DOMAIN d BY <1>2, <1>3
<1>8. Remains(d, last, dpb, last)
  <2> DEFINE h == [j \in DOMAIN d |-> j]
  <2>1. h \in [DOMAIN d -> DOMAIN dpb] /\ \A j \in DOMAIN d : h[j] = j BY <1>3
  <2> HIDE DEF h
  <2>2. \A j \in DOMAIN d : StaysAs(d[j], dpb[h[j]])
    <3>1. SUFFICES ASSUME NEW j \in DOMAIN d PROVE StaysAs(d[j], dpb[j]) BY <2>1
    <3>2. CASE j = i BY <1>2, <1>4, <3>2, WrittenTraits DEF StaysAs
    <3>3. CASE j # i BY <1>3, <1>4, <3>1, <3>3 DEF StaysAs
    <3>4. QED BY <3>2, <3>3
  <2>3. QED BY <1>6, <2>1, <2>2 DEF Remains
<1>9. CASE Flush(d, "halt") /\ last' = last
  <2>1. pc' = "purge" /\ ret' = "halt" /\ Alike(dpb', d)
    BY <1>3, <1>9, OperationsAlike DEF Flush
  <2>2. Remains(dpb', last', d, last) BY <1>3, <1>6, <1>9, <2>1, AlikeRemains
  <2>3. QED BY <1>8, <1>9, <2>1, <2>2, RemainsTransitive
<1>10. CASE dpb' = d /\ last' = last /\ UNCHANGED <<pc, ret, err>> BY <1>8, <1>10
<1>11. CASE /\ dpb' = RemoveAt(d, i) /\ last' = LastAfterRemove(i)
            /\ UNCHANGED <<pc, ret, err>>
  <2>1. Remains(RemoveAt(d, i), LastAfterRemove(i), d, last)
    BY <1>2, <1>3, RemovalRemains
  <2>2. last' # 0 => last # 0 BY <1>11, <1>2 DEF LastAfterRemove
  <2>3. QED BY <1>8, <1>11, <2>1, <2>2, RemainsTransitive
<1>12. QED BY <1>5, <1>9, <1>10, <1>11

-----------------------------------------------------------------------------
(* What a step that leaves some of the buffer keeps.                        *)
LEMMA RemainsTells ==
  ASSUME IndInv, Remains(dpb', last', dpb, last), stream' = stream
  PROVE  /\ OneStorePerFrame => OneStorePerFrame'
         /\ InSequence => InSequence'
         /\ \A i \in NotOutput' : \E j \in NotOutput :
              dpb'[i].id = dpb[j].id /\ dpb'[i].poc = dpb[j].poc
         /\ \A id : Absent(id) => \A i \in DOMAIN dpb' : dpb'[i].id # id
         /\ NoneWaits(dpb, last) => NoneWaits(dpb', last')
<1>1. PICK h \in [DOMAIN dpb' -> DOMAIN dpb] :
        /\ \A i, j \in DOMAIN dpb' : h[i] = h[j] => i = j
        /\ \A i \in DOMAIN dpb' : StaysAs(dpb'[i], dpb[h[i]])
        /\ last' = 0 \/ (last' \in DOMAIN dpb' /\ h[last'] = last)
  BY DEF Remains
<1>2. \A i \in DOMAIN dpb' :
        /\ h[i] \in DOMAIN dpb /\ dpb'[i].id = dpb[h[i]].id
        /\ \/ /\ dpb'[i].out = dpb[h[i]].out /\ dpb'[i].poc = dpb[h[i]].poc
              /\ dpb'[i].used = dpb[h[i]].used
           \/ dpb'[i].out /\ dpb'[i].used = Fields
  BY <1>1 DEF StaysAs
<1>3. OneStorePerFrame => OneStorePerFrame' BY <1>1, <1>2 DEF OneStorePerFrame
<1>5. ASSUME NEW i \in NotOutput'
      PROVE  \E j \in NotOutput : dpb'[i].id = dpb[j].id /\ dpb'[i].poc = dpb[j].poc
  BY <1>2, <1>5 DEF NotOutput
<1>4. InSequence => InSequence' BY <1>2, <1>5 DEF InSequence, Known
<1>6. \A id : Absent(id) => \A i \in DOMAIN dpb' : dpb'[i].id # id BY <1>2 DEF Absent
<1>7. NoneWaits(dpb, last) => NoneWaits(dpb', last')
  <2>1. SUFFICES ASSUME NoneWaits(dpb, last), last' # 0 PROVE NoneWaits(dpb', last')
    BY DEF NoneWaits
  <2>2. last' \in DOMAIN dpb' /\ last \in DOMAIN dpb /\ dpb'[last'].used \in {dpb[last].used, Fields}
    BY <1>1, <1>2, <2>1
  <2>3. last # 0 BY <2>2, IndInvBuffer
  <2>4. \A t \in Fields : Fields # {Opposite(t)} BY DEF Fields, Opposite
  <2>5. QED BY <2>1, <2>2, <2>3, <2>4 DEF NoneWaits
<1>8. QED BY <1>3, <1>4, <1>5, <1>6, <1>7

(* After error(), and at the end of the stream.                             *)
LEMMA FramesFailing ==
  ASSUME OneStorePerFrame', pc' = "halt" \/ (Flushing' /\ ret' = "halt"),
         stream'.first # NoPicture => stream'.first.struct \in Structures
  PROVE  FrameInv'
<1>1. ~ InCall' /\ ~ Steady' /\ pc' # "idle" BY DEF InCall, Busy, Flushing, Steady
<1>2. StoresKnown' BY <1>1 DEF StoresKnown
<1>3. CurKnown' BY <1>1 DEF CurKnown
<1>4. CurNew' BY <1>1 DEF CurNew, Steady
<1>5. FieldsKnown' BY <1>1 DEF FieldsKnown
<1>6. QED BY <1>2, <1>3, <1>4, <1>5 DEF FrameInv

(* What the steps of a call leave of its picture.                           *)
CurIs == <<cur.struct, cur.num, cur.ref, cur.id, cur.poc, cur.out, cur.adaptive, cur.idr>>

LEMMA CurIsKept ==
  ASSUME CurIs' = CurIs
  PROVE  /\ cur'.struct = cur.struct /\ cur'.num = cur.num /\ cur'.ref = cur.ref
         /\ cur'.id = cur.id /\ cur'.poc = cur.poc /\ cur'.out = cur.out
         /\ cur'.adaptive = cur.adaptive /\ cur'.idr = cur.idr
  BY DEF CurIs

LEMMA CurStays ==
  ASSUME CurKnown, InCall, CurIs' = CurIs, stream' = stream,
         Second => pc' \in {"mmco", "pair", "trim", "room"} /\ (pc' = "mmco" => ~ mm5'),
         pc' = "mmco" => pc = "mmco"
  PROVE  CurKnown' /\ (Second' <=> Second)
<1>1. Second' <=> Second BY CurIsKept DEF Second
<1>2. CurKnown' BY <1>1, CurIsKept DEF CurKnown, Known
<1>3. QED BY <1>1, <1>2

(* A step in the call of a frame or first field.                            *)
LEMMA FramesStay ==
  ASSUME IndInv, FrameInv, InCall, ~ Second, Remains(dpb', last', dpb, last),
         CurIs' = CurIs, stream' = stream, pc' \notin {"idle", "halt"},
         Steady' => Steady, pc' = "mmco" => pc = "mmco"
  PROVE  FrameInv'
<1>1. CurKnown' /\ ~ Second' BY CurStays DEF FrameInv
<1>2. StoresKnown'
  <2>1. OneStorePerFrame' BY RemainsTells DEF FrameInv, StoresKnown
  <2>2. Steady' => InSequence' BY RemainsTells DEF FrameInv, StoresKnown
  <2>3. QED BY <2>1, <2>2 DEF StoresKnown
<1>3. CurNew'
  <2>1. SUFFICES ASSUME pc' \in {"mmco", "pair", "trim", "room"}, cur'.id # NoId
                 PROVE  /\ \A i \in DOMAIN dpb' : dpb'[i].id # cur'.id
                        /\ \A i \in NotOutput' : dpb'[i].poc \notin PocsOf(cur'.id.k)
    BY DEF CurNew, Absent, PocsOf
  <2>2. pc \in {"mmco", "pair", "trim", "room"} BY <2>1 DEF Steady, InCall, Busy, Flushing
  <2>3. cur'.id = cur.id BY CurIsKept
  <2>4. Absent(cur.id) /\ \A i \in NotOutput : dpb[i].poc \notin PocsOf(cur.id.k)
    BY <2>1, <2>2, <2>3 DEF FrameInv, CurNew
  <2>5. QED BY <2>3, <2>4, RemainsTells
<1>4. FieldsKnown'
  <2>1. NoneWaits(dpb', last') BY RemainsTells DEF FrameInv, FieldsKnown
  <2>2. QED BY <1>1, <2>1 DEF FrameInv, FieldsKnown
<1>5. QED BY <1>1, <1>2, <1>3, <1>4 DEF FrameInv

(* A buffer that was flushed.                                               *)
LEMMA FramesFlushed ==
  ASSUME FrameInv, InCall, ~ Second, dpb' = <<>>, last' = 0, CurIs' = CurIs, stream' = stream,
         pc' \in {"idrtail", "pair"}
  PROVE  FrameInv'
<1>1. CurKnown' /\ ~ Second' BY CurStays DEF FrameInv
<1>2. StoresKnown' BY DEF StoresKnown, OneStorePerFrame, InSequence, NotOutput
<1>3. CurNew' BY DEF CurNew, Absent, NotOutput
<1>4. FieldsKnown' BY <1>1 DEF FrameInv, FieldsKnown, NoneWaits
<1>5. QED BY <1>1, <1>2, <1>3, <1>4 DEF FrameInv

-----------------------------------------------------------------------------
(* What a call starts with: a frame or first field, also one that fills a   *)
(* gap, or the second field of the frame whose first field was stored.      *)
NewFrame(p, s) ==
  /\ \/ p.struct = "frame" /\ s.first = NoPicture
     \/ p.struct \in Structures \ {"frame"} /\ s.first = p /\ p # NoPicture
  /\ p.out <=> p.id = NoId
  /\ p.id = NoId => p.struct = "frame" /\ p.ref /\ ~ p.adaptive /\ ~ p.idr
  /\ p.id # NoId => p.id.seq = s.seq /\ p.id.k \in s.ks /\ p.poc = 2 * p.id.k
  /\ ~ p.idr => /\ s.seq = stream.seq /\ stream.ks \subseteq s.ks
                /\ p.id # NoId => p.id.k \notin stream.ks

MateOf(p, s) ==
  LET f == stream.first
  IN  /\ f # NoPicture /\ s.first = NoPicture /\ s.seq = stream.seq /\ s.ks = stream.ks
      /\ p.struct = Opposite(f.struct) /\ p.num = f.num /\ p.ref = f.ref /\ p.id = f.id
      /\ p.poc = 2 * f.id.k + 1 /\ ~ p.out /\ ~ p.idr /\ (p.adaptive => p.ref)

LEMMA FrameIds ==
  /\ NoId \notin Ids
  /\ \A id \in Ids : id.seq \in {0, 1} /\ id.k \in 0 .. MaxK
  /\ \A seq \in {0, 1}, k \in 0 .. MaxK : [seq |-> seq, k |-> k] \in Ids
<1>1. NoId \notin Ids
  <2>1. SUFFICES ASSUME NoId \in Ids PROVE FALSE OBVIOUS
  <2>2. NoId.k \in 0 .. MaxK /\ NoId.k = MaxK + 1 BY <2>1 DEF Ids, NoId
  <2>3. QED BY <2>2, BoundsAssumption
<1>2. QED BY <1>1 DEF Ids

LEMMA ReceiveIdrStarts ==
  ASSUME IndInv, ReceiveIdr
  PROVE  \E p, s : Started(p, s) /\ NewFrame(p, s)
<1>1. stream.seq \in {0, 1} BY IndInvParts DEF RestOK, StreamOf
<1> DEFINE seq == 1 - stream.seq
<1>2. PICK s \in Structures, lt \in BOOLEAN, noout \in BOOLEAN :
        LET p == [NewPicture(s, 0, TRUE, seq) EXCEPT
                    !.num = 0, !.idr = TRUE, !.ltflag = lt, !.noout = noout]
        IN Started(p, [pre |-> 0, gap |-> 0, seq |-> seq, ks |-> {0},
                       first |-> FirstField(p), started |-> TRUE])
  BY ZenonT(40) DEF ReceiveIdr
<1> DEFINE p == [NewPicture(s, 0, TRUE, seq) EXCEPT
                   !.num = 0, !.idr = TRUE, !.ltflag = lt, !.noout = noout]
           st == [pre |-> 0, gap |-> 0, seq |-> seq, ks |-> {0},
                  first |-> FirstField(p), started |-> TRUE]
<1>3. /\ p.struct = s /\ p.idr /\ p.poc = 2 * 0 /\ p.out = FALSE
      /\ p.id = [seq |-> seq, k |-> 0]
  BY DEF NewPicture
<1>4. st.first = FirstField(p) /\ st.seq = seq /\ st.ks = {0} OBVIOUS
<1>5. Started(p, st) BY <1>2
<1>6. seq \in {0, 1} /\ 0 \in 0 .. MaxK BY <1>1, BoundsAssumption
<1> HIDE DEF p, st, seq
<1>7. p.id \in Ids /\ p.id # NoId /\ p.id.seq = seq /\ p.id.k = 0
  BY <1>3, <1>6, FrameIds
<1>8. s \in Views /\ \A q : q.struct \in Views => q # NoPicture
  BY StructuresLemma DEF Views, Fields, NoPicture
<1>9. NewFrame(p, st) BY <1>3, <1>4, <1>8, <1>7 DEF NewFrame, FirstField
<1>10. QED BY <1>5, <1>9

LEMMA ReceivePictureStarts ==
  ASSUME IndInv, ReceivePicture
  PROVE  \E p, s : Started(p, s) /\ NewFrame(p, s)
<1>1. stream \in StreamOf /\ stream.seq \in {0, 1} BY IndInvParts DEF RestOK, StreamOf
<1>2. PICK s \in Structures, r \in BOOLEAN, a \in BOOLEAN, k \in (0 .. MaxK) \ stream.ks :
        LET p == [NewPicture(s, k, r, stream.seq) EXCEPT !.adaptive = a]
        IN Started(p, [stream EXCEPT !.pre = IF r THEN p.num ELSE @, !.gap = 0,
                                     !.ks = @ \cup {k}, !.first = FirstField(p)])
  BY ZenonT(90) DEF ReceivePicture
<1> DEFINE p == [NewPicture(s, k, r, stream.seq) EXCEPT !.adaptive = a]
           pre == IF r THEN p.num ELSE stream.pre
           ks == stream.ks \cup {k}
           first == FirstField(p)
           st == [stream EXCEPT !.pre = pre, !.gap = 0, !.ks = ks, !.first = first]
<1>3. /\ p.struct = s /\ p.idr = FALSE /\ p.poc = 2 * k /\ p.out = FALSE
      /\ p.id = [seq |-> stream.seq, k |-> k]
  BY DEF NewPicture
<1>4. p.id \in Ids /\ p.id # NoId /\ p.id.seq = stream.seq /\ p.id.k = k
  BY <1>1, <1>3, FrameIds
<1>5. Started(p, st) BY <1>2
<1> HIDE DEF p, pre, ks, first
<1>6. st.first = first /\ st.seq = stream.seq /\ st.ks = ks
  BY <1>1 DEF StreamOf
<1> HIDE DEF st
<1>7. s \in Views /\ \A q : q.struct \in Views => q # NoPicture
  BY StructuresLemma DEF Views, Fields, NoPicture
<1>8. NewFrame(p, st) BY <1>3, <1>4, <1>6, <1>7 DEF NewFrame, FirstField, first, ks
<1>9. QED BY <1>5, <1>8

LEMMA FillStarts ==
  ASSUME IndInv, FillFrameNumGap
  PROVE  \E p, s : Started(p, s) /\ NewFrame(p, s)
<1> DEFINE p == [NewPicture("frame", 0, TRUE, stream.seq) EXCEPT !.out = TRUE, !.id = NoId]
           num == p.num
           st == [stream EXCEPT !.pre = num, !.gap = @ + 1, !.first = NoPicture]
<1>1. stream \in StreamOf BY IndInvParts DEF RestOK
<1>2. Started(p, st) BY DEF FillFrameNumGap
<1>3. /\ p.struct = "frame" /\ p.idr = FALSE /\ p.out = TRUE /\ p.id = NoId /\ p.ref = TRUE
      /\ p.adaptive = FALSE
  BY DEF NewPicture
<1> HIDE DEF p, num
<1>4. st.first = NoPicture /\ st.seq = stream.seq /\ st.ks = stream.ks
  BY <1>1 DEF StreamOf
<1> HIDE DEF st
<1>5. NewFrame(p, st) BY <1>3, <1>4 DEF NewFrame
<1>6. QED BY <1>2, <1>5

LEMMA SecondStarts ==
  ASSUME IndInv, ReceiveSecondField
  PROVE  \E p, s : Started(p, s) /\ MateOf(p, s)
<1> DEFINE f == stream.first
<1>1. stream \in StreamOf /\ f # NoPicture /\ f.id \in Ids
  BY IndInvParts DEF RestOK, ReceiveSecondField, FirstGood
<1>2. PICK a \in BOOLEAN :
        LET p == [NewPicture(Opposite(f.struct), f.id.k, f.ref, f.id.seq) EXCEPT
                    !.num = f.num, !.poc = 2 * f.id.k + 1, !.adaptive = a]
        IN /\ a => f.ref /\ Mmcos # {}
           /\ Started(p, [stream EXCEPT !.first = NoPicture])
  BY DEF ReceiveSecondField
<1> DEFINE p == [NewPicture(Opposite(f.struct), f.id.k, f.ref, f.id.seq) EXCEPT
                   !.num = f.num, !.poc = 2 * f.id.k + 1, !.adaptive = a]
           st == [stream EXCEPT !.first = NoPicture]
<1>3. f.id = [seq |-> f.id.seq, k |-> f.id.k] BY <1>1 DEF Ids
<1>4. /\ p.struct = Opposite(f.struct) /\ p.num = f.num /\ p.ref = f.ref /\ p.out = FALSE
      /\ p.id = [seq |-> f.id.seq, k |-> f.id.k] /\ p.poc = 2 * f.id.k + 1
      /\ p.adaptive = a /\ p.idr = FALSE
  BY DEF NewPicture
<1>5. Started(p, st) BY <1>2
<1>6. st.first = NoPicture /\ st.seq = stream.seq /\ st.ks = stream.ks
  BY <1>1 DEF StreamOf
<1>7. a => p.ref BY <1>2, <1>4
<1> HIDE DEF p, st
<1>8. MateOf(p, st) BY <1>1, <1>3, <1>4, <1>6, <1>7 DEF MateOf
<1>9. QED BY <1>5, <1>8

LEMMA ReceiveStarts ==
  ASSUME IndInv, Receive
  PROVE  \E p, s : /\ Started(p, s) /\ pc = "idle"
                   /\ MateOf(p, s) \/ (Waiting /\ NewFrame(p, s))
<1>1. CASE ReceiveIdr BY <1>1, ReceiveIdrStarts DEF ReceiveIdr, Waiting
<1>2. CASE ReceivePicture BY <1>2, ReceivePictureStarts DEF ReceivePicture, Waiting
<1>3. CASE FillFrameNumGap BY <1>3, FillStarts DEF FillFrameNumGap, Waiting
<1>4. CASE ReceiveSecondField BY <1>4, SecondStarts DEF ReceiveSecondField
<1>5. QED BY <1>1, <1>2, <1>3, <1>4 DEF Receive

(* Between two calls last_picture can pair with no other frame's field,     *)
(* unless the second field of its own frame comes.                          *)
LEMMA WaitingNoneWaits ==
  ASSUME IndInv, FrameInv, Waiting
  PROVE  NoneWaits(dpb, last)
<1>1. CASE stream.first = NoPicture BY <1>1 DEF Waiting, FrameInv, FieldsKnown
<1>2. CASE stream.first # NoPicture
  <2> DEFINE f == stream.first
  <2>1. Unpaired /\ (IsIn(f) \/ IsOut(f)) /\ f.struct \in Structures /\ f.struct \in Fields
    BY <1>2, IndInvParts DEF Waiting, FrameInv, FieldsKnown, FirstGood
  <2>2. CASE IsIn(f)
    <3>1. ASSUME NEW t \in Fields, OneParity(t) PROVE dpb[last].used # {Opposite(t)}
      <4>1. f.struct = t BY <2>1, <3>1 DEF OneParity, Fields
      <4>2. QED BY <2>2, <3>1, <4>1 DEF IsIn, Opposite, Fields
    <3>2. QED BY <2>1, <3>1 DEF NoneWaits
  <2>3. QED BY <2>1, <2>2 DEF IsOut
<1>3. QED BY <1>1, <1>2

LEMMA PocsApart ==
  ASSUME NEW k \in Int, NEW j \in Int, NEW x, x \in PocsOf(j), x \in PocsOf(k)
  PROVE  k = j
  BY DEF PocsOf

LEMMA NewFrameStarts ==
  ASSUME IndInv, IndInv', FrameInv, Waiting, NEW p, NEW s, Started(p, s), NewFrame(p, s)
  PROVE  FrameInv'
<1>1. /\ dpb' = dpb /\ last' = last /\ cur' = p /\ stream' = s /\ mm5' = FALSE
      /\ pc' = IF p.idr THEN "idr" ELSE IF p.ref /\ p.adaptive THEN "mmco" ELSE "pair"
  BY DEF Started
<1>2. pc = "idle" /\ NoneWaits(dpb, last) BY WaitingNoneWaits DEF Waiting
<1>3. p.struct # "frame" => s.first = p /\ p # NoPicture BY DEF NewFrame
<1>4. ~ Second' BY <1>1, <1>3 DEF Second
<1>5. OneStorePerFrame /\ InSequence BY <1>2 DEF FrameInv, StoresKnown, Steady
<1>6. stream.ks \in SUBSET (0 .. MaxK) BY IndInvParts DEF RestOK, StreamOf
<1>7. StoresKnown'
  <2>1. OneStorePerFrame' BY <1>1, <1>5 DEF OneStorePerFrame
  <2>2. CASE p.idr BY <1>1, <2>1, <2>2 DEF StoresKnown, Steady
  <2>3. CASE ~ p.idr
    <3>1. s.seq = stream.seq /\ stream.ks \subseteq s.ks BY <2>3 DEF NewFrame
    <3>2. InSequence' BY <1>1, <1>5, <3>1 DEF InSequence, Known, NotOutput
    <3>3. QED BY <2>1, <3>2 DEF StoresKnown
  <2>4. QED BY <2>2, <2>3
<1>8. CurKnown'
  <2>1. /\ cur'.out <=> cur'.id = NoId
        /\ cur'.id = NoId => cur'.struct = "frame" /\ cur'.ref /\ ~ cur'.adaptive /\ ~ cur'.idr
        /\ cur'.id # NoId => Known(cur.id)' /\ cur'.poc = 2 * cur'.id.k + 0
    <3>1. p.id # NoId => p.id \in Ids
      <4>1. GoodPicture(cur)' BY <1>1, IndInvParts DEF CurGood, Busy, GoodPicture
      <4>2. p.id \in Ids \cup {NoId} BY <1>1, <4>1 DEF GoodPicture, Pictures, PictureOf
      <4>3. QED BY <4>2
    <3>2. p.id # NoId => p.id.k \in Int BY <3>1, FrameIds
    <3>3. QED BY <1>1, <3>2 DEF NewFrame, Known
  <2>2. pc' = "mmco" => cur'.id # NoId BY <1>1 DEF NewFrame
  <2>3. IF cur'.struct = "frame" THEN stream'.first = NoPicture
        ELSE /\ stream'.first.struct = cur'.struct /\ stream'.first.num = cur'.num
             /\ stream'.first.ref = cur'.ref /\ stream'.first.id = cur'.id
    BY <1>1 DEF NewFrame
  <2>4. QED BY <1>4, <2>1, <2>2, <2>3 DEF CurKnown
<1>9. CurNew'
  <2>1. SUFFICES ASSUME pc' \in {"mmco", "pair", "trim", "room"}, cur'.id # NoId
                 PROVE  Absent(p.id) /\ \A i \in NotOutput : dpb[i].poc \notin PocsOf(p.id.k)
    BY <1>1 DEF CurNew, Absent, NotOutput
  <2>2. ~ p.idr /\ p.id # NoId /\ p.id.k \notin stream.ks BY <1>1, <2>1 DEF NewFrame
  <2>3. Absent(p.id) BY <1>5, <2>2 DEF Absent, InSequence, Known
  <2>4. ASSUME NEW i \in NotOutput, dpb[i].poc \in PocsOf(p.id.k) PROVE FALSE
    <3>1. PICK k \in stream.ks : dpb[i].poc \in PocsOf(k) BY <1>5 DEF InSequence
    <3>2. p.id.k \in s.ks /\ s.ks \in SUBSET (0 .. MaxK)
      BY <1>1, <2>2, IndInvParts DEF NewFrame, RestOK, StreamOf
    <3>3. p.id.k \in Int /\ k \in Int BY <1>6, <3>2
    <3>4. QED BY <2>2, <2>4, <3>1, <3>3, PocsApart
  <2>5. QED BY <2>3, <2>4
<1>10. FieldsKnown'
  <2>1. stream'.first # NoPicture => stream'.first.struct \in Structures
    BY <1>1 DEF NewFrame
  <2>2. pc' # "idle" /\ NoneWaits(dpb', last') BY <1>1, <1>2
  <2>3. QED BY <1>4, <2>1, <2>2 DEF FieldsKnown
<1>11. QED BY <1>7, <1>8, <1>9, <1>10 DEF FrameInv

LEMMA MateStarts ==
  ASSUME IndInv, IndInv', FrameInv, pc = "idle", NEW p, NEW s, Started(p, s), MateOf(p, s)
  PROVE  FrameInv'
<1> DEFINE f == stream.first
<1>1. /\ dpb' = dpb /\ last' = last /\ cur' = p /\ stream' = s /\ mm5' = FALSE
      /\ pc' = IF p.idr THEN "idr" ELSE IF p.ref /\ p.adaptive THEN "mmco" ELSE "pair"
  BY DEF Started
<1>2. /\ f # NoPicture /\ f.struct \in Fields /\ f.id \in Ids /\ f.id # NoId
      /\ Known(f.id) /\ (IsIn(f) \/ IsOut(f))
  BY FrameIds, IndInvParts DEF FirstGood, MateOf, FrameInv, FieldsKnown
<1>3. /\ s.first = NoPicture /\ s.seq = stream.seq /\ s.ks = stream.ks
      /\ p.struct = Opposite(f.struct) /\ p.num = f.num /\ p.ref = f.ref /\ p.id = f.id
      /\ p.poc = 2 * f.id.k + 1 /\ ~ p.out /\ ~ p.idr /\ (p.adaptive => p.ref)
  BY DEF MateOf
<1>4. /\ p.struct \in Fields /\ p.struct # "frame" /\ Opposite(p.struct) = f.struct
  BY <1>2, <1>3 DEF Opposite, Fields
<1>5. Second' /\ pc' \in {"mmco", "pair"} BY <1>1, <1>3, <1>4 DEF Second
<1>6. OneStorePerFrame /\ InSequence BY DEF FrameInv, StoresKnown, Steady
<1>7. StoresKnown'
  BY <1>1, <1>3, <1>6 DEF StoresKnown, OneStorePerFrame, InSequence, Known, NotOutput
<1>8. CurKnown' BY <1>1, <1>2, <1>3, <1>4, <1>5 DEF CurKnown, Known
<1>9. CurNew' BY <1>5 DEF CurNew
<1>10. FieldsKnown'
  <2>1. /\ Mate'.struct = f.struct /\ Mate'.num = f.num /\ Mate'.ref = f.ref
        /\ Mate'.id = f.id
    <3>1. cur' \in Pictures
      BY <1>5, IndInvParts DEF CurGood, Busy, GoodPicture
    <3>2. /\ Mate'.struct = Opposite(cur'.struct) /\ Mate'.num = cur'.num
          /\ Mate'.ref = cur'.ref /\ Mate'.id = cur'.id
      BY <3>1 DEF Mate, Pictures, PictureOf
    <3>3. QED BY <1>1, <1>3, <1>4, <3>2
  <2>2. IsIn(f) => IsIn(Mate)' BY <1>1, <2>1 DEF IsIn
  <2>3. IsOut(f) => IsOut(Mate)' /\ ~ p.ref
    BY <1>1, <1>3, <2>1 DEF IsOut, Full, Unused, Absent, NotOutput
  <2>4. QED BY <1>1, <1>2, <1>3, <1>5, <2>2, <2>3 DEF FieldsKnown
<1>11. QED BY <1>7, <1>8, <1>9, <1>10 DEF FrameInv

-----------------------------------------------------------------------------
(* The steps of a call.                                                     *)
LEMMA NotSecond ==
  ASSUME FrameInv, pc \in {"idr", "idrtail"} \/ (Flushing /\ ret # "halt")
  PROVE  InCall /\ ~ Second
<1>1. InCall /\ pc \notin {"mmco", "pair", "trim", "room"} BY DEF InCall, Busy, Flushing
<1>2. QED BY <1>1 DEF FrameInv, CurKnown

LEMMA OnlyOneStore ==
  ASSUME IndInv, FrameInv, stream' = stream, Remains(dpb', last', dpb, last)
  PROVE  /\ OneStorePerFrame'
         /\ stream'.first # NoPicture => stream'.first.struct \in Structures
  BY RemainsTells DEF FrameInv, StoresKnown, FieldsKnown

LEMMA IdrFrames ==
  ASSUME IndInv, EmptyInv, FrameInv, EndOfStream \/ IdrStart \/ IdrTail
  PROVE  FrameInv'
<1>1. dpb \in Buffers BY IndInvBuffer
<1>2. CASE EndOfStream
  <2>1. Flush(dpb, "halt") /\ last' = last /\ stream' = stream BY <1>2 DEF EndOfStream
  <2>2. Alike(dpb', dpb) /\ pc' = "purge" /\ ret' = "halt"
    BY <1>1, <2>1, OperationsAlike, FlushAlike
  <2>3. Remains(dpb', last', dpb, last) BY <2>1, <2>2, MarkedRemains
  <2>4. QED BY <2>1, <2>2, <2>3, OnlyOneStore, FramesFailing DEF Flushing
<1>3. CASE IdrStart
  <2>1. /\ InCall /\ ~ Second /\ UNCHANGED <<cur, stream>> /\ CurIs' = CurIs
    BY <1>3, NotSecond DEF IdrStart, CurIs
  <2>2. CASE cur.noout
    <3>1. dpb' = <<>> /\ last' = 0 /\ pc' = "idrtail" BY <1>3, <2>2 DEF IdrStart
    <3>2. QED BY <2>1, <3>1, FramesFlushed
  <2>3. CASE ~ cur.noout
    <3>1. Flush(dpb, "idrtail") /\ last' = last BY <1>3, <2>3 DEF IdrStart
    <3>2. Alike(dpb', dpb) /\ pc' = "purge" BY <1>1, <3>1, OperationsAlike, FlushAlike
    <3>3. Remains(dpb', last', dpb, last) BY <3>1, <3>2, MarkedRemains
    <3>4. QED BY <2>1, <3>2, <3>3, FramesStay DEF Steady
  <2>4. QED BY <2>2, <2>3
<1>4. CASE IdrTail
  <2>1. /\ InCall /\ ~ Second /\ stream' = stream /\ last' = 0 /\ pc' = "pair"
        /\ dpb' = UpdateLists(dpb)
        /\ cur' = [cur EXCEPT !.lt = cur.ltflag, !.idx = IF cur.ltflag THEN 0 ELSE @]
    BY <1>4, NotSecond DEF IdrTail
  <2>2. CurIs' = CurIs
    <3>1. cur \in Pictures BY <1>4, IndInvParts DEF CurGood, Busy, GoodPicture, IdrTail
    <3>2. QED BY <2>1, <3>1 DEF CurIs, Pictures, PictureOf
  <2>3. dpb' = <<>>
    <3>1. dpb = <<>> BY <1>4 DEF EmptyInv, IdrTail
    <3>2. dpb' \in Buffers /\ Len(dpb') = 0 BY <1>1, <2>1, <3>1, BothListsGood
    <3>3. QED BY <3>2
  <2>4. QED BY <2>1, <2>2, <2>3, FramesFlushed
<1>5. QED BY <1>2, <1>3, <1>4

LEMMA FlushingFrames ==
  ASSUME IndInv, EmptyInv, FrameInv, FlushPurge \/ FlushDrain \/ FlushDone
  PROVE  FrameInv'
<1>1. Flushing /\ stream' = stream BY DEF FlushPurge, FlushDrain, FlushDone, Flushing
<1>2. CASE FlushDone
  <2>1. dpb' = dpb /\ last' = last /\ pc' = ret /\ (ret # "halt" => cur' = cur)
    BY <1>2 DEF FlushDone
  <2>2. CASE ret = "halt"
    <3>1. Remains(dpb', last', dpb, last) BY <2>1, SameRemains
    <3>2. QED BY <1>1, <2>1, <2>2, <3>1, OnlyOneStore, FramesFailing
  <2>3. CASE ret # "halt"
    <3>1. dpb' = <<>> /\ last' = 0
      <4>1. dpb = <<>> BY <1>2, FlushEnds
      <4>2. QED BY <2>1, <4>1, IndInvBuffer
    <3>2. ret \in {"idrtail", "pair"} BY <2>3, IndInvParts DEF RestOK
    <3>3. InCall /\ ~ Second /\ CurIs' = CurIs BY <1>1, <2>1, <2>3, NotSecond DEF CurIs
    <3>4. QED BY <1>1, <2>1, <3>1, <3>2, <3>3, FramesFlushed
  <2>4. QED BY <2>2, <2>3
<1>3. CASE FlushPurge \/ FlushDrain
  <2>1. /\ Remains(dpb', last', dpb, last) /\ CurIs' = CurIs /\ Flushing'
        /\ ret' = ret \/ ret' = "halt"
    <3>1. CASE FlushPurge
      <4>1. RemoveUnused \/ (dpb' = dpb /\ last' = last) BY <3>1 DEF FlushPurge
      <4>2. Remains(dpb', last', dpb, last) BY <4>1, RemoveUnusedRemains, SameRemains
      <4>3. QED BY <3>1, <4>2 DEF FlushPurge, CurIs, Flushing
    <3>2. CASE FlushDrain BY <3>2, OutputRemains DEF FlushDrain, CurIs, Flushing
    <3>3. QED BY <1>3, <3>1, <3>2
  <2>2. CASE ret' = "halt" BY <1>1, <2>1, <2>2, OnlyOneStore, FramesFailing
  <2>3. CASE ret' # "halt"
    <3>1. InCall /\ ~ Second BY <1>1, <2>1, <2>3, NotSecond
    <3>2. QED BY <1>1, <2>1, <3>1, FramesStay DEF Flushing, Steady
  <2>4. QED BY <2>2, <2>3
<1>4. QED BY <1>2, <1>3

(* A step in the call of a second field.                                    *)
LEMMA MateOfCur ==
  ASSUME IndInv, InCall
  PROVE  /\ cur \in Pictures /\ GoodPicture(cur)
         /\ Mate.struct = Opposite(cur.struct) /\ Mate.num = cur.num /\ Mate.ref = cur.ref
         /\ Mate.id = cur.id
  BY IndInvParts DEF Mate, Pictures, PictureOf, CurGood, InCall, GoodPicture

LEMMA MateStays ==
  ASSUME IndInv, IndInv', FrameInv, InCall, Second, Alike(dpb', dpb), last' = last,
         CurIs' = CurIs, stream' = stream, pc' \in {"mmco", "pair", "trim", "room"},
         pc' = "mmco" => pc = "mmco" /\ ~ mm5',
         IsIn(Mate) => pc' \in {"mmco", "pair"},
         IsOut(Mate) => dpb' = dpb
  PROVE  FrameInv'
<1>1. CurKnown' /\ Second' BY CurStays DEF FrameInv
<1>2. pc \in {"mmco", "pair", "trim", "room"} /\ InCall'
  BY DEF FrameInv, CurKnown, InCall, Busy
<1>3. Remains(dpb', last', dpb, last) BY MarkedRemains
<1>4. StoresKnown' BY <1>2, <1>3, RemainsTells DEF FrameInv, StoresKnown, Steady
<1>5. CurNew' BY <1>1 DEF CurNew
<1>6. /\ Mate.struct = Opposite(cur.struct) /\ Mate.num = cur.num /\ Mate.ref = cur.ref
      /\ Mate.id = cur.id /\ cur' \in Pictures
  BY <1>2, MateOfCur, IndInvParts DEF CurGood, InCall, GoodPicture
<1>7. /\ Mate'.struct = Mate.struct /\ Mate'.num = Mate.num /\ Mate'.ref = Mate.ref
      /\ Mate'.id = Mate.id
  <2>1. /\ Mate'.struct = Opposite(cur'.struct) /\ Mate'.num = cur'.num
        /\ Mate'.ref = cur'.ref /\ Mate'.id = cur'.id
    BY <1>6 DEF Mate, Pictures, PictureOf
  <2>2. QED BY <1>6, <2>1, CurIsKept
<1>8. IsIn(Mate) => IsIn(Mate)'
  <2>1. SUFFICES ASSUME IsIn(Mate) PROVE IsIn(Mate)' OBVIOUS
  <2>2. last \in DOMAIN dpb BY <2>1, IndInvBuffer DEF IsIn
  <2>3. Traits(dpb'[last]) = Traits(dpb[last]) BY <2>2 DEF Alike
  <2>4. QED BY <1>7, <2>1, <2>3, TraitsTell DEF IsIn
<1>9. IsOut(Mate) => IsOut(Mate)'
  BY <1>7 DEF IsOut, Full, Unused, Absent, NotOutput
<1>10. pc = "mmco" => IsIn(Mate) BY <1>2 DEF FrameInv, FieldsKnown
<1>11. IsIn(Mate) \/ IsOut(Mate) BY <1>2 DEF FrameInv, FieldsKnown
<1>12. FieldsKnown'
  BY <1>1, <1>8, <1>9, <1>10, <1>11 DEF FrameInv, FieldsKnown
<1>13. QED BY <1>1, <1>4, <1>5, <1>12 DEF FrameInv

LEMMA AlikeTells ==
  ASSUME IndInv, Alike(dpb', dpb), last' = last
  PROVE  /\ OneStorePerFrame => OneStorePerFrame'
         /\ NoneWaits(dpb, last) => NoneWaits(dpb', last')
<1>1. \A i \in DOMAIN dpb : dpb'[i].id = dpb[i].id /\ dpb'[i].used = dpb[i].used
  BY TraitsTell DEF Alike
<1>2. last = 0 \/ last \in DOMAIN dpb BY IndInvBuffer
<1>3. OneStorePerFrame => OneStorePerFrame' BY <1>1 DEF OneStorePerFrame, Alike
<1>4. QED BY <1>1, <1>2, <1>3 DEF NoneWaits

(* Operation 5 makes the picture the first frame of a sequence.             *)
LEMMA Mmco5Frames ==
  ASSUME IndInv, FrameInv, MmcoEnd, mm5
  PROVE  FrameInv'
<1> DEFINE seq == 1 - stream.seq
           p == [cur EXCEPT !.num = 0, !.poc = 0, !.id = [seq |-> seq, k |-> 0]]
<1>1. /\ pc = "mmco" /\ cur' = p /\ last' = last /\ Flush(dpb, "pair")
      /\ stream' = [stream EXCEPT !.pre = 0, !.seq = seq, !.ks = {0}, !.first = FirstField(p)]
  BY DEF MmcoEnd
<1>2. /\ InCall /\ stream \in StreamOf /\ stream.seq \in {0, 1}
  BY <1>1, IndInvParts DEF InCall, Busy, RestOK, StreamOf
<1>3. ~ Second BY <1>1, <1>2 DEF FrameInv, CurKnown
<1>4. cur \in Pictures /\ cur.struct \in Views BY <1>2, MateOfCur DEF Pictures, PictureOf
<1>5. /\ p.struct = cur.struct /\ p.ref = cur.ref /\ p.out = cur.out /\ p.poc = 0
      /\ p.id = [seq |-> seq, k |-> 0]
  BY <1>4 DEF Pictures, PictureOf
<1>6. seq \in {0, 1} /\ 0 \in 0 .. MaxK BY <1>2, BoundsAssumption
<1> HIDE DEF p, seq
<1>7. p.id \in Ids /\ p.id # NoId /\ p.id.seq = seq /\ p.id.k = 0
  BY <1>5, <1>6, FrameIds
<1>8. stream'.seq = seq /\ stream'.ks = {0} /\ stream'.first = FirstField(p)
  BY <1>1, <1>2 DEF StreamOf
<1>9. p # NoPicture BY <1>4, <1>5 DEF NoPicture, Views, Fields
<1>10. Alike(dpb', dpb) /\ pc' = "purge" /\ ret' = "pair"
  BY <1>1, IndInvBuffer, OperationsAlike, FlushAlike
<1>11. ~ Second' BY <1>1, <1>8, <1>9 DEF Second, FirstField
<1>12. StoresKnown'
  BY <1>1, <1>10, AlikeTells DEF FrameInv, StoresKnown, Steady
<1>13. CurKnown'
  <2>1. ~ cur.out BY <1>1, <1>2 DEF FrameInv, CurKnown
  <2>2. /\ ~ cur'.out /\ cur'.id # NoId /\ Known(cur.id)' /\ cur'.poc = 2 * cur'.id.k + 0
    BY <1>1, <1>5, <1>7, <1>8, <2>1 DEF Known
  <2>3. IF cur'.struct = "frame" THEN stream'.first = NoPicture ELSE stream'.first = cur'
    BY <1>1, <1>8 DEF FirstField
  <2>4. QED BY <1>10, <1>11, <2>2, <2>3 DEF CurKnown
<1>14. CurNew' BY <1>10 DEF CurNew
<1>15. FieldsKnown'
  <2>1. NoneWaits(dpb', last')
    BY <1>1, <1>2, <1>3, <1>10, AlikeTells DEF FrameInv, FieldsKnown
  <2>2. stream'.first # NoPicture => stream'.first.struct \in Structures
    <3>1. SUFFICES ASSUME cur.struct # "frame" PROVE cur.struct \in Structures
      BY <1>1, <1>5, <1>8 DEF FirstField
    <3>2. stream.first # NoPicture /\ stream.first.struct = cur.struct
      BY <1>2, <1>3, <3>1 DEF Second, FrameInv, CurKnown
    <3>3. QED BY <3>2 DEF FrameInv, FieldsKnown
  <2>3. QED BY <1>10, <1>11, <2>1, <2>2 DEF FieldsKnown
<1>16. QED BY <1>12, <1>13, <1>14, <1>15 DEF FrameInv

LEMMA MmcoFrames ==
  ASSUME IndInv, IndInv', FrameInv, Mmco
  PROVE  FrameInv'
<1> DEFINE Ops == Mmco1 \/ Mmco2 \/ Mmco3 \/ Mmco4 \/ Mmco5 \/ Mmco6
<1>1. CASE Ops
  <2>1. /\ pc = "mmco" /\ last' = last /\ stream' = stream
    BY <1>1 DEF Mmco1, Mmco2, Mmco3, Mmco4, Mmco5, Mmco6, Operation
  <2>2. InCall /\ cur \in Pictures BY <2>1, MateOfCur DEF InCall, Busy
  <2>3. CurIs' = CurIs
    <3>1. cur' = cur \/ \E idx : cur' = [cur EXCEPT !.lt = TRUE, !.idx = idx]
      BY <1>1 DEF Mmco1, Mmco2, Mmco3, Mmco4, Mmco5, Mmco6
    <3>2. QED BY <2>2, <3>1 DEF CurIs, Pictures, PictureOf
  <2>4. Second => ~ mm5'
    <3>1. Second => ~ mm5 BY <2>1, <2>2 DEF FrameInv, CurKnown
    <3>2. Mmco5 \/ mm5' = mm5 BY <1>1 DEF Mmco1, Mmco2, Mmco3, Mmco4, Mmco6
    <3>3. Mmco5 => ~ Second BY DEF Mmco5, Second
    <3>4. QED BY <3>1, <3>2, <3>3
  <2>5. Alike(dpb', dpb) /\ Goes BY <1>1, MmcoAlike
  <2>6. Remains(dpb', last', dpb, last) BY <2>1, <2>5, MarkedRemains
  <2>7. CASE pc' = "purge" /\ ret' = "halt"
    BY <2>1, <2>6, <2>7, OnlyOneStore, FramesFailing DEF Flushing
  <2>8. CASE pc' = pc
    <3>1. CASE ~ Second BY <2>1, <2>2, <2>3, <2>6, <2>8, <3>1, FramesStay DEF Steady
    <3>2. CASE Second
      <4>1. IsIn(Mate) BY <2>1, <2>2, <3>2 DEF FrameInv, FieldsKnown
      <4>2. ~ IsOut(Mate)
        <5>1. last \in DOMAIN dpb BY <4>1, IndInvBuffer DEF IsIn
        <5>2. QED BY <4>1, <5>1 DEF IsIn, IsOut, Absent
      <4>3. QED BY <2>1, <2>2, <2>3, <2>4, <2>5, <2>8, <3>2, <4>2, MateStays
    <3>3. QED BY <3>1, <3>2
  <2>9. QED BY <2>5, <2>7, <2>8 DEF Goes
<1>2. CASE MmcoEnd
  <2>1. CASE mm5 BY <1>2, <2>1, Mmco5Frames
  <2>2. CASE ~ mm5
    <3>1. /\ pc = "mmco" /\ pc' = "pair" /\ dpb' = dpb /\ last' = last /\ cur' = cur
          /\ stream' = stream /\ mm5' = mm5
      BY <1>2, <2>2 DEF MmcoEnd
    <3>2. InCall /\ CurIs' = CurIs BY <3>1 DEF InCall, Busy, CurIs
    <3>3. Alike(dpb', dpb) BY <3>1, IndInvBuffer, OperationsAlike
    <3>4. Remains(dpb', last', dpb, last) BY <3>1, SameRemains
    <3>5. CASE ~ Second BY <3>1, <3>2, <3>4, <3>5, FramesStay DEF Steady
    <3>6. CASE Second BY <2>2, <3>1, <3>2, <3>3, <3>6, MateStays
    <3>7. QED BY <3>5, <3>6
  <2>3. QED BY <2>1, <2>2
<1>3. QED BY <1>1, <1>2 DEF Mmco

-----------------------------------------------------------------------------
(* A second field that is not in the buffer goes the way its first went.    *)
LEMMA MateOut ==
  ASSUME IndInv, FrameInv, Second, pc \in {"trim", "room"}
  PROVE  /\ InCall /\ IsOut(Mate) /\ Full /\ Unused = {} /\ GoesOutDirectly
         /\ Absent(cur.id) /\ NoneWaits(dpb, last)
<1>1. InCall BY DEF InCall, Busy
<1>2. IsOut(Mate) BY <1>1 DEF FrameInv, FieldsKnown
<1>3. Mate.ref = cur.ref /\ Mate.id = cur.id BY <1>1, MateOfCur
<1>4. cur.poc = 2 * cur.id.k + 1
  <2>1. cur.id # NoId BY <1>1 DEF FrameInv, CurKnown, Second
  <2>2. QED BY <1>1, <2>1 DEF FrameInv, CurKnown
<1>5. GoesOutDirectly
  <2>1. ~ cur.ref BY <1>2, <1>3 DEF IsOut
  <2>2. \A i \in NotOutput : cur.poc < dpb[i].poc
    BY <1>2, <1>3, <1>4 DEF IsOut
  <2>3. QED BY <2>1, <2>2 DEF GoesOutDirectly
<1>6. QED BY <1>1, <1>2, <1>3, <1>5 DEF IsOut

LEMMA InIsSecondField ==
  ASSUME IndInv, InCall, Second, IsIn(Mate)
  PROVE  IsSecondField
  BY MateOfCur DEF IsIn, IsSecondField, Second

LEMMA SlideAlike ==
  ASSUME IndInv, Slide
  PROVE  Alike(dpb', dpb)
<1> DEFINE d == UnmarkIn(dpb, FirstOf(SlidingVictims))
<1>1. dpb \in Buffers BY IndInvBuffer
<1>2. d \in Buffers /\ Alike(d, dpb) BY <1>1, UnmarkInGood, OperationsAlike
<1>3. dpb' = UpdateRefList(d) \/ dpb' = dpb BY DEF Slide
<1> HIDE DEF d
<1>4. Alike(UpdateRefList(d), dpb) BY <1>2, OperationsAlike, AlikeTransitive
<1>5. QED BY <1>1, <1>3, <1>4, OperationsAlike

LEMMA SlideFrames ==
  ASSUME IndInv, IndInv', FrameInv, Slide
  PROVE  FrameInv'
<1>1. /\ pc = "pair" /\ pc' = "trim" /\ last' = last /\ cur' = cur /\ stream' = stream
      /\ InCall /\ CurIs' = CurIs /\ ~ IsSecondField /\ dpb \in Buffers
  BY IndInvBuffer DEF Slide, InCall, Busy, CurIs
<1>2. Alike(dpb', dpb) BY SlideAlike
<1>3. CASE ~ Second
  <2>1. Remains(dpb', last', dpb, last) BY <1>1, <1>2, MarkedRemains
  <2>2. QED BY <1>1, <1>3, <2>1, FramesStay DEF Steady
<1>4. CASE Second
  <2>1. ~ IsIn(Mate) BY <1>1, <1>4, InIsSecondField
  <2>2. IsOut(Mate) => dpb' = dpb
    <3>1. Mate.ref = cur.ref BY <1>1, MateOfCur
    <3>2. QED BY <3>1 DEF IsOut, Slide, Sliding
  <2>3. QED BY <1>1, <1>2, <1>4, <2>1, <2>2, MateStays
<1>5. QED BY <1>3, <1>4

LEMMA TrimFrames ==
  ASSUME IndInv, IndInv', FrameInv, Trim
  PROVE  FrameInv'
<1>1. /\ pc = "trim" /\ pc' = "room" /\ cur' = cur /\ stream' = stream
      /\ InCall /\ CurIs' = CurIs
  BY DEF Trim, InCall, Busy, CurIs
<1>2. CASE ~ Second
  <2>1. RemoveUnused \/ (dpb' = dpb /\ last' = last) BY DEF Trim
  <2>2. Remains(dpb', last', dpb, last) BY <2>1, RemoveUnusedRemains, SameRemains
  <2>3. QED BY <1>1, <1>2, <2>2, FramesStay DEF Steady
<1>3. CASE Second
  <2>1. IsOut(Mate) /\ Unused = {} BY <1>1, <1>3, MateOut
  <2>2. dpb' = dpb /\ last' = last BY <2>1 DEF Trim
  <2>3. Alike(dpb', dpb) BY <2>2, IndInvBuffer, OperationsAlike
  <2>4. ~ IsIn(Mate)
    <3>1. last \in DOMAIN dpb \/ last = 0 BY IndInvBuffer
    <3>2. QED BY <2>1, <3>1 DEF IsIn, IsOut, Absent
  <2>5. QED BY <1>1, <1>3, <2>2, <2>3, <2>4, MateStays
<1>4. QED BY <1>2, <1>3

LEMMA BumpFrames ==
  ASSUME IndInv, IndInv', FrameInv, Bump
  PROVE  FrameInv'
<1>1. /\ pc = "room" /\ cur' = cur /\ stream' = stream /\ InCall /\ CurIs' = CurIs
  BY DEF Bump, InCall, Busy, CurIs
<1>2. ~ Second BY <1>1, MateOut DEF Bump
<1>3. /\ Remains(dpb', last', dpb, last)
      /\ UNCHANGED <<pc, ret, err>> \/ (pc' = "purge" /\ ret' = "halt")
  BY OutputRemains DEF Bump
<1>4. CASE pc' = "purge" /\ ret' = "halt"
  BY <1>1, <1>3, <1>4, OnlyOneStore, FramesFailing DEF Flushing
<1>5. CASE pc' = pc BY <1>1, <1>2, <1>3, <1>5, FramesStay DEF Steady
<1>6. QED BY <1>3, <1>4, <1>5

LEMMA DirectFrames ==
  ASSUME IndInv, FrameInv, RoomInv, DirectOutput
  PROVE  FrameInv'
<1>1. /\ pc = "room" /\ pc' = "idle" /\ dpb' = dpb /\ last' = last /\ stream' = stream
      /\ Full /\ GoesOutDirectly /\ InCall
  BY DEF DirectOutput, InCall, Busy
<1>2. OneStorePerFrame /\ InSequence BY <1>1 DEF FrameInv, StoresKnown, Steady
<1>3. StoresKnown'
  BY <1>1, <1>2 DEF StoresKnown, OneStorePerFrame, InSequence, Known, NotOutput
<1>4. CurKnown' /\ CurNew' BY <1>1 DEF CurKnown, CurNew, InCall, Busy, Flushing
<1>5. ~ InCall' BY <1>1 DEF InCall, Busy, Flushing
<1>6. CASE stream.first = NoPicture
  <2>1. NoneWaits(dpb, last)
    <3>1. CASE Second BY <1>1, <3>1, MateOut
    <3>2. CASE ~ Second BY <1>1, <3>2 DEF FrameInv, FieldsKnown
    <3>3. QED BY <3>1, <3>2
  <2>2. QED BY <1>1, <1>3, <1>4, <1>5, <1>6, <2>1 DEF FrameInv, FieldsKnown
<1>7. CASE stream.first # NoPicture
  <2> DEFINE f == stream.first
  <2>1. cur.struct # "frame" /\ ~ Second BY <1>1, <1>7 DEF FrameInv, CurKnown, Second
  <2>2. /\ f.id = cur.id /\ f.ref = cur.ref /\ cur.id # NoId /\ Known(cur.id)
        /\ cur.poc = 2 * cur.id.k + 0
    BY <1>1, <2>1 DEF FrameInv, CurKnown
  <2>3. Absent(cur.id) /\ \A i \in NotOutput : dpb[i].poc \notin PocsOf(cur.id.k)
    BY <1>1, <2>1, <2>2 DEF FrameInv, CurNew
  <2>4. NoneWaits(dpb, last) BY <1>1, <2>1 DEF FrameInv, FieldsKnown
  <2>5. \A i \in NotOutput : 2 * cur.id.k + 1 < dpb[i].poc
    <3>1. SUFFICES ASSUME NEW i \in NotOutput PROVE 2 * cur.id.k + 1 < dpb[i].poc OBVIOUS
    <3>2. cur.poc < dpb[i].poc /\ dpb[i].poc \notin {2 * cur.id.k, 2 * cur.id.k + 1}
      BY <1>1, <2>3 DEF GoesOutDirectly, PocsOf
    <3>3. cur.id.k \in Int
      <4>1. cur.id \in Ids
        BY <1>1, <2>2, MateOfCur DEF Pictures, PictureOf
      <4>2. QED BY <4>1, FrameIds
    <3>4. dpb[i].poc \in Int
      BY IndInvBuffer, BufferElements DEF NotOutput, GoodStores, Stores, StoreOf, Pocs
    <3>5. QED BY <2>2, <3>2, <3>3, <3>4
  <2>6. ~ cur.ref /\ Unused = {} BY <1>1 DEF GoesOutDirectly, RoomInv
  <2>7. IsOut(f)' BY <1>1, <2>2, <2>3, <2>4, <2>5, <2>6
    DEF IsOut, Full, Unused, Absent, NotOutput
  <2>8. FieldsKnown'
    BY <1>1, <1>5, <1>7, <2>2, <2>7 DEF FrameInv, FieldsKnown, Known
  <2>9. QED BY <1>3, <1>4, <2>8 DEF FrameInv
<1>8. QED BY <1>6, <1>7

(* A field joins the store of its own frame, or, of a frame that is not in  *)
(* the buffer, a store whose second field never came.                       *)
LEMMA PairFrames ==
  ASSUME FieldsInOrder, IndInv, FrameInv, Pair
  PROVE  FrameInv'
<1>1. /\ pc = "pair" /\ pc' = "idle" /\ last' = 0 /\ stream' = stream /\ IsSecondField
      /\ InCall /\ cur.struct # "frame" /\ GoodPicture(cur)
      /\ dpb' = UpdateLists([dpb EXCEPT ![last] = Insert(@, cur)])
  BY MateOfCur DEF Pair, InCall, Busy, IsSecondField
<1>2. /\ dpb \in Buffers /\ last \in DOMAIN dpb /\ dpb[last] \in GoodStores /\ last # 0
      /\ dpb[last].used = {Opposite(cur.struct)}
  BY <1>1, IndInvBuffer, BufferElements DEF IsSecondField
<1>3. Second
  <2>1. SUFFICES ASSUME ~ Second PROVE FALSE OBVIOUS
  <2>2. /\ stream.first # NoPicture /\ stream.first.struct = cur.struct
        /\ stream.first.struct \in Structures /\ NoneWaits(dpb, last)
    BY <1>1, <2>1 DEF FrameInv, CurKnown, FieldsKnown, Second
  <2>3. Unpaired /\ \A t \in Fields : OneParity(t) => dpb[last].used # {Opposite(t)}
    BY <1>2, <2>2 DEF NoneWaits
  <2>4. PICK t \in Fields : OneParity(t) BY <2>3 DEF FieldsInOrder
  <2>5. cur.struct = t BY <1>1, <2>2, <2>4 DEF OneParity
  <2>6. QED BY <1>2, <2>3, <2>4, <2>5
<1>4. /\ OneStorePerFrame /\ InSequence /\ cur.id # NoId /\ ~ cur.out
      /\ Known(cur.id) /\ cur.poc = 2 * cur.id.k + 1
  <2>1. cur.id # NoId BY <1>1 DEF FrameInv, CurKnown
  <2>2. QED BY <1>1, <1>3, <2>1 DEF FrameInv, StoresKnown, CurKnown, Steady
<1>5. \A i \in DOMAIN dpb : dpb[i].id = cur.id => i = last
  <2>1. IsIn(Mate) \/ IsOut(Mate) BY <1>1, <1>3 DEF FrameInv, FieldsKnown
  <2>2. Mate.id = cur.id BY <1>1, MateOfCur
  <2>3. dpb[last].id = cur.id \/ Absent(cur.id) BY <2>1, <2>2 DEF IsIn, IsOut
  <2>4. QED BY <1>2, <1>4, <2>3 DEF OneStorePerFrame, Absent
<1> DEFINE g == Insert(dpb[last], cur)
           d == [dpb EXCEPT ![last] = g]
<1>6. /\ g.id = cur.id /\ g.out = cur.out /\ g.used = Fields
      /\ g.poc = IF cur.poc < dpb[last].poc THEN cur.poc ELSE dpb[last].poc
      /\ g \in GoodStores
  BY <1>1, <1>2, JoinTraits, InsertGood
<1> HIDE DEF g
<1>7. /\ d \in Buffers /\ DOMAIN d = DOMAIN dpb /\ d[last] = g
      /\ \A i \in DOMAIN dpb : i # last => d[i] = dpb[i]
  BY <1>2, <1>6, ReplaceGood, BufferElements
<1>8. dpb' = UpdateLists(d) BY <1>1 DEF g
<1> HIDE DEF d
<1>9. DOMAIN dpb' = DOMAIN dpb /\ \A i \in DOMAIN dpb : Traits(dpb'[i]) = Traits(d[i])
  BY <1>7, <1>8, UpdateListsAlike DEF Alike
<1>10. /\ dpb'[last].id = cur.id /\ ~ dpb'[last].out /\ dpb'[last].used = Fields
       /\ dpb'[last].poc \in {cur.poc, dpb[last].poc}
       /\ \A i \in DOMAIN dpb : i # last =>
            /\ dpb'[i].id = dpb[i].id /\ dpb'[i].out = dpb[i].out
            /\ dpb'[i].poc = dpb[i].poc /\ dpb'[i].used = dpb[i].used
  BY <1>2, <1>4, <1>6, <1>7, <1>9, TraitsTell
<1>11. OneStorePerFrame'
  BY <1>2, <1>4, <1>5, <1>9, <1>10 DEF OneStorePerFrame
<1>12. InSequence'
  <2>1. last \in NotOutput
    <3>1. dpb[last].used # Fields BY <1>2 DEF Fields
    <3>2. QED BY <1>2, <1>4, <3>1 DEF InSequence, NotOutput
  <2>2. \E k \in stream.ks : dpb'[last].poc \in PocsOf(k)
    <3>1. CASE dpb'[last].poc = cur.poc BY <1>4, <3>1 DEF Known, PocsOf
    <3>2. CASE dpb'[last].poc = dpb[last].poc BY <1>4, <2>1, <3>2 DEF InSequence
    <3>3. QED BY <1>10, <3>1, <3>2
  <2>3. \A i \in NotOutput' : dpb'[i].id # NoId /\ \E k \in stream.ks : dpb'[i].poc \in PocsOf(k)
    <3>1. SUFFICES ASSUME NEW i \in NotOutput'
                   PROVE  dpb'[i].id # NoId /\ \E k \in stream.ks : dpb'[i].poc \in PocsOf(k)
      OBVIOUS
    <3>2. CASE i = last BY <1>4, <1>10, <2>2, <3>2
    <3>3. CASE i # last
      <4>1. i \in NotOutput BY <1>9, <1>10, <3>1, <3>3 DEF NotOutput
      <4>2. QED BY <1>4, <1>9, <1>10, <3>3, <4>1 DEF InSequence, NotOutput
    <3>4. QED BY <3>2, <3>3
  <2>4. \A i \in DOMAIN dpb' : dpb'[i].id # NoId => Known(dpb'[i].id)
    BY <1>4, <1>9, <1>10 DEF InSequence
  <2>5. \A i \in DOMAIN dpb' : dpb'[i].out => dpb'[i].used = Fields
    BY <1>4, <1>9, <1>10 DEF InSequence
  <2>6. QED BY <1>1, <2>3, <2>4, <2>5 DEF InSequence, Known
<1>13. StoresKnown' BY <1>11, <1>12 DEF StoresKnown
<1>14. ~ InCall' BY <1>1 DEF InCall, Busy, Flushing
<1>15. CurKnown' /\ CurNew' BY <1>1, <1>14 DEF CurKnown, CurNew
<1>16. FieldsKnown' BY <1>1, <1>3, <1>14 DEF FieldsKnown, NoneWaits, Second
<1>17. QED BY <1>13, <1>15, <1>16 DEF FrameInv

(* A picture takes a store of its own.                                      *)
LEMMA StoreFrames ==
  ASSUME IndInv, FrameInv, Store
  PROVE  FrameInv'
<1> DEFINE g == Insert(EmptyStore(cur.id), cur)
           e == Append(dpb, g)
           d == UpdateLists(e)
<1>1. /\ pc = "room" /\ ~ Full /\ stream' = stream /\ InCall /\ GoodPicture(cur)
      /\ dpb \in Buffers /\ Len(dpb) \in Nat /\ DOMAIN dpb = 1 .. Len(dpb)
  BY IndInvBuffer, MateOfCur DEF Store, InCall, Busy
<1>2. ~ Second BY <1>1, MateOut
<1>3. OneStorePerFrame /\ InSequence BY <1>1 DEF FrameInv, StoresKnown, Steady
<1>4. /\ cur.id # NoId => /\ Absent(cur.id) /\ Known(cur.id) /\ ~ cur.out
                          /\ cur.poc = 2 * cur.id.k + 0
      /\ cur.id = NoId => cur.out /\ cur.struct = "frame"
      /\ IF cur.struct = "frame" THEN stream.first = NoPicture
         ELSE /\ stream.first.struct = cur.struct /\ stream.first.num = cur.num
              /\ stream.first.ref = cur.ref /\ stream.first.id = cur.id
  BY <1>1, <1>2 DEF FrameInv, CurKnown, CurNew
<1>5. /\ g.id = cur.id /\ g.num = cur.num /\ g.out = cur.out /\ g.poc = cur.poc
      /\ g.used = IF cur.struct = "frame" THEN Fields ELSE {cur.struct}
      /\ cur.ref <=> g.orig # {}
      /\ g \in GoodStores
  BY <1>1, NewTraits, InsertGood
<1>6. \/ Fail(dpb, "duplicate frame_num in short-term reference picture buffer")
         /\ last' = last
      \/ Fail(d, "Max. number of reference frames exceeded. Invalid stream.")
      \/ /\ last' = IF cur.struct = "frame" THEN 0 ELSE Len(d)
         /\ dpb' = d /\ pc' = "idle"
  BY DEF Store, d, e, g
<1> HIDE DEF g
<1>7. /\ e \in Buffers /\ Len(e) = Len(dpb) + 1 /\ e[Len(dpb) + 1] = g
      /\ \A i \in DOMAIN dpb : e[i] = dpb[i]
  BY <1>1, <1>5, AppendProperties DEF Buffers
<1> HIDE DEF e
<1>8. /\ d \in Buffers /\ Len(d) = Len(dpb) + 1 /\ DOMAIN d = DOMAIN e
      /\ \A i \in DOMAIN e : Traits(d[i]) = Traits(e[i])
  BY <1>7, BothListsGood, UpdateListsAlike DEF Alike
<1> HIDE DEF d
<1> DEFINE n == Len(dpb) + 1
<1>9. /\ DOMAIN d = 1 .. n /\ n \in DOMAIN d /\ n # 0
      /\ \A i \in DOMAIN d : i # n => i \in DOMAIN dpb
  BY <1>1, <1>8, BufferElements
<1>10. /\ d[n].id = cur.id /\ d[n].num = cur.num /\ d[n].out = cur.out /\ d[n].poc = cur.poc
       /\ d[n].used = IF cur.struct = "frame" THEN Fields ELSE {cur.struct}
       /\ cur.ref <=> d[n].orig # {}
       /\ \A i \in DOMAIN d : i # n =>
            /\ d[i].id = dpb[i].id /\ d[i].out = dpb[i].out
            /\ d[i].poc = dpb[i].poc /\ d[i].used = dpb[i].used
  BY <1>5, <1>7, <1>8, <1>9, TraitsTell
<1>11. \A i, j \in DOMAIN d : d[i].id = d[j].id /\ d[i].id # NoId => i = j
  BY <1>3, <1>4, <1>9, <1>10 DEF OneStorePerFrame, Absent
<1>12. stream.first # NoPicture => stream.first.struct \in Structures
  BY DEF FrameInv, FieldsKnown
<1>13. CASE /\ Fail(dpb, "duplicate frame_num in short-term reference picture buffer")
            /\ last' = last
  <2>1. Alike(dpb', dpb) /\ pc' = "purge" /\ ret' = "halt"
    BY <1>1, <1>13, OperationsAlike, FlushAlike DEF Fail
  <2>2. OneStorePerFrame' BY <1>3, <1>13, <2>1, AlikeTells
  <2>3. QED BY <1>1, <1>12, <2>1, <2>2, FramesFailing DEF Flushing
<1>14. CASE Fail(d, "Max. number of reference frames exceeded. Invalid stream.")
  <2>1. pc' = "purge" /\ ret' = "halt" /\ Alike(dpb', d)
    BY <1>8, <1>14, OperationsAlike DEF Fail, Flush
  <2>2. DOMAIN dpb' = DOMAIN d /\ \A i \in DOMAIN d : dpb'[i].id = d[i].id
    BY <2>1, TraitsTell DEF Alike
  <2>3. OneStorePerFrame' BY <1>11, <2>2 DEF OneStorePerFrame
  <2>4. QED BY <1>1, <1>12, <2>1, <2>3, FramesFailing DEF Flushing
<1>15. CASE /\ last' = IF cur.struct = "frame" THEN 0 ELSE Len(d)
            /\ dpb' = d /\ pc' = "idle"
  <2>1. OneStorePerFrame' BY <1>11, <1>15 DEF OneStorePerFrame
  <2>2. InSequence'
    <3>1. \A i \in DOMAIN d : d[i].id # NoId => Known(d[i].id)
      BY <1>3, <1>4, <1>9, <1>10 DEF InSequence
    <3>2. \A i \in DOMAIN d : d[i].out => d[i].used = Fields
      BY <1>3, <1>4, <1>9, <1>10 DEF InSequence
    <3>3. ASSUME NEW i \in DOMAIN d, ~ d[i].out
          PROVE  d[i].id # NoId /\ \E k \in stream.ks : d[i].poc \in PocsOf(k)
      <4>1. CASE i = n
        <5>1. cur.id # NoId /\ cur.id.k \in stream.ks /\ cur.poc = 2 * cur.id.k + 0
          BY <1>4, <1>10, <3>3, <4>1 DEF Known
        <5>2. cur.id.k \in Int
          <6>1. cur.id \in Ids BY <1>1, <5>1, PictureFields
          <6>2. QED BY <6>1, FrameIds
        <5>3. cur.poc \in PocsOf(cur.id.k) BY <5>1, <5>2 DEF PocsOf
        <5>4. QED BY <1>10, <4>1, <5>1, <5>3
      <4>2. CASE i # n
        <5>1. i \in NotOutput BY <1>9, <1>10, <3>3, <4>2 DEF NotOutput
        <5>2. QED BY <1>3, <1>10, <3>3, <4>2, <5>1 DEF InSequence
      <4>3. QED BY <4>1, <4>2
    <3>4. QED BY <1>1, <1>15, <3>1, <3>2, <3>3 DEF InSequence, Known, NotOutput
  <2>3. StoresKnown' BY <2>1, <2>2 DEF StoresKnown
  <2>4. ~ InCall' BY <1>15 DEF InCall, Busy, Flushing
  <2>5. CurKnown' /\ CurNew' BY <1>15, <2>4 DEF CurKnown, CurNew
  <2>6. FieldsKnown'
    <3>1. CASE cur.struct = "frame"
      BY <1>1, <1>4, <1>15, <2>4, <3>1 DEF FieldsKnown, NoneWaits
    <3>2. CASE cur.struct # "frame"
      <4>1. stream.first # NoPicture BY <1>2, <3>2 DEF Second
      <4>2. last' = n BY <1>8, <1>15, <3>2
      <4>3. IsIn(stream.first)' BY <1>1, <1>4, <1>9, <1>10, <1>15, <3>2, <4>2 DEF IsIn
      <4>4. Known(stream.first.id)' BY <1>1, <1>4, <3>2 DEF Known
      <4>5. QED BY <1>1, <1>12, <1>15, <2>4, <4>1, <4>3, <4>4 DEF FieldsKnown
    <3>3. QED BY <3>1, <3>2
  <2>7. QED BY <2>3, <2>5, <2>6 DEF FrameInv
<1>16. QED BY <1>6, <1>13, <1>14, <1>15

-----------------------------------------------------------------------------
LEMMA FrameInit == Init => FrameInv
BY DEF Init, FrameInv, StoresKnown, OneStorePerFrame, InSequence, NotOutput, CurKnown, CurNew,
       FieldsKnown, InCall, Busy, Flushing, NoneWaits

LEMMA FrameStutters ==
  ASSUME FrameInv, UNCHANGED vars
  PROVE  FrameInv'
<1>1. UNCHANGED <<dpb, last, pc, ret, cur, mm5, stream>> BY DEF vars
<1>2. StoresKnown'
  BY <1>1 DEF FrameInv, StoresKnown, OneStorePerFrame, InSequence, NotOutput, Known, Steady
<1>3. CurKnown'
  BY <1>1 DEF FrameInv, CurKnown, InCall, Busy, Flushing, Second, Known
<1>4. CurNew' BY <1>1 DEF FrameInv, CurNew, Second, Absent, NotOutput
<1>5. FieldsKnown'
  BY <1>1 DEF FrameInv, FieldsKnown, InCall, Busy, Flushing, Second, Known, IsIn, IsOut, Full,
              Unused, Absent, NotOutput, Mate
<1>6. QED BY <1>2, <1>3, <1>4, <1>5 DEF FrameInv

LEMMA FrameKeeps ==
  ASSUME FieldsInOrder, IndInv, IndInv', RoomInv, EmptyInv, FrameInv, [Next]_vars
  PROVE  FrameInv'
<1>1. CASE UNCHANGED vars BY <1>1, FrameStutters
<1>2. CASE Receive BY <1>2, ReceiveStarts, NewFrameStarts, MateStarts
<1>3. CASE EndOfStream \/ IdrStart \/ IdrTail BY <1>3, IdrFrames
<1>4. CASE FlushPurge \/ FlushDrain \/ FlushDone BY <1>4, FlushingFrames
<1>5. CASE Mmco BY <1>5, MmcoFrames
<1>6. CASE Pair BY <1>6, PairFrames
<1>7. CASE Slide BY <1>7, SlideFrames
<1>8. CASE Trim BY <1>8, TrimFrames
<1>9. CASE DirectOutput BY <1>9, DirectFrames
<1>10. CASE Bump BY <1>10, BumpFrames
<1>11. CASE Store BY <1>11, StoreFrames
<1>12. CASE Spin \/ Exited BY <1>12, FrameStutters DEF Spin, Exited
<1>13. QED
  BY <1>1, <1>2, <1>3, <1>4, <1>5, <1>6, <1>7, <1>8, <1>9, <1>10, <1>11, <1>12 DEF Next, Work

(* The two fields of a frame never end up in two stores, and no frame is    *)
(* stored twice, whatever is unmarked, removed, written or dropped between  *)
(* the fields, also with fields that stay alone if all of them are of one   *)
(* parity: last_picture names the store of the first field until the second *)
(* comes, or the first field went out directly, and so does the second.     *)
THEOREM FramesInOneStore ==
  ASSUME FieldsInOrder
  PROVE  Spec => []OneStorePerFrame
<1>1. Init => IndInv /\ EmptyInv /\ RoomInv /\ FrameInv
  BY InitIndInv, EmptyInit, FrameInit DEF Init, RoomInv
<1>2. IndInv /\ EmptyInv /\ RoomInv /\ FrameInv /\ [Next]_vars
        => (IndInv /\ EmptyInv /\ RoomInv /\ FrameInv)'
  BY NextKeeps, EmptyKeeps, RoomKeeps, FrameKeeps
<1>3. FrameInv => OneStorePerFrame BY DEF FrameInv, StoresKnown
<1>4. QED BY <1>1, <1>2, <1>3, PTL DEF Spec

-----------------------------------------------------------------------------
(***************************************************************************)
(* PictureOutput.  It is about streams that leave no field alone, until    *)
(* one is refused: no error() but that of the order of output, which comes *)
(* after the frame was written.                                            *)
(***************************************************************************)
Accepted == err \in {"none", "output POC must be in ascending order"}

(* The first field whose second field is awaited, or that is in a call.     *)
Awaited ==
  IF pc = "idle" THEN stream.first ELSE IF InCall /\ Second THEN Mate ELSE NoPicture

(* It waits in out_buffer, or in the store of last_picture, not output; all *)
(* other frames that wait are whole.                                        *)
OutInv ==
  /\ Awaited = NoPicture => outbuf = Blank
  /\ Awaited # NoPicture =>
       /\ outbuf = IF last # 0 THEN Blank ELSE [Blank EXCEPT ![Awaited.struct] = Awaited.id]
       /\ last # 0 => ~ dpb[last].out
  /\ \A i \in NotOutput : ~ (Awaited # NoPicture /\ i = last) =>
       dpb[i].id # NoId /\ dpb[i].used = Fields

-----------------------------------------------------------------------------
(* The three steps of PictureOutput that the buffer takes.                  *)
Dropping == pc = "idr" /\ cur.noout

LEMMA SameCardinality == \A S : Output!Cardinality(S) = Cardinality(S)
<1>1. \A S : Output!IsFiniteSet(S) = IsFiniteSet(S) BY Zenon DEF Output!IsFiniteSet, IsFiniteSet
<1>2. QED BY <1>1, Zenon DEF Output!Cardinality, Cardinality

LEMMA NoImages ==
  /\ <<>> \in Output!SetToSeqs({})
  /\ [n \in DOMAIN <<>> |-> Output!Whole(<<>>[n])] = <<>>
<1>1. Output!Cardinality({}) = 0 BY FS_EmptySet, SameCardinality
<1>2. <<>> \in [1 .. 0 -> {}] BY EmptySeq
<1>3. <<>> \in Output!SetToSeqs({}) BY <1>1, <1>2 DEF Output!SetToSeqs
<1>4. QED BY <1>3

LEMMA OneImage ==
  ASSUME NEW x
  PROVE  /\ <<x>> \in Output!SetToSeqs({x})
         /\ [n \in DOMAIN <<x>> |-> Output!Whole(<<x>>[n])] = <<[f \in Fields |-> x]>>
<1>1. Output!Cardinality({x}) = 1 BY FS_Singleton, SameCardinality
<1>2. <<x>> \in [1 .. 1 -> {x}] OBVIOUS
<1>3. <<x>> \in Output!SetToSeqs({x}) BY <1>1, <1>2 DEF Output!SetToSeqs
<1>4. [n \in DOMAIN <<x>> |-> Output!Whole(<<x>>[n])] = <<Output!Whole(x)>> OBVIOUS
<1>5. Output!Whole(x) = [f \in Fields |-> x] BY DEF Output!Whole, Fields
<1>6. QED BY <1>3, <1>4, <1>5

LEMMA NothingHappens ==
  ASSUME ~ Dropping, Pending' = Pending, written' = <<>>
  PROVE  Output!Next
<1>1. {} \in {{}} \cup {{f} : f \in Ids \ Pending} /\ {} \in SUBSET (Pending \cup {}) OBVIOUS
<1>2. Pending' = (Pending \cup {}) \ {} OBVIOUS
<1>3. \E order \in Output!SetToSeqs({}) : written' = [n \in DOMAIN order |-> Output!Whole(order[n])]
  BY NoImages
<1>4. (pc = "idr" /\ cur.noout)' \in BOOLEAN OBVIOUS
<1>5. Output!Advance BY <1>1, <1>2, <1>3, <1>4 DEF Output!Advance, Dropping
<1>6. QED BY <1>5 DEF Output!Next

LEMMA FrameAccepted ==
  ASSUME ~ Dropping, NEW x \in Ids, x \notin Pending, Pending' = Pending \cup {x}, written' = <<>>
  PROVE  Output!Next
<1>1. {x} \in {{}} \cup {{f} : f \in Ids \ Pending} /\ {} \in SUBSET (Pending \cup {x}) OBVIOUS
<1>2. Pending' = (Pending \cup {x}) \ {} OBVIOUS
<1>3. \E order \in Output!SetToSeqs({}) : written' = [n \in DOMAIN order |-> Output!Whole(order[n])]
  BY NoImages
<1>4. (pc = "idr" /\ cur.noout)' \in BOOLEAN OBVIOUS
<1>5. Output!Advance BY <1>1, <1>2, <1>3, <1>4 DEF Output!Advance, Dropping
<1>6. QED BY <1>5 DEF Output!Next

LEMMA FrameWritten ==
  ASSUME ~ Dropping, NEW x \in Ids, Pending' = Pending \ {x}, written' = <<[f \in Fields |-> x]>>
  PROVE  Output!Next
<1> DEFINE new == IF x \in Pending THEN {} ELSE {x}
<1>1. new \in {{}} \cup {{f} : f \in Ids \ Pending} /\ {x} \in SUBSET (Pending \cup new) OBVIOUS
<1>2. Pending' = (Pending \cup new) \ {x} OBVIOUS
<1>3. \E order \in Output!SetToSeqs({x}) : written' = [n \in DOMAIN order |-> Output!Whole(order[n])]
  BY OneImage
<1>4. (pc = "idr" /\ cur.noout)' \in BOOLEAN OBVIOUS
<1> HIDE DEF new
<1>5. Output!Advance BY <1>1, <1>2, <1>3, <1>4 DEF Output!Advance, Dropping
<1>6. QED BY <1>5 DEF Output!Next

-----------------------------------------------------------------------------
(* The frames of the buffer d that wait.                                    *)
Waits(d) == {d[i].id : i \in {j \in DOMAIN d : ~ d[j].out}}
Waiters == {outbuf[f] : f \in Fields} \ {NoId}

LEMMA PendingParts ==
  /\ Pending = Waits(dpb) \cup Waiters
  /\ Pending' = Waits(dpb') \cup Waiters'
  /\ outbuf = Blank => Waiters = {}
  /\ outbuf' = Blank => Waiters' = {}
  BY DEF Pending, Waits, Waiters, NotOutput, Blank

LEMMA AlikeWaits ==
  ASSUME NEW d, NEW e, Alike(e, d)
  PROVE  Waits(e) = Waits(d)
<1>1. DOMAIN e = DOMAIN d /\ \A i \in DOMAIN d : e[i].id = d[i].id /\ e[i].out = d[i].out
  BY TraitsTell DEF Alike
<1>2. QED BY <1>1 DEF Waits

LEMMA RemovalWaits ==
  ASSUME NEW d \in Buffers, NEW i \in DOMAIN d, d[i].out
  PROVE  Waits(RemoveAt(d, i)) = Waits(d)
<1> DEFINE e == RemoveAt(d, i)
<1>1. DOMAIN d = 1 .. Len(d) /\ Len(d) \in Nat /\ i \in 1 .. Len(d) BY BufferElements
<1>2. \A j \in DOMAIN e : /\ IF j < i THEN e[j] = d[j] ELSE e[j] = d[j + 1]
                          /\ IF j < i THEN j \in DOMAIN d ELSE j + 1 \in DOMAIN d
  BY RemoveElementAt
<1>3. DOMAIN e = 1 .. Len(d) - 1
  <2>1. e \in Buffers /\ Len(e) = Len(d) - 1 BY RemoveGood
  <2>2. QED BY <2>1, BufferElements
<1> HIDE DEF e
<1>4. Waits(e) \subseteq Waits(d)
  <2>1. \A j \in DOMAIN e : \E k \in DOMAIN d : e[j] = d[k] BY <1>2
  <2>2. QED BY <2>1 DEF Waits
<1>5. Waits(d) \subseteq Waits(e)
  <2>1. ASSUME NEW k \in DOMAIN d, ~ d[k].out PROVE \E j \in DOMAIN e : e[j] = d[k]
    <3>1. k # i BY <2>1
    <3>2. CASE k < i BY <1>1, <1>2, <1>3, <3>2
    <3>3. CASE k > i
      <4>1. k - 1 \in DOMAIN e /\ ~ (k - 1 < i) /\ (k - 1) + 1 = k BY <1>1, <1>3, <3>3
      <4>2. e[k - 1] = d[k] BY <1>2, <4>1
      <4>3. QED BY <4>1, <4>2
    <3>4. QED BY <1>1, <3>1, <3>2, <3>3
  <2>2. QED BY <2>1 DEF Waits
<1>6. QED BY <1>4, <1>5 DEF e

LEMMA RemoveUnusedWaits ==
  ASSUME IndInv, RemoveUnused
  PROVE  Waits(dpb') = Waits(dpb)
<1>1. PICK i \in Unused : dpb' = RemoveAt(dpb, i) BY DEF RemoveUnused, FirstOf
<1>2. i \in DOMAIN dpb /\ dpb[i].out BY DEF Unused
<1>3. QED BY <1>1, <1>2, IndInvBuffer, RemovalWaits

(* Only the store that is written stops waiting.                            *)
LEMMA WrittenWaits ==
  ASSUME OneStorePerFrame, NEW i \in NotOutput, dpb[i].id # NoId, NEW d,
         DOMAIN d = DOMAIN dpb, d[i].out, \A j \in DOMAIN dpb : j # i => d[j] = dpb[j]
  PROVE  Waits(d) = Waits(dpb) \ {dpb[i].id}
<1>1. i \in DOMAIN dpb BY DEF NotOutput
<1>2. \A j \in DOMAIN dpb : dpb[j].id = dpb[i].id => j = i BY <1>1 DEF OneStorePerFrame
<1>3. QED BY <1>1, <1>2 DEF Waits, NotOutput

(* Frames whole: marking, output and removal keep them so.                  *)
AllWhole(d) == \A i \in DOMAIN d : ~ d[i].out => d[i].id # NoId /\ d[i].used = Fields

LEMMA RemainsWhole ==
  ASSUME NEW d, NEW l, NEW e, NEW m, Remains(e, m, d, l), AllWhole(d)
  PROVE  AllWhole(e)
<1>1. PICK h \in [DOMAIN e -> DOMAIN d] : \A i \in DOMAIN e : StaysAs(e[i], d[h[i]])
  BY DEF Remains
<1>2. QED BY <1>1 DEF StaysAs, AllWhole

-----------------------------------------------------------------------------
(* Whose second field is awaited.                                           *)
LEMMA MateIsField ==
  ASSUME NEW c \in Pictures, c.struct # "frame"
  PROVE  LET m == [c EXCEPT !.struct = Opposite(@)]
         IN  m # NoPicture /\ m.struct = Opposite(c.struct) /\ m.id = c.id
<1> DEFINE m == [c EXCEPT !.struct = Opposite(@)]
<1>1. m.struct = Opposite(c.struct) /\ m.id = c.id BY DEF Pictures, PictureOf
<1>2. m.struct # "none" BY <1>1 DEF Opposite
<1>3. QED BY <1>1, <1>2 DEF NoPicture

LEMMA AwaitedIs ==
  /\ pc = "idle" => Awaited = stream.first
  /\ pc # "idle" /\ (~ InCall \/ ~ Second) => Awaited = NoPicture
  /\ IndInv /\ InCall /\ Second =>
       Awaited = Mate /\ Awaited # NoPicture /\ Awaited.struct = Opposite(cur.struct)
         /\ Awaited.id = cur.id
<1>1. InCall => pc # "idle" BY DEF InCall, Busy, Flushing
<1>2. ASSUME IndInv, InCall, Second
      PROVE  /\ Awaited = Mate /\ Awaited # NoPicture /\ Awaited.struct = Opposite(cur.struct)
             /\ Awaited.id = cur.id
  <2>1. cur \in Pictures BY <1>2, MateOfCur
  <2>2. Awaited = Mate BY <1>1, <1>2 DEF Awaited
  <2>3. QED BY <1>2, <2>1, <2>2, MateIsField DEF Mate, Second
<1>3. QED BY <1>1, <1>2 DEF Awaited

LEMMA AwaitedNext ==
  /\ pc' = "idle" => Awaited' = stream'.first
  /\ pc' # "idle" /\ (~ InCall' \/ ~ Second') => Awaited' = NoPicture
  /\ IndInv' /\ InCall' /\ Second' =>
       Awaited' # NoPicture /\ Awaited'.struct = Opposite(cur'.struct) /\ Awaited'.id = cur'.id
<1>1. InCall' => pc' # "idle" BY DEF InCall, Busy, Flushing
<1>2. ASSUME IndInv', InCall', Second'
      PROVE  /\ Awaited' # NoPicture /\ Awaited'.struct = Opposite(cur'.struct)
             /\ Awaited'.id = cur'.id
  <2>1. cur' \in Pictures BY <1>2, IndInvParts DEF CurGood, InCall, GoodPicture
  <2>2. Awaited' = [cur' EXCEPT !.struct = Opposite(@)] BY <1>1, <1>2 DEF Awaited, Mate
  <2>3. QED BY <1>2, <2>1, <2>2, MateIsField DEF Second
<1>3. QED BY <1>1, <1>2 DEF Awaited

(* Steps that write nothing and accept nothing.                             *)
LEMMA QuietStep ==
  ASSUME IndInv, OutInv, Awaited = NoPicture, Awaited' = NoPicture, outbuf' = outbuf,
         written' = <<>>, ~ Dropping, Remains(dpb', last', dpb, last), Waits(dpb') = Waits(dpb)
  PROVE  OutInv' /\ Output!Next
<1>1. outbuf = Blank BY DEF OutInv
<1>2. AllWhole(dpb) BY DEF OutInv, AllWhole, NotOutput
<1>3. AllWhole(dpb') BY <1>2, RemainsWhole
<1>4. OutInv' BY <1>1, <1>3 DEF OutInv, AllWhole, NotOutput
<1>5. Pending' = Pending BY PendingParts DEF Waiters
<1>6. QED BY <1>4, <1>5, NothingHappens

LEMMA AwaitingStep ==
  ASSUME IndInv, OutInv, Awaited # NoPicture, Awaited' # NoPicture,
         Awaited'.struct = Awaited.struct, Awaited'.id = Awaited.id, outbuf' = outbuf,
         written' = <<>>, ~ Dropping, Alike(dpb', dpb), last' = last
  PROVE  OutInv' /\ Output!Next
<1>1. last = 0 \/ last \in DOMAIN dpb BY IndInvBuffer
<1>2. /\ DOMAIN dpb' = DOMAIN dpb
      /\ \A i \in DOMAIN dpb : /\ dpb'[i].id = dpb[i].id /\ dpb'[i].out = dpb[i].out
                               /\ dpb'[i].used = dpb[i].used
  BY TraitsTell DEF Alike
<1>3. OutInv' BY <1>1, <1>2 DEF OutInv, NotOutput
<1>4. Pending' = Pending BY PendingParts, AlikeWaits DEF Waiters
<1>5. QED BY <1>3, <1>4, NothingHappens

LEMMA CallStep ==
  ASSUME IndInv, IndInv', OutInv, InCall, InCall', stream' = stream, CurIs' = CurIs,
         outbuf' = outbuf, written' = <<>>, ~ Dropping, Alike(dpb', dpb), last' = last
  PROVE  OutInv' /\ Output!Next
<1>1. cur'.struct = cur.struct /\ cur'.id = cur.id BY CurIsKept
<1>2. Second' <=> Second BY <1>1 DEF Second
<1>3. pc # "idle" /\ pc' # "idle" BY DEF InCall, Busy, Flushing
<1>4. CASE Second BY <1>1, <1>2, <1>4, AwaitedIs, AwaitedNext, AwaitingStep
<1>5. CASE ~ Second
  <2>1. Remains(dpb', last', dpb, last) /\ Waits(dpb') = Waits(dpb) BY MarkedRemains, AlikeWaits
  <2>2. QED BY <1>2, <1>3, <1>5, <2>1, AwaitedIs, AwaitedNext, QuietStep
<1>6. QED BY <1>4, <1>5

LEMMA ReceiveOut ==
  ASSUME ~ Unpaired, IndInv, IndInv', FrameInv, OutInv, Receive
  PROVE  OutInv' /\ Output!Next
<1>1. PICK p, s : /\ Started(p, s) /\ pc = "idle"
                  /\ MateOf(p, s) \/ (Waiting /\ NewFrame(p, s))
  BY ReceiveStarts
<1>2. /\ dpb' = dpb /\ last' = last /\ cur' = p /\ stream' = s /\ outbuf' = outbuf
      /\ written' = <<>> /\ pc' \in {"idr", "mmco", "pair"}
  BY <1>1 DEF Started
<1>3. Awaited = stream.first /\ ~ Dropping /\ InCall' /\ pc' # "idle"
  BY <1>1, <1>2, AwaitedIs DEF Dropping, InCall, Busy
<1>4. Alike(dpb', dpb) BY <1>2, IndInvBuffer, OperationsAlike
<1>5. CASE MateOf(p, s)
  <2> DEFINE f == stream.first
  <2>1. f # NoPicture /\ s.first = NoPicture /\ p.struct = Opposite(f.struct) /\ p.id = f.id
    BY <1>5 DEF MateOf
  <2>2. f.struct \in Fields BY <2>1, IndInvParts DEF FirstGood
  <2>3. p.struct # "frame" /\ Opposite(p.struct) = f.struct BY <2>1, <2>2 DEF Opposite, Fields
  <2>4. Second' BY <1>2, <2>1, <2>3 DEF Second
  <2>5. Awaited' # NoPicture /\ Awaited'.struct = Awaited.struct /\ Awaited'.id = Awaited.id
    BY <1>2, <1>3, <2>1, <2>3, <2>4, AwaitedNext
  <2>6. QED BY <1>2, <1>3, <1>4, <2>1, <2>5, AwaitingStep
<1>6. CASE Waiting /\ NewFrame(p, s)
  <2>1. Awaited = NoPicture BY <1>3, <1>6 DEF Waiting
  <2>2. ~ Second' BY <1>2, <1>6 DEF NewFrame, Second
  <2>3. Remains(dpb', last', dpb, last) /\ Waits(dpb') = Waits(dpb)
    BY <1>2, <1>4, MarkedRemains
  <2>4. QED BY <1>2, <1>3, <2>1, <2>2, <2>3, AwaitedNext, QuietStep
<1>7. QED BY <1>1, <1>5, <1>6

(* A frame that is dropped is not written.                                  *)
LEMMA DropOut ==
  ASSUME IndInv, FrameInv, OutInv, IdrStart, cur.noout
  PROVE  OutInv' /\ Output!Next
<1>1. /\ pc = "idr" /\ dpb' = <<>> /\ pc' = "idrtail" /\ cur' = cur /\ stream' = stream
      /\ outbuf' = outbuf /\ written' = <<>>
  BY DEF IdrStart
<1>2. ~ Second /\ ~ Second' /\ pc # "idle" /\ pc' # "idle" BY <1>1, NotSecond DEF Second
<1>3. Awaited = NoPicture /\ Awaited' = NoPicture BY <1>2, AwaitedIs, AwaitedNext
<1>4. outbuf = Blank /\ outbuf' = Blank BY <1>1, <1>3 DEF OutInv
<1>5. OutInv' BY <1>1, <1>3, <1>4 DEF OutInv, NotOutput
<1>6. Waits(dpb') = {} BY <1>1 DEF Waits
<1>7. Pending' \subseteq Pending BY <1>4, <1>6, PendingParts
<1>8. Output!Drop BY <1>1, <1>7 DEF Output!Drop
<1>9. QED BY <1>5, <1>8 DEF Output!Next

LEMMA IdrOut ==
  ASSUME ~ Unpaired, IndInv, FrameInv, OutInv, EndOfStream \/ IdrStart \/ IdrTail
  PROVE  OutInv' /\ Output!Next
<1>1. dpb \in Buffers BY IndInvBuffer
<1>2. CASE EndOfStream
  <2>1. /\ Waiting /\ Flush(dpb, "halt") /\ last' = last /\ outbuf' = outbuf /\ written' = <<>>
    BY <1>2 DEF EndOfStream
  <2>2. Alike(dpb', dpb) /\ pc' = "purge" /\ ret' = "halt"
    BY <1>1, <2>1, OperationsAlike, FlushAlike
  <2>3. ~ InCall' /\ pc' # "idle" BY <2>2 DEF InCall, Busy, Flushing
  <2>4. pc = "idle" /\ stream.first = NoPicture /\ ~ Dropping BY <2>1 DEF Waiting, Dropping
  <2>5. Remains(dpb', last', dpb, last) /\ Waits(dpb') = Waits(dpb)
    BY <2>1, <2>2, MarkedRemains, AlikeWaits
  <2>6. QED BY <2>1, <2>3, <2>4, <2>5, AwaitedIs, AwaitedNext, QuietStep
<1>3. CASE IdrStart /\ ~ cur.noout
  <2>1. /\ pc = "idr" /\ Flush(dpb, "idrtail") /\ last' = last /\ outbuf' = outbuf
        /\ written' = <<>> /\ cur' = cur /\ stream' = stream
    BY <1>3 DEF IdrStart
  <2>2. Alike(dpb', dpb) /\ pc' = "purge" BY <1>1, <2>1, OperationsAlike, FlushAlike
  <2>3. ~ Second /\ ~ Second' /\ pc # "idle" BY <2>1, NotSecond DEF Second
  <2>4. Remains(dpb', last', dpb, last) /\ Waits(dpb') = Waits(dpb)
    BY <2>1, <2>2, MarkedRemains, AlikeWaits
  <2>5. ~ Dropping BY <1>3 DEF Dropping
  <2>6. QED BY <2>1, <2>2, <2>3, <2>4, <2>5, AwaitedIs, AwaitedNext, QuietStep
<1>4. CASE IdrTail
  <2>1. /\ pc = "idrtail" /\ last' = 0 /\ pc' = "pair" /\ outbuf' = outbuf /\ written' = <<>>
        /\ dpb' = UpdateLists(dpb) /\ stream' = stream
        /\ cur' = [cur EXCEPT !.lt = cur.ltflag, !.idx = IF cur.ltflag THEN 0 ELSE @]
    BY <1>4 DEF IdrTail
  <2>2. InCall /\ ~ Second BY <2>1, NotSecond
  <2>3. cur'.struct = cur.struct
    <3>1. cur \in Pictures BY <2>2, MateOfCur
    <3>2. QED BY <2>1, <3>1 DEF Pictures, PictureOf
  <2>4. ~ Second' BY <2>1, <2>2, <2>3 DEF Second
  <2>5. Alike(dpb', dpb) BY <1>1, <2>1, UpdateListsAlike
  <2>6. Remains(dpb', last', dpb, last) /\ Waits(dpb') = Waits(dpb)
    BY <2>1, <2>5, MarkedRemains, AlikeWaits
  <2>7. QED BY <2>1, <2>2, <2>4, <2>6, AwaitedIs, AwaitedNext, QuietStep DEF Dropping
<1>5. QED BY <1>2, <1>3, <1>4, DropOut

(* The store with the smallest POC is written, alone.                       *)
LEMMA OutputOneOut ==
  ASSUME IndInv, OneStorePerFrame, OutInv, Awaited = NoPicture, Awaited' = NoPicture,
         ~ Dropping, OutputOne
  PROVE  OutInv' /\ Output!Next
<1>1. PICK i \in NotOutput :
        /\ written' = PendingDirect \o <<ImageOf(dpb[i])>>
        /\ outbuf' = Blank
        /\ LET d == [dpb EXCEPT ![i] = AfterWrite(@)]
           IN  \/ Flush(d, "halt") \/ dpb' = d \/ dpb' = RemoveAt(d, i)
  BY DEF OutputOne, Fail
<1> DEFINE d == [dpb EXCEPT ![i] = AfterWrite(dpb[i])]
           x == dpb[i].id
<1>2. i \in DOMAIN dpb /\ dpb \in Buffers /\ dpb[i] \in GoodStores
  BY IndInvBuffer, BufferElements DEF NotOutput
<1>3. outbuf = Blank /\ x # NoId /\ dpb[i].used = Fields BY DEF OutInv
<1>4. /\ d \in Buffers /\ DOMAIN d = DOMAIN dpb /\ d[i].out
      /\ \A j \in DOMAIN dpb : j # i => d[j] = dpb[j]
  BY <1>2, AfterWriteGood, WrittenTraits, ReplaceGood, BufferElements
<1>5. Flush(d, "halt") \/ dpb' = d \/ dpb' = RemoveAt(d, i) BY <1>1
<1> HIDE DEF d
<1>6. Waits(d) = Waits(dpb) \ {x} BY <1>3, <1>4, WrittenWaits
<1>7. Waits(dpb') = Waits(d)
  <2>1. CASE Flush(d, "halt")
    <3>1. Alike(dpb', d) BY <1>4, <2>1, OperationsAlike DEF Flush
    <3>2. QED BY <3>1, AlikeWaits
  <2>2. CASE dpb' = RemoveAt(d, i) BY <1>2, <1>4, <2>2, RemovalWaits
  <2>3. QED BY <1>5, <2>1, <2>2
<1>8. Pending' = Pending \ {x} BY <1>1, <1>3, <1>6, <1>7, PendingParts
<1>9. x \in Ids BY <1>2, <1>3 DEF GoodStores, Stores, StoreOf
<1>10. written' = <<[f \in Fields |-> x]>>
  <2>1. PendingDirect = <<>> BY <1>3 DEF PendingDirect
  <2>2. ImageOf(dpb[i]) = [f \in Fields |-> x] BY <1>3 DEF ImageOf
  <2>3. \A y : <<>> \o <<y>> = <<y>> OBVIOUS
  <2>4. QED BY <1>1, <2>1, <2>2, <2>3
<1>11. Output!Next BY <1>8, <1>9, <1>10, FrameWritten
<1>12. AllWhole(dpb')
  <2>1. AllWhole(dpb) BY DEF OutInv, AllWhole, NotOutput
  <2>2. QED BY <2>1, OutputRemains, RemainsWhole
<1>13. OutInv' BY <1>1, <1>12 DEF OutInv, AllWhole, NotOutput
<1>14. QED BY <1>11, <1>13

LEMMA FlushingOut ==
  ASSUME IndInv, FrameInv, OutInv, FlushPurge \/ FlushDrain \/ FlushDone
  PROVE  OutInv' /\ Output!Next
<1>1. Flushing /\ stream' = stream /\ ~ Dropping /\ pc # "idle"
  BY DEF FlushPurge, FlushDrain, FlushDone, Flushing, Dropping
<1>2. ret # "halt" => ~ Second BY <1>1, NotSecond
<1>3. ret = "halt" => ~ InCall BY <1>1 DEF InCall, Busy, Flushing
<1>4. Awaited = NoPicture BY <1>1, <1>2, <1>3, AwaitedIs
<1>5. OneStorePerFrame BY DEF FrameInv, StoresKnown
<1>6. CASE FlushPurge
  <2>1. /\ RemoveUnused \/ (dpb' = dpb /\ last' = last)
        /\ ret' = ret /\ cur' = cur /\ outbuf' = outbuf /\ written' = <<>> /\ Flushing'
    BY <1>6 DEF FlushPurge, Flushing
  <2>2. Remains(dpb', last', dpb, last) BY <2>1, RemoveUnusedRemains, SameRemains
  <2>3. Waits(dpb') = Waits(dpb) BY <2>1, RemoveUnusedWaits
  <2>4. Awaited' = NoPicture
    <3>1. pc' # "idle" /\ (ret = "halt" => ~ InCall') BY <2>1 DEF InCall, Busy, Flushing
    <3>2. ret # "halt" => ~ Second' BY <1>1, <1>2, <2>1 DEF Second
    <3>3. QED BY <3>1, <3>2, AwaitedNext
  <2>5. QED BY <1>1, <1>4, <2>1, <2>2, <2>3, <2>4, QuietStep
<1>7. CASE FlushDrain
  <2>1. OutputOne /\ cur' = cur BY <1>7 DEF FlushDrain
  <2>2. Flushing' /\ (ret' = ret \/ ret' = "halt") BY <1>1, <2>1, OutputRemains DEF Flushing
  <2>3. Awaited' = NoPicture
    <3>1. pc' # "idle" /\ (ret' = "halt" => ~ InCall') BY <2>2 DEF InCall, Busy, Flushing
    <3>2. ret' # "halt" => ~ Second' BY <1>1, <1>2, <2>1, <2>2 DEF Second
    <3>3. QED BY <3>1, <3>2, AwaitedNext
  <2>4. QED BY <1>1, <1>4, <1>5, <2>1, <2>3, OutputOneOut
<1>8. CASE FlushDone
  <2>1. /\ dpb' = dpb /\ last' = last /\ pc' = ret /\ (ret # "halt" => cur' = cur)
        /\ outbuf' = outbuf /\ written' = <<>>
    BY <1>8 DEF FlushDone
  <2>2. pc' \in {"idrtail", "pair", "halt"} BY <2>1, IndInvParts DEF RestOK
  <2>3. Awaited' = NoPicture
    <3>1. pc' # "idle" /\ (pc' = "halt" => ~ InCall') BY <2>2 DEF InCall, Busy, Flushing
    <3>2. pc' # "halt" => ~ Second' BY <1>1, <1>2, <2>1 DEF Second
    <3>3. QED BY <3>1, <3>2, AwaitedNext
  <2>4. Remains(dpb', last', dpb, last) BY <2>1, SameRemains
  <2>5. QED BY <1>1, <1>4, <2>1, <2>3, <2>4, QuietStep
<1>9. QED BY <1>6, <1>7, <1>8

LEMMA MmcoAccepted ==
  ASSUME Accepted', Mmco1 \/ Mmco2 \/ Mmco3 \/ Mmco4 \/ Mmco5 \/ Mmco6
  PROVE  pc' = pc
<1>1. \A d, text : Fail(d, text) => err' = text BY DEF Fail
<1>2. CASE Mmco3
  <2>1. UNCHANGED pc \/ Fail(dpb, "field for long term marking not found")
    BY <1>2 DEF Mmco3
  <2>2. QED BY <1>1, <2>1 DEF Accepted
<1>3. CASE Mmco6
  <2>1. UNCHANGED pc \/ \E d : Fail(d, "Max. number of reference frames exceeded. Invalid stream.")
    BY <1>3 DEF Mmco6
  <2>2. QED BY <1>1, <2>1 DEF Accepted
<1>4. QED BY <1>2, <1>3 DEF Mmco1, Mmco2, Mmco4, Mmco5

LEMMA MmcoOut ==
  ASSUME IndInv, IndInv', FrameInv, OutInv, Accepted', Mmco
  PROVE  OutInv' /\ Output!Next
<1> DEFINE Ops == Mmco1 \/ Mmco2 \/ Mmco3 \/ Mmco4 \/ Mmco5 \/ Mmco6
<1>1. CASE Ops
  <2>1. /\ pc = "mmco" /\ last' = last /\ stream' = stream /\ outbuf' = outbuf
        /\ written' = <<>>
    BY <1>1 DEF Mmco1, Mmco2, Mmco3, Mmco4, Mmco5, Mmco6, Operation
  <2>2. InCall /\ cur \in Pictures /\ ~ Dropping
    BY <2>1, MateOfCur DEF InCall, Busy, Dropping
  <2>3. CurIs' = CurIs
    <3>1. cur' = cur \/ \E idx : cur' = [cur EXCEPT !.lt = TRUE, !.idx = idx]
      BY <1>1 DEF Mmco1, Mmco2, Mmco3, Mmco4, Mmco5, Mmco6
    <3>2. QED BY <2>2, <3>1 DEF CurIs, Pictures, PictureOf
  <2>4. Alike(dpb', dpb) BY <1>1, MmcoAlike
  <2>5. InCall'
    <3>1. pc' = pc BY <1>1, MmcoAccepted
    <3>2. QED BY <2>1, <3>1 DEF InCall, Busy
  <2>6. QED BY <2>1, <2>2, <2>3, <2>4, <2>5, CallStep
<1>2. CASE MmcoEnd /\ ~ mm5
  <2>1. /\ pc = "mmco" /\ pc' = "pair" /\ dpb' = dpb /\ last' = last /\ cur' = cur
        /\ stream' = stream /\ outbuf' = outbuf /\ written' = <<>>
    BY <1>2 DEF MmcoEnd
  <2>2. InCall /\ InCall' /\ CurIs' = CurIs /\ ~ Dropping
    BY <2>1 DEF InCall, Busy, CurIs, Dropping
  <2>3. Alike(dpb', dpb) BY <2>1, IndInvBuffer, OperationsAlike
  <2>4. QED BY <2>1, <2>2, <2>3, CallStep
<1>3. CASE MmcoEnd /\ mm5
  <2>1. /\ pc = "mmco" /\ Flush(dpb, "pair") /\ last' = last /\ outbuf' = outbuf
        /\ written' = <<>> /\ mm5
    BY <1>3 DEF MmcoEnd
  <2>2. InCall /\ pc # "idle" /\ ~ Dropping BY <2>1 DEF InCall, Busy, Dropping
  <2>3. ~ Second BY <2>1, <2>2 DEF FrameInv, CurKnown
  <2>4. Alike(dpb', dpb) /\ pc' = "purge" BY <2>1, IndInvBuffer, OperationsAlike, FlushAlike
  <2>5. ~ Second'
    <3>1. FrameInv' BY <1>3, Mmco5Frames
    <3>2. Second' /\ InCall' => pc' \in {"mmco", "pair", "trim", "room"}
      BY <3>1 DEF FrameInv, CurKnown
    <3>3. InCall' BY <2>1, <2>4 DEF InCall, Flushing, Flush
    <3>4. QED BY <2>4, <3>2, <3>3
  <2>6. Remains(dpb', last', dpb, last) /\ Waits(dpb') = Waits(dpb)
    BY <2>1, <2>4, MarkedRemains, AlikeWaits
  <2>7. QED BY <2>1, <2>2, <2>3, <2>4, <2>5, <2>6, AwaitedIs, AwaitedNext, QuietStep
<1>4. QED BY <1>1, <1>2, <1>3 DEF Mmco

LEMMA SlideOut ==
  ASSUME IndInv, IndInv', OutInv, Slide
  PROVE  OutInv' /\ Output!Next
<1>1. /\ InCall /\ InCall' /\ last' = last /\ CurIs' = CurIs /\ stream' = stream
      /\ outbuf' = outbuf /\ written' = <<>> /\ ~ Dropping
  BY DEF Slide, InCall, Busy, CurIs, Dropping
<1>2. QED BY <1>1, SlideAlike, CallStep

LEMMA TrimOut ==
  ASSUME IndInv, IndInv', FrameInv, OutInv, Trim
  PROVE  OutInv' /\ Output!Next
<1>1. /\ pc = "trim" /\ pc' = "room" /\ InCall /\ InCall' /\ cur' = cur /\ CurIs' = CurIs
      /\ stream' = stream /\ outbuf' = outbuf /\ written' = <<>> /\ ~ Dropping
  BY DEF Trim, InCall, Busy, CurIs, Dropping
<1>2. CASE ~ Second
  <2>1. RemoveUnused \/ (dpb' = dpb /\ last' = last) BY DEF Trim
  <2>2. Remains(dpb', last', dpb, last) BY <2>1, RemoveUnusedRemains, SameRemains
  <2>3. Waits(dpb') = Waits(dpb) BY <2>1, RemoveUnusedWaits
  <2>4. ~ Second' BY <1>1, <1>2 DEF Second
  <2>5. QED BY <1>1, <1>2, <2>2, <2>3, <2>4, AwaitedIs, AwaitedNext, QuietStep
<1>3. CASE Second
  <2>1. Unused = {} BY <1>1, <1>3, MateOut
  <2>2. dpb' = dpb /\ last' = last BY <2>1 DEF Trim
  <2>3. Alike(dpb', dpb) BY <2>2, IndInvBuffer, OperationsAlike
  <2>4. QED BY <1>1, <2>2, <2>3, CallStep
<1>4. QED BY <1>2, <1>3

LEMMA BumpOut ==
  ASSUME IndInv, FrameInv, OutInv, Bump
  PROVE  OutInv' /\ Output!Next
<1>1. /\ pc = "room" /\ cur' = cur /\ stream' = stream /\ OutputOne /\ ~ Dropping
  BY DEF Bump, Dropping
<1>2. ~ Second BY <1>1, MateOut DEF Bump
<1>3. ~ Second' /\ pc' # "idle" BY <1>1, <1>2, OutputRemains DEF Second
<1>4. OneStorePerFrame BY DEF FrameInv, StoresKnown
<1>5. QED BY <1>1, <1>2, <1>3, <1>4, AwaitedIs, AwaitedNext, OutputOneOut

(* The second field completes the frame in its store.                       *)
LEMMA PairOut ==
  ASSUME ~ Unpaired, IndInv, FrameInv, OutInv, Pair
  PROVE  OutInv' /\ Output!Next
<1>1. /\ pc = "pair" /\ pc' = "idle" /\ last' = 0 /\ stream' = stream /\ outbuf' = outbuf
      /\ written' = <<>> /\ ~ Dropping /\ IsSecondField /\ InCall /\ GoodPicture(cur)
      /\ cur.struct # "frame"
      /\ dpb' = UpdateLists([dpb EXCEPT ![last] = Insert(@, cur)])
  BY MateOfCur DEF Pair, InCall, Busy, IsSecondField, Dropping
<1>2. /\ dpb \in Buffers /\ last \in DOMAIN dpb /\ dpb[last] \in GoodStores /\ last # 0
      /\ dpb[last].used = {Opposite(cur.struct)}
  BY <1>1, IndInvBuffer, BufferElements DEF IsSecondField
<1>3. Second
  <2>1. ~ NoneWaits(dpb, last) BY <1>2 DEF NoneWaits
  <2>2. QED BY <1>1, <2>1 DEF FrameInv, FieldsKnown
<1>4. Awaited # NoPicture BY <1>1, <1>3, AwaitedIs
<1>5. dpb[last].id = cur.id
  <2>1. IsIn(Mate) BY <1>1, <1>2, <1>3 DEF FrameInv, FieldsKnown, IsOut, NoneWaits
  <2>2. QED BY <1>1, <2>1, MateOfCur DEF IsIn
<1>6. cur.id # NoId /\ ~ cur.out BY <1>1 DEF FrameInv, CurKnown
<1>7. /\ outbuf = Blank /\ ~ dpb[last].out
      /\ \A i \in NotOutput : i # last => dpb[i].id # NoId /\ dpb[i].used = Fields
  BY <1>2, <1>4 DEF OutInv
<1> DEFINE g == Insert(dpb[last], cur)
           d == [dpb EXCEPT ![last] = g]
<1>8. /\ g.id = cur.id /\ g.out = cur.out /\ g.used = Fields /\ g \in GoodStores
  BY <1>1, <1>2, JoinTraits, InsertGood
<1> HIDE DEF g
<1>9. /\ d \in Buffers /\ DOMAIN d = DOMAIN dpb /\ d[last] = g
      /\ \A i \in DOMAIN dpb : i # last => d[i] = dpb[i]
  BY <1>2, <1>8, ReplaceGood, BufferElements
<1>10. dpb' = UpdateLists(d) BY <1>1 DEF g
<1> HIDE DEF d
<1>11. Alike(dpb', d) BY <1>9, <1>10, UpdateListsAlike
<1>12. /\ DOMAIN dpb' = DOMAIN dpb
       /\ \A i \in DOMAIN dpb : /\ dpb'[i].id = d[i].id /\ dpb'[i].out = d[i].out
                                /\ dpb'[i].used = d[i].used
  BY <1>9, <1>11, TraitsTell DEF Alike
<1>13. ASSUME NEW i \in DOMAIN dpb
       PROVE  dpb'[i].id = dpb[i].id /\ (dpb'[i].out <=> dpb[i].out)
  <2>1. CASE i = last BY <1>5, <1>6, <1>7, <1>8, <1>9, <1>12, <2>1
  <2>2. CASE i # last BY <1>9, <1>12, <2>2
  <2>3. QED BY <2>1, <2>2
<1>14. Waits(dpb') = Waits(dpb) BY <1>12, <1>13 DEF Waits
<1>15. Pending' = Pending BY <1>1, <1>14, PendingParts DEF Waiters
<1>16. AllWhole(dpb')
  BY <1>6, <1>7, <1>8, <1>9, <1>12 DEF AllWhole, NotOutput
<1>17. Awaited' = NoPicture BY <1>1, <1>3, AwaitedNext DEF Second
<1>18. OutInv' BY <1>1, <1>7, <1>16, <1>17 DEF OutInv, AllWhole, NotOutput
<1>19. QED BY <1>1, <1>15, <1>18, NothingHappens

(* A picture that is output directly is written, or waits for its mate.     *)
LEMMA DirectOut ==
  ASSUME ~ Unpaired, IndInv, FrameInv, OutInv, DirectOutput
  PROVE  OutInv' /\ Output!Next
<1> DEFINE x == cur.id
<1>1. /\ pc = "room" /\ pc' = "idle" /\ dpb' = dpb /\ last' = last /\ stream' = stream
      /\ ~ cur.ref /\ ~ Dropping /\ InCall /\ GoodPicture(cur)
  BY MateOfCur DEF DirectOutput, GoesOutDirectly, InCall, Busy, Dropping
<1>2. x # NoId /\ x \in Ids /\ cur.struct \in Views
  BY <1>1, PictureFields DEF FrameInv, CurKnown, GoodPicture, Pictures, PictureOf
<1>3. Absent(x) /\ last = 0
  <2>1. CASE Second BY <1>1, <2>1, MateOut DEF NoneWaits
  <2>2. CASE ~ Second
    BY <1>1, <1>2, <2>2 DEF FrameInv, CurNew, FieldsKnown, NoneWaits
  <2>3. QED BY <2>1, <2>2
<1>4. x \notin Waits(dpb) /\ Waits(dpb') = Waits(dpb) BY <1>1, <1>3 DEF Absent, Waits
<1>5. Awaited' = stream.first BY <1>1, AwaitedNext
<1>6. AllWhole(dpb)
  <2>1. \A i \in DOMAIN dpb : i # last BY <1>3, IndInvBuffer
  <2>2. QED BY <2>1 DEF OutInv, AllWhole, NotOutput
<1>7. \A i \in NotOutput' : dpb'[i].id # NoId /\ dpb'[i].used = Fields
  BY <1>1, <1>6 DEF AllWhole, NotOutput
<1>8. CASE cur.struct = "frame"
  <2>1. ~ Second /\ stream.first = NoPicture BY <1>1, <1>8 DEF FrameInv, CurKnown, Second
  <2>2. outbuf = Blank BY <1>1, <2>1, AwaitedIs DEF OutInv
  <2>3. outbuf' = Blank /\ written' = PendingDirect \o <<[f \in Fields |-> x]>>
    BY <1>8 DEF DirectOutput
  <2>4. PendingDirect = <<>> BY <2>2 DEF PendingDirect
  <2>5. \A y : <<>> \o <<y>> = <<y>> OBVIOUS
  <2>6. written' = <<[f \in Fields |-> x]>> BY <2>3, <2>4, <2>5
  <2>7. Pending' = Pending \ {x} BY <1>4, <2>2, <2>3, PendingParts
  <2>8. OutInv' BY <1>5, <1>7, <2>1, <2>3 DEF OutInv
  <2>9. QED BY <1>1, <1>2, <2>6, <2>7, <2>8, FrameWritten
<1>9. CASE cur.struct # "frame"
  <2> DEFINE t == cur.struct
             clash == outbuf[t] # NoId
             buf == [(IF clash THEN Blank ELSE outbuf) EXCEPT ![t] = x]
             whole == \A f \in Fields : buf[f] # NoId
  <2>1. t \in Fields /\ Opposite(t) \in Fields /\ Opposite(t) # t /\ Fields = {t, Opposite(t)}
    BY <1>2, <1>9 DEF Views, Fields, Opposite
  <2>2. /\ written' = (IF clash THEN PendingDirect ELSE <<>>)
                        \o (IF whole THEN <<buf>> ELSE <<>>)
        /\ outbuf' = IF whole THEN Blank ELSE buf
    BY <1>9, Zenon DEF DirectOutput
  <2>3. CASE ~ Second
    <3>1. outbuf = Blank BY <1>1, <2>3, AwaitedIs DEF OutInv
    <3>2. ~ clash /\ buf = [Blank EXCEPT ![t] = x] BY <2>1, <3>1 DEF Blank
    <3>3. ~ whole
      <4>1. buf[Opposite(t)] = NoId BY <2>1, <3>2 DEF Blank
      <4>2. QED BY <2>1, <4>1
    <3>4. /\ stream.first # NoPicture /\ stream.first.struct = t /\ stream.first.id = x
      BY <1>1, <1>9, <2>3 DEF FrameInv, CurKnown, Second
    <3> HIDE DEF buf, clash, whole
    <3>5. outbuf' = [Blank EXCEPT ![t] = x] /\ written' = <<>> \o <<>> BY <2>2, <3>2, <3>3
    <3>6. written' = <<>> BY <3>5
    <3>7. Waiters' = {x} BY <1>2, <2>1, <3>5 DEF Waiters, Blank
    <3>8. x \notin Pending /\ Pending' = Pending \cup {x} BY <1>4, <3>1, <3>7, PendingParts
    <3>9. OutInv' BY <1>1, <1>3, <1>5, <1>7, <3>4, <3>5 DEF OutInv
    <3>10. QED BY <1>1, <1>2, <3>6, <3>8, <3>9, FrameAccepted
  <2>4. CASE Second
    <3>1. outbuf = [Blank EXCEPT ![Opposite(t)] = x]
      <4>1. Awaited # NoPicture /\ Awaited.struct = Opposite(t) /\ Awaited.id = x
        BY <1>1, <2>4, AwaitedIs
      <4>2. QED BY <1>3, <4>1 DEF OutInv
    <3>2. outbuf[t] = NoId /\ outbuf[Opposite(t)] = x BY <2>1, <3>1 DEF Blank
    <3>3. ~ clash /\ buf = [outbuf EXCEPT ![t] = x] BY <3>2
    <3>4. buf = [f \in Fields |-> x] BY <2>1, <3>1, <3>3 DEF Blank
    <3>5. whole BY <1>2, <3>4
    <3> HIDE DEF buf, clash, whole
    <3>6. outbuf' = Blank /\ written' = <<>> \o <<buf>> BY <2>2, <3>3, <3>5
    <3>7. \A y : <<>> \o <<y>> = <<y>> OBVIOUS
    <3>8. written' = <<[f \in Fields |-> x]>> BY <3>4, <3>6, <3>7
    <3>9. Waiters = {x} BY <1>2, <2>1, <3>2 DEF Waiters
    <3>10. Pending' = Pending \ {x} BY <1>4, <3>6, <3>9, PendingParts
    <3>11. OutInv' BY <1>5, <1>7, <2>4, <3>6 DEF OutInv, Second
    <3>12. QED BY <1>1, <1>2, <3>8, <3>10, <3>11, FrameWritten
  <2>5. QED BY <2>3, <2>4
<1>10. QED BY <1>8, <1>9

LEMMA StoreOut ==
  ASSUME ~ Unpaired, IndInv, FrameInv, OutInv, Accepted', Store
  PROVE  OutInv' /\ Output!Next
<1> DEFINE g == Insert(EmptyStore(cur.id), cur)
           e == Append(dpb, g)
           d == UpdateLists(e)
           n == Len(dpb) + 1
           x == cur.id
<1>1. /\ pc = "room" /\ ~ Full /\ stream' = stream /\ outbuf' = outbuf /\ written' = <<>>
      /\ InCall /\ GoodPicture(cur) /\ ~ Dropping
      /\ dpb \in Buffers /\ Len(dpb) \in Nat /\ DOMAIN dpb = 1 .. Len(dpb)
  BY IndInvBuffer, MateOfCur DEF Store, InCall, Busy, Dropping
<1>2. ~ Second BY <1>1, MateOut
<1>3. Awaited = NoPicture /\ outbuf = Blank BY <1>1, <1>2, AwaitedIs DEF OutInv
<1>4. /\ x # NoId => Absent(x) /\ ~ cur.out
      /\ x = NoId => cur.out /\ cur.struct = "frame"
      /\ IF cur.struct = "frame" THEN stream.first = NoPicture
         ELSE stream.first # NoPicture /\ stream.first.struct = cur.struct
  BY <1>1, <1>2 DEF FrameInv, CurKnown, CurNew, Second
<1>5. /\ last' = IF cur.struct = "frame" THEN 0 ELSE Len(d)
      /\ dpb' = d /\ pc' = "idle"
  <2>1. \A b, text : Fail(b, text) => err' = text BY DEF Fail
  <2>2. \/ Fail(dpb, "duplicate frame_num in short-term reference picture buffer")
        \/ Fail(d, "Max. number of reference frames exceeded. Invalid stream.")
        \/ /\ last' = IF cur.struct = "frame" THEN 0 ELSE Len(d)
           /\ dpb' = d /\ pc' = "idle"
    BY DEF Store
  <2> HIDE DEF d
  <2>3. QED BY <2>1, <2>2 DEF Accepted
<1>6. /\ g.id = x /\ g.out = cur.out /\ g \in GoodStores
      /\ g.used = IF cur.struct = "frame" THEN Fields ELSE {cur.struct}
  BY <1>1, NewTraits, InsertGood
<1> HIDE DEF g
<1>7. /\ e \in Buffers /\ Len(e) = n /\ e[n] = g /\ \A i \in DOMAIN dpb : e[i] = dpb[i]
  BY <1>1, <1>6, AppendProperties DEF Buffers
<1> HIDE DEF e
<1>8. d \in Buffers /\ Len(d) = n /\ Alike(d, e)
  BY <1>7, BothListsGood, UpdateListsAlike
<1> HIDE DEF d
<1>9. /\ DOMAIN d = DOMAIN e /\ DOMAIN d = 1 .. n /\ n \in DOMAIN d /\ n # 0
      /\ \A i \in DOMAIN d : i # n <=> i \in DOMAIN dpb
  BY <1>1, <1>7, <1>8, BufferElements DEF Alike
<1>10. /\ d[n].id = x /\ d[n].out = cur.out
       /\ d[n].used = IF cur.struct = "frame" THEN Fields ELSE {cur.struct}
       /\ \A i \in DOMAIN dpb : /\ d[i].id = dpb[i].id /\ d[i].out = dpb[i].out
                                /\ d[i].used = dpb[i].used
  <2>1. \A i \in DOMAIN d : Traits(d[i]) = Traits(e[i]) BY <1>8, <1>9 DEF Alike
  <2>2. \A i \in DOMAIN d : d[i].id = e[i].id /\ d[i].out = e[i].out /\ d[i].used = e[i].used
    BY <2>1, TraitsTell
  <2>3. \A i \in DOMAIN dpb : i \in DOMAIN d BY <1>1, <1>9
  <2>4. QED BY <1>6, <1>7, <1>9, <2>2, <2>3
<1>11. Waits(d) = Waits(dpb) \cup (IF cur.out THEN {} ELSE {x})
  <2>1. \A i \in DOMAIN d : i = n \/ i \in DOMAIN dpb BY <1>9
  <2>2. DOMAIN dpb \subseteq DOMAIN d BY <1>1, <1>9
  <2>3. QED BY <1>9, <1>10, <2>1, <2>2 DEF Waits
<1>12. Pending' = Pending \cup (IF cur.out THEN {} ELSE {x})
  BY <1>1, <1>5, <1>11, PendingParts DEF Waiters
<1>13. Output!Next
  <2>1. CASE x = NoId BY <1>1, <1>4, <1>12, <2>1, NothingHappens
  <2>2. CASE x # NoId
    <3>1. x \in Ids BY <1>1, <2>2, PictureFields
    <3>2. x \notin Pending BY <1>3, <1>4, <2>2, PendingParts DEF Absent, Waits
    <3>3. QED BY <1>1, <1>4, <1>12, <2>2, <3>1, <3>2, FrameAccepted
  <2>3. QED BY <2>1, <2>2
<1>14. Awaited' = stream.first BY <1>1, <1>5, AwaitedNext
<1>15. \A i \in DOMAIN dpb : ~ d[i].out => d[i].id # NoId /\ d[i].used = Fields
  BY <1>3, <1>10 DEF OutInv, NotOutput
<1>16. OutInv'
  <2>1. CASE cur.struct = "frame"
    <3>1. ~ d[n].out => d[n].id # NoId /\ d[n].used = Fields BY <1>4, <1>10, <2>1
    <3>2. \A i \in NotOutput' : dpb'[i].id # NoId /\ dpb'[i].used = Fields
      BY <1>5, <1>9, <1>15, <3>1 DEF NotOutput
    <3>3. QED BY <1>1, <1>3, <1>4, <1>14, <2>1, <3>2 DEF OutInv
  <2>2. CASE cur.struct # "frame"
    <3>1. last' = n /\ ~ d[n].out BY <1>4, <1>5, <1>8, <1>10, <2>2
    <3>2. \A i \in NotOutput' : i # n => dpb'[i].id # NoId /\ dpb'[i].used = Fields
      BY <1>5, <1>9, <1>15 DEF NotOutput
    <3>3. Awaited' # NoPicture BY <1>4, <1>14, <2>2
    <3>4. outbuf' = Blank BY <1>1, <1>3
    <3>5. QED BY <1>5, <1>9, <3>1, <3>2, <3>3, <3>4 DEF OutInv
  <2>3. QED BY <2>1, <2>2
<1>17. QED BY <1>13, <1>16

-----------------------------------------------------------------------------
LEMMA OutInit == Init => OutInv /\ Output!Init
<1>1. SUFFICES ASSUME Init PROVE OutInv /\ Output!Init OBVIOUS
<1>2. /\ dpb = <<>> /\ outbuf = Blank /\ pc = "idle" /\ written = <<>>
      /\ stream.first = NoPicture
  BY <1>1 DEF Init
<1>3. OutInv BY <1>2, AwaitedIs DEF OutInv, NotOutput
<1>4. Pending = {} BY <1>2, PendingParts DEF Waits
<1>5. ~ Dropping BY <1>2 DEF Dropping
<1>6. Output!Init BY <1>2, <1>4, <1>5 DEF Output!Init, Dropping
<1>7. QED BY <1>3, <1>6

LEMMA OutStutters ==
  ASSUME OutInv, UNCHANGED vars
  PROVE  OutInv' /\ UNCHANGED Output!vars
<1>1. UNCHANGED <<dpb, last, outbuf, pc, ret, cur, written, stream>> BY DEF vars
<1>2. Awaited' = Awaited BY <1>1 DEF Awaited, InCall, Busy, Flushing, Second, Mate
<1>3. OutInv' BY <1>1, <1>2 DEF OutInv, NotOutput
<1>4. UNCHANGED Output!vars BY <1>1 DEF Output!vars, Pending, NotOutput
<1>5. QED BY <1>3, <1>4

LEMMA OutKeeps ==
  ASSUME ~ Unpaired, IndInv, IndInv', FrameInv, OutInv, Accepted', [Next]_vars
  PROVE  OutInv' /\ [Output!Next]_(Output!vars)
<1>1. CASE UNCHANGED vars BY <1>1, OutStutters
<1>2. CASE Receive BY <1>2, ReceiveOut
<1>3. CASE EndOfStream \/ IdrStart \/ IdrTail BY <1>3, IdrOut
<1>4. CASE FlushPurge \/ FlushDrain \/ FlushDone BY <1>4, FlushingOut
<1>5. CASE Mmco BY <1>5, MmcoOut
<1>6. CASE Pair BY <1>6, PairOut
<1>7. CASE Slide BY <1>7, SlideOut
<1>8. CASE Trim BY <1>8, TrimOut
<1>9. CASE DirectOutput BY <1>9, DirectOut
<1>10. CASE Bump BY <1>10, BumpOut
<1>11. CASE Store BY <1>11, StoreOut
<1>12. CASE Spin \/ Exited BY <1>12, OutStutters DEF Spin, Exited
<1>13. QED
  BY <1>1, <1>2, <1>3, <1>4, <1>5, <1>6, <1>7, <1>8, <1>9, <1>10, <1>11, <1>12 DEF Next, Work

(* While the stream is accepted the buffer implements PictureOutput but for *)
(* its liveness, whatever the operations, when no field stays alone.        *)
THEOREM FramesWrittenWhole ==
  ASSUME ~ Unpaired
  PROVE  Spec /\ []Accepted => Output!Accounted
<1> DEFINE Inv == IndInv /\ EmptyInv /\ RoomInv /\ FrameInv /\ OutInv
<1>1. Init => Inv /\ Output!Init
  BY InitIndInv, EmptyInit, FrameInit, OutInit DEF Init, RoomInv
<1>2. Inv /\ Accepted' /\ [Next]_vars => Inv' /\ [Output!Next]_(Output!vars)
  <2>1. FieldsInOrder BY DEF FieldsInOrder
  <2>2. QED BY <2>1, NextKeeps, EmptyKeeps, RoomKeeps, FrameKeeps, OutKeeps
<1> HIDE DEF Inv
<1>3. QED BY <1>1, <1>2, PTL DEF Spec, Output!Accounted

(* Without operations no operation fails.                                   *)
LEMMA NoFailedOperation ==
  ASSUME Mmcos = {}, err # "field for long term marking not found", [Next]_vars
  PROVE  err' # "field for long term marking not found"
<1>1. \A d, text : Fail(d, text) => err' = text BY DEF Fail
<1>2. ~ Operation(3) BY DEF Operation
<1>3. CASE err' = err BY <1>3
<1>4. CASE FlushDrain \/ Bump
  BY <1>1, <1>4 DEF FlushDrain, Bump, OutputOne
<1>5. CASE Store BY <1>1, <1>5 DEF Store
<1>6. CASE Mmco6 BY <1>1, <1>6 DEF Mmco6
<1>7. Receive \/ UNCHANGED vars \/ Exited \/ Spin => err' = err
  <2>1. \A p, s : Started(p, s) => err' = err BY DEF Started
  <2>2. ReceiveIdr => err' = err BY <2>1, ZenonT(40) DEF ReceiveIdr
  <2>3. ReceivePicture => err' = err BY <2>1, ZenonT(40) DEF ReceivePicture
  <2>4. ReceiveSecondField => err' = err BY <2>1, ZenonT(40) DEF ReceiveSecondField
  <2>5. FillFrameNumGap => err' = err BY <2>1, ZenonT(40) DEF FillFrameNumGap
  <2>6. QED BY <2>2, <2>3, <2>4, <2>5 DEF Receive, vars, Exited, Spin
<1>8. EndOfStream \/ IdrStart \/ IdrTail \/ FlushPurge \/ FlushDone \/ Mmco1 \/ Mmco2 \/ Mmco4
        \/ Mmco5 \/ MmcoEnd \/ Pair \/ Slide \/ Trim \/ DirectOutput => err' = err
  BY DEF EndOfStream, IdrStart, IdrTail, FlushPurge, FlushDone, Mmco1, Mmco2, Mmco4, Mmco5,
         MmcoEnd, Pair, Slide, Trim, DirectOutput
<1>9. ~ Mmco3 BY <1>2 DEF Mmco3
<1>10. QED
  BY <1>3, <1>4, <1>5, <1>6, <1>7, <1>8, <1>9 DEF Next, Work, Mmco

(* Under the sliding window alone the only error() is that of the order of  *)
(* output, so that the buffer implements PictureOutput, but for its         *)
(* liveness, with no such condition.                                        *)
THEOREM WindowedFramesWritten ==
  ASSUME Windowed, ~ Unpaired
  PROVE  Spec => Output!Accounted
<1> DEFINE Found == err # "field for long term marking not found"
<1>1. Spec => []LegalStreamAccepted BY WindowedStreamsAccepted
<1>2. Init => Found BY DEF Init
<1>3. Found /\ [Next]_vars => Found' BY NoFailedOperation DEF Windowed
<1>4. IndInv /\ LegalStreamAccepted /\ Found => Accepted
  BY IndInvParts DEF RestOK, Errors, LegalStreamAccepted, Accepted
<1>5. Spec /\ []Accepted => Output!Accounted BY FramesWrittenWhole
<1> HIDE DEF Found
<1>6. Spec => []IndInv BY Invariant
<1>7. QED BY <1>1, <1>2, <1>3, <1>4, <1>5, <1>6, PTL DEF Spec
=============================================================================
