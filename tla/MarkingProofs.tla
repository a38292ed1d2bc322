----------------------------- MODULE MarkingProofs -----------------------------
(***************************************************************************)
(* Of the marking of references in Dpb, for every value of the constants:  *)
(* the loop that makes room finds a frame to output, the lists of          *)
(* references agree with the marks between two calls, whatever operations  *)
(* the stream gives no more frames are references than the sequence        *)
(* allows, and no two stores hold the same long-term index, but for two of *)
(* the same frame_num that hold one field each, of different parities.     *)
(* All rest on the invariant of DpbProofs.                                 *)
(***************************************************************************)
EXTENDS DpbProofs, FiniteSetTheorems

(* In the loop a full buffer holds no frame that nobody needs.              *)
RoomInv == pc = "room" /\ Full => Unused = {}

(* The steps after which the loop goes on.                                  *)
LEMMA RoomSteps ==
  ASSUME IndInv, Next, pc' = "room"
  PROVE  Trim \/ Bump \/ Spin
<1>1. Next => Receive \/ EndOfStream \/ Work \/ Exited BY DEF Next
<1>2. ~ Receive
  BY DEF Receive, ReceiveIdr, ReceivePicture, ReceiveSecondField, FillFrameNumGap, Started
<1>3. ~ EndOfStream /\ ~ Exited BY DEF EndOfStream, Exited, Flush, vars
<1>4. ~ Mmco
  BY DEF Mmco, Mmco1, Mmco2, Mmco3, Mmco4, Mmco5, Mmco6, MmcoEnd, Operation, Fail, Flush
<1>5. ~ IdrStart /\ ~ IdrTail /\ ~ FlushPurge BY DEF IdrStart, IdrTail, FlushPurge, Flush
<1>6. ~ FlushDrain
  BY DEF FlushDrain, OutputOne, Fail, Flush
<1>7. ~ FlushDone
  <2>1. ret \in {"idrtail", "pair", "halt"} BY DEF IndInv, TypeOK
  <2>2. QED BY <2>1 DEF FlushDone
<1>8. ~ Pair /\ ~ Slide /\ ~ DirectOutput BY DEF Pair, Slide, DirectOutput
<1>9. ~ Store BY DEF Store, Fail, Flush
<1>10. QED BY <1>1, <1>2, <1>3, <1>4, <1>5, <1>6, <1>7, <1>8, <1>9 DEF Work

(* remove_unused_frame_from_dpb was called once before the loop.            *)
LEMMA TrimMakesRoom ==
  ASSUME IndInv, Trim
  PROVE  RoomInv'
<1>1. dpb \in Buffers /\ Len(dpb) \in Nat BY IndInvParts, BufferElements DEF BufferOK
<1>2. CASE Full /\ Unused # {}
  <2>1. PICK i \in Unused : dpb' = RemoveAt(dpb, i)
    BY <1>2 DEF Trim, RemoveUnused, FirstOf
  <2>2. i \in DOMAIN dpb BY DEF Unused
  <2>3. Len(dpb') = Len(dpb) - 1 BY <1>1, <2>1, <2>2, RemoveGood
  <2>4. QED BY <1>1, <1>2, <2>3, DpbSizeAssumption DEF RoomInv, Full
<1>3. CASE ~ (Full /\ Unused # {})
  <2>1. dpb' = dpb BY <1>3 DEF Trim
  <2>2. QED BY <1>3, <2>1 DEF RoomInv, Full, Unused
<1>4. QED BY <1>2, <1>3

(* A frame that was written leaves the buffer unless it is a reference.     *)
LEMMA BumpMakesRoom ==
  ASSUME IndInv, RoomInv, Bump, pc' = "room"
  PROVE  RoomInv'
<1>1. dpb \in Buffers /\ Len(dpb) \in Nat BY IndInvParts, BufferElements DEF BufferOK
<1>2. Full /\ Unused = {} BY DEF Bump, RoomInv
<1>3. PICK i \in NotOutput :
        LET d == [dpb EXCEPT ![i] = AfterWrite(@)]
        IN IF UsedForReference(d[i]) THEN dpb' = d ELSE dpb' = RemoveAt(d, i)
  BY DEF Bump, OutputOne, Fail, Flush
<1> DEFINE d == [dpb EXCEPT ![i] = AfterWrite(dpb[i])]
<1>4. i \in DOMAIN dpb /\ dpb[i] \in GoodStores BY <1>1, BufferElements DEF NotOutput
<1>5. d \in Buffers /\ Len(d) = Len(dpb) /\ DOMAIN d = DOMAIN dpb
  BY <1>1, <1>4, AfterWriteGood, ReplaceGood, BufferElements
<1>6. CASE UsedForReference(d[i])
  <2>1. dpb' = d BY <1>3, <1>6
  <2>2. ASSUME NEW j \in DOMAIN d PROVE ~ (d[j].out /\ ~ UsedForReference(d[j]))
    <3>1. CASE j = i BY <1>6, <3>1
    <3>2. CASE j # i BY <1>2, <1>5, <3>2 DEF Unused
    <3>3. QED BY <3>1, <3>2
  <2> HIDE DEF d
  <2>3. QED BY <2>1, <2>2 DEF RoomInv, Unused
<1>7. CASE ~ UsedForReference(d[i])
  <2>1. dpb' = RemoveAt(d, i) BY <1>3, <1>7
  <2> HIDE DEF d
  <2>2. Len(dpb') = Len(dpb) - 1 BY <1>4, <1>5, <2>1, RemoveGood
  <2>3. QED BY <1>1, <1>2, <2>2, DpbSizeAssumption DEF RoomInv, Full
<1>8. QED BY <1>6, <1>7

LEMMA RoomKeeps == IndInv /\ RoomInv /\ [Next]_vars => RoomInv'
<1>1. SUFFICES ASSUME IndInv, RoomInv, [Next]_vars, pc' = "room" PROVE RoomInv'
  BY DEF RoomInv
<1>2. CASE UNCHANGED vars BY <1>1, <1>2 DEF vars, RoomInv, Full, Unused
<1>3. CASE Spin BY <1>1, <1>2, <1>3 DEF Spin
<1>4. CASE Trim BY <1>1, <1>4, TrimMakesRoom
<1>5. CASE Bump BY <1>1, <1>5, BumpMakesRoom
<1>6. QED BY <1>1, <1>2, <1>3, <1>4, <1>5, RoomSteps

(* When nothing is left to output every store is a reference.               *)
LEMMA HangMeansOverLimit == IndInv /\ RoomInv => HangsOnlyOverLimit
<1>1. SUFFICES ASSUME IndInv, RoomInv, Hangs PROVE OverLimit
  BY DEF HangsOnlyOverLimit
<1>2. Full /\ Unused = {} /\ NotOutput = {} BY <1>1 DEF Hangs, RoomInv
<1>3. cur.ref BY <1>1, <1>2 DEF Hangs, GoesOutDirectly
<1>4. dpb \in Buffers /\ Len(dpb) \in Nat /\ DOMAIN dpb = 1 .. Len(dpb)
  BY <1>1, IndInvParts, BufferElements DEF BufferOK
<1>5. RefFrames(dpb) = 1 .. Len(dpb)
  BY <1>2, <1>4 DEF RefFrames, Unused, NotOutput
<1>6. Cardinality(RefFrames(dpb)) = DpbSize
  BY <1>2, <1>4, <1>5, FS_Interval, DpbSizeAssumption DEF Full
<1>7. DpbSize >= MaxRef BY DpbSizeAssumption, NumRefFramesAssumption DEF MaxRef
<1>8. QED BY <1>3, <1>6, <1>7 DEF OverLimit

(* store_picture_in_dpb never hangs on a stream within its limits: when the *)
(* loop finds nothing to output, the picture is a reference and all stores  *)
(* of the buffer hold references, at least as many as the sequence allows.  *)
THEOREM RoomWithinLimit == Spec => []HangsOnlyOverLimit
<1>1. Init => RoomInv BY DEF Init, RoomInv
<1>2. QED BY <1>1, Invariant, RoomKeeps, HangMeansOverLimit, PTL DEF Spec

-----------------------------------------------------------------------------
(* fs_ref and fs_ltref.                                                     *)

Fresh(fs) == (fs.short <=> IsShortTerm(fs)) /\ (fs.long <=> IsLongTerm(fs))
AllFresh == \A i \in DOMAIN dpb : Fresh(dpb[i])

(* Only the marking of a reference picture leaves a list behind the marks   *)
(* until the picture is stored.                                             *)
FreshInv ==
  /\ pc = "idle" \/ (pc \in {"pair", "trim", "room"} /\ ~ cur.ref) => AllFresh
  /\ Flushing /\ ret # "halt" => cur.ref

LEMMA UpdateFresh ==
  ASSUME NEW d \in Buffers
  PROVE  \A i \in DOMAIN UpdateLists(d) : Fresh(UpdateLists(d)[i])
<1>1. \A fs \in Stores : \A b, c \in BOOLEAN :
        LET new == [[fs EXCEPT !.short = b] EXCEPT !.long = c]
        IN  /\ new.short = b /\ new.long = c
            /\ new.used = fs.used /\ new.pref = fs.pref /\ new.plt = fs.plt
  BY DEF Stores, StoreOf
<1>2. DOMAIN UpdateLists(d) = DOMAIN d
  BY DEF UpdateLists, UpdateRefList, UpdateLtRefList
<1>3. SUFFICES ASSUME NEW i \in DOMAIN d PROVE Fresh(UpdateLists(d)[i])
  BY <1>2
<1>4. d[i] \in Stores BY BufferElements DEF GoodStores
<1> DEFINE one == [d[i] EXCEPT !.short = IsShortTerm(d[i])]
           new == [one EXCEPT !.long = IsLongTerm(one)]
<1>5. UpdateLists(d)[i] = new
  BY DEF UpdateLists, UpdateRefList, UpdateLtRefList
<1>6. IsShortTerm(d[i]) \in BOOLEAN /\ IsLongTerm(one) \in BOOLEAN
  BY DEF IsShortTerm, IsLongTerm
<1>7. one.used = d[i].used /\ one.pref = d[i].pref /\ one.plt = d[i].plt
  BY <1>4 DEF Stores, StoreOf
<1>8. /\ new.short = IsShortTerm(d[i]) /\ new.long = IsLongTerm(one)
      /\ new.used = d[i].used /\ new.pref = d[i].pref /\ new.plt = d[i].plt
  BY <1>1, <1>4, <1>6
<1> HIDE DEF one, new
<1>9. IsShortTerm(new) = IsShortTerm(d[i]) /\ IsLongTerm(new) = IsLongTerm(one)
  BY <1>7, <1>8 DEF IsShortTerm, IsLongTerm, PicturesOf
<1>10. QED BY <1>5, <1>8, <1>9 DEF Fresh

LEMMA AfterWriteFresh ==
  ASSUME NEW fs \in GoodStores, Fresh(fs)
  PROVE  Fresh(AfterWrite(fs))
<1>1. fs \in Stores BY DEF GoodStores
<1>2. /\ fs.used \in SUBSET Fields /\ fs.pref \in SUBSET Views /\ fs.plt \in SUBSET Views
      /\ fs.ref \subseteq fs.used /\ fs.lt \subseteq fs.used
  BY <1>1 DEF GoodStores, Stores, StoreOf
<1>3. CASE fs.used = Fields
  <2>1. /\ AfterWrite(fs).used = fs.used /\ AfterWrite(fs).pref = fs.pref
        /\ AfterWrite(fs).plt = fs.plt /\ AfterWrite(fs).short = fs.short
        /\ AfterWrite(fs).long = fs.long
    BY <1>1, <1>3 DEF AfterWrite, Stores, StoreOf
  <2>2. QED BY <2>1 DEF Fresh, IsShortTerm, IsLongTerm, PicturesOf
<1>4. CASE fs.used # Fields
  <2>1. ~ FrameMbsOnly BY <1>4 DEF GoodStores
  <2>2. fs.pref = fs.ref /\ fs.plt = fs.lt
    <3>1. /\ "frame" \in fs.pref <=> fs.ref = Fields
          /\ "frame" \in fs.plt <=> fs.lt = Fields
          /\ fs.pref \cap Fields = fs.ref /\ fs.plt \cap Fields = fs.lt
      BY <2>1 DEF GoodStores, BitsAgree
    <3>2. fs.ref # Fields /\ fs.lt # Fields BY <1>2, <1>4
    <3>3. QED BY <1>2, <3>1, <3>2 DEF Fields, Views
  <2>3. ~ (Fields \subseteq fs.pref) /\ ~ (Fields \subseteq fs.plt)
    BY <1>2, <1>4, <2>2
  <2>4. "frame" \notin fs.pref /\ "frame" \notin fs.plt BY <1>2, <2>2 DEF Fields
  <2>5. /\ AfterWrite(fs).used = Fields
        /\ AfterWrite(fs).pref = fs.pref \ {"frame"} /\ AfterWrite(fs).plt = fs.plt \ {"frame"}
        /\ AfterWrite(fs).short = fs.short /\ AfterWrite(fs).long = fs.long
    BY <1>1, <1>4, <2>3 DEF AfterWrite, FillUnpaired, Combined, Stores, StoreOf
  <2>6. AfterWrite(fs).pref = fs.pref /\ AfterWrite(fs).plt = fs.plt
    BY <2>4, <2>5
  <2>7. IsShortTerm(AfterWrite(fs)) <=> IsShortTerm(fs)
    BY <1>2, <2>2, <2>5, <2>6 DEF IsShortTerm, PicturesOf, Fields
  <2>8. IsLongTerm(AfterWrite(fs)) <=> IsLongTerm(fs)
    BY <1>2, <2>2, <2>5, <2>6 DEF IsLongTerm, PicturesOf, Fields
  <2>9. QED BY <2>5, <2>7, <2>8 DEF Fresh
<1>5. QED BY <1>3, <1>4

(* What is left in the buffer was there before: the stores behind the one   *)
(* that leaves move up.                                                     *)
LEMMA RemoveElementAt ==
  ASSUME NEW d \in Buffers, NEW i \in DOMAIN d, NEW j \in DOMAIN RemoveAt(d, i)
  PROVE  LET k == IF j < i THEN j ELSE j + 1
         IN  /\ j \in 1 .. Len(d) - 1 /\ k \in DOMAIN d
             /\ RemoveAt(d, i)[j] = d[k]
<1> DEFINE front == SubSeq(d, 1, i - 1)
           back == SubSeq(d, i + 1, Len(d))
<1>1. i \in 1 .. Len(d) /\ Len(d) \in Nat /\ DOMAIN d = 1 .. Len(d) BY BufferElements
<1>2. \A k \in 1 .. Len(d) : d[k] \in GoodStores BY <1>1, BufferElements
<1>3. /\ front \in Seq(GoodStores) /\ Len(front) = i - 1
      /\ \A k \in 1 .. i - 1 : front[k] = d[k]
  BY <1>1, <1>2, SubSeqProperties
<1>4. /\ back \in Seq(GoodStores) /\ Len(back) = Len(d) - i
      /\ \A k \in 1 .. Len(d) - i : back[k] = d[i + k]
  BY <1>1, <1>2, SubSeqProperties
<1>5. RemoveAt(d, i) = front \o back BY DEF RemoveAt
<1> HIDE DEF front, back
<1>6. j \in 1 .. Len(d) - 1
  BY <1>1, <1>3, <1>4, <1>5, RemoveGood, BufferElements
<1>7. CASE j <= i - 1
  <2>1. RemoveAt(d, i)[j] = d[j] BY <1>1, <1>3, <1>4, <1>5, <1>6, <1>7, ConcatProperties
  <2>2. QED BY <1>1, <1>6, <1>7, <2>1
<1>8. CASE j > i - 1
  <2>1. RemoveAt(d, i)[j] = back[j - (i - 1)]
    BY <1>1, <1>3, <1>4, <1>5, <1>6, <1>8, ConcatProperties
  <2>2. j - (i - 1) \in 1 .. Len(d) - i BY <1>1, <1>6, <1>8
  <2>3. back[j - (i - 1)] = d[j + 1] /\ j + 1 \in 1 .. Len(d)
    BY <1>1, <1>4, <1>6, <2>2
  <2>4. QED BY <1>1, <1>6, <1>8, <2>1, <2>3
<1>9. QED BY <1>1, <1>6, <1>7, <1>8

LEMMA RemoveElements ==
  ASSUME NEW d \in Buffers, NEW i \in DOMAIN d, NEW j \in DOMAIN RemoveAt(d, i)
  PROVE  \E k \in DOMAIN d : RemoveAt(d, i)[j] = d[k]
BY RemoveElementAt

(* The steps that store a reference or that start from a buffer at rest.    *)
LEMMA TrimFresh == IndInv /\ AllFresh /\ Trim => AllFresh'
<1>1. SUFFICES ASSUME IndInv, AllFresh, Trim PROVE AllFresh' OBVIOUS
<1>2. dpb \in Buffers BY <1>1, IndInvParts DEF BufferOK
<1>3. dpb' = dpb \/ \E i \in DOMAIN dpb : dpb' = RemoveAt(dpb, i)
  BY <1>1 DEF Trim, RemoveUnused, FirstOf, Unused
<1>4. QED BY <1>1, <1>2, <1>3, RemoveElements DEF AllFresh

LEMMA BumpFresh == IndInv /\ AllFresh /\ Bump /\ pc' = "room" => AllFresh'
<1>1. SUFFICES ASSUME IndInv, AllFresh, Bump, pc' = "room" PROVE AllFresh' OBVIOUS
<1>2. dpb \in Buffers BY <1>1, IndInvParts DEF BufferOK
<1>3. PICK i \in NotOutput :
        LET d == [dpb EXCEPT ![i] = AfterWrite(@)]
        IN IF UsedForReference(d[i]) THEN dpb' = d ELSE dpb' = RemoveAt(d, i)
  BY <1>1 DEF Bump, OutputOne, Fail, Flush
<1> DEFINE d == [dpb EXCEPT ![i] = AfterWrite(dpb[i])]
<1>4. i \in DOMAIN dpb /\ dpb[i] \in GoodStores BY <1>2, BufferElements DEF NotOutput
<1>5. d \in Buffers /\ DOMAIN d = DOMAIN dpb
  BY <1>2, <1>4, AfterWriteGood, ReplaceGood, BufferElements
<1>6. \A j \in DOMAIN d : Fresh(d[j]) BY <1>1, <1>4, AfterWriteFresh DEF AllFresh
<1>7. dpb' = d \/ dpb' = RemoveAt(d, i) BY <1>3
<1> HIDE DEF d
<1>8. QED BY <1>4, <1>5, <1>6, <1>7, RemoveElements DEF AllFresh

LEMMA StoredFresh == IndInv /\ (Pair \/ (Store /\ pc' = "idle")) => AllFresh'
<1>1. SUFFICES ASSUME IndInv, Pair \/ (Store /\ pc' = "idle") PROVE AllFresh' OBVIOUS
<1>2. dpb \in Buffers BY <1>1, IndInvParts DEF BufferOK
<1>3. GoodPicture(cur) BY <1>1, IndInvParts DEF Pair, Store, CurGood, Busy
<1>4. CASE Pair
  <2>1. last \in DOMAIN dpb /\ cur.struct # "frame"
    BY <1>1, <1>2, <1>4, IndInvParts, BufferElements DEF Pair, IsSecondField, BufferOK
  <2>2. Insert(dpb[last], cur) \in GoodStores
    BY <1>2, <1>3, <1>4, <2>1, InsertGood, BufferElements DEF Pair, IsSecondField
  <2>3. [dpb EXCEPT ![last] = Insert(dpb[last], cur)] \in Buffers
    BY <1>2, <2>1, <2>2, ReplaceGood
  <2>4. dpb' = UpdateLists([dpb EXCEPT ![last] = Insert(dpb[last], cur)])
    BY <1>4 DEF Pair
  <2>5. QED BY <2>3, <2>4, UpdateFresh DEF AllFresh
<1>5. CASE Store /\ pc' = "idle"
  <2>1. Append(dpb, Insert(EmptyStore(cur.id), cur)) \in Buffers
    BY <1>2, <1>3, InsertGood, AppendProperties DEF Buffers
  <2>2. dpb' = UpdateLists(Append(dpb, Insert(EmptyStore(cur.id), cur)))
    BY <1>5 DEF Store, Fail, Flush
  <2>3. QED BY <2>1, <2>2, UpdateFresh DEF AllFresh
<1>6. QED BY <1>1, <1>4, <1>5

LEMMA FreshInit == Init => FreshInv
BY DEF Init, FreshInv, AllFresh, Flushing

(* A call starts from a buffer at rest and leaves it.                       *)
LEMMA ReceiveFresh == FreshInv /\ Receive => FreshInv'
<1> DEFINE Starts == pc = "idle" /\ dpb' = dpb /\ pc' \in {"idr", "mmco", "pair"}
<1>1. \A p, s : Started(p, s) => dpb' = dpb /\ pc' \in {"idr", "mmco", "pair"}
  BY Zenon DEF Started
<1>2. Receive => Starts
  <2>1. ReceiveIdr => Starts BY <1>1, Zenon DEF ReceiveIdr, Waiting
  <2>2. ReceivePicture => Starts BY <1>1, ZenonT(30) DEF ReceivePicture, Waiting
  <2>3. ReceiveSecondField => Starts BY <1>1, Zenon DEF ReceiveSecondField
  <2>4. FillFrameNumGap => Starts BY <1>1, Zenon DEF FillFrameNumGap, Waiting
  <2>5. QED BY <2>1, <2>2, <2>3, <2>4 DEF Receive
<1>3. QED BY <1>2 DEF FreshInv, AllFresh, Flushing

(* What goes through the marking or a flush is a reference picture.         *)
LEMMA MarkingFresh ==
  ASSUME IndInv, FreshInv, IdrStart \/ IdrTail \/ Mmco
  PROVE  FreshInv'
<1>1. pc \in {"idr", "idrtail", "mmco"} /\ cur.ref /\ cur \in Pictures
  BY IndInvParts DEF CurGood, Busy, GoodPicture, IdrStart, IdrTail, Mmco, Mmco1, Mmco2, Mmco3,
     Mmco4, Mmco5, Mmco6, MmcoEnd, Operation
<1>2. cur'.ref
  <2>1. CASE UNCHANGED cur BY <1>1, <2>1
  <2>2. CASE IdrTail BY <1>1, <2>2 DEF IdrTail, Pictures, PictureOf
  <2>3. CASE Mmco6 BY <1>1, <2>3 DEF Mmco6, Pictures, PictureOf
  <2>4. CASE MmcoEnd BY <1>1, <2>4 DEF MmcoEnd, Pictures, PictureOf
  <2>5. QED BY <2>1, <2>2, <2>3, <2>4 DEF IdrStart, Mmco, Mmco1, Mmco2, Mmco3, Mmco4, Mmco5
<1>3. pc' # "idle"
  BY <1>1 DEF IdrStart, IdrTail, Mmco, Mmco1, Mmco2, Mmco3, Mmco4, Mmco5, Mmco6, MmcoEnd,
     Operation, Fail, Flush
<1>4. QED BY <1>2, <1>3 DEF FreshInv

LEMMA FlushFresh ==
  ASSUME IndInv, FreshInv, FlushPurge \/ FlushDrain \/ FlushDone \/ EndOfStream
  PROVE  FreshInv'
<1>1. CASE FlushPurge BY <1>1 DEF FlushPurge, FreshInv, Flushing
<1>2. CASE FlushDrain
  <2>1. pc = "drain" /\ UNCHANGED cur
        /\ ((pc' = "purge" /\ ret' = "halt") \/ (pc' = pc /\ ret' = ret))
    BY <1>2 DEF FlushDrain, OutputOne, Fail, Flush
  <2>2. QED BY <2>1 DEF FreshInv, Flushing
<1>3. CASE FlushDone
  <2>1. ret \in {"idrtail", "pair", "halt"} BY DEF IndInv, TypeOK
  <2>2. QED BY <1>3, <2>1 DEF FlushDone, FreshInv, Flushing
<1>4. CASE EndOfStream BY <1>4 DEF EndOfStream, Flush, FreshInv, Flushing
<1>5. QED BY <1>1, <1>2, <1>3, <1>4

(* Nothing but the window, which only a reference moves, unmarks later on.  *)
LEMMA StoringFresh ==
  ASSUME IndInv, FreshInv, Pair \/ Slide \/ Trim \/ DirectOutput \/ Bump \/ Store
  PROVE  FreshInv'
<1>1. CASE Pair BY <1>1, StoredFresh DEF Pair, FreshInv, Flushing
<1>2. CASE Slide
  <2>1. ~ cur.ref => dpb' = dpb BY <1>2 DEF Slide, Sliding
  <2>2. QED BY <1>2, <2>1 DEF Slide, FreshInv, AllFresh, Flushing
<1>3. CASE Trim
  <2>1. pc = "trim" /\ pc' = "room" /\ cur' = cur BY <1>3 DEF Trim
  <2>2. QED BY <1>3, <2>1, TrimFresh DEF FreshInv, Flushing
<1>4. CASE DirectOutput
  BY <1>4 DEF DirectOutput, GoesOutDirectly, FreshInv, AllFresh, Flushing
<1>5. CASE Bump
  <2>1. pc = "room" /\ UNCHANGED cur
        /\ ((pc' = "purge" /\ ret' = "halt") \/ pc' = "room")
    BY <1>5 DEF Bump, OutputOne, Fail, Flush
  <2>2. QED BY <1>5, <2>1, BumpFresh DEF FreshInv, Flushing
<1>6. CASE Store
  <2>1. (pc' = "purge" /\ ret' = "halt") \/ pc' = "idle"
    BY <1>6 DEF Store, Fail, Flush
  <2>2. QED BY <1>6, <2>1, StoredFresh DEF FreshInv, Flushing
<1>7. QED BY <1>1, <1>2, <1>3, <1>4, <1>5, <1>6

LEMMA FreshKeeps == IndInv /\ FreshInv /\ [Next]_vars => FreshInv'
<1>1. SUFFICES ASSUME IndInv, FreshInv, [Next]_vars PROVE FreshInv' OBVIOUS
<1>2. CASE UNCHANGED vars BY <1>1, <1>2 DEF vars, FreshInv, AllFresh, Flushing
<1>3. CASE Receive BY <1>1, <1>3, ReceiveFresh
<1>4. CASE IdrStart \/ IdrTail \/ Mmco BY <1>1, <1>4, MarkingFresh
<1>5. CASE FlushPurge \/ FlushDrain \/ FlushDone \/ EndOfStream BY <1>1, <1>5, FlushFresh
<1>6. CASE Pair \/ Slide \/ Trim \/ DirectOutput \/ Bump \/ Store
  BY <1>1, <1>6, StoringFresh
<1>7. QED BY <1>1, <1>2, <1>3, <1>4, <1>5, <1>6 DEF Next, Work, Spin, Exited

(* Between two calls fs_ref and fs_ltref list exactly the stores whose      *)
(* pictures are marked: store_picture_in_dpb leaves with both lists made    *)
(* anew, and the one way around that, direct_output, is open only to a      *)
(* picture before which no mark was changed.                                *)
THEOREM ListsUpToDate == Spec => []ListsFresh
<1>1. FreshInv => ListsFresh BY DEF FreshInv, AllFresh, Fresh, ListsFresh
<1>2. QED BY <1>1, FreshInit, Invariant, FreshKeeps, PTL DEF Spec

-----------------------------------------------------------------------------
(* The stores that hold references, and the one whose second field may      *)
(* still make it hold one again.  Only check_num_ref looks at the limit, at *)
(* the end of a call; a second field is stored without a look at it, since  *)
(* its first field counted.                                                 *)
Holds(d, l) == {i \in DOMAIN d : d[i].ref # {} \/ (i = l /\ d[i].orig # {})}

LimitInv == Cardinality(Holds(dpb, last)) <= MaxRef

-----------------------------------------------------------------------------
(* Operations that mark no field anew.                                      *)
Less(new, old) == new.ref \subseteq old.ref /\ new.orig \subseteq old.orig

Below(e, d) == DOMAIN e = DOMAIN d /\ \A i \in DOMAIN d : Less(e[i], d[i])

LEMMA StoresLess ==
  ASSUME NEW fs \in GoodStores
  PROVE  /\ Less(fs, fs) /\ Less(Unmark(fs), fs) /\ Less(UnmarkLong(fs), fs)
         /\ \A f : Less(UnmarkField(fs, f), fs) /\ Less(UnmarkLongField(fs, f), fs)
         /\ \A idx : Less(MarkFrameLong(fs, idx), fs)
         /\ \A f, idx : Less(MarkFieldLong(fs, f, idx), fs)
         /\ \A b : Less([fs EXCEPT !.short = b], fs) /\ Less([fs EXCEPT !.long = b], fs)
  BY DEF GoodStores, Stores, StoreOf, Less, Unmark, UnmarkLong, UnmarkField, UnmarkLongField,
         MarkFrameLong, MarkFieldLong

LEMMA AfterWriteLess ==
  ASSUME NEW fs \in GoodStores
  PROVE  /\ Less(AfterWrite(fs), fs)
         /\ AfterWrite(fs).ref = fs.ref /\ AfterWrite(fs).orig = fs.orig
  BY DEF GoodStores, Stores, StoreOf, Less, AfterWrite, FillUnpaired, Combined

LEMMA BelowTransitive ==
  ASSUME NEW d, NEW e, NEW f, Below(f, e), Below(e, d)
  PROVE  Below(f, d)
  BY DEF Below, Less

LEMMA OperationsBelow ==
  ASSUME NEW d \in Buffers
  PROVE  /\ Below(d, d)
         /\ Below([i \in DOMAIN d |-> Unmark(d[i])], d)
         /\ \A S : Below(UnmarkIn(d, S), d) /\ Below(UnmarkLongIn(d, S), d)
         /\ Below(UpdateRefList(d), d) /\ Below(UpdateLtRefList(d), d)
<1>1. \A i \in DOMAIN d : d[i] \in GoodStores BY BufferElements
<1>2. QED
  BY <1>1, StoresLess DEF Below, UnmarkIn, UnmarkLongIn, UpdateRefList, UpdateLtRefList

LEMMA UpdateListsBelow ==
  ASSUME NEW d \in Buffers
  PROVE  Below(UpdateLists(d), d)
  BY OperationsBelow, UpdateListsGood, BelowTransitive DEF UpdateLists

LEMMA MarkingBelow ==
  ASSUME NEW d \in Buffers
  PROVE  /\ \A x : Below(UnmarkShortTerm(d, x), d)
         /\ \A n : Below(UnmarkLongTerm(d, n), d)
         /\ \A x, idx : Below(MarkPicLongTerm(d, x, idx), d)
<1>1. \A i \in DOMAIN d : d[i] \in GoodStores BY BufferElements
<1>2. \A S : Below(UnmarkIn(d, S), d) /\ Below(UnmarkLongIn(d, S), d) BY OperationsBelow
<1>3. \A x : Below(UnmarkShortTerm(d, x), d)
  <2>1. CASE cur.struct = "frame" BY <1>2, <2>1 DEF UnmarkShortTerm
  <2>2. CASE cur.struct # "frame" BY <1>1, <2>2, StoresLess DEF UnmarkShortTerm, Below
  <2>3. QED BY <2>1, <2>2
<1>4. \A n : Below(UnmarkLongTerm(d, n), d)
  <2>1. CASE cur.struct = "frame" BY <1>2, <2>1 DEF UnmarkLongTerm
  <2>2. CASE cur.struct # "frame" BY <1>1, <2>2, StoresLess DEF UnmarkLongTerm, Below
  <2>3. QED BY <2>1, <2>2
<1>5. \A x, idx : Below(MarkPicLongTerm(d, x, idx), d)
  <2>1. CASE cur.struct = "frame" BY <1>1, <2>1, StoresLess DEF MarkPicLongTerm, Below
  <2>2. CASE cur.struct # "frame" BY <1>1, <2>2, StoresLess DEF MarkPicLongTerm, Below
  <2>3. QED BY <2>1, <2>2
<1>6. QED BY <1>3, <1>4, <1>5

-----------------------------------------------------------------------------
(* How many stores count.                                                   *)
LEMMA HoldsFinite ==
  ASSUME NEW d \in Buffers, NEW l
  PROVE  IsFiniteSet(Holds(d, l)) /\ Cardinality(Holds(d, l)) \in Nat
<1>1. DOMAIN d = 1 .. Len(d) /\ Len(d) \in Nat BY BufferElements
<1>2. IsFiniteSet(DOMAIN d) BY <1>1, FS_Interval
<1>3. Holds(d, l) \in SUBSET DOMAIN d BY DEF Holds
<1>4. QED BY <1>2, <1>3, FS_Subset, FS_CardinalityType

LEMMA MaxRefLemma == MaxRef \in Nat /\ MaxRef >= 1
  BY NumRefFramesAssumption DEF MaxRef

(* What marks nothing anew keeps the limit, with last_picture as it was or  *)
(* forgotten.                                                               *)
LEMMA BelowKeepsLimit ==
  ASSUME NEW d \in Buffers, NEW e, Below(e, d), NEW l, NEW m, m = l \/ m = 0,
         Cardinality(Holds(d, l)) <= MaxRef
  PROVE  Cardinality(Holds(e, m)) <= MaxRef
<1>1. Holds(e, m) \in SUBSET Holds(d, l)
  <2>1. 0 \notin DOMAIN d BY BufferElements
  <2>2. QED BY <2>1 DEF Holds, Below, Less
<1>2. Cardinality(Holds(e, m)) <= Cardinality(Holds(d, l))
  BY <1>1, HoldsFinite, FS_Subset
<1>3. /\ Cardinality(Holds(d, l)) \in Nat /\ Cardinality(Holds(e, m)) \in Nat
  BY <1>1, HoldsFinite, FS_Subset, FS_CardinalityType
<1>4. QED BY <1>2, <1>3, MaxRefLemma

(* So does the removal of a store, with last_picture moved.                 *)
LEMMA RemovalKeepsLimit ==
  ASSUME NEW d \in Buffers, NEW i \in DOMAIN d, last \in 0 .. Len(d),
         Cardinality(Holds(d, last)) <= MaxRef
  PROVE  Cardinality(Holds(RemoveAt(d, i), LastAfterRemove(i))) <= MaxRef
<1> DEFINE e == RemoveAt(d, i)
           S == Holds(e, LastAfterRemove(i))
           T == Holds(d, last)
           h == [j \in S |-> IF j < i THEN j ELSE j + 1]
<1>1. DOMAIN d = 1 .. Len(d) /\ Len(d) \in Nat /\ i \in 1 .. Len(d) BY BufferElements
<1>2. \A j \in S : /\ j \in 1 .. Len(d) - 1 /\ h[j] \in DOMAIN d /\ e[j] = d[h[j]]
                   /\ h[j] # i
  <2>1. SUFFICES ASSUME NEW j \in S
                 PROVE  /\ j \in 1 .. Len(d) - 1 /\ h[j] \in DOMAIN d /\ e[j] = d[h[j]]
                        /\ h[j] # i
    OBVIOUS
  <2>2. j \in DOMAIN e BY DEF Holds
  <2>3. QED BY <1>1, <2>2, RemoveElementAt
<1>3. \A j \in S : j = LastAfterRemove(i) => h[j] = last
  BY <1>1, <1>2 DEF LastAfterRemove
<1>4. \A j \in S : h[j] \in T
  <2>1. SUFFICES ASSUME NEW j \in S PROVE h[j] \in T OBVIOUS
  <2>2. e[j].ref # {} \/ (j = LastAfterRemove(i) /\ e[j].orig # {}) BY DEF Holds
  <2> HIDE DEF h, S
  <2>3. QED BY <1>2, <1>3, <2>2 DEF Holds
<1>5. \A j, k \in S : h[j] = h[k] => j = k BY <1>1, <1>2
<1> HIDE DEF e, S, T
<1>6. h \in Injection(S, T) BY <1>4, <1>5 DEF Injection, IsInjective
<1>7. IsFiniteSet(T) /\ Cardinality(T) \in Nat BY HoldsFinite DEF T
<1>8. IsFiniteSet(S) /\ Cardinality(S) <= Cardinality(T) BY <1>6, <1>7, FS_Injection
<1>9. QED BY <1>7, <1>8, FS_CardinalityType, MaxRefLemma DEF e, S, T

-----------------------------------------------------------------------------
(* The steps.                                                               *)
LEMMA IndInvBuffer ==
  ASSUME IndInv
  PROVE  /\ dpb \in Buffers /\ Len(dpb) \in Nat /\ DOMAIN dpb = 1 .. Len(dpb)
         /\ last \in 0 .. Len(dpb)
  BY IndInvParts, BufferElements DEF BufferOK

LEMMA SameKeepsLimit ==
  ASSUME IndInv, LimitInv, dpb' = dpb, last' = last \/ last' = 0
  PROVE  LimitInv'
<1>1. Cardinality(Holds(dpb', last')) <= MaxRef
  BY IndInvBuffer, OperationsBelow, BelowKeepsLimit DEF LimitInv
<1>2. QED BY <1>1 DEF LimitInv

LEMMA FlushKeepsLimit ==
  ASSUME IndInv, LimitInv, NEW d \in Buffers, Below(d, dpb), NEW to, Flush(d, to),
         last' = last \/ last' = 0
  PROVE  LimitInv'
<1>1. Below(dpb', d) BY OperationsBelow DEF Flush
<1>2. Below(dpb', dpb) BY <1>1, BelowTransitive
<1>3. Cardinality(Holds(dpb', last')) <= MaxRef
  BY <1>2, IndInvBuffer, BelowKeepsLimit DEF LimitInv
<1>4. QED BY <1>3 DEF LimitInv

LEMMA RemoveUnusedKeepsLimit ==
  ASSUME IndInv, LimitInv, RemoveUnused
  PROVE  LimitInv'
<1>1. PICK i \in Unused : dpb' = RemoveAt(dpb, i) /\ last' = LastAfterRemove(i)
  BY DEF RemoveUnused, FirstOf
<1>2. i \in DOMAIN dpb BY DEF Unused
<1>3. Cardinality(Holds(RemoveAt(dpb, i), LastAfterRemove(i))) <= MaxRef
  BY <1>2, IndInvBuffer, RemovalKeepsLimit DEF LimitInv
<1>4. QED BY <1>1, <1>3 DEF LimitInv

(* What was written has the marks it had, and may leave.                    *)
LEMMA OutputKeepsLimit ==
  ASSUME IndInv, LimitInv, OutputOne
  PROVE  LimitInv'
<1>1. PICK i \in NotOutput :
        LET d == [dpb EXCEPT ![i] = AfterWrite(@)]
        IN IF lastPoc >= dpb[i].poc
             THEN /\ Fail(d, "output POC must be in ascending order")
                  /\ UNCHANGED <<last, lastPoc>>
             ELSE IF UsedForReference(d[i])
               THEN dpb' = d /\ last' = last
               ELSE dpb' = RemoveAt(d, i) /\ last' = LastAfterRemove(i)
  BY DEF OutputOne
<1> DEFINE d == [dpb EXCEPT ![i] = AfterWrite(dpb[i])]
<1>2. i \in DOMAIN dpb /\ dpb[i] \in GoodStores
  BY IndInvBuffer, BufferElements DEF NotOutput
<1>3. d \in Buffers /\ Len(d) = Len(dpb) /\ DOMAIN d = DOMAIN dpb
  BY <1>2, IndInvBuffer, AfterWriteGood, ReplaceGood, BufferElements
<1>4. Below(d, dpb)
  <2>1. \A j \in DOMAIN dpb : dpb[j] \in GoodStores BY IndInvBuffer, BufferElements
  <2>2. QED BY <1>2, <2>1, AfterWriteLess, StoresLess DEF Below
<1>5. \/ Flush(d, "halt") /\ last' = last
      \/ dpb' = d /\ last' = last
      \/ dpb' = RemoveAt(d, i) /\ last' = LastAfterRemove(i)
  BY <1>1 DEF Fail
<1> HIDE DEF d
<1>6. Cardinality(Holds(d, last)) <= MaxRef
  BY <1>4, IndInvBuffer, BelowKeepsLimit DEF LimitInv
<1>7. CASE Flush(d, "halt") /\ last' = last BY <1>3, <1>4, <1>7, FlushKeepsLimit
<1>8. CASE dpb' = d /\ last' = last BY <1>6, <1>8 DEF LimitInv
<1>9. CASE dpb' = RemoveAt(d, i) /\ last' = LastAfterRemove(i)
  <2>1. Cardinality(Holds(RemoveAt(d, i), LastAfterRemove(i))) <= MaxRef
    BY <1>2, <1>3, <1>6, IndInvBuffer, RemovalKeepsLimit
  <2>2. QED BY <1>9, <2>1 DEF LimitInv
<1>10. QED BY <1>5, <1>7, <1>8, <1>9

(* No operation of a stream marks a field of the buffer as a reference.     *)
LEMMA OperationKeepsLimit ==
  ASSUME IndInv, LimitInv, last' = last,
         \/ Below(dpb', dpb)
         \/ \E d \in Buffers : Below(d, dpb) /\ Flush(d, "halt")
  PROVE  LimitInv'
<1>1. CASE Below(dpb', dpb)
  <2>1. Cardinality(Holds(dpb', last')) <= MaxRef
    BY <1>1, IndInvBuffer, BelowKeepsLimit DEF LimitInv
  <2>2. QED BY <2>1 DEF LimitInv
<1>2. CASE \E d \in Buffers : Below(d, dpb) /\ Flush(d, "halt")
  BY <1>2, FlushKeepsLimit
<1>3. QED BY <1>1, <1>2

LEMMA FreedAndMarkedBelow ==
  ASSUME NEW d \in Buffers, NEW S, NEW x, NEW idx \in Idxs, GoodPicture(cur)
  PROVE  Below(UpdateLists(MarkPicLongTerm(UnmarkLongIn(d, S), x, idx)), d)
<1> DEFINE e == UnmarkLongIn(d, S)
           f == MarkPicLongTerm(e, x, idx)
<1>1. e \in Buffers /\ Below(e, d) BY UnmarkLongInGood, OperationsBelow
<1> HIDE DEF e
<1>2. f \in Buffers /\ Below(f, e) BY <1>1, MarkPicLongTermGood, MarkingBelow
<1> HIDE DEF f
<1>3. Below(UpdateLists(f), f) BY <1>2, UpdateListsBelow
<1>4. Below(UpdateLists(f), d) BY <1>1, <1>2, <1>3, BelowTransitive
<1>5. QED BY <1>4 DEF e, f

LEMMA Mmco3Below ==
  ASSUME IndInv, Mmco3
  PROVE  Below(dpb', dpb) \/ Flush(dpb, "halt")
<1>1. PICK diff \in PicNumDiffs, idx \in Idxs :
       LET x == PicNumX(cur, diff)
           num == (IF x < 0 THEN x + 2 * MaxFrameNum ELSE x) \div 2
           mates == {i \in DOMAIN dpb : dpb[i].num = num}
       IN IF cur.struct = "frame"
            THEN dpb' = UpdateLists(MarkPicLongTerm(FreeFrameIdx(dpb, idx), x, idx))
          ELSE IF NamedFields(x) = {}
            THEN Fail(dpb, "field for long term marking not found")
          ELSE \E f \in NamedFields(x) :
                 dpb' = UpdateLists(MarkPicLongTerm(FreeFieldIdx(dpb, f, idx, mates), x, idx))
  BY DEF Mmco3
<1>2. dpb \in Buffers /\ GoodPicture(cur) BY InOperation DEF Mmco3
<1> DEFINE x == PicNumX(cur, diff)
<1>3. \/ Fail(dpb, "field for long term marking not found")
      \/ \E S : dpb' = UpdateLists(MarkPicLongTerm(UnmarkLongIn(dpb, S), x, idx))
  BY <1>1, Zenon DEF FreeFrameIdx, FreeFieldIdx
<1> HIDE DEF x
<1>4. QED BY <1>2, <1>3, FreedAndMarkedBelow DEF Fail

LEMMA Mmco6Below ==
  ASSUME IndInv, Mmco6
  PROVE  \E d \in Buffers : Below(d, dpb) /\ (dpb' = d \/ Flush(d, "halt"))
<1>1. PICK S : LET d == UnmarkLongIn(dpb, S) IN dpb' = d \/ Flush(d, "halt")
  <2> DEFINE mates == {i \in {last} \cap DOMAIN dpb : dpb[i].num = cur.num}
             D(idx) == IF cur.struct = "frame" THEN FreeFrameIdx(dpb, idx)
                       ELSE FreeFieldIdx(dpb, cur.struct, idx, mates)
  <2>1. PICK idx : dpb' = D(idx) \/ Flush(D(idx), "halt") BY DEF Mmco6, Fail
  <2>2. \E S : D(idx) = UnmarkLongIn(dpb, S) BY DEF FreeFrameIdx, FreeFieldIdx
  <2> HIDE DEF D
  <2>3. QED BY <2>1, <2>2
<1>2. dpb \in Buffers BY InOperation DEF Mmco6
<1>3. UnmarkLongIn(dpb, S) \in Buffers /\ Below(UnmarkLongIn(dpb, S), dpb)
  BY <1>2, UnmarkLongInGood, OperationsBelow
<1>4. QED BY <1>1, <1>3

LEMMA MmcoKeepsLimit ==
  ASSUME IndInv, LimitInv, Mmco
  PROVE  LimitInv'
<1>1. CASE Mmco1
  <2>1. PICK x : dpb' = UpdateRefList(UnmarkShortTerm(dpb, x)) BY <1>1 DEF Mmco1
  <2>2. dpb \in Buffers /\ GoodPicture(cur) /\ last' = last BY <1>1, InOperation DEF Mmco1
  <2>3. UnmarkShortTerm(dpb, x) \in Buffers /\ Below(UnmarkShortTerm(dpb, x), dpb)
    BY <2>2, UnmarkShortTermGood, MarkingBelow
  <2>4. Below(dpb', dpb) BY <2>1, <2>3, OperationsBelow, BelowTransitive
  <2>5. QED BY <2>2, <2>4, OperationKeepsLimit
<1>2. CASE Mmco2
  <2>1. PICK n : dpb' = UpdateLtRefList(UnmarkLongTerm(dpb, n)) BY <1>2 DEF Mmco2
  <2>2. dpb \in Buffers /\ GoodPicture(cur) /\ last' = last BY <1>2, InOperation DEF Mmco2
  <2>3. UnmarkLongTerm(dpb, n) \in Buffers /\ Below(UnmarkLongTerm(dpb, n), dpb)
    BY <2>2, UnmarkLongTermGood, MarkingBelow
  <2>4. Below(dpb', dpb) BY <2>1, <2>3, OperationsBelow, BelowTransitive
  <2>5. QED BY <2>2, <2>4, OperationKeepsLimit
<1>3. CASE Mmco3
  <2>1. dpb \in Buffers /\ last' = last BY <1>3, InOperation DEF Mmco3
  <2>2. QED BY <1>3, <2>1, Mmco3Below, OperationsBelow, OperationKeepsLimit
<1>4. CASE Mmco4
  <2>1. PICK max : dpb' = UpdateLtRefList(BoundFrameIdx(dpb, max)) BY <1>4 DEF Mmco4
  <2>2. dpb \in Buffers /\ last' = last BY <1>4, InOperation DEF Mmco4
  <2>3. BoundFrameIdx(dpb, max) \in Buffers /\ Below(BoundFrameIdx(dpb, max), dpb)
    BY <2>2, BoundFrameIdxGood, OperationsBelow DEF BoundFrameIdx
  <2>4. Below(dpb', dpb) BY <2>1, <2>3, OperationsBelow, BelowTransitive
  <2>5. QED BY <2>2, <2>4, OperationKeepsLimit
<1>5. CASE Mmco5
  <2> DEFINE d == UnmarkIn(dpb, ShortList(dpb))
             e == UpdateRefList(d)
  <2>1. dpb' = BoundFrameIdx(e, -1) BY <1>5 DEF Mmco5
  <2>2. dpb \in Buffers /\ last' = last BY <1>5, InOperation DEF Mmco5
  <2>3. d \in Buffers /\ Below(d, dpb) BY <2>2, UnmarkInGood, OperationsBelow
  <2> HIDE DEF d
  <2>4. e \in Buffers /\ Below(e, d) BY <2>3, UpdateListsGood, OperationsBelow
  <2> HIDE DEF e
  <2>5. Below(dpb', e) BY <2>1, <2>4, OperationsBelow DEF BoundFrameIdx
  <2>6. Below(dpb', dpb) BY <2>3, <2>4, <2>5, BelowTransitive
  <2>7. QED BY <2>2, <2>6, OperationKeepsLimit
<1>6. CASE Mmco6
  <2>1. last' = last BY <1>6, InOperation DEF Mmco6
  <2>2. QED BY <1>6, <2>1, Mmco6Below, OperationKeepsLimit
<1>7. CASE MmcoEnd
  <2>1. last' = last /\ (Flush(dpb, "pair") \/ dpb' = dpb) BY <1>7 DEF MmcoEnd
  <2>2. QED
    BY <2>1, IndInvBuffer, OperationsBelow, FlushKeepsLimit, SameKeepsLimit
<1>8. QED BY <1>1, <1>2, <1>3, <1>4, <1>5, <1>6, <1>7 DEF Mmco

-----------------------------------------------------------------------------
(* store_picture_in_dpb after the marking.                                  *)

(* What insert_picture_in_dpb marks.                                        *)
Marked(p, bits) == IF p.ref THEN bits \cup {p.struct} ELSE bits

LEMMA WithFieldMarks ==
  ASSUME NEW fs \in Stores, NEW p
  PROVE  /\ WithField(fs, p).ref = Marked(p, fs.ref)
         /\ WithField(fs, p).orig = Marked(p, fs.orig)
<1> DEFINE pref == IF p.ref THEN fs.pref \cup {p.struct} ELSE fs.pref
           lt == IF p.ref /\ p.lt THEN fs.lt \cup {p.struct} ELSE fs.lt
           plt == IF p.lt THEN fs.plt \cup {p.struct} ELSE fs.plt
           idx == IF p.ref /\ p.lt THEN p.idx ELSE fs.idx
           ref == Marked(p, fs.ref)
           orig == Marked(p, fs.orig)
           used == fs.used \cup {p.struct}
<1>1. WithField(fs, p) = [fs EXCEPT !.used = used, !.num = p.num, !.out = p.out, !.id = p.id,
                                    !.ref = ref, !.orig = orig, !.pref = pref,
                                    !.lt = lt, !.plt = plt, !.idx = idx]
  BY DEF WithField, Marked
<1> HIDE DEF used, ref, orig, pref, lt, plt, idx
<1>2. WithField(fs, p).ref = ref /\ WithField(fs, p).orig = orig
  BY <1>1 DEF Stores, StoreOf
<1>3. QED BY <1>2 DEF ref, orig

LEMMA CombinedMarks ==
  ASSUME NEW fs \in Stores, NEW poc
  PROVE  Combined(fs, poc).ref = fs.ref /\ Combined(fs, poc).orig = fs.orig
<1> DEFINE low == IF poc < fs.poc THEN poc ELSE fs.poc
<1>1. Combined(fs, poc) = [fs EXCEPT !.used = Fields, !.poc = low,
                                     !.pref = JoinMarks(fs.pref), !.plt = JoinMarks(fs.plt)]
  BY DEF Combined, JoinMarks
<1> HIDE DEF low
<1>2. QED BY <1>1 DEF Stores, StoreOf

LEMMA InsertFieldMarks ==
  ASSUME NEW fs \in GoodStores, NEW p, GoodPicture(p), p.struct # "frame"
  PROVE  /\ Insert(fs, p).ref = Marked(p, fs.ref)
         /\ Insert(fs, p).orig = Marked(p, fs.orig)
<1> DEFINE e == WithField(fs, p)
<1>1. p.struct \in Fields /\ ~FrameMbsOnly
  BY DEF GoodPicture, Pictures, PictureOf, Views
<1>2. e \in Stores BY <1>1, GoodIsHalf, WithFieldHalf DEF HalfStores
<1>3. e.ref = Marked(p, fs.ref) /\ e.orig = Marked(p, fs.orig)
  BY WithFieldMarks DEF GoodStores
<1> HIDE DEF e
<1>4. [e EXCEPT !.poc = p.poc].ref = e.ref /\ [e EXCEPT !.poc = p.poc].orig = e.orig
  BY <1>2 DEF Stores, StoreOf
<1>5. Insert(fs, p) \in {Combined(e, p.poc), [e EXCEPT !.poc = p.poc]}
  BY DEF Insert, InsertField, e
<1>6. Combined(e, p.poc).ref = e.ref /\ Combined(e, p.poc).orig = e.orig
  BY <1>2, CombinedMarks
<1>7. Insert(fs, p).ref = e.ref /\ Insert(fs, p).orig = e.orig
  <2>1. CASE Insert(fs, p) = Combined(e, p.poc) BY <1>6, <2>1
  <2>2. CASE Insert(fs, p) = [e EXCEPT !.poc = p.poc] BY <1>4, <2>2
  <2>3. QED BY <1>5, <2>1, <2>2
<1>8. QED BY <1>3, <1>7

LEMMA InsertFrameMarks ==
  ASSUME NEW fs \in Stores, NEW p, fs.ref = fs.orig
  PROVE  InsertFrame(fs, p).orig = InsertFrame(fs, p).ref
<1> DEFINE ref == IF p.ref THEN Fields ELSE fs.ref
           pref == IF p.ref THEN FrameViews ELSE {}
           lt == IF p.ref /\ p.lt THEN Fields ELSE fs.lt
           plt == IF p.lt THEN FrameViews ELSE {}
           idx == IF p.ref /\ p.lt THEN p.idx ELSE fs.idx
<1>1. InsertFrame(fs, p) =
        [fs EXCEPT !.used = Fields, !.num = p.num, !.poc = p.poc, !.out = p.out, !.id = p.id,
                   !.ref = ref, !.orig = ref, !.pref = pref, !.lt = lt, !.plt = plt, !.idx = idx]
  BY DEF InsertFrame
<1> HIDE DEF ref, pref, lt, plt, idx
<1>2. QED BY <1>1 DEF Stores, StoreOf

LEMMA InsertNewMarks ==
  ASSUME NEW p, GoodPicture(p)
  PROVE  Insert(EmptyStore(p.id), p).orig = Insert(EmptyStore(p.id), p).ref
<1> DEFINE fs == EmptyStore(p.id)
<1>1. /\ fs \in Stores /\ fs.ref = fs.orig
  BY PictureFields, BoundsLemma DEF EmptyStore, Stores, StoreOf
<1>2. CASE p.struct = "frame" BY <1>1, <1>2, InsertFrameMarks DEF Insert
<1>3. CASE p.struct # "frame"
  <2>1. fs \in GoodStores
    BY <1>3, PictureFields, EmptyStoreGood DEF GoodPicture
  <2> HIDE DEF fs
  <2>2. Insert(fs, p).orig = Insert(fs, p).ref BY <1>1, <1>3, <2>1, InsertFieldMarks
  <2>3. QED BY <2>2 DEF fs
<1>4. QED BY <1>2, <1>3

(* A second field that is a reference joins a store that counts already.    *)
LEMMA PairKeepsLimit ==
  ASSUME IndInv, LimitInv, Pair
  PROVE  LimitInv'
<1>1. /\ dpb \in Buffers /\ DOMAIN dpb = 1 .. Len(dpb) /\ Len(dpb) \in Nat
      /\ last \in DOMAIN dpb /\ cur.struct # "frame" /\ GoodPicture(cur)
      /\ cur.ref <=> dpb[last].orig # {}
  BY IndInvBuffer, IndInvParts DEF Pair, IsSecondField, CurGood, Busy
<1> DEFINE fs == Insert(dpb[last], cur)
           d == [dpb EXCEPT ![last] = fs]
<1>2. fs \in GoodStores /\ dpb[last] \in GoodStores BY <1>1, InsertGood, BufferElements
<1>3. ~ cur.ref => fs.ref = dpb[last].ref BY <1>1, <1>2, InsertFieldMarks DEF Marked
<1> HIDE DEF fs
<1>4. d \in Buffers /\ DOMAIN d = DOMAIN dpb BY <1>1, <1>2, ReplaceGood, BufferElements
<1>5. dpb' = UpdateLists(d) /\ last' = 0 BY DEF Pair, fs
<1>6. Below(dpb', d) BY <1>4, <1>5, UpdateListsBelow
<1>7. Holds(d, 0) \in SUBSET Holds(dpb, last)
  <2>1. SUFFICES ASSUME NEW i \in DOMAIN dpb, d[i].ref # {} PROVE i \in Holds(dpb, last)
    BY <1>1, <1>4 DEF Holds
  <2>2. CASE i = last BY <1>1, <1>3, <2>1, <2>2 DEF Holds
  <2>3. CASE i # last BY <2>1, <2>3 DEF Holds
  <2>4. QED BY <2>2, <2>3
<1> HIDE DEF d
<1>8. Cardinality(Holds(d, 0)) <= MaxRef
  <2>1. Cardinality(Holds(d, 0)) <= Cardinality(Holds(dpb, last))
    BY <1>1, <1>7, HoldsFinite, FS_Subset
  <2>2. QED BY <1>1, <1>4, <2>1, HoldsFinite, MaxRefLemma DEF LimitInv
<1>9. Cardinality(Holds(dpb', last')) <= MaxRef
  BY <1>4, <1>5, <1>6, <1>8, BelowKeepsLimit
<1>10. QED BY <1>9 DEF LimitInv

(* A store that holds a reference is in one of the two lists, when these are*)
(* up to date.                                                              *)
LEMMA HeldIsListed ==
  ASSUME NEW fs \in GoodStores, Fresh(fs), fs.ref # {}
  PROVE  fs.short \/ fs.long
<1>1. /\ fs.ref \in SUBSET Fields /\ fs.pref \in SUBSET Views
      /\ fs.ref \subseteq fs.used /\ BitsAgree(fs.ref, fs.pref) /\ fs.used \in SUBSET Fields
  BY DEF GoodStores, Stores, StoreOf
<1>2. PICK f \in fs.ref : TRUE OBVIOUS
<1>3. \E v \in PicturesOf(fs) : v \in fs.pref
  <2>1. CASE FrameMbsOnly
    <3>1. fs.used = Fields BY <2>1 DEF GoodStores
    <3>2. fs.ref = Fields BY <1>1, <2>1 DEF BitsAgree
    <3>3. "frame" \in fs.pref BY <1>1, <3>2 DEF BitsAgree
    <3>4. QED BY <3>1, <3>3 DEF PicturesOf
  <2>2. CASE ~ FrameMbsOnly
    <3>1. f \in fs.pref BY <1>1, <1>2, <2>2 DEF BitsAgree
    <3>2. f \in fs.used BY <1>1, <1>2
    <3>3. QED BY <3>1, <3>2 DEF PicturesOf
  <2>3. QED BY <2>1, <2>2
<1>4. QED BY <1>3 DEF Fresh, IsShortTerm, IsLongTerm

(* check_num_ref counts every store that holds a reference.                 *)
LEMMA CheckedWithinLimit ==
  ASSUME NEW d \in Buffers, \A i \in DOMAIN d : Fresh(d[i]), ~ TooManyRefs(d),
         NEW l, l \in DOMAIN d => d[l].orig = d[l].ref
  PROVE  Cardinality(Holds(d, l)) <= MaxRef
<1>1. DOMAIN d = 1 .. Len(d) /\ Len(d) \in Nat /\ \A i \in DOMAIN d : d[i] \in GoodStores
  BY BufferElements
<1>2. /\ IsFiniteSet(ShortList(d)) /\ Cardinality(ShortList(d)) \in Nat
      /\ IsFiniteSet(LongList(d)) /\ Cardinality(LongList(d)) \in Nat
  <2>1. IsFiniteSet(DOMAIN d) BY <1>1, FS_Interval
  <2>2. ShortList(d) \in SUBSET DOMAIN d /\ LongList(d) \in SUBSET DOMAIN d
    BY DEF ShortList, LongList
  <2>3. QED BY <2>1, <2>2, FS_Subset, FS_CardinalityType
<1> DEFINE U == ShortList(d) \cup LongList(d)
           I == ShortList(d) \cap LongList(d)
<1>3. /\ IsFiniteSet(U)
      /\ Cardinality(U) = Cardinality(ShortList(d)) + Cardinality(LongList(d)) - Cardinality(I)
  BY <1>2, FS_Union
<1>4. Cardinality(I) \in Nat
  <2>1. I \in SUBSET ShortList(d) OBVIOUS
  <2>2. QED BY <1>2, <2>1, FS_Subset, FS_CardinalityType
<1>5. Holds(d, l) \in SUBSET U
  BY <1>1, HeldIsListed DEF Holds, ShortList, LongList
<1> HIDE DEF U, I
<1>6. Cardinality(Holds(d, l)) <= Cardinality(U) BY <1>3, <1>5, FS_Subset
<1>7. QED BY <1>2, <1>3, <1>4, <1>6, HoldsFinite, MaxRefLemma DEF TooManyRefs

LEMMA StoreKeepsLimit ==
  ASSUME IndInv, LimitInv, Store
  PROVE  LimitInv'
<1> DEFINE fs == Insert(EmptyStore(cur.id), cur)
           e == Append(dpb, fs)
           d == UpdateLists(e)
<1>1. dpb \in Buffers /\ Len(dpb) \in Nat /\ GoodPicture(cur)
  BY IndInvBuffer, IndInvParts DEF Store, CurGood, Busy
<1>2. fs \in GoodStores /\ fs.orig = fs.ref BY <1>1, InsertGood, InsertNewMarks
<1> HIDE DEF fs
<1>3. /\ e \in Buffers /\ Len(e) = Len(dpb) + 1 /\ e[Len(e)] = fs
  BY <1>1, <1>2, AppendProperties DEF Buffers
<1> HIDE DEF e
<1>4. d \in Buffers /\ Len(d) = Len(dpb) + 1 /\ \A i \in DOMAIN d : Fresh(d[i])
  BY <1>3, BothListsGood, UpdateFresh
<1>5. \A i \in DOMAIN e : d[i].ref = e[i].ref /\ d[i].orig = e[i].orig
  <2>1. /\ UpdateRefList(e) \in Buffers /\ DOMAIN UpdateRefList(e) = DOMAIN e
        /\ \A i \in DOMAIN e : e[i] \in Stores /\ UpdateRefList(e)[i] \in Stores
    BY <1>3, UpdateListsGood, BufferElements DEF GoodStores
  <2>2. \A fs1 \in Stores : \A b :
          /\ [fs1 EXCEPT !.short = b].ref = fs1.ref /\ [fs1 EXCEPT !.long = b].ref = fs1.ref
          /\ [fs1 EXCEPT !.short = b].orig = fs1.orig /\ [fs1 EXCEPT !.long = b].orig = fs1.orig
    BY DEF Stores, StoreOf
  <2>3. \A i \in DOMAIN e : /\ UpdateRefList(e)[i].ref = e[i].ref
                            /\ UpdateRefList(e)[i].orig = e[i].orig
    BY <2>1, <2>2 DEF UpdateRefList
  <2>4. \A i \in DOMAIN e : /\ d[i].ref = UpdateRefList(e)[i].ref
                            /\ d[i].orig = UpdateRefList(e)[i].orig
    BY <2>1, <2>2 DEF UpdateLists, UpdateLtRefList
  <2>5. QED BY <2>3, <2>4
<1>6. d[Len(d)].orig = d[Len(d)].ref
  BY <1>2, <1>3, <1>4, <1>5, BufferElements
<1>7. \/ Fail(dpb, "duplicate frame_num in short-term reference picture buffer")
         /\ last' = last
      \/ /\ last' \in {0, Len(d)}
         /\ Fail(d, "Max. number of reference frames exceeded. Invalid stream.")
      \/ /\ last' \in {0, Len(d)}
         /\ ~ TooManyRefs(d) /\ dpb' = d
  BY DEF Store, d, e, fs
<1> HIDE DEF d
<1>8. CASE /\ Fail(dpb, "duplicate frame_num in short-term reference picture buffer")
           /\ last' = last
  BY <1>1, <1>8, OperationsBelow, FlushKeepsLimit DEF Fail
<1>9. CASE /\ last' \in {0, Len(d)}
           /\ Fail(d, "Max. number of reference frames exceeded. Invalid stream.")
  <2>1. dpb' = [i \in DOMAIN d |-> Unmark(d[i])] BY <1>9 DEF Fail, Flush
  <2>2. \A fs1 \in GoodStores : Unmark(fs1).ref = {}
    BY DEF Unmark, GoodStores, Stores, StoreOf
  <2>3. \A i \in DOMAIN dpb' : dpb'[i].ref = {} BY <1>4, <2>1, <2>2, BufferElements
  <2>4. Holds(dpb', last') \in SUBSET {last'} BY <2>3 DEF Holds
  <2>5. IsFiniteSet({last'}) /\ Cardinality({last'}) = 1 BY FS_Singleton
  <2>6. Cardinality(Holds(dpb', last')) <= 1 BY <2>4, <2>5, FS_Subset
  <2>7. dpb' \in Buffers BY <1>4, <2>1, UnmarkAllGood
  <2>8. QED BY <2>6, <2>7, HoldsFinite, MaxRefLemma DEF LimitInv
<1>10. CASE last' \in {0, Len(d)} /\ ~ TooManyRefs(d) /\ dpb' = d
  <2>1. last' \in DOMAIN d => d[last'].orig = d[last'].ref
    BY <1>4, <1>6, <1>10, BufferElements
  <2>2. Cardinality(Holds(d, last')) <= MaxRef BY <1>4, <1>10, <2>1, CheckedWithinLimit
  <2>3. QED BY <1>10, <2>2 DEF LimitInv
<1>11. QED BY <1>7, <1>8, <1>9, <1>10

LEMMA ReceiveKeepsLimit == IndInv /\ LimitInv /\ Receive => LimitInv'
<1>1. \A p, s : Started(p, s) => dpb' = dpb /\ last' = last BY DEF Started
<1>2. Receive => dpb' = dpb /\ last' = last
  <2>1. ReceiveIdr => dpb' = dpb /\ last' = last BY <1>1, Zenon DEF ReceiveIdr
  <2>2. ReceivePicture => dpb' = dpb /\ last' = last BY <1>1, ZenonT(30) DEF ReceivePicture
  <2>3. ReceiveSecondField => dpb' = dpb /\ last' = last BY <1>1, Zenon DEF ReceiveSecondField
  <2>4. FillFrameNumGap => dpb' = dpb /\ last' = last BY <1>1, Zenon DEF FillFrameNumGap
  <2>5. QED BY <2>1, <2>2, <2>3, <2>4 DEF Receive
<1>3. QED BY <1>2, SameKeepsLimit

LEMMA IdrKeepsLimit ==
  ASSUME IndInv, LimitInv, IdrStart \/ IdrTail
  PROVE  LimitInv'
<1>1. dpb \in Buffers BY IndInvBuffer
<1>2. CASE IdrStart
  <2>1. (dpb' = <<>> /\ last' = 0) \/ (Flush(dpb, "idrtail") /\ last' = last)
    BY <1>2 DEF IdrStart
  <2>2. CASE dpb' = <<>> /\ last' = 0
    <3>1. Holds(dpb', last') = {} BY <2>2 DEF Holds
    <3>2. QED BY <3>1, FS_EmptySet, MaxRefLemma DEF LimitInv
  <2>3. QED BY <1>1, <2>1, <2>2, OperationsBelow, FlushKeepsLimit
<1>3. CASE IdrTail
  <2>1. dpb' = UpdateLists(dpb) /\ last' = 0 BY <1>3 DEF IdrTail
  <2>2. Cardinality(Holds(dpb', last')) <= MaxRef
    BY <1>1, <2>1, UpdateListsBelow, BelowKeepsLimit DEF LimitInv
  <2>3. QED BY <2>2 DEF LimitInv
<1>4. QED BY <1>2, <1>3

LEMMA RestKeepsLimit ==
  ASSUME IndInv, LimitInv,
         FlushPurge \/ FlushDrain \/ FlushDone \/ EndOfStream \/ Slide \/ Trim \/ DirectOutput
           \/ Bump
  PROVE  LimitInv'
<1>1. dpb \in Buffers BY IndInvBuffer
<1>2. CASE FlushPurge BY <1>2, RemoveUnusedKeepsLimit, SameKeepsLimit DEF FlushPurge
<1>3. CASE FlushDrain BY <1>3, OutputKeepsLimit DEF FlushDrain
<1>4. CASE FlushDone BY <1>4, SameKeepsLimit DEF FlushDone
<1>5. CASE EndOfStream BY <1>1, <1>5, OperationsBelow, FlushKeepsLimit DEF EndOfStream
<1>6. CASE Slide
  <2>1. dpb' = UpdateRefList(UnmarkIn(dpb, FirstOf(SlidingVictims))) \/ dpb' = dpb
    BY <1>6 DEF Slide
  <2> DEFINE d == UnmarkIn(dpb, FirstOf(SlidingVictims))
  <2>2. d \in Buffers /\ Below(d, dpb) BY <1>1, UnmarkInGood, OperationsBelow
  <2>3. dpb' = UpdateRefList(d) \/ dpb' = dpb BY <2>1
  <2> HIDE DEF d
  <2>4. Below(dpb', dpb)
    <3>1. Below(UpdateRefList(d), d) /\ Below(dpb, dpb) BY <1>1, <2>2, OperationsBelow
    <3>2. Below(UpdateRefList(d), dpb) BY <2>2, <3>1, BelowTransitive
    <3>3. QED BY <2>3, <3>1, <3>2
  <2>5. last' = last BY <1>6 DEF Slide
  <2>6. QED BY <2>4, <2>5, OperationKeepsLimit
<1>7. CASE Trim BY <1>7, RemoveUnusedKeepsLimit, SameKeepsLimit DEF Trim
<1>8. CASE DirectOutput BY <1>8, SameKeepsLimit DEF DirectOutput
<1>9. CASE Bump BY <1>9, OutputKeepsLimit DEF Bump
<1>10. QED BY <1>2, <1>3, <1>4, <1>5, <1>6, <1>7, <1>8, <1>9

LEMMA LimitKeeps == IndInv /\ LimitInv /\ [Next]_vars => LimitInv'
<1>1. SUFFICES ASSUME IndInv, LimitInv, [Next]_vars PROVE LimitInv' OBVIOUS
<1>2. CASE UNCHANGED vars BY <1>1, <1>2, SameKeepsLimit DEF vars
<1>3. CASE Receive BY <1>1, <1>3, ReceiveKeepsLimit
<1>4. CASE Mmco BY <1>1, <1>4, MmcoKeepsLimit
<1>5. CASE IdrStart \/ IdrTail BY <1>1, <1>5, IdrKeepsLimit
<1>6. CASE Pair BY <1>1, <1>6, PairKeepsLimit
<1>7. CASE Store BY <1>1, <1>7, StoreKeepsLimit
<1>8. CASE FlushPurge \/ FlushDrain \/ FlushDone \/ EndOfStream \/ Slide \/ Trim
             \/ DirectOutput \/ Bump
  BY <1>1, <1>8, RestKeepsLimit
<1>9. QED
  BY <1>1, <1>2, <1>3, <1>4, <1>5, <1>6, <1>7, <1>8 DEF Next, Work, Spin, Exited

(* Whatever operations a stream gives, and though some of the lists that the*)
(* code counts are old when it does: between two calls no more frames are   *)
(* references than the sequence allows.  A second field is stored without a *)
(* check, but joins a store that was counted with its first field, also when*)
(* that has been unmarked since.                                            *)
THEOREM LimitKept == Spec => []RefsWithinLimit
<1>1. Init => LimitInv
  <2>1. SUFFICES ASSUME Init PROVE LimitInv OBVIOUS
  <2>2. Holds(dpb, last) = {} BY <2>1 DEF Init, Holds
  <2>3. QED BY <2>2, FS_EmptySet, MaxRefLemma DEF LimitInv
<1>2. IndInv /\ LimitInv => RefsWithinLimit
  <2>1. SUFFICES ASSUME IndInv, LimitInv PROVE Cardinality(RefFrames(dpb)) <= MaxRef
    BY DEF RefsWithinLimit
  <2>2. dpb \in Buffers /\ \A i \in DOMAIN dpb : dpb[i] \in GoodStores
    BY <2>1, IndInvBuffer, BufferElements
  <2>3. \A i \in DOMAIN dpb : UsedForReference(dpb[i]) => dpb[i].ref # {}
    <3>1. SUFFICES ASSUME NEW i \in DOMAIN dpb, dpb[i].ref = {}
                   PROVE  dpb[i].pref = {}
      BY DEF UsedForReference
    <3>2. dpb[i].pref \in SUBSET Views /\ BitsAgree(dpb[i].ref, dpb[i].pref)
      BY <2>2, <3>1 DEF GoodStores, Stores, StoreOf
    <3>3. QED BY <3>1, <3>2 DEF BitsAgree, Fields, Views
  <2>4. RefFrames(dpb) \in SUBSET Holds(dpb, last) BY <2>3 DEF RefFrames, Holds
  <2>5. /\ Cardinality(RefFrames(dpb)) <= Cardinality(Holds(dpb, last))
        /\ Cardinality(RefFrames(dpb)) \in Nat
    BY <2>2, <2>4, HoldsFinite, FS_Subset, FS_CardinalityType
  <2>6. QED BY <2>1, <2>2, <2>5, HoldsFinite, MaxRefLemma DEF LimitInv
<1>3. QED BY <1>1, <1>2, Invariant, LimitKeeps, PTL DEF Spec

-------------------------------------------------------------------------------

(***************************************************************************)
(* A flush empties the buffer: all stores are unmarked, those that were    *)
(* output are removed, and the others leave when they are output.          *)
(***************************************************************************)
Unneeded(fs) == fs.ref = {} /\ fs.pref = {}

EmptyInv ==
  /\ Flushing => \A i \in DOMAIN dpb : Unneeded(dpb[i])
  /\ pc = "drain" => Unused = {}
  /\ pc = "idrtail" => dpb = <<>>

LEMMA UnneededUnused ==
  ASSUME NEW fs \in GoodStores
  PROVE  /\ Unneeded(Unmark(fs))
         /\ Unneeded(fs) => ~ UsedForReference(fs)
         /\ Unneeded(fs) => Unneeded(AfterWrite(fs))
         /\ AfterWrite(fs).out
<1>1. fs \in Stores BY DEF GoodStores
<1>2. Unneeded(Unmark(fs)) BY <1>1 DEF Unneeded, Unmark, Stores, StoreOf
<1>3. Unneeded(fs) => ~ UsedForReference(fs) BY DEF Unneeded, UsedForReference
<1>4. Unneeded(fs) => Unneeded(AfterWrite(fs))
  BY <1>1 DEF Unneeded, AfterWrite, FillUnpaired, Combined, Stores, StoreOf, Fields
<1>5. AfterWrite(fs).out
  BY <1>1 DEF AfterWrite, FillUnpaired, Combined, Stores, StoreOf
<1>6. QED BY <1>2, <1>3, <1>4, <1>5

LEMMA FlushUnmarks ==
  ASSUME NEW d \in Buffers, NEW to, Flush(d, to)
  PROVE  EmptyInv'
<1>1. \A i \in DOMAIN d : d[i] \in GoodStores BY BufferElements
<1>2. pc' = "purge" /\ dpb' = [i \in DOMAIN d |-> Unmark(d[i])] BY DEF Flush
<1>3. QED BY <1>1, <1>2, UnneededUnused DEF EmptyInv, Flushing

LEMMA PurgeEmpties == IndInv /\ EmptyInv /\ FlushPurge => EmptyInv'
<1>1. SUFFICES ASSUME IndInv, EmptyInv, FlushPurge PROVE EmptyInv' OBVIOUS
<1>2. dpb \in Buffers BY <1>1, IndInvParts DEF BufferOK
<1>3. \A i \in DOMAIN dpb : Unneeded(dpb[i]) BY <1>1 DEF FlushPurge, EmptyInv, Flushing
<1>4. CASE Unused = {}
  <2>1. dpb' = dpb /\ pc' = "drain" BY <1>1, <1>4 DEF FlushPurge
  <2>2. QED BY <1>3, <1>4, <2>1 DEF EmptyInv, Unused
<1>5. CASE Unused # {}
  <2>1. pc' = "purge" /\ \E i \in DOMAIN dpb : dpb' = RemoveAt(dpb, i)
    BY <1>1, <1>5 DEF FlushPurge, RemoveUnused, FirstOf, Unused
  <2>2. QED BY <1>2, <1>3, <2>1, RemoveElements DEF EmptyInv
<1>6. QED BY <1>4, <1>5

LEMMA DrainEmpties == IndInv /\ EmptyInv /\ FlushDrain => EmptyInv'
<1>1. SUFFICES ASSUME IndInv, EmptyInv, FlushDrain PROVE EmptyInv' OBVIOUS
<1>2. dpb \in Buffers BY <1>1, IndInvParts DEF BufferOK
<1>3. Unused = {} /\ \A i \in DOMAIN dpb : Unneeded(dpb[i])
  BY <1>1 DEF FlushDrain, EmptyInv, Flushing
<1>4. PICK i \in NotOutput :
        LET d == [dpb EXCEPT ![i] = AfterWrite(@)]
        IN \/ Flush(d, "halt")
           \/ /\ UNCHANGED <<pc, ret>>
              /\ IF UsedForReference(d[i]) THEN dpb' = d ELSE dpb' = RemoveAt(d, i)
  BY <1>1 DEF FlushDrain, OutputOne, Fail
<1> DEFINE d == [dpb EXCEPT ![i] = AfterWrite(dpb[i])]
<1>5. i \in DOMAIN dpb /\ dpb[i] \in GoodStores BY <1>2, BufferElements DEF NotOutput
<1>6. d \in Buffers /\ DOMAIN d = DOMAIN dpb
  BY <1>2, <1>5, AfterWriteGood, ReplaceGood, BufferElements
<1>7. /\ d[i] = AfterWrite(dpb[i]) /\ \A j \in DOMAIN d : j # i => d[j] = dpb[j]
  BY <1>5
<1>8. CASE Flush(d, "halt") BY <1>6, <1>8, FlushUnmarks
<1>9. CASE UNCHANGED <<pc, ret>> /\ IF UsedForReference(d[i]) THEN dpb' = d ELSE dpb' = RemoveAt(d, i)
  <2>1. ~ UsedForReference(d[i]) BY <1>3, <1>5, <1>7, UnneededUnused, AfterWriteGood
  <2>2. dpb' = RemoveAt(d, i) /\ pc' = "drain" BY <1>1, <1>9, <2>1 DEF FlushDrain
  <2> HIDE DEF d
  <2>3. \A j \in DOMAIN dpb' : \E k \in DOMAIN dpb : dpb'[j] = dpb[k]
    <3>1. SUFFICES ASSUME NEW j \in DOMAIN dpb' PROVE \E k \in DOMAIN dpb : dpb'[j] = dpb[k]
      OBVIOUS
    <3>2. PICK k \in DOMAIN d : k # i /\ dpb'[j] = d[k]
      <4>1. DOMAIN d = 1 .. Len(d) BY <1>6, BufferElements
      <4>2. j \in DOMAIN RemoveAt(d, i) BY <2>2, <3>1
      <4>3. QED BY <1>5, <1>6, <2>2, <4>1, <4>2, RemoveElementAt, SMTT(30)
    <3>3. QED BY <1>6, <1>7, <3>2
  <2>4. QED BY <1>3, <2>2, <2>3 DEF EmptyInv, Unused
<1>10. QED BY <1>4, <1>8, <1>9

LEMMA FlushEnds == IndInv /\ EmptyInv /\ FlushDone => dpb = <<>>
<1>1. SUFFICES ASSUME IndInv, EmptyInv, FlushDone PROVE dpb = <<>> OBVIOUS
<1>2. dpb \in Buffers BY <1>1, IndInvParts DEF BufferOK
<1>3. Unused = {} /\ NotOutput = {} /\ \A i \in DOMAIN dpb : Unneeded(dpb[i])
  BY <1>1 DEF FlushDone, EmptyInv, Flushing
<1>4. DOMAIN dpb = {}
  BY <1>2, <1>3, BufferElements, UnneededUnused DEF Unused, NotOutput
<1>5. Len(dpb) = 0 BY <1>2, <1>4, BufferElements
<1>6. QED BY <1>2, <1>5, EmptySeq DEF Buffers

(* Operation 5 and an IDR picture get a buffer that is empty.               *)
LEMMA EmptyKeeps == IndInv /\ EmptyInv /\ [Next]_vars => EmptyInv'
<1>1. SUFFICES ASSUME IndInv, EmptyInv, [Next]_vars PROVE EmptyInv' OBVIOUS
<1>2. dpb \in Buffers BY <1>1, IndInvParts DEF BufferOK
<1>3. CASE UNCHANGED vars BY <1>1, <1>3 DEF vars, EmptyInv, Flushing, Unused
<1>4. CASE FlushPurge BY <1>1, <1>4, PurgeEmpties
<1>5. CASE FlushDrain BY <1>1, <1>5, DrainEmpties
<1>6. CASE FlushDone
  <2>1. dpb = <<>> BY <1>1, <1>6, FlushEnds
  <2>2. dpb' = dpb /\ pc' = ret BY <1>6 DEF FlushDone
  <2>3. QED BY <2>1, <2>2 DEF EmptyInv, Unused
<1>7. CASE EndOfStream BY <1>2, <1>7, FlushUnmarks DEF EndOfStream
<1>8. CASE IdrStart
  <2>1. CASE cur.noout BY <1>8, <2>1 DEF IdrStart, EmptyInv, Flushing
  <2>2. CASE ~ cur.noout BY <1>2, <1>8, <2>2, FlushUnmarks DEF IdrStart
  <2>3. QED BY <2>1, <2>2
<1>9. CASE Mmco
  <2>1. CASE \E n : Operation(n) /\ UNCHANGED pc
    BY <2>1 DEF Operation, EmptyInv, Flushing
  <2>2. CASE \E to : Flush(dpb, to) BY <1>2, <2>2, FlushUnmarks
  <2>3. CASE MmcoEnd
    BY <1>2, <2>3, FlushUnmarks DEF MmcoEnd, EmptyInv, Flushing
  <2>4. CASE Mmco3
    <3>1. UNCHANGED pc \/ Flush(dpb, "halt") BY <2>4 DEF Mmco3, Fail
    <3>2. QED BY <2>1, <2>2, <2>4, <3>1 DEF Mmco3
  <2>5. CASE Mmco6
    <3>1. PICK d, idx, mates :
            /\ d = IF cur.struct = "frame" THEN FreeFrameIdx(dpb, idx)
                   ELSE FreeFieldIdx(dpb, cur.struct, idx, mates)
            /\ UNCHANGED pc \/ Flush(d, "halt")
      BY <2>5 DEF Mmco6, Fail
    <3>2. d \in Buffers BY <1>2, <3>1, UnmarkLongInGood DEF FreeFrameIdx, FreeFieldIdx
    <3>3. QED BY <2>1, <2>5, <3>1, <3>2, FlushUnmarks DEF Mmco6
  <2>6. QED BY <1>9, <2>1, <2>3, <2>4, <2>5 DEF Mmco, Mmco1, Mmco2, Mmco4, Mmco5
<1>10. CASE Store
  <2>1. PICK d \in Buffers : pc' = "idle" \/ Flush(d, "halt")
    <3>1. GoodPicture(cur) BY <1>1, <1>10, IndInvParts DEF Store, CurGood, Busy
    <3>2. QED BY <1>2, <1>10, <3>1, StoreGood DEF Store, Fail
  <2>2. QED BY <2>1, FlushUnmarks DEF EmptyInv, Flushing
<1>11. CASE Bump
  <2>1. CASE pc' = "room" BY <2>1 DEF EmptyInv, Flushing
  <2>2. CASE pc' # "room"
    <3>1. PICK i \in NotOutput : Flush([dpb EXCEPT ![i] = AfterWrite(@)], "halt")
      BY <1>11, <2>2 DEF Bump, OutputOne, Fail
    <3>2. [dpb EXCEPT ![i] = AfterWrite(@)] \in Buffers
      BY <1>2, AfterWriteGood, ReplaceGood, BufferElements DEF NotOutput
    <3>3. QED BY <3>1, <3>2, FlushUnmarks
  <2>3. QED BY <2>1, <2>2
<1>12. CASE Receive \/ IdrTail \/ Pair \/ Slide \/ Trim \/ DirectOutput
  <2>1. CASE Receive
    <3>1. \A p, s : Started(p, s) => pc' \in {"idr", "mmco", "pair"} BY Zenon DEF Started
    <3>2. pc' \in {"idr", "mmco", "pair"}
      <4>1. CASE ReceiveIdr BY <3>1, <4>1, Zenon DEF ReceiveIdr
      <4>2. CASE ReceivePicture BY <3>1, <4>2, ZenonT(30) DEF ReceivePicture
      <4>3. CASE ReceiveSecondField BY <3>1, <4>3, Zenon DEF ReceiveSecondField
      <4>4. CASE FillFrameNumGap BY <3>1, <4>4, Zenon DEF FillFrameNumGap
      <4>5. QED BY <2>1, <4>1, <4>2, <4>3, <4>4 DEF Receive
    <3>3. QED BY <3>2 DEF EmptyInv, Flushing
  <2>2. CASE IdrTail \/ Pair \/ Slide \/ Trim \/ DirectOutput
    <3>1. pc' \in {"pair", "idle", "trim", "room"}
      BY <2>2 DEF IdrTail, Pair, Slide, Trim, DirectOutput
    <3>2. QED BY <3>1 DEF EmptyInv, Flushing
  <2>3. QED BY <1>12, <2>1, <2>2
<1>13. QED
  BY <1>1, <1>3, <1>4, <1>5, <1>6, <1>7, <1>8, <1>9, <1>10, <1>11, <1>12
     DEF Next, Work, Spin, Exited

LEMMA EmptyInit == Init => EmptyInv
BY DEF Init, EmptyInv, Flushing

-----------------------------------------------------------------------------
(***************************************************************************)
(* The stores that hold an index are in fs_ltref, which operations 2 to 4  *)
(* and 6 search, their long-term fields are references outside a flush,    *)
(* and two of them share an index only as LongTermIdxUnique allows.  The   *)
(* index that operation 6 gave to the current picture is free, but for the *)
(* store its first field may be in.                                        *)
(***************************************************************************)
Held(d) == {i \in DOMAIN d : d[i].lt # {}}

SharedRightly(d) ==
  \A i, j \in Held(d) : d[i].idx = d[j].idx => i = j \/ MayShareIdx(d[i], d[j])
Listed(d) == \A i \in Held(d) : d[i].long
LongRefs(d) == \A i \in DOMAIN d : d[i].lt \subseteq d[i].ref
FreeFor(d, l, p) ==
  \A i \in Held(d) : d[i].idx = p.idx =>
    i = l /\ p.struct # "frame" /\ d[i].num = p.num /\ p.struct \notin d[i].lt

LongInv ==
  /\ SharedRightly(dpb) /\ Listed(dpb)
  /\ pc \notin {"purge", "drain", "halt"} => LongRefs(dpb)
  /\ cur.lt /\ pc \in {"mmco", "pair", "trim", "room"} => FreeFor(dpb, last, cur)

(* What only takes marks away, store by store.                              *)
Fewer(g, f) ==
  g.num = f.num /\ (g.lt = {} \/ (g.lt \subseteq f.lt /\ g.idx = f.idx /\ g.long = f.long))
FewerIn(e, d) == DOMAIN e = DOMAIN d /\ \A i \in DOMAIN d : Fewer(e[i], d[i])

LEMMA FewerHolds ==
  ASSUME NEW d, NEW e, FewerIn(e, d)
  PROVE  /\ SharedRightly(d) => SharedRightly(e)
         /\ Listed(d) => Listed(e)
         /\ \A l, p : FreeFor(d, l, p) => FreeFor(e, l, p)
<1>1. \A i \in Held(e) : /\ i \in Held(d) /\ e[i].num = d[i].num
                         /\ e[i].lt \subseteq d[i].lt /\ e[i].idx = d[i].idx
                         /\ e[i].long = d[i].long
  BY DEF FewerIn, Fewer, Held
<1>2. SharedRightly(d) => SharedRightly(e)
  <2>1. SUFFICES ASSUME SharedRightly(d), NEW i \in Held(e), NEW j \in Held(e),
                        e[i].idx = e[j].idx, i # j
                 PROVE  MayShareIdx(e[i], e[j])
    BY DEF SharedRightly
  <2>2. MayShareIdx(d[i], d[j]) BY <1>1, <2>1 DEF SharedRightly
  <2>3. QED BY <1>1, <2>2 DEF MayShareIdx
<1>3. Listed(d) => Listed(e) BY <1>1 DEF Listed
<1>4. ASSUME NEW l, NEW p, FreeFor(d, l, p) PROVE FreeFor(e, l, p)
  BY <1>1, <1>4 DEF FreeFor
<1>5. QED BY <1>2, <1>3, <1>4

LEMMA FewerOf ==
  ASSUME NEW fs \in GoodStores
  PROVE  /\ Fewer(fs, fs) /\ Fewer(Unmark(fs), fs) /\ Fewer(UnmarkLong(fs), fs)
         /\ \A f : Fewer(UnmarkField(fs, f), fs) /\ Fewer(UnmarkLongField(fs, f), fs)
         /\ Fewer(AfterWrite(fs), fs)
<1>1. fs \in Stores BY DEF GoodStores
<1>2. /\ Fewer(fs, fs) /\ Fewer(Unmark(fs), fs) /\ Fewer(UnmarkLong(fs), fs)
      /\ \A f : Fewer(UnmarkField(fs, f), fs) /\ Fewer(UnmarkLongField(fs, f), fs)
  BY <1>1 DEF Stores, StoreOf, Fewer, Unmark, UnmarkLong, UnmarkField, UnmarkLongField
<1>3. Fewer(AfterWrite(fs), fs)
  BY <1>1 DEF Stores, StoreOf, Fewer, AfterWrite, FillUnpaired, Combined
<1>4. QED BY <1>2, <1>3

(* What leaves the long-term marks as they are.                             *)
SameMarks(e, d) ==
  /\ DOMAIN e = DOMAIN d
  /\ \A i \in DOMAIN d : /\ e[i].num = d[i].num /\ e[i].lt = d[i].lt
                         /\ e[i].idx = d[i].idx /\ e[i].ref = d[i].ref

LEMMA SameHolds ==
  ASSUME NEW d, NEW e, SameMarks(e, d)
  PROVE  /\ SharedRightly(d) => SharedRightly(e)
         /\ LongRefs(d) => LongRefs(e)
         /\ \A l, p : FreeFor(d, l, p) => FreeFor(e, l, p)
<1>1. Held(e) = Held(d) BY DEF SameMarks, Held
<1>2. SharedRightly(d) => SharedRightly(e)
  BY <1>1 DEF SharedRightly, SameMarks, MayShareIdx, Held
<1>3. LongRefs(d) => LongRefs(e) BY DEF LongRefs, SameMarks
<1>4. ASSUME NEW l, NEW p, FreeFor(d, l, p) PROVE FreeFor(e, l, p)
  BY <1>1, <1>4 DEF FreeFor, SameMarks, Held
<1>5. QED BY <1>2, <1>3, <1>4

(* fs_ltref made anew lists every store with a long-term field.             *)
LEMMA LongFieldListed ==
  ASSUME NEW fs \in GoodStores, fs.lt \subseteq fs.ref, fs.lt # {}
  PROVE  IsLongTerm(fs)
<1>1. /\ fs.used \in SUBSET Fields /\ fs.lt \in SUBSET Fields /\ fs.ref \in SUBSET Fields
      /\ fs.lt \subseteq fs.used /\ (FrameMbsOnly => fs.used = Fields)
      /\ BitsAgree(fs.ref, fs.pref) /\ BitsAgree(fs.lt, fs.plt)
  BY DEF GoodStores, Stores, StoreOf
<1>2. CASE FrameMbsOnly
  <2>1. fs.lt = Fields /\ fs.ref = Fields BY <1>1, <1>2 DEF BitsAgree
  <2>2. "frame" \in fs.pref /\ "frame" \in fs.plt /\ "frame" \in PicturesOf(fs)
    BY <1>1, <1>2, <2>1 DEF BitsAgree, PicturesOf
  <2>3. QED BY <2>2 DEF IsLongTerm
<1>3. CASE ~ FrameMbsOnly
  <2>1. PICK f \in fs.lt : TRUE OBVIOUS
  <2>2. f \in fs.pref /\ f \in fs.plt /\ f \in PicturesOf(fs)
    BY <1>1, <1>3, <2>1 DEF BitsAgree, PicturesOf
  <2>3. QED BY <2>2 DEF IsLongTerm
<1>4. QED BY <1>2, <1>3

LEMMA UpdateSame ==
  ASSUME NEW d \in Buffers
  PROVE  /\ SameMarks(UpdateRefList(d), d) /\ SameMarks(UpdateLtRefList(d), d)
         /\ SameMarks(UpdateLists(d), d)
         /\ Listed(d) => Listed(UpdateRefList(d))
         /\ LongRefs(d) => Listed(UpdateLtRefList(d)) /\ Listed(UpdateLists(d))
<1>1. \A fs \in Stores : \A b \in BOOLEAN :
        LET g == [fs EXCEPT !.short = b]
            h == [fs EXCEPT !.long = b]
        IN  /\ g.num = fs.num /\ g.lt = fs.lt /\ g.idx = fs.idx /\ g.ref = fs.ref
            /\ g.long = fs.long
            /\ h.num = fs.num /\ h.lt = fs.lt /\ h.idx = fs.idx /\ h.ref = fs.ref
            /\ h.long = b
  BY DEF Stores, StoreOf
<1>2. \A fs : IsShortTerm(fs) \in BOOLEAN /\ IsLongTerm(fs) \in BOOLEAN
  BY DEF IsShortTerm, IsLongTerm
<1>3. ASSUME NEW b \in Buffers
      PROVE  /\ SameMarks(UpdateRefList(b), b) /\ SameMarks(UpdateLtRefList(b), b)
             /\ Listed(b) => Listed(UpdateRefList(b))
             /\ LongRefs(b) => Listed(UpdateLtRefList(b))
  <2>1. \A i \in DOMAIN b : b[i] \in GoodStores /\ b[i] \in Stores
    BY BufferElements DEF GoodStores
  <2> DEFINE e == UpdateRefList(b)
             f == UpdateLtRefList(b)
  <2>2. /\ DOMAIN e = DOMAIN b
        /\ \A i \in DOMAIN b : e[i] = [b[i] EXCEPT !.short = IsShortTerm(b[i])]
    BY DEF UpdateRefList
  <2>3. /\ DOMAIN f = DOMAIN b
        /\ \A i \in DOMAIN b : f[i] = [b[i] EXCEPT !.long = IsLongTerm(b[i])]
    BY DEF UpdateLtRefList
  <2> HIDE DEF e, f
  <2>4. \A i \in DOMAIN b : /\ e[i].num = b[i].num /\ e[i].lt = b[i].lt
                            /\ e[i].idx = b[i].idx /\ e[i].ref = b[i].ref
                            /\ e[i].long = b[i].long
    <3>1. SUFFICES ASSUME NEW i \in DOMAIN b
                   PROVE  /\ e[i].num = b[i].num /\ e[i].lt = b[i].lt
                          /\ e[i].idx = b[i].idx /\ e[i].ref = b[i].ref
                          /\ e[i].long = b[i].long
      OBVIOUS
    <3>2. b[i] \in Stores /\ IsShortTerm(b[i]) \in BOOLEAN BY <1>2, <2>1
    <3>3. e[i] = [b[i] EXCEPT !.short = IsShortTerm(b[i])] BY <2>2
    <3>4. QED BY <1>1, <3>2, <3>3
  <2>5. \A i \in DOMAIN b : /\ f[i].num = b[i].num /\ f[i].lt = b[i].lt
                            /\ f[i].idx = b[i].idx /\ f[i].ref = b[i].ref
                            /\ f[i].long = IsLongTerm(b[i])
    <3>1. SUFFICES ASSUME NEW i \in DOMAIN b
                   PROVE  /\ f[i].num = b[i].num /\ f[i].lt = b[i].lt
                          /\ f[i].idx = b[i].idx /\ f[i].ref = b[i].ref
                          /\ f[i].long = IsLongTerm(b[i])
      OBVIOUS
    <3>2. b[i] \in Stores /\ IsLongTerm(b[i]) \in BOOLEAN BY <1>2, <2>1
    <3>3. f[i] = [b[i] EXCEPT !.long = IsLongTerm(b[i])] BY <2>3
    <3>4. QED BY <1>1, <3>2, <3>3
  <2>6. SameMarks(e, b) /\ SameMarks(f, b) BY <2>2, <2>3, <2>4, <2>5 DEF SameMarks
  <2>7. Listed(b) => Listed(e) BY <2>2, <2>4 DEF Listed, Held
  <2>8. LongRefs(b) => Listed(f)
    BY <2>1, <2>3, <2>5, LongFieldListed DEF Listed, Held, LongRefs
  <2>9. QED BY <2>6, <2>7, <2>8 DEF e, f
<1>4. UpdateRefList(d) \in Buffers BY UpdateListsGood
<1>5. SameMarks(UpdateLists(d), d)
  BY <1>3, <1>4 DEF UpdateLists, SameMarks
<1>6. LongRefs(d) => Listed(UpdateLists(d))
  BY <1>3, <1>4, SameHolds DEF UpdateLists
<1>7. QED BY <1>3, <1>5, <1>6

(* What the stores that stay hold when one leaves.                          *)
LEMMA RemovalHolds ==
  ASSUME NEW d \in Buffers, NEW i \in DOMAIN d, last \in 0 .. Len(d)
  PROVE  /\ SharedRightly(d) => SharedRightly(RemoveAt(d, i))
         /\ Listed(d) => Listed(RemoveAt(d, i))
         /\ LongRefs(d) => LongRefs(RemoveAt(d, i))
         /\ \A p : FreeFor(d, last, p) => FreeFor(RemoveAt(d, i), LastAfterRemove(i), p)
<1> DEFINE e == RemoveAt(d, i)
           h(j) == IF j < i THEN j ELSE j + 1
<1>1. DOMAIN d = 1 .. Len(d) /\ Len(d) \in Nat /\ i \in 1 .. Len(d) BY BufferElements
<1>2. \A j \in DOMAIN e : j \in 1 .. Len(d) - 1 /\ h(j) \in DOMAIN d /\ e[j] = d[h(j)]
  BY RemoveElementAt
<1> HIDE DEF e
<1>3. \A j \in Held(e) : h(j) \in Held(d) BY <1>2 DEF Held
<1>4. \A j, k \in DOMAIN e : h(j) = h(k) => j = k BY <1>1, <1>2
<1>5. \A j \in DOMAIN e : h(j) = last => j = LastAfterRemove(i)
  BY <1>1, <1>2 DEF LastAfterRemove
<1>6. Held(e) \subseteq DOMAIN e BY DEF Held
<1> HIDE DEF h
<1>7. SharedRightly(d) => SharedRightly(e)
  BY <1>2, <1>3, <1>4, <1>6 DEF SharedRightly
<1>8. Listed(d) => Listed(e) BY <1>2, <1>3, <1>6 DEF Listed
<1>9. LongRefs(d) => LongRefs(e) BY <1>2 DEF LongRefs
<1>10. ASSUME NEW p, FreeFor(d, last, p) PROVE FreeFor(e, LastAfterRemove(i), p)
  BY <1>2, <1>3, <1>5, <1>6, <1>10 DEF FreeFor
<1>11. QED BY <1>7, <1>8, <1>9, <1>10 DEF e

-----------------------------------------------------------------------------
(* What the stream's operations on the buffer leave.  Good(d) is what they  *)
(* find: stores that may share an index only by the rule, all listed.       *)
Good(d) == SharedRightly(d) /\ Listed(d) /\ LongRefs(d)

LEMMA UnmarkingGood ==
  ASSUME NEW d \in Buffers, Good(d), NEW e, FewerIn(e, d),
         \A i \in DOMAIN d : e[i].lt \subseteq e[i].ref
  PROVE  Good(e)
  BY FewerHolds DEF Good, LongRefs, FewerIn

LEMMA UnmarkLongKeeps ==
  ASSUME NEW d \in Buffers, Good(d), NEW S
  PROVE  /\ Good(UnmarkLongIn(d, S)) /\ FewerIn(UnmarkLongIn(d, S), d)
         /\ \A i \in DOMAIN d : i \in S => UnmarkLongIn(d, S)[i].lt = {}
         /\ \A i \in DOMAIN d : i \notin S => UnmarkLongIn(d, S)[i] = d[i]
         /\ \A i \in DOMAIN d : i \in S => UnmarkLongIn(d, S)[i].ref = {}
<1> DEFINE e == UnmarkLongIn(d, S)
<1>1. \A i \in DOMAIN d : d[i] \in GoodStores /\ d[i] \in Stores
  BY BufferElements DEF GoodStores
<1>2. /\ DOMAIN e = DOMAIN d
      /\ \A i \in DOMAIN d : e[i] = IF i \in S THEN UnmarkLong(d[i]) ELSE d[i]
  BY DEF UnmarkLongIn
<1> HIDE DEF e
<1>3. \A fs \in Stores : UnmarkLong(fs).lt = {} /\ UnmarkLong(fs).ref = {}
  BY DEF Stores, StoreOf, UnmarkLong
<1>4. FewerIn(e, d) BY <1>1, <1>2, FewerOf DEF FewerIn
<1>5. \A i \in DOMAIN d : e[i].lt \subseteq e[i].ref
  BY <1>1, <1>2, <1>3 DEF Good, LongRefs
<1>6. Good(e) BY <1>4, <1>5, UnmarkingGood
<1>7. QED BY <1>1, <1>2, <1>3, <1>4, <1>6 DEF e

LEMMA UnmarkShortTermKeeps ==
  ASSUME NEW d \in Buffers, Good(d), NEW x
  PROVE  Good(UnmarkShortTerm(d, x))
<1> DEFINE e == UnmarkShortTerm(d, x)
<1>1. \A i \in DOMAIN d : /\ d[i] \in GoodStores /\ d[i] \in Stores
                          /\ d[i].lt \subseteq d[i].ref
  BY BufferElements DEF GoodStores, Good, LongRefs
<1>2. \A fs \in Stores : \A f :
        /\ UnmarkField(fs, f).lt = fs.lt /\ UnmarkField(fs, f).ref = fs.ref \ {f}
        /\ Unmark(fs).lt = fs.lt
  BY DEF Stores, StoreOf, UnmarkField, Unmark
<1>3. \A i \in DOMAIN d :
        /\ Fewer(e[i], d[i]) /\ e[i].lt \subseteq e[i].ref
  <2>1. CASE cur.struct = "frame"
    <3> DEFINE hits == {i \in ShortList(d) : /\ d[i].ref = Fields /\ d[i].lt = {}
                                             /\ PicNum(d[i], "frame", cur) = x}
    <3>1. \A i \in DOMAIN d : e[i] = IF i \in FirstOf(hits) THEN Unmark(d[i]) ELSE d[i]
      BY <2>1 DEF UnmarkShortTerm, UnmarkIn
    <3>2. \A i \in FirstOf(hits) : d[i].lt = {} BY DEF FirstOf
    <3> HIDE DEF hits, e
    <3>3. QED BY <1>1, <1>2, <3>1, <3>2, FewerOf
  <2>2. CASE cur.struct # "frame"
    <3> DEFINE hits == {i \in ShortList(d) : ShortFields(d, i, x) \ d[i].lt # {}}
               g(i) == CHOOSE f \in Fields : f \in ShortFields(d, i, x) \ d[i].lt
    <3>1. \A i \in DOMAIN d :
            e[i] = IF i \notin FirstOf(hits) THEN d[i] ELSE UnmarkField(d[i], g(i))
      BY <2>2 DEF UnmarkShortTerm
    <3>2. \A i \in FirstOf(hits) : g(i) \notin d[i].lt
      <4>1. \A i \in FirstOf(hits) : \E f \in Fields : f \in ShortFields(d, i, x) \ d[i].lt
        <5>1. \A i \in FirstOf(hits) : i \in DOMAIN d BY DEF FirstOf, ShortList
        <5>2. \A i \in DOMAIN d : d[i].ref \subseteq Fields BY <1>1 DEF Stores, StoreOf
        <5>3. QED BY <5>1, <5>2 DEF FirstOf, ShortFields
      <4>2. QED BY <4>1
    <3> HIDE DEF hits, e, g
    <3>3. QED BY <1>1, <1>2, <3>1, <3>2, FewerOf
  <2>3. QED BY <2>1, <2>2
<1>4. DOMAIN e = DOMAIN d
  <2>1. CASE cur.struct = "frame" BY <2>1 DEF UnmarkShortTerm, UnmarkIn
  <2>2. CASE cur.struct # "frame" BY <2>2 DEF UnmarkShortTerm
  <2>3. QED BY <2>1, <2>2
<1> HIDE DEF e
<1>5. FewerIn(e, d) BY <1>3, <1>4 DEF FewerIn
<1>6. QED BY <1>3, <1>5, UnmarkingGood DEF e

LEMMA UnmarkLongTermKeeps ==
  ASSUME NEW d \in Buffers, Good(d), NEW n
  PROVE  Good(UnmarkLongTerm(d, n))
<1>1. CASE cur.struct = "frame" BY <1>1, UnmarkLongKeeps DEF UnmarkLongTerm
<1>2. CASE cur.struct # "frame"
  <2> DEFINE e == UnmarkLongTerm(d, n)
             hits == {i \in LongList(d) : LongFields(d, i, n) # {}}
             g(i) == CHOOSE f \in Fields : f \in LongFields(d, i, n)
  <2>1. /\ DOMAIN e = DOMAIN d
        /\ \A i \in DOMAIN d :
             e[i] = IF i \notin FirstOf(hits) THEN d[i] ELSE UnmarkLongField(d[i], g(i))
    BY <1>2 DEF UnmarkLongTerm
  <2>2. \A i \in DOMAIN d : /\ d[i] \in GoodStores /\ d[i] \in Stores
                            /\ d[i].lt \subseteq d[i].ref
    BY BufferElements DEF GoodStores, Good, LongRefs
  <2>3. \A fs \in Stores : \A f :
          /\ UnmarkLongField(fs, f).lt = fs.lt \ {f}
          /\ UnmarkLongField(fs, f).ref = fs.ref \ {f}
    BY DEF Stores, StoreOf, UnmarkLongField
  <2> HIDE DEF e, hits, g
  <2>4. \A i \in DOMAIN d : Fewer(e[i], d[i]) /\ e[i].lt \subseteq e[i].ref
    BY <2>1, <2>2, <2>3, FewerOf
  <2>5. FewerIn(e, d) BY <2>1, <2>4 DEF FewerIn
  <2>6. QED BY <2>4, <2>5, UnmarkingGood DEF e
<1>3. QED BY <1>1, <1>2

(* Taking an index from the frames that hold it.                            *)
LEMMA FreeFrameIdxFrees ==
  ASSUME NEW d \in Buffers, Good(d), NEW idx
  PROVE  /\ Good(FreeFrameIdx(d, idx))
         /\ FewerIn(FreeFrameIdx(d, idx), d)
         /\ \A i \in Held(FreeFrameIdx(d, idx)) : d[i].idx # idx /\ FreeFrameIdx(d, idx)[i] = d[i]
<1> DEFINE S == {i \in LongList(d) : d[i].idx = idx}
<1>1. FreeFrameIdx(d, idx) = UnmarkLongIn(d, S) BY DEF FreeFrameIdx
<1>2. Held(d) \subseteq LongList(d) BY DEF Good, Listed, LongList, Held
<1>3. ASSUME NEW i \in Held(UnmarkLongIn(d, S))
      PROVE  d[i].idx # idx /\ UnmarkLongIn(d, S)[i] = d[i]
  <2>1. i \in DOMAIN d /\ UnmarkLongIn(d, S)[i].lt # {} BY DEF Held, UnmarkLongIn
  <2>2. i \notin S BY <2>1, UnmarkLongKeeps
  <2>3. UnmarkLongIn(d, S)[i] = d[i] BY <2>1, <2>2, UnmarkLongKeeps
  <2>4. i \in Held(d) BY <2>1, <2>3 DEF Held
  <2>5. QED BY <1>2, <2>2, <2>3, <2>4
<1>4. QED BY <1>1, <1>3, UnmarkLongKeeps

LEMMA FreeFieldIdxFrees ==
  ASSUME NEW d \in Buffers, Good(d), NEW f, NEW idx, NEW mates,
         NEW e, e = FreeFieldIdx(d, f, idx, mates)
  PROVE  /\ Good(e) /\ FewerIn(e, d)
         /\ \A i \in DOMAIN d : e[i] = d[i] \/ (e[i].ref = {} /\ e[i].lt = {})
         /\ \A i \in Held(e) :
              e[i] = d[i] /\ (d[i].idx = idx => i \in mates /\ f \notin d[i].lt)
<1> DEFINE S == {i \in LongList(d) : d[i].idx = idx /\ (f \in d[i].lt \/ i \notin mates)}
<1>1. FreeFieldIdx(d, f, idx, mates) = UnmarkLongIn(d, S) BY DEF FreeFieldIdx
<1>2. Held(d) \subseteq LongList(d) BY DEF Good, Listed, LongList, Held
<1>3. ASSUME NEW i \in Held(UnmarkLongIn(d, S))
      PROVE  /\ UnmarkLongIn(d, S)[i] = d[i]
             /\ d[i].idx = idx => i \in mates /\ f \notin d[i].lt
  <2>1. i \in DOMAIN d /\ UnmarkLongIn(d, S)[i].lt # {} BY DEF Held, UnmarkLongIn
  <2>2. i \notin S BY <2>1, UnmarkLongKeeps
  <2>3. UnmarkLongIn(d, S)[i] = d[i] BY <2>1, <2>2, UnmarkLongKeeps
  <2>4. i \in Held(d) BY <2>1, <2>3 DEF Held
  <2>5. QED BY <1>2, <2>2, <2>3, <2>4
<1>4. \A i \in DOMAIN d : \/ UnmarkLongIn(d, S)[i] = d[i]
                          \/ UnmarkLongIn(d, S)[i].ref = {} /\ UnmarkLongIn(d, S)[i].lt = {}
  BY UnmarkLongKeeps
<1>5. QED BY <1>1, <1>3, <1>4, UnmarkLongKeeps

-----------------------------------------------------------------------------
LEMMA Halved ==
  ASSUME NEW n \in Int, NEW b \in {0, 1}
  PROVE  (2 * n + b) \div 2 = n
<1>1. CASE b = 0 BY <1>1
<1>2. CASE b = 1 BY <1>2
<1>3. QED BY <1>1, <1>2

(* A picture number tells the parity of a field and the frame_num of its    *)
(* frame, which operation 3 compares.                                       *)
LEMMA PicNumTells ==
  ASSUME GoodPicture(cur), cur.struct # "frame", NEW fs \in Stores, NEW f \in Fields,
         NEW x, x = PicNum(fs, f, cur)
  PROVE  /\ x \in Int
         /\ (IF x < 0 THEN x + 2 * MaxFrameNum ELSE x) \div 2 = fs.num
         /\ \A gs \in Stores : \A g \in Fields : PicNum(gs, g, cur) = x => g = f
<1> DEFINE w(s) == IF s.num > cur.num THEN s.num - MaxFrameNum ELSE s.num
           b(g) == IF g = cur.struct THEN 1 ELSE 0
<1>1. cur.num \in FrameNums /\ cur.struct \in Fields
  BY PictureFields DEF GoodPicture, Pictures, PictureOf, Views
<1>2. \A s \in Stores : s.num \in FrameNums BY DEF Stores, StoreOf
<1>3. \A s \in Stores : \A g \in Fields : PicNum(s, g, cur) = 2 * w(s) + b(g)
  BY DEF PicNum, FrameNumWrap, Fields
<1>4. \A s \in Stores : w(s) \in Int /\ w(s) \in {s.num, s.num - MaxFrameNum} /\ w(s) >= -MaxFrameNum
                        /\ (w(s) < 0 <=> w(s) = s.num - MaxFrameNum) /\ (w(s) >= 0 <=> w(s) = s.num)
  BY <1>1, <1>2, MaxFrameNumAssumption DEF FrameNums
<1>5. \A g : b(g) \in {0, 1} OBVIOUS
<1>6. x = 2 * w(fs) + b(f) BY <1>3
<1>7. ASSUME NEW gs \in Stores, NEW g \in Fields, PicNum(gs, g, cur) = x PROVE g = f
  <2>1. 2 * w(gs) + b(g) = 2 * w(fs) + b(f) BY <1>3, <1>6, <1>7
  <2>2. b(g) = b(f)
    <3> HIDE DEF w, b
    <3>1. w(gs) \in Int /\ w(fs) \in Int /\ b(g) \in {0, 1} /\ b(f) \in {0, 1}
      BY <1>4, <1>5
    <3>2. QED BY <2>1, <3>1
  <2>3. g = cur.struct <=> f = cur.struct BY <2>2
  <2>4. QED BY <1>1, <2>3 DEF Fields
<1>8. x \in Int /\ (IF x < 0 THEN x + 2 * MaxFrameNum ELSE x) \div 2 = fs.num
  <2>1. w(fs) \in Int /\ b(f) \in {0, 1} /\ fs.num \in Int /\ MaxFrameNum \in Int
    BY <1>2, <1>4, <1>5, MaxFrameNumAssumption DEF FrameNums
  <2>2. CASE w(fs) < 0
    <3>1. w(fs) = fs.num - MaxFrameNum BY <1>4, <2>2
    <3> HIDE DEF w, b
    <3>2. x < 0 /\ x + 2 * MaxFrameNum = 2 * fs.num + b(f) /\ x \in Int
      BY <1>6, <2>1, <2>2, <3>1
    <3>3. (2 * fs.num + b(f)) \div 2 = fs.num BY <2>1, Halved
    <3>4. QED BY <3>2, <3>3
  <2>3. CASE ~ (w(fs) < 0)
    <3>1. w(fs) = fs.num /\ w(fs) >= 0 BY <1>4, <2>1, <2>3
    <3> HIDE DEF w, b
    <3>2. ~ (x < 0) /\ x = 2 * fs.num + b(f) /\ x \in Int
      BY <1>6, <2>1, <2>3, <3>1
    <3>3. (2 * fs.num + b(f)) \div 2 = fs.num BY <2>1, Halved
    <3>4. QED BY <3>2, <3>3
  <2>4. QED BY <2>2, <2>3
<1>9. QED BY <1>7, <1>8

LEMMA FirstOfOne ==
  ASSUME NEW d \in Buffers, NEW S \in SUBSET DOMAIN d, NEW i \in FirstOf(S), NEW j \in FirstOf(S)
  PROVE  i = j
<1>1. i \in S /\ j \in S /\ i <= j /\ j <= i BY DEF FirstOf
<1>2. i \in Int /\ j \in Int BY <1>1, BufferElements
<1>3. QED BY <1>1, <1>2

(* Operation 3 for a frame: no other store holds the index it gets.         *)
LEMMA MarkFrameKeeps ==
  ASSUME NEW d \in Buffers, Good(d), NEW x, NEW idx \in Idxs, cur.struct = "frame",
         \A i \in Held(d) : d[i].idx # idx
  PROVE  SharedRightly(MarkPicLongTerm(d, x, idx)) /\ LongRefs(MarkPicLongTerm(d, x, idx))
<1> DEFINE hits == {i \in ShortList(d) : /\ d[i].ref = Fields /\ "frame" \notin d[i].plt
                                         /\ PicNum(d[i], "frame", cur) = x}
           e == MarkPicLongTerm(d, x, idx)
<1>1. /\ DOMAIN e = DOMAIN d
      /\ \A i \in DOMAIN d :
           e[i] = IF i \in FirstOf(hits) THEN MarkFrameLong(d[i], idx) ELSE d[i]
  BY DEF MarkPicLongTerm
<1>2. \A i \in DOMAIN d : d[i] \in Stores BY BufferElements DEF GoodStores
<1>3. \A i \in FirstOf(hits) : d[i].ref = Fields BY DEF FirstOf
<1>4. hits \in SUBSET DOMAIN d BY DEF ShortList
<1> HIDE DEF e, hits
<1>5. \A fs \in Stores :
        LET g == MarkFrameLong(fs, idx)
        IN  g.lt = Fields /\ g.idx = idx /\ g.ref = fs.ref
  BY DEF Stores, StoreOf, MarkFrameLong
<1>6. SharedRightly(e)
  <2>1. SUFFICES ASSUME NEW i \in Held(e), NEW j \in Held(e), e[i].idx = e[j].idx, i # j
                 PROVE  MayShareIdx(e[i], e[j])
    BY DEF SharedRightly
  <2>2. i \in DOMAIN d /\ j \in DOMAIN d BY <1>1 DEF Held
  <2>3. i \notin FirstOf(hits) /\ j \notin FirstOf(hits)
    <3>1. ASSUME NEW k \in DOMAIN d, k \in Held(e), e[k].idx = idx PROVE k \in FirstOf(hits)
      <4>1. SUFFICES ASSUME k \notin FirstOf(hits) PROVE FALSE OBVIOUS
      <4>2. e[k] = d[k] BY <1>1, <4>1
      <4>3. QED BY <3>1, <4>2 DEF Held
    <3>2. \A k \in DOMAIN d : k \in FirstOf(hits) => e[k].idx = idx BY <1>1, <1>2, <1>5
    <3>3. i \in FirstOf(hits) <=> j \in FirstOf(hits) BY <2>1, <2>2, <3>1, <3>2
    <3>4. QED BY <1>4, <2>1, <3>3, FirstOfOne
  <2>4. e[i] = d[i] /\ e[j] = d[j] BY <1>1, <2>2, <2>3
  <2>5. i \in Held(d) /\ j \in Held(d) BY <2>1, <2>2, <2>4 DEF Held
  <2>6. QED BY <2>1, <2>4, <2>5 DEF Good, SharedRightly
<1>7. LongRefs(e) BY <1>1, <1>2, <1>3, <1>5 DEF Good, LongRefs
<1>8. QED BY <1>6, <1>7 DEF e

(* Operation 3 for a field: what holds the index already is the store of    *)
(* the field, or has its frame_num.                                         *)
LEMMA MarkFieldKeeps ==
  ASSUME IndInv, NEW x, NEW idx \in Idxs, GoodPicture(cur), cur.struct # "frame",
         dpb \in Buffers, Good(dpb),
         NEW f \in NamedFields(x),
         \A i \in ShortList(dpb) : f \in ShortFields(dpb, i, x) /\ dpb[i].lt # {} => dpb[i].idx = idx,
         NEW mates,
         mates = {i \in DOMAIN dpb :
                    dpb[i].num = (IF x < 0 THEN x + 2 * MaxFrameNum ELSE x) \div 2}
  PROVE  LET e == MarkPicLongTerm(FreeFieldIdx(dpb, f, idx, mates), x, idx)
         IN  SharedRightly(e) /\ LongRefs(e)
<1> DEFINE d == FreeFieldIdx(dpb, f, idx, mates)
           e == MarkPicLongTerm(d, x, idx)
           hits == {i \in ShortList(d) : ShortFields(d, i, x) \ d[i].plt # {}}
           g(i) == CHOOSE v \in Fields : v \in ShortFields(d, i, x) \ d[i].plt
<1>1. /\ DOMAIN e = DOMAIN d
      /\ \A i \in DOMAIN d :
           e[i] = IF i \notin FirstOf(hits) THEN d[i] ELSE MarkFieldLong(d[i], g(i), idx)
  BY DEF MarkPicLongTerm
<1>2. d \in Buffers BY UnmarkLongInGood DEF FreeFieldIdx
<1>3. \A i \in DOMAIN d : d[i] \in Stores BY <1>2, BufferElements DEF GoodStores
<1>4. /\ Good(d) /\ FewerIn(d, dpb)
      /\ \A i \in DOMAIN dpb : d[i] = dpb[i] \/ (d[i].ref = {} /\ d[i].lt = {})
      /\ \A i \in Held(d) : d[i] = dpb[i] /\ (dpb[i].idx = idx => i \in mates /\ f \notin dpb[i].lt)
  <2>1. d = FreeFieldIdx(dpb, f, idx, mates) OBVIOUS
  <2> HIDE DEF d, e, hits, g
  <2>2. dpb \in Buffers /\ Good(dpb) OBVIOUS
  <2>3. QED BY ONLY <2>1, <2>2, FreeFieldIdxFrees
<1>5. DOMAIN d = DOMAIN dpb BY <1>4 DEF FewerIn
<1>6. f \in Fields /\ \E k \in DOMAIN dpb : PicNum(dpb[k], f, cur) = x
  BY DEF NamedFields, ShortFields, ShortList
<1>7. \A s \in Stores : \A v \in Fields : PicNum(s, v, cur) = x =>
        v = f /\ s.num = (IF x < 0 THEN x + 2 * MaxFrameNum ELSE x) \div 2
  <2>1. PICK k \in DOMAIN dpb : PicNum(dpb[k], f, cur) = x BY <1>6
  <2>2. dpb[k] \in Stores BY BufferElements DEF GoodStores
  <2>3. QED BY <1>6, <2>1, <2>2, PicNumTells
<1> HIDE DEF d, e
<1>8. \A i \in FirstOf(hits) :
        /\ i \in DOMAIN d /\ i \in ShortList(d) /\ g(i) = f /\ f \in d[i].ref /\ d[i] = dpb[i]
        /\ i \in mates /\ (d[i].lt # {} => d[i].idx = idx)
  <2>1. SUFFICES ASSUME NEW i \in FirstOf(hits)
                 PROVE  /\ i \in DOMAIN d /\ i \in ShortList(d) /\ g(i) = f /\ f \in d[i].ref /\ d[i] = dpb[i]
                        /\ i \in mates /\ (d[i].lt # {} => d[i].idx = idx)
    OBVIOUS
  <2>2. i \in ShortList(d) /\ ShortFields(d, i, x) \ d[i].plt # {} BY DEF FirstOf
  <2>3. i \in DOMAIN d /\ d[i].short BY <2>2 DEF ShortList
  <2>4. \A v \in ShortFields(d, i, x) : v \in Fields /\ v \in d[i].ref /\ PicNum(d[i], v, cur) = x
    BY <1>3, <2>3 DEF ShortFields, Stores, StoreOf
  <2>5. \A v \in ShortFields(d, i, x) : v = f BY <1>3, <1>7, <2>3, <2>4
  <2>6. g(i) \in ShortFields(d, i, x) /\ f \in ShortFields(d, i, x)
    BY <2>2, <2>4, <2>5
  <2>7. d[i] = dpb[i] BY <1>4, <1>5, <2>3, <2>4, <2>6
  <2>8. i \in mates BY <1>3, <1>5, <1>7, <2>3, <2>4, <2>6, <2>7
  <2>9. i \in ShortList(dpb) /\ f \in ShortFields(dpb, i, x)
    BY <1>5, <2>3, <2>6, <2>7 DEF ShortList, ShortFields
  <2>10. QED BY <2>2, <2>3, <2>4, <2>5, <2>6, <2>7, <2>8, <2>9
<1>9. hits \in SUBSET DOMAIN d BY DEF ShortList
<1> HIDE DEF hits, g
<1>10. \A fs \in Stores :
         LET m == MarkFieldLong(fs, f, idx)
         IN  m.lt = fs.lt \cup {f} /\ m.idx = idx /\ m.ref = fs.ref /\ m.num = fs.num
  BY DEF Stores, StoreOf, MarkFieldLong
<1>11. \A i \in FirstOf(hits) :
         /\ e[i].lt = d[i].lt \cup {f} /\ e[i].idx = idx /\ e[i].ref = d[i].ref
         /\ e[i].num = d[i].num
  BY <1>1, <1>3, <1>8, <1>10
<1>12. LongRefs(e)
  BY <1>1, <1>4, <1>8, <1>11 DEF Good, LongRefs
<1>13. ASSUME NEW i \in FirstOf(hits), NEW j \in Held(e), j \notin FirstOf(hits), e[j].idx = idx
       PROVE  MayShareIdx(e[i], e[j])
  <2>1. j \in DOMAIN d /\ e[j] = d[j] /\ j \in Held(d) BY <1>1, <1>13 DEF Held
  <2>2. d[j] = dpb[j] /\ j \in mates /\ f \notin d[j].lt BY <1>4, <1>13, <2>1
  <2>3. i \in DOMAIN d /\ d[i] = dpb[i] /\ i \in mates /\ (d[i].lt # {} => d[i].idx = idx)
    BY <1>8
  <2>4. d[i].num = d[j].num BY <2>2, <2>3
  <2>5. d[i].lt \cap d[j].lt = {}
    <3>1. CASE d[i].lt = {} BY <3>1
    <3>2. CASE d[i].lt # {}
      <4>1. i \in Held(d) /\ d[i].idx = d[j].idx /\ i # j
        BY <1>13, <2>1, <2>3, <3>2 DEF Held
      <4>2. QED BY <1>4, <2>1, <4>1 DEF Good, SharedRightly, MayShareIdx
    <3>3. QED BY <3>1, <3>2
  <2>6. QED BY <1>11, <2>1, <2>2, <2>4, <2>5 DEF MayShareIdx
<1>14. SharedRightly(e)
  <2>1. SUFFICES ASSUME NEW i \in Held(e), NEW j \in Held(e), e[i].idx = e[j].idx, i # j
                 PROVE  MayShareIdx(e[i], e[j])
    BY DEF SharedRightly
  <2>2. \A a, b : MayShareIdx(a, b) => MayShareIdx(b, a) BY DEF MayShareIdx
  <2>3. CASE i \in FirstOf(hits)
    <3>1. j \notin FirstOf(hits) BY <1>2, <1>9, <2>1, <2>3, FirstOfOne
    <3>2. QED BY <1>11, <1>13, <2>1, <2>3, <3>1
  <2>4. CASE j \in FirstOf(hits)
    <3>1. i \notin FirstOf(hits) BY <1>2, <1>9, <2>1, <2>4, FirstOfOne
    <3>2. QED BY <1>11, <1>13, <2>1, <2>2, <2>4, <3>1
  <2>5. CASE i \notin FirstOf(hits) /\ j \notin FirstOf(hits)
    <3>1. i \in DOMAIN d /\ j \in DOMAIN d /\ e[i] = d[i] /\ e[j] = d[j]
      BY <1>1, <2>5 DEF Held
    <3>2. i \in Held(d) /\ j \in Held(d) BY <2>1, <3>1 DEF Held
    <3>3. QED BY <1>4, <2>1, <3>1, <3>2 DEF Good, SharedRightly
  <2>6. QED BY <2>3, <2>4, <2>5
<1>15. QED BY <1>12, <1>14 DEF d, e

-----------------------------------------------------------------------------
(* The steps.                                                               *)
LEMMA EmptyHolds ==
  ASSUME NEW d, DOMAIN d = {}
  PROVE  SharedRightly(d) /\ Listed(d) /\ LongRefs(d) /\ \A l, p : FreeFor(d, l, p)
  BY DEF SharedRightly, Listed, LongRefs, FreeFor, Held

LEMMA FlushLong ==
  ASSUME NEW d \in Buffers, SharedRightly(d), Listed(d), NEW to, Flush(d, to)
  PROVE  LongInv'
<1>1. pc' = "purge" /\ dpb' = [i \in DOMAIN d |-> Unmark(d[i])] BY DEF Flush
<1>2. FewerIn(dpb', d) BY <1>1, FewerOf, BufferElements DEF FewerIn
<1>3. SharedRightly(dpb') /\ Listed(dpb') BY <1>2, FewerHolds
<1>4. QED BY <1>1, <1>3 DEF LongInv

LEMMA OutputLong ==
  ASSUME dpb \in Buffers, last \in 0 .. Len(dpb), SharedRightly(dpb), Listed(dpb),
         OutputOne
  PROVE  \/ LongInv' /\ pc' = "purge"
         \/ /\ UNCHANGED pc
            /\ SharedRightly(dpb') /\ Listed(dpb')
            /\ LongRefs(dpb) => LongRefs(dpb')
            /\ \A p : FreeFor(dpb, last, p) => FreeFor(dpb', last', p)
<1>1. PICK i \in NotOutput :
        LET d == [dpb EXCEPT ![i] = AfterWrite(@)]
        IN \/ Flush(d, "halt")
           \/ /\ UNCHANGED pc
              /\ \/ dpb' = d /\ last' = last
                 \/ dpb' = RemoveAt(d, i) /\ last' = LastAfterRemove(i)
  BY DEF OutputOne, Fail
<1> DEFINE d == [dpb EXCEPT ![i] = AfterWrite(dpb[i])]
<1>2. i \in DOMAIN dpb /\ dpb[i] \in GoodStores BY BufferElements DEF NotOutput
<1>3. d \in Buffers /\ DOMAIN d = DOMAIN dpb /\ Len(d) = Len(dpb)
  BY <1>2, AfterWriteGood, ReplaceGood, BufferElements
<1>4. FewerIn(d, dpb) BY <1>2, BufferElements, FewerOf DEF FewerIn
<1>5. LongRefs(dpb) => LongRefs(d)
  <2>1. AfterWrite(dpb[i]).lt = dpb[i].lt /\ AfterWrite(dpb[i]).ref = dpb[i].ref
    BY <1>2 DEF GoodStores, Stores, StoreOf, AfterWrite, FillUnpaired, Combined
  <2>2. QED BY <1>2, <2>1 DEF LongRefs
<1>6. /\ Flush(d, "halt")
      \/ /\ UNCHANGED pc
         /\ \/ dpb' = d /\ last' = last
            \/ dpb' = RemoveAt(d, i) /\ last' = LastAfterRemove(i)
  BY <1>1
<1> HIDE DEF d
<1>7. SharedRightly(d) /\ Listed(d) /\ \A p : FreeFor(dpb, last, p) => FreeFor(d, last, p)
  BY <1>4, FewerHolds
<1>8. CASE Flush(d, "halt") BY <1>3, <1>7, <1>8, FlushLong DEF Flush
<1>9. CASE UNCHANGED pc /\ dpb' = d /\ last' = last BY <1>5, <1>7, <1>9
<1>10. CASE UNCHANGED pc /\ dpb' = RemoveAt(d, i) /\ last' = LastAfterRemove(i)
  BY <1>2, <1>3, <1>5, <1>7, <1>10, RemovalHolds
<1>11. QED BY <1>6, <1>8, <1>9, <1>10

LEMMA RemoveUnusedLong ==
  ASSUME dpb \in Buffers, last \in 0 .. Len(dpb), SharedRightly(dpb), Listed(dpb),
         RemoveUnused
  PROVE  /\ SharedRightly(dpb') /\ Listed(dpb')
         /\ LongRefs(dpb) => LongRefs(dpb')
         /\ \A p : FreeFor(dpb, last, p) => FreeFor(dpb', last', p)
<1>1. PICK i \in DOMAIN dpb : dpb' = RemoveAt(dpb, i) /\ last' = LastAfterRemove(i)
  BY DEF RemoveUnused, FirstOf, Unused
<1>2. QED BY <1>1, RemovalHolds

LEMMA ReceiveLong == LongInv /\ Receive => LongInv'
<1>1. SUFFICES ASSUME LongInv, Receive PROVE LongInv' OBVIOUS
<1>2. pc = "idle" /\ dpb' = dpb /\ pc' \in {"idr", "mmco", "pair"} /\ cur'.lt = FALSE
  <2>1. \A p, s : Started(p, s) => /\ dpb' = dpb /\ cur' = p
                                   /\ pc' \in {"idr", "mmco", "pair"}
    BY Zenon DEF Started
  <2>2. \A s, k, r, seq : NewPicture(s, k, r, seq).lt = FALSE BY DEF NewPicture
  <2>3. CASE ReceiveIdr
    <3>1. PICK s, lt, noout, p :
            /\ p = [NewPicture(s, 0, TRUE, 1 - stream.seq) EXCEPT
                      !.num = 0, !.idr = TRUE, !.ltflag = lt, !.noout = noout]
            /\ \E st : Started(p, st)
      BY <2>3, ZenonT(30) DEF ReceiveIdr
    <3>2. p.lt = FALSE BY <3>1 DEF NewPicture
    <3>3. QED BY <2>1, <2>3, <3>1, <3>2 DEF ReceiveIdr, Waiting
  <2>4. CASE ReceivePicture
    <3>1. PICK s, r, a, k, p :
            /\ p = [NewPicture(s, k, r, stream.seq) EXCEPT !.adaptive = a]
            /\ \E st : Started(p, st)
      BY <2>4, ZenonT(30) DEF ReceivePicture
    <3>2. p.lt = FALSE BY <3>1 DEF NewPicture
    <3>3. QED BY <2>1, <2>4, <3>1, <3>2 DEF ReceivePicture, Waiting
  <2>5. CASE ReceiveSecondField
    <3>1. PICK s, k, r, q, n, c, a, p :
            /\ p = [NewPicture(s, k, r, q) EXCEPT !.num = n, !.poc = c, !.adaptive = a]
            /\ \E st : Started(p, st)
      BY <2>5 DEF ReceiveSecondField
    <3>2. p.lt = FALSE BY <3>1 DEF NewPicture
    <3>3. QED BY <2>1, <2>5, <3>1, <3>2 DEF ReceiveSecondField
  <2>6. CASE FillFrameNumGap
    <3>1. PICK s, q, p :
            /\ p = [NewPicture("frame", 0, TRUE, q) EXCEPT !.out = TRUE, !.id = NoId]
            /\ Started(p, s)
      BY <2>6 DEF FillFrameNumGap
    <3>2. p.lt = FALSE BY <3>1 DEF NewPicture
    <3>3. QED BY <2>1, <2>6, <3>1, <3>2 DEF FillFrameNumGap, Waiting
  <2>7. QED BY <1>1, <2>3, <2>4, <2>5, <2>6 DEF Receive
<1>3. QED BY <1>1, <1>2 DEF LongInv

(* The operations; none comes after operation 6.                            *)
LEMMA UpdatedLong ==
  ASSUME NEW n, Operation(n), UNCHANGED <<pc, cur>>, SharedRightly(dpb'), Listed(dpb'), LongRefs(dpb')
  PROVE  LongInv'
  BY DEF Operation, LongInv

LEMMA UpdatedGood ==
  ASSUME NEW d \in Buffers
  PROVE  /\ Good(d) => Good(UpdateRefList(d)) /\ Good(UpdateLtRefList(d))
         /\ SharedRightly(d) /\ LongRefs(d) => Good(UpdateLists(d))
  BY UpdateSame, SameHolds DEF Good

LEMMA Mmco3Long ==
  ASSUME IndInv, LongInv, Mmco3
  PROVE  LongInv'
<1>1. Operation(3) /\ pc = "mmco" /\ cur' = cur BY DEF Mmco3, Operation
<1>2. dpb \in Buffers /\ GoodPicture(cur) BY <1>1, InOperation
<1>3. Good(dpb) BY <1>1 DEF LongInv, Good
<1>4. PICK diff \in PicNumDiffs, idx \in Idxs :
        LET x == PicNumX(cur, diff)
            num == (IF x < 0 THEN x + 2 * MaxFrameNum ELSE x) \div 2
            mates == {i \in DOMAIN dpb : dpb[i].num = num}
        IN \/ /\ cur.struct = "frame" /\ UNCHANGED <<pc, ret, err>>
              /\ dpb' = UpdateLists(MarkPicLongTerm(FreeFrameIdx(dpb, idx), x, idx))
           \/ Flush(dpb, "halt")
           \/ /\ cur.struct # "frame" /\ UNCHANGED <<pc, ret, err>>
              /\ \E f \in NamedFields(x) :
                   /\ \A i \in ShortList(dpb) :
                        f \in ShortFields(dpb, i, x) /\ dpb[i].lt # {} => dpb[i].idx = idx
                   /\ dpb' = UpdateLists(MarkPicLongTerm(FreeFieldIdx(dpb, f, idx, mates), x, idx))
  BY DEF Mmco3, Fail
<1> DEFINE x == PicNumX(cur, diff)
           mates == {i \in DOMAIN dpb : dpb[i].num = (IF x < 0 THEN x + 2 * MaxFrameNum ELSE x) \div 2}
<1>5. CASE Flush(dpb, "halt") BY <1>2, <1>3, <1>5, FlushLong DEF Good
<1>6. CASE /\ cur.struct = "frame" /\ UNCHANGED <<pc, ret, err>>
           /\ dpb' = UpdateLists(MarkPicLongTerm(FreeFrameIdx(dpb, idx), x, idx))
  <2> HIDE DEF x
  <2> DEFINE d == FreeFrameIdx(dpb, idx)
             e == MarkPicLongTerm(d, x, idx)
  <2>1. d \in Buffers /\ e \in Buffers
    BY <1>2, FreeFrameIdxGood, MarkPicLongTermGood
  <2>2. Good(d) /\ \A i \in Held(d) : d[i].idx # idx
    BY <1>2, <1>3, FreeFrameIdxFrees
  <2> HIDE DEF d
  <2>3. SharedRightly(e) /\ LongRefs(e) BY <1>6, <2>1, <2>2, MarkFrameKeeps
  <2>4. dpb' = UpdateLists(e) BY <1>6 DEF d
  <2> HIDE DEF e
  <2>5. Good(dpb') BY <2>1, <2>3, <2>4, UpdatedGood
  <2>6. QED BY <1>1, <1>6, <2>5, UpdatedLong DEF Good
<1>7. CASE /\ cur.struct # "frame" /\ UNCHANGED <<pc, ret, err>>
           /\ \E f \in NamedFields(x) :
                /\ \A i \in ShortList(dpb) :
                     f \in ShortFields(dpb, i, x) /\ dpb[i].lt # {} => dpb[i].idx = idx
                /\ dpb' = UpdateLists(MarkPicLongTerm(FreeFieldIdx(dpb, f, idx, mates), x, idx))
  <2> HIDE DEF x
  <2>1. PICK f \in NamedFields(x) :
          /\ \A i \in ShortList(dpb) :
               f \in ShortFields(dpb, i, x) /\ dpb[i].lt # {} => dpb[i].idx = idx
          /\ dpb' = UpdateLists(MarkPicLongTerm(FreeFieldIdx(dpb, f, idx, mates), x, idx))
    BY <1>7
  <2> DEFINE e == MarkPicLongTerm(FreeFieldIdx(dpb, f, idx, mates), x, idx)
  <2>2. FreeFieldIdx(dpb, f, idx, mates) \in Buffers
    BY <1>2, UnmarkLongInGood DEF FreeFieldIdx
  <2>3. e \in Buffers BY <1>2, <2>2, MarkPicLongTermGood
  <2>4. SharedRightly(e) /\ LongRefs(e)
    BY <1>2, <1>3, <1>7, <2>1, MarkFieldKeeps
  <2>5. dpb' = UpdateLists(e) BY <2>1
  <2> HIDE DEF e
  <2>6. Good(dpb') BY <2>3, <2>4, <2>5, UpdatedGood
  <2>7. QED BY <1>1, <1>7, <2>6, UpdatedLong DEF Good
<1>8. QED BY <1>4, <1>5, <1>6, <1>7

LEMMA Mmco5Long ==
  ASSUME IndInv, LongInv, Mmco5
  PROVE  LongInv'
<1>1. Operation(5) /\ UNCHANGED <<pc, cur>> BY DEF Mmco5
<1>2. dpb \in Buffers BY <1>1, InOperation
<1>3. SharedRightly(dpb) /\ Listed(dpb) BY DEF LongInv
<1> DEFINE b == UnmarkIn(dpb, ShortList(dpb))
           c == UpdateRefList(b)
           S == {i \in LongList(c) : c[i].idx > -1}
<1>4. b \in Buffers /\ c \in Buffers BY <1>2, UnmarkInGood, UpdateListsGood
<1>5. FewerIn(b, dpb) BY <1>2, BufferElements, FewerOf DEF FewerIn, UnmarkIn
<1>6. Listed(c) BY <1>3, <1>4, <1>5, FewerHolds, UpdateSame
<1>7. dpb' = UnmarkLongIn(c, S) BY DEF Mmco5, BoundFrameIdx
<1> HIDE DEF b, c
<1>8. \A i \in DOMAIN c : c[i] \in Stores /\ c[i].idx > -1
  BY <1>4, BufferElements, BoundsAssumption DEF GoodStores, Stores, StoreOf, Idxs
<1>9. Held(dpb') = {}
  <2>1. \A i \in Held(c) : i \in S BY <1>6, <1>8 DEF Listed, LongList, Held
  <2>2. \A i \in DOMAIN c : dpb'[i] = IF i \in S THEN UnmarkLong(c[i]) ELSE c[i]
    BY <1>7 DEF UnmarkLongIn
  <2>3. DOMAIN dpb' = DOMAIN c BY <1>7 DEF UnmarkLongIn
  <2>4. \A fs \in Stores : UnmarkLong(fs).lt = {} BY DEF UnmarkLong, Stores, StoreOf
  <2>5. QED BY <1>8, <2>1, <2>2, <2>3, <2>4 DEF Held
<1>10. SharedRightly(dpb') /\ Listed(dpb') /\ LongRefs(dpb')
  BY <1>9 DEF SharedRightly, Listed, LongRefs, Held
<1>11. QED BY <1>1, <1>10, UpdatedLong

LEMMA Mmco6Long ==
  ASSUME IndInv, LongInv, Mmco6
  PROVE  LongInv'
<1>1. Operation(6) /\ pc = "mmco" /\ last' = last BY DEF Mmco6, Operation
<1>2. dpb \in Buffers /\ GoodPicture(cur) BY <1>1, InOperation
<1>3. Good(dpb) BY <1>1 DEF LongInv, Good
<1>4. PICK idx \in Idxs :
        LET mates == {i \in {last} \cap DOMAIN dpb : dpb[i].num = cur.num}
            d == IF cur.struct = "frame" THEN FreeFrameIdx(dpb, idx)
                 ELSE FreeFieldIdx(dpb, cur.struct, idx, mates)
        IN /\ cur' = [cur EXCEPT !.lt = TRUE, !.idx = idx]
           /\ \/ Flush(d, "halt")
              \/ dpb' = d /\ UNCHANGED pc
  BY DEF Mmco6, Fail
<1> DEFINE mates == {i \in {last} \cap DOMAIN dpb : dpb[i].num = cur.num}
           d == IF cur.struct = "frame" THEN FreeFrameIdx(dpb, idx)
                ELSE FreeFieldIdx(dpb, cur.struct, idx, mates)
<1>5. cur' = [cur EXCEPT !.lt = TRUE, !.idx = idx] /\ (Flush(d, "halt") \/ (dpb' = d /\ UNCHANGED pc))
  BY <1>4
<1>6. cur'.struct = cur.struct /\ cur'.num = cur.num /\ cur'.idx = idx
  BY <1>2, <1>5 DEF GoodPicture, Pictures, PictureOf
<1>7. d \in Buffers /\ Good(d) /\ FreeFor(d, last, cur')
  <2>1. CASE cur.struct = "frame"
    <3>1. d = FreeFrameIdx(dpb, idx) BY <2>1
    <3> HIDE DEF d
    <3>2. Good(d) /\ FewerIn(d, dpb) /\ \A i \in Held(d) : dpb[i].idx # idx /\ d[i] = dpb[i]
      BY <1>2, <1>3, <3>1, FreeFrameIdxFrees
    <3>3. d \in Buffers BY <1>2, <3>1, FreeFrameIdxGood
    <3>4. QED BY <1>6, <3>2, <3>3 DEF FreeFor
  <2>2. CASE cur.struct # "frame"
    <3>1. d = FreeFieldIdx(dpb, cur.struct, idx, mates) BY <2>2
    <3>2. \A i \in mates : i = last /\ dpb[i].num = cur.num OBVIOUS
    <3> HIDE DEF d, mates
    <3>3. /\ Good(d)
          /\ \A i \in Held(d) :
               d[i] = dpb[i] /\ (dpb[i].idx = idx => i \in mates /\ cur.struct \notin dpb[i].lt)
      BY <1>2, <1>3, <3>1, FreeFieldIdxFrees
    <3>4. d \in Buffers BY <1>2, <3>1, UnmarkLongInGood DEF FreeFieldIdx
    <3>5. QED BY <1>6, <2>2, <3>2, <3>3, <3>4 DEF FreeFor
  <2>3. QED BY <2>1, <2>2
<1> HIDE DEF d
<1>8. CASE Flush(d, "halt") BY <1>7, <1>8, FlushLong DEF Good
<1>9. CASE dpb' = d /\ UNCHANGED pc BY <1>1, <1>7, <1>9 DEF LongInv, Good
<1>10. QED BY <1>5, <1>8, <1>9

LEMMA MmcoLong ==
  ASSUME IndInv, LongInv, Mmco
  PROVE  LongInv'
<1>1. pc = "mmco" BY DEF Mmco, Mmco1, Mmco2, Mmco3, Mmco4, Mmco5, Mmco6, MmcoEnd, Operation
<1>2. dpb \in Buffers /\ GoodPicture(cur) BY <1>1, IndInvParts DEF BufferOK, CurGood, Busy
<1>3. Good(dpb) BY <1>1 DEF LongInv, Good
<1>4. CASE Mmco1
  <2>1. PICK x : dpb' = UpdateRefList(UnmarkShortTerm(dpb, x)) BY <1>4 DEF Mmco1
  <2>2. Good(dpb') BY <1>2, <1>3, <2>1, UnmarkShortTermKeeps, UnmarkShortTermGood, UpdatedGood
  <2>3. QED BY <1>4, <2>2, UpdatedLong DEF Mmco1, Good
<1>5. CASE Mmco2
  <2>1. PICK n : dpb' = UpdateLtRefList(UnmarkLongTerm(dpb, n)) BY <1>5 DEF Mmco2
  <2>2. Good(dpb') BY <1>2, <1>3, <2>1, UnmarkLongTermKeeps, UnmarkLongTermGood, UpdatedGood
  <2>3. QED BY <1>5, <2>2, UpdatedLong DEF Mmco2, Good
<1>6. CASE Mmco4
  <2>1. PICK S : dpb' = UpdateLtRefList(UnmarkLongIn(dpb, S)) BY <1>6 DEF Mmco4, BoundFrameIdx
  <2>2. Good(dpb') BY <1>2, <1>3, <2>1, UnmarkLongKeeps, UnmarkLongInGood, UpdatedGood
  <2>3. QED BY <1>6, <2>2, UpdatedLong DEF Mmco4, Good
<1>7. CASE MmcoEnd
  <2>1. CASE mm5 BY <1>2, <1>3, <1>7, <2>1, FlushLong DEF MmcoEnd, Good
  <2>2. CASE ~ mm5
    <3>1. pc' = "pair" /\ UNCHANGED <<dpb, last, cur>> BY <1>7, <2>2 DEF MmcoEnd
    <3>2. QED BY <1>1, <3>1 DEF LongInv
  <2>3. QED BY <2>1, <2>2
<1>8. QED BY <1>4, <1>5, <1>6, <1>7, Mmco3Long, Mmco5Long, Mmco6Long DEF Mmco

-----------------------------------------------------------------------------
(* store_picture_in_dpb: an IDR picture and the end find or leave no marks. *)
LEMMA IdrLong ==
  ASSUME IndInv, LongInv, EmptyInv, IdrStart \/ IdrTail \/ EndOfStream
  PROVE  LongInv'
<1>1. dpb \in Buffers BY IndInvParts DEF BufferOK
<1>2. SharedRightly(dpb) /\ Listed(dpb) BY DEF LongInv
<1>3. CASE IdrTail
  <2>1. dpb = <<>> /\ dpb' = UpdateLists(dpb) BY <1>3 DEF IdrTail, EmptyInv
  <2>2. DOMAIN dpb' = {} BY <2>1 DEF UpdateLists, UpdateRefList, UpdateLtRefList
  <2>3. QED BY <2>2, EmptyHolds DEF LongInv
<1>4. CASE EndOfStream BY <1>1, <1>2, <1>4, FlushLong DEF EndOfStream
<1>5. CASE IdrStart
  <2>1. CASE cur.noout
    <3>1. dpb' = <<>> BY <1>5, <2>1 DEF IdrStart
    <3>2. DOMAIN dpb' = {} BY <3>1
    <3>3. QED BY <3>2, EmptyHolds DEF LongInv
  <2>2. CASE ~ cur.noout BY <1>1, <1>2, <1>5, <2>2, FlushLong DEF IdrStart
  <2>3. QED BY <2>1, <2>2
<1>6. QED BY <1>3, <1>4, <1>5

LEMMA FlushingLong ==
  ASSUME IndInv, LongInv, EmptyInv, FlushPurge \/ FlushDrain \/ FlushDone
  PROVE  LongInv'
<1>1. dpb \in Buffers /\ last \in 0 .. Len(dpb) BY IndInvParts DEF BufferOK
<1>2. SharedRightly(dpb) /\ Listed(dpb) BY DEF LongInv
<1>3. CASE FlushPurge
  <2>1. SharedRightly(dpb') /\ Listed(dpb')
    BY <1>1, <1>2, <1>3, RemoveUnusedLong DEF FlushPurge
  <2>2. pc' \in {"purge", "drain"} BY <1>3 DEF FlushPurge
  <2>3. QED BY <2>1, <2>2 DEF LongInv
<1>4. CASE FlushDrain
  <2>1. LongInv' \/ (UNCHANGED pc /\ SharedRightly(dpb') /\ Listed(dpb'))
    BY <1>1, <1>2, <1>4, OutputLong DEF FlushDrain
  <2>2. pc = "drain" BY <1>4 DEF FlushDrain
  <2>3. QED BY <2>1, <2>2 DEF LongInv
<1>5. CASE FlushDone
  <2>1. dpb' = <<>> BY <1>5, FlushEnds DEF FlushDone
  <2>2. DOMAIN dpb' = {} BY <2>1
  <2>3. QED BY <2>2, EmptyHolds DEF LongInv
<1>6. QED BY <1>3, <1>4, <1>5

(* The window takes a frame without long-term marks, and a full buffer one  *)
(* without any.                                                             *)
LEMMA SlideLong ==
  ASSUME IndInv, LongInv, Slide
  PROVE  LongInv'
<1>1. dpb \in Buffers BY IndInvParts DEF BufferOK
<1>2. SharedRightly(dpb) /\ Listed(dpb) /\ LongRefs(dpb) /\ (cur.lt => FreeFor(dpb, last, cur))
  BY DEF LongInv, Slide
<1>3. pc' = "trim" /\ UNCHANGED <<last, cur>> BY DEF Slide
<1> DEFINE S == FirstOf(SlidingVictims)
           b == UnmarkIn(dpb, S)
<1>4. dpb' = dpb \/ dpb' = UpdateRefList(b) BY DEF Slide
<1>5. \A i \in S : dpb[i].lt = {} BY DEF FirstOf, SlidingVictims
<1>6. b \in Buffers BY <1>1, UnmarkInGood
<1>7. /\ DOMAIN b = DOMAIN dpb
      /\ \A i \in DOMAIN dpb : b[i] = IF i \in S THEN Unmark(dpb[i]) ELSE dpb[i]
  BY DEF UnmarkIn
<1> HIDE DEF S, b
<1>8. FewerIn(b, dpb) BY <1>1, <1>7, FewerOf, BufferElements DEF FewerIn
<1>9. LongRefs(b)
  <2>1. \A fs \in GoodStores : Unmark(fs).lt = fs.lt
    BY DEF Unmark, GoodStores, Stores, StoreOf
  <2>2. QED BY <1>1, <1>2, <1>5, <1>7, <2>1, BufferElements DEF LongRefs
<1>10. SharedRightly(b) /\ Listed(b) /\ (cur.lt => FreeFor(b, last, cur))
  BY <1>2, <1>8, FewerHolds
<1>11. CASE dpb' = UpdateRefList(b)
  <2>1. SameMarks(dpb', b) /\ Listed(dpb') BY <1>6, <1>10, <1>11, UpdateSame
  <2>2. SharedRightly(dpb') /\ LongRefs(dpb') /\ (cur.lt => FreeFor(dpb', last, cur))
    BY <1>9, <1>10, <2>1, SameHolds
  <2>3. QED BY <1>3, <2>1, <2>2 DEF LongInv
<1>12. CASE dpb' = dpb BY <1>2, <1>3, <1>12 DEF LongInv
<1>13. QED BY <1>4, <1>11, <1>12

LEMMA RoomLong ==
  ASSUME IndInv, LongInv, Trim \/ Bump \/ DirectOutput
  PROVE  LongInv'
<1>1. dpb \in Buffers /\ last \in 0 .. Len(dpb) BY IndInvParts DEF BufferOK
<1>2. SharedRightly(dpb) /\ Listed(dpb) /\ LongRefs(dpb) /\ (cur.lt => FreeFor(dpb, last, cur))
  BY DEF LongInv, Trim, Bump, DirectOutput
<1>3. CASE Trim
  <2>1. pc' = "room" /\ cur' = cur BY <1>3 DEF Trim
  <2>2. CASE RemoveUnused BY <1>1, <1>2, <2>1, <2>2, RemoveUnusedLong DEF LongInv
  <2>3. CASE UNCHANGED <<dpb, last>> BY <1>2, <2>1, <2>3 DEF LongInv
  <2>4. QED BY <1>3, <2>2, <2>3 DEF Trim
<1>4. CASE Bump
  <2>1. cur' = cur /\ pc = "room" /\ OutputOne BY <1>4 DEF Bump
  <2>2. QED BY <1>1, <1>2, <2>1, OutputLong DEF LongInv
<1>5. CASE DirectOutput
  <2>1. dpb' = dpb /\ pc' = "idle" BY <1>5 DEF DirectOutput
  <2>2. QED BY <1>2, <2>1 DEF LongInv
<1>6. QED BY <1>3, <1>4, <1>5

(* What insert_picture_in_dpb writes of the long-term marks.                *)
LEMMA WithFieldLong ==
  ASSUME NEW fs \in Stores, NEW p
  PROVE  /\ WithField(fs, p).num = p.num
         /\ WithField(fs, p).lt = IF p.ref /\ p.lt THEN fs.lt \cup {p.struct} ELSE fs.lt
         /\ WithField(fs, p).idx = IF p.ref /\ p.lt THEN p.idx ELSE fs.idx
<1> DEFINE lt == IF p.ref /\ p.lt THEN fs.lt \cup {p.struct} ELSE fs.lt
           plt == IF p.lt THEN fs.plt \cup {p.struct} ELSE fs.plt
           idx == IF p.ref /\ p.lt THEN p.idx ELSE fs.idx
           ref == Marked(p, fs.ref)
           orig == Marked(p, fs.orig)
           pref == Marked(p, fs.pref)
           used == fs.used \cup {p.struct}
<1>1. WithField(fs, p) = [fs EXCEPT !.used = used, !.num = p.num, !.out = p.out, !.id = p.id,
                                    !.ref = ref, !.orig = orig, !.pref = pref,
                                    !.lt = lt, !.plt = plt, !.idx = idx]
  BY DEF WithField, Marked
<1> HIDE DEF ref, orig, pref, used, plt, lt, idx
<1>2. WithField(fs, p).num = p.num /\ WithField(fs, p).lt = lt /\ WithField(fs, p).idx = idx
  BY <1>1 DEF Stores, StoreOf
<1>3. QED BY <1>2 DEF lt, idx

LEMMA InsertFieldLong ==
  ASSUME NEW fs \in GoodStores, NEW p, GoodPicture(p), p.struct # "frame",
         NEW g, g = Insert(fs, p)
  PROVE  /\ g.num = p.num
         /\ g.lt = IF p.lt THEN fs.lt \cup {p.struct} ELSE fs.lt
         /\ g.idx = IF p.lt THEN p.idx ELSE fs.idx
         /\ g.ref = Marked(p, fs.ref)
<1> DEFINE e == WithField(fs, p)
<1>1. p.struct \in Fields /\ ~FrameMbsOnly /\ (p.lt => p.ref)
  BY DEF GoodPicture, Pictures, PictureOf, Views
<1>2. e \in Stores BY <1>1, GoodIsHalf, WithFieldHalf DEF HalfStores
<1>3. /\ e.num = p.num
      /\ e.lt = IF p.lt THEN fs.lt \cup {p.struct} ELSE fs.lt
      /\ e.idx = IF p.lt THEN p.idx ELSE fs.idx
  BY <1>1, WithFieldLong, ZenonT(30) DEF GoodStores
<1> HIDE DEF e
<1>4. LET h == [e EXCEPT !.poc = p.poc] IN h.num = e.num /\ h.lt = e.lt /\ h.idx = e.idx
  BY <1>2 DEF Stores, StoreOf
<1>5. g \in {Combined(e, p.poc), [e EXCEPT !.poc = p.poc]}
  BY DEF Insert, InsertField, e
<1>6. LET h == Combined(e, p.poc) IN h.num = e.num /\ h.lt = e.lt /\ h.idx = e.idx
  <2>1. Combined(e, p.poc) = [e EXCEPT !.used = Fields, !.poc = IF p.poc < @ THEN p.poc ELSE @,
                                       !.pref = JoinMarks(e.pref), !.plt = JoinMarks(e.plt)]
    BY DEF Combined, JoinMarks
  <2>2. QED BY <1>2, <2>1 DEF Stores, StoreOf
<1>7. g.num = e.num /\ g.lt = e.lt /\ g.idx = e.idx
  <2>1. CASE g = Combined(e, p.poc) BY <1>6, <2>1
  <2>2. CASE g = [e EXCEPT !.poc = p.poc] BY <1>4, <2>2
  <2>3. QED BY <1>5, <2>1, <2>2
<1>8. g.ref = Marked(p, fs.ref) BY InsertFieldMarks
<1>9. QED BY <1>3, <1>7, <1>8

LEMMA InsertNewLong ==
  ASSUME NEW p, GoodPicture(p), NEW g, g = Insert(EmptyStore(p.id), p)
  PROVE  /\ g.num = p.num /\ g.lt \subseteq g.ref
         /\ ~ p.lt => g.lt = {}
         /\ p.lt => g.idx = p.idx /\ (p.struct # "frame" => g.lt = {p.struct})
<1>1. EmptyStore(p.id).lt = {} /\ EmptyStore(p.id).ref = {} BY DEF EmptyStore
<1>2. CASE p.struct # "frame"
  <2>1. EmptyStore(p.id) \in GoodStores
    BY <1>2, EmptyStoreGood DEF GoodPicture, Pictures, PictureOf
  <2>2. /\ g.num = p.num
        /\ g.lt = IF p.lt THEN EmptyStore(p.id).lt \cup {p.struct} ELSE EmptyStore(p.id).lt
        /\ g.idx = IF p.lt THEN p.idx ELSE EmptyStore(p.id).idx
        /\ g.ref = Marked(p, EmptyStore(p.id).ref)
    BY <1>2, <2>1, InsertFieldLong
  <2>3. p.lt => p.ref BY DEF GoodPicture
  <2>4. QED BY <1>1, <1>2, <2>2, <2>3 DEF Marked
<1>3. CASE p.struct = "frame"
  <2> DEFINE fs == EmptyStore(p.id)
             ref == IF p.ref THEN Fields ELSE fs.ref
             orig == IF p.ref THEN Fields ELSE fs.orig
             pref == IF p.ref THEN FrameViews ELSE {}
             lt == IF p.ref /\ p.lt THEN Fields ELSE fs.lt
             plt == IF p.lt THEN FrameViews ELSE {}
             idx == IF p.ref /\ p.lt THEN p.idx ELSE fs.idx
  <2>1. g = [fs EXCEPT !.used = Fields, !.num = p.num, !.poc = p.poc, !.out = p.out,
                       !.id = p.id, !.ref = ref, !.orig = orig, !.pref = pref,
                       !.lt = lt, !.plt = plt, !.idx = idx]
    BY <1>3 DEF Insert, InsertFrame
  <2> HIDE DEF ref, orig, pref, lt, plt, idx
  <2>2. g.num = p.num /\ g.ref = ref /\ g.lt = lt /\ g.idx = idx
    BY <2>1 DEF EmptyStore
  <2>3. QED BY <1>1, <1>3, <2>2 DEF GoodPicture, ref, lt, idx
<1>4. QED BY <1>2, <1>3

(* Only the store of its first field may hold the index of the picture that *)
(* becomes a second field or a frame of its own.                            *)
LEMMA PairLong ==
  ASSUME IndInv, LongInv, Pair
  PROVE  LongInv'
<1>1. /\ dpb \in Buffers /\ last \in DOMAIN dpb /\ dpb[last] \in GoodStores
      /\ GoodPicture(cur) /\ cur.struct # "frame" /\ dpb[last].num = cur.num
  BY IndInvBuffer, BufferElements, IndInvParts DEF Pair, IsSecondField, CurGood, Busy
<1>2. SharedRightly(dpb) /\ LongRefs(dpb) /\ (cur.lt => FreeFor(dpb, last, cur))
  BY DEF LongInv, Pair
<1> DEFINE fs == Insert(dpb[last], cur)
           e == [dpb EXCEPT ![last] = fs]
<1>3. e \in Buffers BY <1>1, InsertGood, ReplaceGood
<1>4. dpb' = UpdateLists(e) /\ pc' = "idle" BY DEF Pair
<1>5. /\ DOMAIN e = DOMAIN dpb /\ e[last] = fs
      /\ \A i \in DOMAIN dpb : i # last => e[i] = dpb[i]
  BY <1>1
<1>6. /\ fs.num = dpb[last].num
      /\ fs.lt = IF cur.lt THEN dpb[last].lt \cup {cur.struct} ELSE dpb[last].lt
      /\ fs.idx = IF cur.lt THEN cur.idx ELSE dpb[last].idx
      /\ fs.ref = IF cur.ref THEN dpb[last].ref \cup {cur.struct} ELSE dpb[last].ref
  <2> HIDE DEF fs
  <2>1. fs = Insert(dpb[last], cur) BY DEF fs
  <2>2. /\ fs.num = cur.num
        /\ fs.lt = IF cur.lt THEN dpb[last].lt \cup {cur.struct} ELSE dpb[last].lt
        /\ fs.idx = IF cur.lt THEN cur.idx ELSE dpb[last].idx
        /\ fs.ref = Marked(cur, dpb[last].ref)
    BY <1>1, <2>1, InsertFieldLong
  <2>3. QED BY <1>1, <2>2 DEF Marked
<1>7. LongRefs(e)
  BY <1>1, <1>2, <1>5, <1>6 DEF LongRefs, GoodPicture
<1> HIDE DEF fs, e
<1>8. SharedRightly(e)
  <2>1. CASE ~ cur.lt
    <3>1. \A i \in DOMAIN e : /\ e[i].num = dpb[i].num /\ e[i].lt = dpb[i].lt
                              /\ e[i].idx = dpb[i].idx
      BY <1>5, <1>6, <2>1
    <3>2. Held(e) = Held(dpb) BY <1>5, <3>1 DEF Held
    <3>3. QED BY <1>2, <1>5, <3>1, <3>2 DEF SharedRightly, MayShareIdx, Held
  <2>2. CASE cur.lt
    <3>1. \A i \in Held(e) : i # last => /\ i \in Held(dpb) /\ e[i] = dpb[i]
                                         /\ dpb[i].idx # cur.idx
      BY <1>2, <1>5, <2>2 DEF Held, FreeFor
    <3>2. e[last].idx = cur.idx BY <1>5, <1>6, <2>2
    <3>3. QED BY <1>2, <3>1, <3>2 DEF SharedRightly
  <2>3. QED BY <2>1, <2>2
<1>9. Good(dpb') BY <1>3, <1>4, <1>7, <1>8, UpdatedGood
<1>10. QED BY <1>4, <1>9 DEF LongInv, Good

LEMMA StoreLong ==
  ASSUME IndInv, LongInv, Store
  PROVE  LongInv'
<1>1. dpb \in Buffers /\ Len(dpb) \in Nat /\ DOMAIN dpb = 1 .. Len(dpb) /\ GoodPicture(cur)
  BY IndInvBuffer, IndInvParts DEF Store, CurGood, Busy
<1>2. /\ SharedRightly(dpb) /\ Listed(dpb) /\ LongRefs(dpb)
      /\ cur.lt => FreeFor(dpb, last, cur)
  BY DEF LongInv, Store
<1> DEFINE fs == Insert(EmptyStore(cur.id), cur)
           e == Append(dpb, fs)
           d == UpdateLists(e)
<1>3. fs \in GoodStores BY <1>1, InsertGood
<1>4. /\ fs.num = cur.num /\ fs.lt \subseteq fs.ref /\ (~ cur.lt => fs.lt = {})
      /\ cur.lt => fs.idx = cur.idx /\ (cur.struct # "frame" => fs.lt = {cur.struct})
  BY <1>1, InsertNewLong
<1>5. Flush(dpb, "halt") \/ Flush(d, "halt") \/ (dpb' = d /\ pc' = "idle")
  BY DEF Store, Fail
<1> HIDE DEF fs
<1>6. /\ e \in Buffers /\ DOMAIN e = 1 .. Len(dpb) + 1 /\ e[Len(dpb) + 1] = fs
      /\ \A i \in DOMAIN dpb : e[i] = dpb[i]
  <2>1. e \in Buffers /\ Len(e) = Len(dpb) + 1 BY <1>1, <1>3, AppendProperties DEF Buffers
  <2>2. DOMAIN e = 1 .. Len(e) BY <2>1, BufferElements
  <2>3. QED BY <1>1, <1>3, <2>1, <2>2, AppendProperties DEF Buffers
<1> HIDE DEF e, d
<1>7. LongRefs(e) BY <1>1, <1>2, <1>4, <1>6 DEF LongRefs
<1>8. ASSUME NEW i \in Held(e), i # Len(dpb) + 1
      PROVE  i \in Held(dpb) /\ e[i] = dpb[i]
  BY <1>1, <1>6, <1>8 DEF Held
<1>9. ASSUME NEW i \in Held(e), i # Len(dpb) + 1, fs.lt # {}, e[i].idx = fs.idx
      PROVE  MayShareIdx(e[i], fs) /\ MayShareIdx(fs, e[i])
  <2>1. cur.lt /\ i \in Held(dpb) /\ e[i] = dpb[i] BY <1>4, <1>8, <1>9
  <2>2. cur.struct # "frame" /\ dpb[i].num = cur.num /\ cur.struct \notin dpb[i].lt
    BY <1>2, <1>4, <1>9, <2>1 DEF FreeFor
  <2>3. QED BY <1>4, <2>1, <2>2 DEF MayShareIdx
<1>10. SharedRightly(e)
  <2>1. SUFFICES ASSUME NEW i \in Held(e), NEW j \in Held(e), e[i].idx = e[j].idx, i # j
                 PROVE  MayShareIdx(e[i], e[j])
    BY DEF SharedRightly
  <2>2. CASE i = Len(dpb) + 1 BY <1>6, <1>9, <2>1, <2>2 DEF Held
  <2>3. CASE j = Len(dpb) + 1 BY <1>6, <1>9, <2>1, <2>3 DEF Held
  <2>4. CASE i # Len(dpb) + 1 /\ j # Len(dpb) + 1
    BY <1>2, <1>8, <2>1, <2>4 DEF SharedRightly
  <2>5. QED BY <2>2, <2>3, <2>4
<1>11. Good(d) BY <1>6, <1>7, <1>10, UpdatedGood DEF d
<1>12. d \in Buffers BY <1>6, BothListsGood DEF d
<1>13. CASE Flush(dpb, "halt") BY <1>1, <1>2, <1>13, FlushLong
<1>14. CASE Flush(d, "halt") BY <1>11, <1>12, <1>14, FlushLong DEF Good
<1>15. CASE dpb' = d /\ pc' = "idle" BY <1>11, <1>15 DEF LongInv, Good
<1>16. QED BY <1>5, <1>13, <1>14, <1>15

LEMMA LongInit == Init => LongInv
BY EmptyHolds DEF Init, LongInv, NoPicture

LEMMA LongKeeps == IndInv /\ EmptyInv /\ LongInv /\ [Next]_vars => LongInv'
<1>1. SUFFICES ASSUME IndInv, EmptyInv, LongInv, [Next]_vars PROVE LongInv' OBVIOUS
<1>2. CASE UNCHANGED vars BY <1>1, <1>2 DEF vars, LongInv
<1>3. CASE Receive BY <1>1, <1>3, ReceiveLong
<1>4. CASE IdrStart \/ IdrTail \/ EndOfStream BY <1>1, <1>4, IdrLong
<1>5. CASE FlushPurge \/ FlushDrain \/ FlushDone BY <1>1, <1>5, FlushingLong
<1>6. CASE Mmco BY <1>1, <1>6, MmcoLong
<1>7. CASE Pair BY <1>1, <1>7, PairLong
<1>8. CASE Slide BY <1>1, <1>8, SlideLong
<1>9. CASE Trim \/ Bump \/ DirectOutput BY <1>1, <1>9, RoomLong
<1>10. CASE Store BY <1>1, <1>10, StoreLong
<1>11. QED
  BY <1>1, <1>2, <1>3, <1>4, <1>5, <1>6, <1>7, <1>8, <1>9, <1>10
     DEF Next, Work, Spin, Exited

(* What fs_ltref lists between two calls holds an index.                    *)
LEMMA ListedHeld ==
  ASSUME FreshInv, IndInv, pc = "idle", NEW k \in LongList(dpb)
  PROVE  /\ k \in Held(dpb) /\ dpb[k] \in GoodStores
         /\ dpb[k].lt \subseteq Fields /\ (FrameMbsOnly => dpb[k].lt = Fields)
<1>1. k \in DOMAIN dpb /\ dpb[k] \in GoodStores /\ IsLongTerm(dpb[k])
  BY IndInvBuffer, BufferElements DEF LongList, FreshInv, AllFresh, Fresh
<1>2. /\ dpb[k].plt # {} /\ dpb[k].plt \subseteq Views /\ dpb[k].lt \subseteq Fields
      /\ BitsAgree(dpb[k].lt, dpb[k].plt)
  BY <1>1 DEF IsLongTerm, GoodStores, Stores, StoreOf
<1>3. dpb[k].lt # {} BY <1>2 DEF BitsAgree, Fields, Views
<1>4. FrameMbsOnly => dpb[k].lt = Fields BY <1>2, <1>3 DEF BitsAgree
<1>5. QED BY <1>1, <1>2, <1>3, <1>4 DEF Held

(* No two frames hold the same long-term index between two calls, whatever  *)
(* operations 1 to 6 the stream gives for frames and fields, but for two of *)
(* the same frame_num that hold one field each, of different parities.      *)
THEOREM LongTermIndices == Spec => []LongTermIdxUnique
<1>1. LongInv /\ FreshInv /\ IndInv => LongTermIdxUnique
  BY ListedHeld DEF LongTermIdxUnique, LongInv, SharedRightly
<1>2. QED
  BY <1>1, InitIndInv, Invariant, EmptyInit, EmptyKeeps, LongInit, LongKeeps, FreshInit,
     FreshKeeps, PTL DEF Spec

(* In a sequence of frames only there is no such exception.                 *)
THEOREM LongTermIndicesOfFrames ==
  ASSUME FrameMbsOnly
  PROVE  Spec => [](pc = "idle" => \A i, j \in LongList(dpb) :
                                     dpb[i].idx = dpb[j].idx => i = j)
<1> DEFINE Unique == pc = "idle" => \A i, j \in LongList(dpb) :
                                      dpb[i].idx = dpb[j].idx => i = j
<1>1. LongTermIdxUnique /\ FreshInv /\ IndInv => Unique
  <2>1. SUFFICES ASSUME LongTermIdxUnique, FreshInv, IndInv, pc = "idle",
                        NEW i \in LongList(dpb), NEW j \in LongList(dpb),
                        dpb[i].idx = dpb[j].idx, i # j
                 PROVE  FALSE
    OBVIOUS
  <2>2. MayShareIdx(dpb[i], dpb[j]) BY <2>1 DEF LongTermIdxUnique
  <2>3. dpb[i].lt = Fields /\ dpb[j].lt = Fields BY <2>1, ListedHeld
  <2>4. QED BY <2>2, <2>3 DEF MayShareIdx, Fields
<1> HIDE DEF Unique
<1>2. Spec => []Unique
  BY <1>1, LongTermIndices, InitIndInv, Invariant, FreshInit, FreshKeeps, PTL DEF Spec
<1>3. QED BY <1>2 DEF Unique
=============================================================================
