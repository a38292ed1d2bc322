----------------------------- MODULE WindowProofs -----------------------------
(***************************************************************************)
(* Of the sliding window in Dpb, for every value of the constants, when    *)
(* the stream gives no memory management control operations: the reference *)
(* frames of the buffer are the latest ones, in the order they came, so    *)
(* that the first of them is the oldest, no frame_num is met twice and no  *)
(* reference frame is one too many.                                        *)
(***************************************************************************)
EXTENDS MarkingProofs

(* The streams it is about.  The code has MaxFrameNum >= 16 >= MaxRef.      *)
Windowed == Mmcos = {} /\ MaxFrameNum > 1 /\ MaxRef <= MaxFrameNum

(* The frame_num of the reference frame that came n frames before b.        *)
Back(b, n) == IF n <= b THEN b - n ELSE b + MaxFrameNum - n

Refs(d) == {i \in DOMAIN d : d[i].ref # {}}

(* The reference frames of d are those with ages 0 to k, the oldest first,  *)
(* when ages count from the frame whose frame_num is off before b.          *)
Ages(d, a, b, off, top) ==
  /\ \A i \in Refs(d) : d[i].num = Back(b, a[i] + off)
  /\ \A i, j \in Refs(d) : i < j => a[j] < a[i]
  /\ \A i \in Refs(d) : \A n \in 0 .. a[i] : \E j \in Refs(d) : a[j] = n
  /\ \A i \in Refs(d) : a[i] < top
Aged(d, b, off, top) == \E a \in [DOMAIN d -> Nat] : Ages(d, a, b, off, top)

(* No store is long-term, and fs_ref lists the references.                  *)
Plain(fs) == fs.lt = {} /\ fs.plt = {} /\ fs.long = FALSE
Plainly(d) == \A i \in DOMAIN d : Plain(d[i])
Told(d) == \A i \in DOMAIN d : d[i].short <=> d[i].ref # {}

(* The picture in a call is the second field of the one before.             *)
Second == cur.struct # "frame" /\ stream.first = NoPicture
Quiet == pc \in {"idle", "pair", "trim", "room"}

(* A new reference picture is not in the buffer yet, and after the window   *)
(* has moved there is room for it.                                          *)
Off == IF pc # "idle" /\ cur.ref /\ ~ Second THEN 1 ELSE 0
Top == IF pc \in {"trim", "room"} /\ cur.ref THEN MaxRef - 1 ELSE MaxRef

BufferWindowed ==
  /\ Plainly(dpb)
  /\ last \in {0, Len(dpb)}
  /\ Quiet => Told(dpb) /\ Aged(dpb, stream.pre, Off, Top)
  /\ pc = "pair" /\ cur.idr => dpb = <<>>

(* What the picture in a call is, and that no operation is carried out.     *)
CurWindowed ==
  /\ cur.lt = FALSE /\ cur.adaptive = FALSE /\ cur.ltflag = FALSE /\ pc # "mmco"
  /\ cur.ref /\ ~ Second => cur.num = stream.pre
  /\ cur.ref /\ Second => pc = "pair" /\ IsSecondField
  /\ (Busy \/ (Flushing /\ ret # "halt")) /\ stream.first # NoPicture =>
       /\ cur.struct = stream.first.struct /\ cur.num = stream.first.num
       /\ cur.ref = stream.first.ref

LastCounts(d, l) == l = 0 \/ d[l].orig = {} \/ d[l].ref # {}

(* last_picture is the store of the first field that waits for its second,  *)
(* and a store that can get a second reference field is a reference.        *)
LastWindowed ==
  /\ pc = "idle" /\ stream.first # NoPicture /\ stream.first.ref =>
       /\ last # 0 /\ dpb[last].num = stream.first.num
       /\ dpb[last].used = {stream.first.struct} /\ dpb[last].orig # {}
  /\ pc \in {"idle", "pair"} \/ (pc \in {"trim", "room"} /\ ~ cur.ref) =>
       LastCounts(dpb, last)

WindowInv == BufferWindowed /\ CurWindowed /\ LastWindowed /\ LegalStreamAccepted

-----------------------------------------------------------------------------
(* frame_num and ages.                                                      *)
LEMMA NextNum ==
  ASSUME NEW b \in FrameNums
  PROVE  (b + 1) % MaxFrameNum = IF b = MaxFrameNum - 1 THEN 0 ELSE b + 1
<1>1. MaxFrameNum \in Nat /\ MaxFrameNum > 0 /\ b \in 0 .. MaxFrameNum - 1
  BY MaxFrameNumAssumption DEF FrameNums
<1>2. CASE b = MaxFrameNum - 1
  <2>1. b + 1 = MaxFrameNum BY <1>1, <1>2
  <2>2. MaxFrameNum % MaxFrameNum = 0
    <3>1. \A M \in Nat : M > 0 =>
            M = M * (M \div M) + (M % M) /\ M % M \in 0 .. M - 1 /\ M \div M \in Int
      OBVIOUS
    <3> DEFINE q == MaxFrameNum \div MaxFrameNum
               r == MaxFrameNum % MaxFrameNum
    <3>2. MaxFrameNum = MaxFrameNum * q + r /\ r \in 0 .. MaxFrameNum - 1 /\ q \in Int
      BY <1>1, <3>1
    <3> HIDE DEF q, r
    <3>3. q <= 0 => r >= MaxFrameNum BY <1>1, <3>2
    <3>4. q >= 2 => r < 0 BY <1>1, <3>2
    <3>5. q = 1 BY <1>1, <3>2, <3>3, <3>4
    <3>6. QED BY <1>1, <3>2, <3>5 DEF r
  <2>3. QED BY <1>2, <2>1, <2>2
<1>3. CASE b # MaxFrameNum - 1
  <2>1. b + 1 \in 0 .. MaxFrameNum - 1 BY <1>1, <1>3
  <2>2. (b + 1) % MaxFrameNum = b + 1 BY <1>1, <2>1
  <2>3. QED BY <1>3, <2>2
<1>4. QED BY <1>2, <1>3

LEMMA BackOne ==
  ASSUME NEW b \in FrameNums, NEW n \in 0 .. MaxFrameNum - 1
  PROVE  Back((b + 1) % MaxFrameNum, n + 1) = Back(b, n)
<1>1. MaxFrameNum \in Nat /\ b \in 0 .. MaxFrameNum - 1
  BY MaxFrameNumAssumption DEF FrameNums
<1> DEFINE c == (b + 1) % MaxFrameNum
<1>2. c = IF b = MaxFrameNum - 1 THEN 0 ELSE b + 1 BY NextNum
<1> HIDE DEF c
<1>3. Back(c, n + 1) = Back(b, n) BY <1>1, <1>2 DEF Back
<1>4. QED BY <1>3 DEF c

LEMMA WindowNumbers ==
  ASSUME Windowed
  PROVE  /\ MaxFrameNum \in Nat /\ MaxFrameNum > 1 /\ MaxRef \in Nat /\ MaxRef >= 1
         /\ MaxRef <= MaxFrameNum /\ Top \in {MaxRef, MaxRef - 1} /\ Off \in {0, 1}
  BY MaxFrameNumAssumption, MaxRefLemma DEF Windowed, Top, Off

(* A new reference picture makes all others one frame older.                *)
LEMMA AgesOlder ==
  ASSUME Windowed, NEW d, NEW b \in FrameNums, Aged(d, b, 0, MaxRef)
  PROVE  Aged(d, (b + 1) % MaxFrameNum, 1, MaxRef)
<1>1. PICK a \in [DOMAIN d -> Nat] : Ages(d, a, b, 0, MaxRef) BY DEF Aged
<1>2. \A i \in Refs(d) : a[i] \in 0 .. MaxFrameNum - 1
  BY <1>1, WindowNumbers DEF Ages, Refs
<1>3. \A i \in Refs(d) : Back(b, a[i] + 0) = Back((b + 1) % MaxFrameNum, a[i] + 1)
  <2>1. \A i \in Refs(d) : a[i] + 0 = a[i] BY <1>2
  <2>2. QED BY <1>2, <2>1, BackOne
<1>4. Ages(d, a, (b + 1) % MaxFrameNum, 1, MaxRef) BY <1>1, <1>3 DEF Ages
<1>5. QED BY <1>4 DEF Aged

(* Ages are those of the same references, whatever else has changed.        *)
LEMMA AgesSame ==
  ASSUME NEW d, NEW e, DOMAIN e = DOMAIN d,
         \A i \in DOMAIN d : e[i].num = d[i].num /\ (e[i].ref = {} <=> d[i].ref = {}),
         NEW b, NEW off, NEW top, Aged(d, b, off, top)
  PROVE  Aged(e, b, off, top)
<1>1. Refs(e) = Refs(d) BY DEF Refs
<1>2. PICK a \in [DOMAIN d -> Nat] : Ages(d, a, b, off, top) BY DEF Aged
<1>3. Ages(e, a, b, off, top) BY <1>1, <1>2 DEF Ages, Refs
<1>4. QED BY <1>3 DEF Aged

(* A store that is no reference leaves.                                     *)
LEMMA RemovalAged ==
  ASSUME NEW d \in Buffers, NEW i \in DOMAIN d, d[i].ref = {},
         NEW b, NEW off, NEW top, Aged(d, b, off, top)
  PROVE  Aged(RemoveAt(d, i), b, off, top)
<1>1. PICK a \in [DOMAIN d -> Nat] : Ages(d, a, b, off, top) BY DEF Aged
<1> DEFINE e == RemoveAt(d, i)
           h(j) == IF j < i THEN j ELSE j + 1
           c == [j \in DOMAIN e |-> a[h(j)]]
<1>2. DOMAIN d = 1 .. Len(d) /\ Len(d) \in Nat /\ i \in 1 .. Len(d) BY BufferElements
<1>3. DOMAIN e = 1 .. Len(d) - 1 BY <1>2, RemoveGood, BufferElements
<1>4. \A j \in DOMAIN e : h(j) \in DOMAIN d /\ h(j) # i /\ e[j] = d[h(j)]
  BY <1>2, RemoveElementAt
<1> HIDE DEF e
<1>5. c \in [DOMAIN e -> Nat] /\ \A j \in DOMAIN e : c[j] = a[h(j)] BY <1>1, <1>4
<1>6. \A j, k \in DOMAIN e : j < k => h(j) < h(k) BY <1>3
<1>7. \A k \in Refs(d) : \E j \in Refs(e) : h(j) = k
  <2>1. SUFFICES ASSUME NEW k \in Refs(d) PROVE \E j \in Refs(e) : h(j) = k OBVIOUS
  <2>2. k \in 1 .. Len(d) /\ k # i BY <1>2 DEF Refs
  <2> DEFINE j == IF k < i THEN k ELSE k - 1
  <2>3. j \in DOMAIN e /\ h(j) = k BY <1>2, <1>3, <2>2
  <2>4. QED BY <1>4, <2>1, <2>3 DEF Refs
<1>8. \A j \in Refs(e) : j \in DOMAIN e /\ h(j) \in Refs(d) BY <1>4 DEF Refs
<1> HIDE DEF h, c
<1>9. Ages(e, c, b, off, top)
  <2>1. \A j \in Refs(e) : e[j].num = Back(b, c[j] + off) BY <1>1, <1>4, <1>5, <1>8 DEF Ages
  <2>2. \A j, k \in Refs(e) : j < k => c[k] < c[j]
    BY <1>1, <1>5, <1>6, <1>8 DEF Ages
  <2>3. \A j \in Refs(e) : \A n \in 0 .. c[j] : \E k \in Refs(e) : c[k] = n
    BY <1>1, <1>5, <1>7, <1>8 DEF Ages
  <2>4. \A j \in Refs(e) : c[j] < top BY <1>1, <1>5, <1>8 DEF Ages
  <2>5. QED BY <2>1, <2>2, <2>3, <2>4 DEF Ages
<1>10. QED BY <1>5, <1>9 DEF Aged, e

-----------------------------------------------------------------------------
(* What output and removal leave as it was.                                 *)
LEMMA WriteLeaves ==
  ASSUME NEW fs \in GoodStores
  PROVE  /\ AfterWrite(fs).ref = fs.ref /\ AfterWrite(fs).orig = fs.orig
         /\ AfterWrite(fs).num = fs.num /\ AfterWrite(fs).short = fs.short
         /\ Plain(fs) => Plain(AfterWrite(fs))
<1>1. fs \in Stores BY DEF GoodStores
<1>2. CASE fs.used = Fields BY <1>1, <1>2 DEF AfterWrite, Stores, StoreOf, Plain
<1>3. CASE fs.used # Fields
  <2> DEFINE g == [fs EXCEPT !.used = Fields, !.poc = IF 0 < @ THEN 0 ELSE @,
                             !.pref = JoinMarks(fs.pref), !.plt = JoinMarks(fs.plt),
                             !.out = TRUE]
  <2>1. AfterWrite(fs) = g BY <1>1, <1>3 DEF AfterWrite, FillUnpaired, Combined, JoinMarks,
                                            Stores, StoreOf
  <2>2. /\ g.ref = fs.ref /\ g.orig = fs.orig /\ g.num = fs.num /\ g.short = fs.short
        /\ g.lt = fs.lt /\ g.long = fs.long /\ g.plt = JoinMarks(fs.plt)
    BY <1>1 DEF Stores, StoreOf
  <2>3. JoinMarks({}) = {} BY DEF JoinMarks, Fields
  <2>4. QED BY <2>1, <2>2, <2>3 DEF Plain
<1>4. QED BY <1>2, <1>3

LEMMA Position == \A x : \A n \in Nat : /\ x \in 1 .. n => x # 0
                                        /\ x \in {0, n} /\ x # 0 => x \in 1 .. n
  OBVIOUS

LEMMA RemovalWindowed ==
  ASSUME NEW d \in Buffers, NEW i \in DOMAIN d, d[i].ref = {}, last \in {0, Len(d)},
         NEW e, e = RemoveAt(d, i), NEW l, l = LastAfterRemove(i)
  PROVE  /\ Plainly(d) => Plainly(e)
         /\ Told(d) => Told(e)
         /\ \A b, off, top : Aged(d, b, off, top) => Aged(e, b, off, top)
         /\ l \in {0, Len(e)}
         /\ LastCounts(d, last) => LastCounts(e, l)
<1> DEFINE h(j) == IF j < i THEN j ELSE j + 1
<1>1. DOMAIN d = 1 .. Len(d) /\ Len(d) \in Nat /\ i \in 1 .. Len(d) BY BufferElements
<1>2. Len(e) = Len(d) - 1 /\ DOMAIN e = 1 .. Len(d) - 1
  BY <1>1, RemoveGood, BufferElements
<1>3. \A j \in DOMAIN e : h(j) \in DOMAIN d /\ e[j] = d[h(j)] BY <1>1, RemoveElementAt
<1>4. l = 0 \/ (l \in DOMAIN e /\ l = Len(e) /\ h(l) = last)
  BY <1>1, <1>2 DEF LastAfterRemove
<1> HIDE DEF h
<1>5. Plainly(d) => Plainly(e) BY <1>3 DEF Plainly
<1>6. Told(d) => Told(e) BY <1>3, Zenon DEF Told
<1>7. \A b, off, top : Aged(d, b, off, top) => Aged(e, b, off, top) BY RemovalAged
<1>8. LastCounts(d, last) => LastCounts(e, l)
  <2>1. CASE l = 0 BY <2>1 DEF LastCounts
  <2>2. CASE l # 0
    <3>1. l \in DOMAIN e /\ h(l) = last BY <1>4, <2>2
    <3>2. last \in 1 .. Len(d) /\ e[l] = d[last] BY <1>1, <1>3, <3>1
    <3>3. last # 0 BY <1>1, <3>2, Position, Zenon
    <3>4. QED BY <3>2, <3>3 DEF LastCounts
  <2>3. QED BY <2>1, <2>2
<1>9. QED BY <1>4, <1>5, <1>6, <1>7, <1>8

LEMMA OutputWindowed ==
  ASSUME dpb \in Buffers, last \in {0, Len(dpb)}, Plainly(dpb), OutputOne
  PROVE  \/ /\ \E d \in Buffers : Flush(d, "halt") /\ Plainly(d) /\ last \in {0, Len(d)}
            /\ last' = last /\ err' = "output POC must be in ascending order"
         \/ /\ UNCHANGED <<pc, ret, err>> /\ Plainly(dpb') /\ last' \in {0, Len(dpb')}
            /\ Told(dpb) => Told(dpb')
            /\ \A b, off, top : Aged(dpb, b, off, top) => Aged(dpb', b, off, top)
            /\ LastCounts(dpb, last) => LastCounts(dpb', last')
<1>1. PICK i \in NotOutput :
        LET d == [dpb EXCEPT ![i] = AfterWrite(@)]
        IN \/ /\ Flush(d, "halt") /\ last' = last
              /\ err' = "output POC must be in ascending order"
           \/ /\ UNCHANGED <<pc, ret, err>>
              /\ \/ dpb' = d /\ last' = last
                 \/ /\ ~ UsedForReference(d[i])
                    /\ dpb' = RemoveAt(d, i) /\ last' = LastAfterRemove(i)
  BY DEF OutputOne, Fail
<1> DEFINE d == [dpb EXCEPT ![i] = AfterWrite(dpb[i])]
<1>2. i \in DOMAIN dpb /\ dpb[i] \in GoodStores BY BufferElements DEF NotOutput
<1>3. d \in Buffers /\ DOMAIN d = DOMAIN dpb /\ Len(d) = Len(dpb)
  BY <1>2, AfterWriteGood, ReplaceGood, BufferElements
<1>4. \A j \in DOMAIN d :
        /\ d[j].ref = dpb[j].ref /\ d[j].orig = dpb[j].orig /\ d[j].num = dpb[j].num
        /\ d[j].short = dpb[j].short /\ Plain(d[j])
  <2>1. SUFFICES ASSUME NEW j \in DOMAIN dpb
                 PROVE  /\ d[j].ref = dpb[j].ref /\ d[j].orig = dpb[j].orig
                        /\ d[j].num = dpb[j].num /\ d[j].short = dpb[j].short
                        /\ Plain(d[j])
    OBVIOUS
  <2>2. CASE j = i
    <3>1. d[j] = AfterWrite(dpb[i]) BY <1>2, <2>2
    <3>2. Plain(dpb[i]) BY <1>2 DEF Plainly
    <3> HIDE DEF d
    <3>3. QED BY <1>2, <2>2, <3>1, <3>2, WriteLeaves
  <2>3. CASE j # i
    <3>1. d[j] = dpb[j] BY <2>3
    <3>2. QED BY <3>1 DEF Plainly
  <2>4. QED BY <2>2, <2>3
<1>5. \/ /\ Flush(d, "halt") /\ last' = last
         /\ err' = "output POC must be in ascending order"
      \/ /\ UNCHANGED <<pc, ret, err>>
         /\ \/ dpb' = d /\ last' = last
            \/ /\ ~ UsedForReference(d[i])
               /\ dpb' = RemoveAt(d, i) /\ last' = LastAfterRemove(i)
  BY <1>1
<1> HIDE DEF d
<1>6. Plainly(d) BY <1>4 DEF Plainly
<1>7. Told(dpb) => Told(d) BY <1>3, <1>4, Zenon DEF Told
<1>8. \A b, off, top : Aged(dpb, b, off, top) => Aged(d, b, off, top)
  BY <1>3, <1>4, AgesSame
<1>9. LastCounts(dpb, last) => LastCounts(d, last)
  <2>1. last # 0 => last \in DOMAIN d
    <3>1. DOMAIN d = 1 .. Len(d) /\ Len(d) \in Nat BY <1>3, BufferElements
    <3>2. QED BY <1>3, <3>1, Position, Zenon
  <2>2. QED BY <1>4, <2>1 DEF LastCounts
<1>10. CASE Flush(d, "halt") /\ last' = last /\ err' = "output POC must be in ascending order"
  BY <1>3, <1>6, <1>10
<1>11. CASE UNCHANGED <<pc, ret, err>> /\ dpb' = d /\ last' = last
  BY <1>3, <1>6, <1>7, <1>8, <1>9, <1>11
<1>12. CASE /\ UNCHANGED <<pc, ret, err>> /\ ~ UsedForReference(d[i])
            /\ dpb' = RemoveAt(d, i) /\ last' = LastAfterRemove(i)
  <2>1. d[i].ref = {} /\ i \in DOMAIN d BY <1>2, <1>3, <1>12 DEF UsedForReference
  <2>2. /\ Plainly(d) => Plainly(dpb')
        /\ Told(d) => Told(dpb')
        /\ \A b, off, top : Aged(d, b, off, top) => Aged(dpb', b, off, top)
        /\ last' \in {0, Len(dpb')}
        /\ LastCounts(d, last) => LastCounts(dpb', last')
    BY <1>3, <1>12, <2>1, RemovalWindowed
  <2>3. QED BY <1>6, <1>7, <1>8, <1>9, <1>12, <2>2
<1>13. QED BY <1>5, <1>10, <1>11, <1>12

(* flush_dpb and error() leave stores without long-term marks.              *)
LEMMA FlushWindowed ==
  ASSUME NEW d \in Buffers, Plainly(d), NEW to, Flush(d, to), last' \in {0, Len(d)},
         UNCHANGED <<cur, stream>>, CurWindowed, ~ (cur.ref /\ Second),
         to = "halt" \/ Busy, LegalStreamAccepted'
  PROVE  WindowInv'
<1>1. pc' = "purge" /\ ret' = to /\ dpb' = [i \in DOMAIN d |-> Unmark(d[i])] BY DEF Flush
<1>2. Len(dpb') = Len(d) BY <1>1, UnmarkAllGood
<1>3. \A i \in DOMAIN d : Plain(Unmark(d[i]))
  <2>1. \A fs \in GoodStores : Plain(fs) => Plain(Unmark(fs))
    BY DEF GoodStores, Stores, StoreOf, Plain, Unmark
  <2>2. QED BY <2>1, BufferElements DEF Plainly
<1>4. Plainly(dpb') BY <1>1, <1>3 DEF Plainly
<1>5. BufferWindowed' BY <1>1, <1>2, <1>4 DEF BufferWindowed, Quiet
<1>6. CurWindowed' BY <1>1 DEF CurWindowed, Busy, Flushing, Second
<1>7. LastWindowed' BY <1>1 DEF LastWindowed
<1>8. QED BY <1>5, <1>6, <1>7 DEF WindowInv

(* An empty buffer.                                                         *)
LEMMA EmptyWindowed ==
  ASSUME NEW d, d = <<>>, NEW b, NEW off, NEW top
  PROVE  Plainly(d) /\ Told(d) /\ Aged(d, b, off, top) /\ LastCounts(d, 0)
<1>1. DOMAIN d = {} /\ Refs(d) = {} BY DEF Refs
<1>2. d \in [DOMAIN d -> Nat] BY <1>1
<1>3. Ages(d, d, b, off, top) BY <1>1 DEF Ages
<1>4. QED BY <1>1, <1>2, <1>3 DEF Plainly, Told, Aged, LastCounts

-----------------------------------------------------------------------------
(* The steps.  A call starts.                                               *)
LEMMA AtRest ==
  ASSUME WindowInv, pc = "idle"
  PROVE  /\ Plainly(dpb) /\ last \in {0, Len(dpb)} /\ Told(dpb)
         /\ Aged(dpb, stream.pre, 0, MaxRef) /\ LastCounts(dpb, last)
         /\ ~ (cur.ref /\ Second)
  BY DEF WindowInv, BufferWindowed, CurWindowed, LastWindowed, Quiet, Off, Top

IsSecond(p, s) == p.struct # "frame" /\ s.first = NoPicture

LEMMA StartedWindowed ==
  ASSUME Windowed, WindowInv, pc = "idle", NEW p, NEW s, Started(p, s),
         p.lt = FALSE, p.adaptive = FALSE, p.ltflag = FALSE,
         p.ref /\ ~ IsSecond(p, s) => p.num = s.pre,
         p.ref /\ IsSecond(p, s) =>
           /\ ~ p.idr /\ last # 0 /\ dpb[last].num = p.num
           /\ dpb[last].used = {Opposite(p.struct)} /\ dpb[last].orig # {},
         s.first # NoPicture => /\ p.struct = s.first.struct /\ p.num = s.first.num
                                /\ p.ref = s.first.ref,
         ~ p.idr => Aged(dpb, s.pre, IF p.ref /\ ~ IsSecond(p, s) THEN 1 ELSE 0, MaxRef)
  PROVE  WindowInv'
<1>1. /\ dpb' = dpb /\ last' = last /\ cur' = p /\ stream' = s /\ err' = err
      /\ pc' = IF p.idr THEN "idr" ELSE "pair"
  BY DEF Started
<1>2. /\ Plainly(dpb) /\ last \in {0, Len(dpb)} /\ Told(dpb) /\ LastCounts(dpb, last)
  BY AtRest
<1>3. Second' <=> IsSecond(p, s) BY <1>1 DEF Second, IsSecond
<1>4. BufferWindowed'
  <2>1. CASE p.idr BY <1>1, <1>2, <2>1 DEF BufferWindowed, Quiet
  <2>2. CASE ~ p.idr
    <3>1. pc' = "pair" BY <1>1, <2>2
    <3>2. Off' = (IF p.ref /\ ~ IsSecond(p, s) THEN 1 ELSE 0) /\ Top' = MaxRef
      BY <1>1, <1>3, <3>1 DEF Off, Top
    <3>3. QED BY <1>1, <1>2, <2>2, <3>1, <3>2 DEF BufferWindowed, Quiet
  <2>3. QED BY <2>1, <2>2
<1>5. CurWindowed'
  <2>1. p.ref /\ IsSecond(p, s) => pc' = "pair" /\ IsSecondField'
    BY <1>1 DEF IsSecondField, IsSecond
  <2>2. QED BY <1>1, <1>3, <2>1 DEF CurWindowed
<1>6. LastWindowed' BY <1>1, <1>2 DEF LastWindowed
<1>7. LegalStreamAccepted' BY <1>1 DEF WindowInv, LegalStreamAccepted
<1>8. QED BY <1>4, <1>5, <1>6, <1>7 DEF WindowInv

LEMMA ReceiveWindowed ==
  ASSUME Windowed, IndInv, WindowInv, Receive
  PROVE  WindowInv'
<1>1. Mmcos = {} BY DEF Windowed
<1>2. stream \in StreamOf /\ stream.pre \in FrameNums
  BY IndInvParts DEF RestOK, StreamOf
<1>3. \A p : p.struct \in Views => p # NoPicture BY DEF Views, Fields, NoPicture
<1>4. \A s \in Structures : s \in Views BY StructuresLemma
<1>5. \A q : /\ q.struct = "frame" => FirstField(q) = NoPicture
             /\ q.struct # "frame" => FirstField(q) = q
  BY DEF FirstField
<1>6. pc = "idle" => Aged(dpb, (stream.pre + 1) % MaxFrameNum, 1, MaxRef)
  BY <1>2, AtRest, AgesOlder
<1>7. CASE ReceiveIdr
  <2>1. PICK s \in Structures, lt \in BOOLEAN, noout \in BOOLEAN :
          LET seq == 1 - stream.seq
              p == [NewPicture(s, 0, TRUE, seq) EXCEPT
                      !.num = 0, !.idr = TRUE, !.ltflag = lt, !.noout = noout]
          IN /\ lt => 3 \in Mmcos \/ 6 \in Mmcos
             /\ Started(p, [pre |-> 0, gap |-> 0, seq |-> seq, ks |-> {0},
                            first |-> FirstField(p), started |-> TRUE])
    BY <1>7 DEF ReceiveIdr
  <2>2. lt = FALSE BY <1>1, <2>1
  <2> DEFINE p == [NewPicture(s, 0, TRUE, 1 - stream.seq) EXCEPT
                     !.num = 0, !.idr = TRUE, !.ltflag = lt, !.noout = noout]
             st == [pre |-> 0, gap |-> 0, seq |-> 1 - stream.seq, ks |-> {0},
                    first |-> FirstField(p), started |-> TRUE]
  <2>3. /\ p.lt = FALSE /\ p.adaptive = FALSE /\ p.ltflag = FALSE /\ p.idr = TRUE
        /\ p.num = 0 /\ p.struct = s /\ p.ref = TRUE
    BY <2>2 DEF NewPicture
  <2>4. st.pre = 0 /\ st.first = FirstField(p) OBVIOUS
  <2>9. Started(p, st) BY <2>1
  <2> HIDE DEF p, st
  <2>5. ~ IsSecond(p, st) BY <1>3, <1>4, <1>5, <2>3, <2>4 DEF IsSecond
  <2>6. st.first # NoPicture => st.first = p BY <1>5, <2>4
  <2>7. pc = "idle" BY <1>7 DEF ReceiveIdr, Waiting
  <2>8. QED BY <2>3, <2>4, <2>5, <2>6, <2>7, <2>9, StartedWindowed
<1>8. CASE ReceivePicture
  <2>1. PICK s \in Structures, r \in BOOLEAN, a \in BOOLEAN, k \in (0 .. MaxK) \ stream.ks :
          LET p == [NewPicture(s, k, r, stream.seq) EXCEPT !.adaptive = a]
          IN /\ a => r /\ Mmcos # {}
             /\ ~MakesPair(stream.first, p)
             /\ Started(p, [stream EXCEPT !.pre = IF r THEN p.num ELSE @, !.gap = 0,
                                          !.ks = @ \cup {k}, !.first = FirstField(p)])
    BY <1>8 DEF ReceivePicture
  <2>2. a = FALSE BY <1>1, <2>1
  <2> DEFINE p == [NewPicture(s, k, r, stream.seq) EXCEPT !.adaptive = a]
             st == [stream EXCEPT !.pre = IF r THEN p.num ELSE @, !.gap = 0,
                                  !.ks = @ \cup {k}, !.first = FirstField(p)]
  <2>3. /\ p.lt = FALSE /\ p.adaptive = FALSE /\ p.ltflag = FALSE /\ p.idr = FALSE
        /\ p.num = (stream.pre + 1) % MaxFrameNum /\ p.struct = s /\ p.ref = r
    BY <2>2 DEF NewPicture
  <2>4. st.pre = (IF r THEN p.num ELSE stream.pre) /\ st.first = FirstField(p)
    BY <1>2 DEF StreamOf
  <2>10. Started(p, st) BY <2>1
  <2> HIDE DEF p, st
  <2>5. ~ IsSecond(p, st) BY <1>3, <1>4, <1>5, <2>3, <2>4 DEF IsSecond
  <2>6. st.first # NoPicture => st.first = p BY <1>5, <2>4
  <2>7. pc = "idle" BY <1>8 DEF ReceivePicture, Waiting
  <2>8. Aged(dpb, st.pre, IF p.ref /\ ~ IsSecond(p, st) THEN 1 ELSE 0, MaxRef)
    BY <1>6, <2>3, <2>4, <2>5, <2>7, AtRest
  <2>9. QED BY <2>3, <2>4, <2>5, <2>6, <2>7, <2>8, <2>10, StartedWindowed
<1>9. CASE ReceiveSecondField
  <2> DEFINE f == stream.first
  <2>1. PICK a \in BOOLEAN :
          LET p == [NewPicture(Opposite(f.struct), f.id.k, f.ref, f.id.seq) EXCEPT
                      !.num = f.num, !.poc = 2 * f.id.k + 1, !.adaptive = a]
          IN /\ a => f.ref /\ Mmcos # {}
             /\ Started(p, [stream EXCEPT !.first = NoPicture])
    BY <1>9 DEF ReceiveSecondField
  <2>2. a = FALSE BY <1>1, <2>1
  <2> DEFINE p == [NewPicture(Opposite(f.struct), f.id.k, f.ref, f.id.seq) EXCEPT
                     !.num = f.num, !.poc = 2 * f.id.k + 1, !.adaptive = a]
             st == [stream EXCEPT !.first = NoPicture]
  <2>3. pc = "idle" /\ f # NoPicture /\ f.struct \in Fields
    BY <1>9, IndInvParts DEF ReceiveSecondField, FirstGood
  <2>4. /\ p.lt = FALSE /\ p.adaptive = FALSE /\ p.ltflag = FALSE /\ p.idr = FALSE
        /\ p.num = f.num /\ p.struct = Opposite(f.struct) /\ p.ref = f.ref
    BY <2>2 DEF NewPicture
  <2>5. st.pre = stream.pre /\ st.first = NoPicture BY <1>2 DEF StreamOf
  <2>10. Started(p, st) BY <2>1
  <2> HIDE DEF p, st
  <2>6. IsSecond(p, st) /\ Opposite(p.struct) = f.struct
    BY <2>3, <2>4, <2>5 DEF IsSecond, Opposite, Fields
  <2>7. f.ref => /\ last # 0 /\ dpb[last].num = p.num
                 /\ dpb[last].used = {Opposite(p.struct)} /\ dpb[last].orig # {}
    BY <2>3, <2>4, <2>6 DEF WindowInv, LastWindowed
  <2>8. Aged(dpb, st.pre, IF p.ref /\ ~ IsSecond(p, st) THEN 1 ELSE 0, MaxRef)
    BY <2>3, <2>5, <2>6, AtRest
  <2>9. QED BY <2>3, <2>4, <2>5, <2>6, <2>7, <2>8, <2>10, StartedWindowed
<1>10. CASE FillFrameNumGap
  <2> DEFINE p == [NewPicture("frame", 0, TRUE, stream.seq) EXCEPT !.out = TRUE, !.id = NoId]
             st == [stream EXCEPT !.pre = p.num, !.gap = @ + 1, !.first = NoPicture]
  <2>1. Started(p, st) BY <1>10 DEF FillFrameNumGap
  <2>2. /\ p.lt = FALSE /\ p.adaptive = FALSE /\ p.ltflag = FALSE /\ p.idr = FALSE
        /\ p.num = (stream.pre + 1) % MaxFrameNum /\ p.struct = "frame" /\ p.ref = TRUE
    BY DEF NewPicture
  <2>3. st.pre = p.num /\ st.first = NoPicture BY <1>2 DEF StreamOf
  <2> HIDE DEF p, st
  <2>4. ~ IsSecond(p, st) BY <2>2 DEF IsSecond
  <2>5. pc = "idle" BY <1>10 DEF FillFrameNumGap, Waiting
  <2>6. Aged(dpb, st.pre, IF p.ref /\ ~ IsSecond(p, st) THEN 1 ELSE 0, MaxRef)
    BY <1>6, <2>2, <2>3, <2>4, <2>5
  <2>7. QED BY <2>1, <2>2, <2>3, <2>4, <2>5, <2>6, StartedWindowed
<1>11. QED BY <1>7, <1>8, <1>9, <1>10 DEF Receive

LEMMA StillAccepted == LegalStreamAccepted /\ err' = err => LegalStreamAccepted'
  BY DEF LegalStreamAccepted

(* What a step leaves of the picture in a call that goes on.                *)
LEMMA CurKept ==
  ASSUME CurWindowed, UNCHANGED <<cur, stream>>, ~ (cur.ref /\ Second), pc' # "mmco",
         Busy' \/ (Flushing' /\ ret' # "halt") => Busy \/ (Flushing /\ ret # "halt")
  PROVE  CurWindowed'
  BY DEF CurWindowed, Second, Busy, Flushing

(* After a call.                                                            *)
LEMMA CurGone ==
  ASSUME cur' = NoPicture, pc' \in {"idle", "halt"}
  PROVE  CurWindowed'
  BY DEF CurWindowed, NoPicture, Busy, Flushing

LEMMA IdrWindowed ==
  ASSUME IndInv, EmptyInv, WindowInv, EndOfStream \/ IdrStart \/ IdrTail
  PROVE  WindowInv'
<1>1. dpb \in Buffers /\ Len(dpb) \in Nat BY IndInvBuffer
<1>2. Plainly(dpb) /\ last \in {0, Len(dpb)} /\ CurWindowed /\ LegalStreamAccepted
  BY DEF WindowInv, BufferWindowed
<1>3. CASE EndOfStream
  <2>1. pc = "idle" /\ Flush(dpb, "halt") /\ UNCHANGED <<last, cur, err, stream>>
    BY <1>3 DEF EndOfStream, Waiting
  <2>2. ~ (cur.ref /\ Second) BY <2>1, AtRest
  <2>3. QED BY <1>1, <1>2, <2>1, <2>2, FlushWindowed, StillAccepted
<1>4. CASE IdrStart
  <2>1. pc = "idr" /\ UNCHANGED <<cur, err, stream>> BY <1>4 DEF IdrStart
  <2>2. ~ (cur.ref /\ Second) /\ Busy BY <1>2, <2>1 DEF CurWindowed, Busy
  <2>3. LegalStreamAccepted' BY <1>2, <2>1, StillAccepted
  <2>4. CASE Flush(dpb, "idrtail") /\ last' = last
    BY <1>1, <1>2, <2>1, <2>2, <2>3, <2>4, FlushWindowed
  <2>5. CASE dpb' = <<>> /\ last' = 0 /\ pc' = "idrtail"
    <3>1. BufferWindowed' BY <2>5, EmptyWindowed DEF BufferWindowed, Quiet
    <3>2. CurWindowed' BY <1>2, <2>1, <2>2, <2>5, CurKept
    <3>3. LastWindowed' BY <2>5 DEF LastWindowed
    <3>4. QED BY <2>3, <3>1, <3>2, <3>3 DEF WindowInv
  <2>6. QED BY <1>4, <2>4, <2>5 DEF IdrStart
<1>5. CASE IdrTail
  <2>1. /\ pc = "idrtail" /\ pc' = "pair" /\ last' = 0 /\ dpb' = UpdateLists(dpb)
        /\ cur' = [cur EXCEPT !.lt = cur.ltflag, !.idx = IF cur.ltflag THEN 0 ELSE @]
        /\ UNCHANGED <<err, stream>>
    BY <1>5 DEF IdrTail
  <2>2. dpb = <<>> BY <2>1 DEF EmptyInv
  <2>3. dpb' = <<>>
    <3>1. dpb' \in Buffers /\ Len(dpb') = 0 BY <1>1, <2>1, <2>2, BothListsGood
    <3>2. QED BY <3>1
  <2>4. BufferWindowed' BY <2>1, <2>3, EmptyWindowed DEF BufferWindowed
  <2>5. CurWindowed'
    <3>1. cur \in Pictures /\ cur.ltflag = FALSE /\ cur.lt = FALSE
      BY <1>2, <2>1, IndInvParts DEF CurGood, Busy, GoodPicture, CurWindowed
    <3>2. cur'.lt = FALSE /\ cur'.struct = cur.struct /\ cur'.num = cur.num
          /\ cur'.ref = cur.ref /\ cur'.adaptive = cur.adaptive /\ cur'.ltflag = cur.ltflag
      BY <2>1, <3>1 DEF Pictures, PictureOf
    <3>3. Busy /\ ~ (cur.ref /\ Second) BY <1>2, <2>1 DEF CurWindowed, Busy
    <3>4. stream' = stream /\ pc' # "mmco" BY <2>1
    <3>5. QED BY <1>2, <3>2, <3>3, <3>4 DEF CurWindowed, Second
  <2>6. LastWindowed' BY <2>1 DEF LastWindowed, LastCounts
  <2>7. QED BY <1>2, <2>1, <2>4, <2>5, <2>6, StillAccepted DEF WindowInv
<1>6. QED BY <1>3, <1>4, <1>5

LEMMA FlushingWindowed ==
  ASSUME IndInv, EmptyInv, WindowInv, FlushPurge \/ FlushDrain \/ FlushDone
  PROVE  WindowInv'
<1>1. dpb \in Buffers /\ Len(dpb) \in Nat /\ last \in 0 .. Len(dpb)
      /\ DOMAIN dpb = 1 .. Len(dpb)
  BY IndInvBuffer
<1>2. Plainly(dpb) /\ last \in {0, Len(dpb)} /\ CurWindowed /\ LegalStreamAccepted
  BY DEF WindowInv, BufferWindowed
<1>3. pc \in {"purge", "drain"} /\ stream' = stream
      /\ (cur' = cur \/ (ret = "halt" /\ cur' = NoPicture))
  BY DEF FlushPurge, FlushDrain, FlushDone
<1>4. Flushing /\ ~ (cur.ref /\ Second) BY <1>2, <1>3 DEF Flushing, CurWindowed
<1>5. CASE FlushPurge
  <2>1. Plainly(dpb') /\ last' \in {0, Len(dpb')}
    <3>1. CASE UNCHANGED <<dpb, last>> BY <1>2, <3>1
    <3>2. CASE RemoveUnused
      <4>1. PICK i \in FirstOf(Unused) : dpb' = RemoveAt(dpb, i) /\ last' = LastAfterRemove(i)
        BY <3>2 DEF RemoveUnused
      <4>2. i \in DOMAIN dpb /\ dpb[i].ref = {}
        BY <4>1 DEF FirstOf, Unused, UsedForReference
      <4>3. QED BY <1>1, <1>2, <4>1, <4>2, RemovalWindowed
    <3>3. QED BY <1>5, <3>1, <3>2 DEF FlushPurge
  <2>2. pc' \in {"purge", "drain"} /\ UNCHANGED <<ret, cur, err, stream>>
    BY <1>3, <1>5 DEF FlushPurge
  <2>3. BufferWindowed' BY <2>1, <2>2 DEF BufferWindowed, Quiet
  <2>4. CurWindowed'
    BY <1>2, <1>4, <2>2, CurKept DEF Busy, Flushing
  <2>5. LastWindowed' BY <2>2 DEF LastWindowed
  <2>6. QED BY <1>2, <2>2, <2>3, <2>4, <2>5, StillAccepted DEF WindowInv
<1>6. CASE FlushDrain
  <2>1. OutputOne /\ UNCHANGED <<cur, stream>> BY <1>6 DEF FlushDrain
  <2>2. CASE /\ \E d \in Buffers : Flush(d, "halt") /\ Plainly(d) /\ last \in {0, Len(d)}
             /\ last' = last /\ err' = "output POC must be in ascending order"
    <3>1. LegalStreamAccepted' BY <2>2 DEF LegalStreamAccepted
    <3>2. QED BY <1>2, <1>4, <2>1, <2>2, <3>1, FlushWindowed
  <2>3. CASE UNCHANGED <<pc, ret, err>> /\ Plainly(dpb') /\ last' \in {0, Len(dpb')}
    <3>1. BufferWindowed' BY <1>3, <2>3 DEF BufferWindowed, Quiet
    <3>2. CurWindowed' BY <1>2, <1>3, <1>4, <2>1, <2>3, CurKept DEF Busy, Flushing
    <3>3. LastWindowed' BY <1>3, <2>3 DEF LastWindowed
    <3>4. QED BY <1>2, <2>3, <3>1, <3>2, <3>3, StillAccepted DEF WindowInv
  <2>4. QED BY <1>1, <1>2, <2>1, <2>2, <2>3, OutputWindowed
<1>7. CASE FlushDone
  <2>1. dpb = <<>> BY <1>7, FlushEnds
  <2>2. /\ dpb' = dpb /\ last' = last /\ pc' = ret /\ err' = err /\ stream' = stream
        /\ cur' = IF ret = "halt" THEN NoPicture ELSE cur
    BY <1>7 DEF FlushDone
  <2>3. dpb' = <<>> /\ last' = 0 BY <1>1, <2>1, <2>2
  <2>4. ret \in {"idrtail", "pair", "halt"} BY IndInvParts DEF RestOK
  <2>5. BufferWindowed' BY <2>3, EmptyWindowed DEF BufferWindowed
  <2>6. CurWindowed'
    <3>1. CASE ret = "halt" BY <2>2, <3>1, CurGone
    <3>2. CASE ret # "halt"
      BY <1>2, <1>4, <2>2, <2>4, <3>2, CurKept DEF Busy, Flushing
    <3>3. QED BY <3>1, <3>2
  <2>7. LastWindowed' BY <2>2, <2>3, <2>4 DEF LastWindowed, LastCounts
  <2>8. QED BY <1>2, <2>2, <2>5, <2>6, <2>7, StillAccepted DEF WindowInv
<1>8. QED BY <1>5, <1>6, <1>7

-----------------------------------------------------------------------------
(* fs_ref and fs_ltref, made from stores with no long-term fields.          *)
LEMMA GoodPlain ==
  ASSUME NEW fs \in GoodStores, fs.lt = {}
  PROVE  fs.plt = {} /\ (IsShortTerm(fs) <=> fs.ref # {}) /\ ~ IsLongTerm(fs)
<1>1. /\ fs.ref \in SUBSET Fields /\ fs.pref \in SUBSET Views /\ fs.plt \in SUBSET Views
      /\ fs.ref \subseteq fs.used /\ fs.used \in SUBSET Fields
      /\ BitsAgree(fs.ref, fs.pref) /\ BitsAgree(fs.lt, fs.plt)
  BY DEF GoodStores, Stores, StoreOf
<1>2. fs.plt = {}
  <2>1. "frame" \notin fs.plt BY <1>1 DEF BitsAgree, Fields
  <2>2. fs.plt \subseteq {"frame"} \/ fs.plt \cap Fields = {} BY <1>1 DEF BitsAgree
  <2>3. QED BY <1>1, <2>1, <2>2 DEF Views, Fields
<1>3. ~ IsLongTerm(fs) BY <1>2 DEF IsLongTerm
<1>4. fs.ref # {} => IsShortTerm(fs)
  <2>1. SUFFICES ASSUME NEW f \in fs.ref PROVE IsShortTerm(fs) OBVIOUS
  <2>2. CASE FrameMbsOnly
    <3>1. fs.used = Fields BY <2>2 DEF GoodStores
    <3>2. fs.ref = Fields BY <1>1, <2>1, <2>2 DEF BitsAgree
    <3>3. "frame" \in fs.pref BY <1>1, <3>2 DEF BitsAgree
    <3>4. QED BY <1>2, <3>1, <3>3 DEF PicturesOf, IsShortTerm
  <2>3. CASE ~ FrameMbsOnly
    <3>1. f \in fs.pref /\ f \in fs.used BY <1>1, <2>1, <2>3 DEF BitsAgree
    <3>2. QED BY <1>2, <3>1 DEF PicturesOf, IsShortTerm
  <2>4. QED BY <2>2, <2>3
<1>5. IsShortTerm(fs) => fs.ref # {}
  <2>1. SUFFICES ASSUME NEW v \in PicturesOf(fs), v \in fs.pref PROVE fs.ref # {}
    BY DEF IsShortTerm
  <2>2. CASE v = "frame"
    <3>1. fs.ref = Fields BY <1>1, <2>1, <2>2 DEF BitsAgree
    <3>2. QED BY <3>1 DEF Fields
  <2>3. CASE v # "frame"
    <3>1. v \in Fields BY <1>1, <2>1, <2>3 DEF PicturesOf
    <3>2. ~ FrameMbsOnly BY <1>1, <2>1, <2>3 DEF BitsAgree
    <3>3. QED BY <1>1, <2>1, <3>1, <3>2 DEF BitsAgree
  <2>4. QED BY <2>2, <2>3
<1>6. QED BY <1>2, <1>3, <1>4, <1>5

LEMMA UpdatedPlain ==
  ASSUME NEW d \in Buffers, \A i \in DOMAIN d : d[i].lt = {}
  PROVE  /\ Plainly(UpdateLists(d)) /\ Told(UpdateLists(d))
         /\ DOMAIN UpdateLists(d) = DOMAIN d
         /\ \A i \in DOMAIN d : /\ UpdateLists(d)[i].num = d[i].num
                                /\ UpdateLists(d)[i].ref = d[i].ref
<1> DEFINE e == UpdateLists(d)
<1>1. e \in Buffers /\ SameMarks(e, d) /\ \A i \in DOMAIN e : Fresh(e[i])
  BY BothListsGood, UpdateSame, UpdateFresh
<1> HIDE DEF e
<1>2. DOMAIN e = DOMAIN d /\ \A i \in DOMAIN d : e[i].num = d[i].num /\ e[i].ref = d[i].ref
  BY <1>1 DEF SameMarks
<1>3. \A i \in DOMAIN e : e[i] \in GoodStores /\ e[i].lt = {} /\ e[i].long \in BOOLEAN
  BY <1>1, BufferElements DEF SameMarks, GoodStores, Stores, StoreOf
<1>4. \A i \in DOMAIN e : e[i].plt = {} /\ (e[i].short <=> e[i].ref # {}) /\ ~ e[i].long
  <2>1. \A i \in DOMAIN e : /\ e[i].plt = {} /\ (IsShortTerm(e[i]) <=> e[i].ref # {})
                            /\ ~ IsLongTerm(e[i])
    BY <1>3, GoodPlain
  <2>2. QED BY <1>1, <2>1, Zenon DEF Fresh
<1>5. Plainly(e) BY <1>3, <1>4 DEF Plainly, Plain
<1>6. Told(e) BY <1>4, Zenon DEF Told
<1>7. QED BY <1>2, <1>5, <1>6 DEF e

LEMMA ShortUpdatedPlain ==
  ASSUME NEW d \in Buffers, Plainly(d)
  PROVE  /\ Plainly(UpdateRefList(d)) /\ Told(UpdateRefList(d))
         /\ DOMAIN UpdateRefList(d) = DOMAIN d
         /\ \A i \in DOMAIN d : /\ UpdateRefList(d)[i].num = d[i].num
                                /\ UpdateRefList(d)[i].ref = d[i].ref
<1> DEFINE e == UpdateRefList(d)
<1>1. DOMAIN e = DOMAIN d /\ \A i \in DOMAIN d : e[i] = [d[i] EXCEPT !.short = IsShortTerm(d[i])]
  BY DEF UpdateRefList
<1> HIDE DEF e
<1>2. \A i \in DOMAIN d : d[i] \in GoodStores /\ d[i] \in Stores /\ Plain(d[i])
  BY BufferElements DEF GoodStores, Plainly
<1>3. \A fs \in Stores : \A b \in BOOLEAN :
        LET g == [fs EXCEPT !.short = b]
        IN  /\ g.short = b /\ g.long = fs.long /\ g.lt = fs.lt /\ g.plt = fs.plt
            /\ g.num = fs.num /\ g.ref = fs.ref
  BY DEF Stores, StoreOf
<1>4. \A i \in DOMAIN d : IsShortTerm(d[i]) \in BOOLEAN BY DEF IsShortTerm
<1>5. \A i \in DOMAIN d : /\ e[i].short = IsShortTerm(d[i]) /\ e[i].long = d[i].long
                          /\ e[i].lt = d[i].lt /\ e[i].plt = d[i].plt
                          /\ e[i].num = d[i].num /\ e[i].ref = d[i].ref
  <2>1. SUFFICES ASSUME NEW i \in DOMAIN d
                 PROVE  /\ e[i].short = IsShortTerm(d[i]) /\ e[i].long = d[i].long
                        /\ e[i].lt = d[i].lt /\ e[i].plt = d[i].plt
                        /\ e[i].num = d[i].num /\ e[i].ref = d[i].ref
    OBVIOUS
  <2> DEFINE c == IsShortTerm(d[i])
  <2>2. e[i] = [d[i] EXCEPT !.short = c] /\ c \in BOOLEAN BY <1>1, <1>4
  <2> HIDE DEF c
  <2>3. QED BY <1>2, <1>3, <2>2 DEF c
<1>6. Plainly(e) BY <1>1, <1>2, <1>5 DEF Plainly, Plain
<1>7. \A i \in DOMAIN d : IsShortTerm(d[i]) <=> d[i].ref # {} BY <1>2, GoodPlain DEF Plain
<1>8. \A i \in DOMAIN e : e[i].short <=> e[i].ref # {} BY <1>1, <1>5, <1>7, Zenon
<1>9. QED BY <1>1, <1>5, <1>6, <1>8 DEF Told, e

(* The lists of a buffer at rest.                                           *)
LEMMA ListsOf ==
  ASSUME NEW d, Plainly(d), Told(d)
  PROVE  ShortList(d) = Refs(d) /\ LongList(d) = {}
<1>1. \A i \in DOMAIN d : i \in ShortList(d) <=> i \in Refs(d)
  BY Zenon DEF ShortList, Refs, Told
<1>2. ShortList(d) = Refs(d) BY <1>1 DEF ShortList, Refs
<1>3. LongList(d) = {} BY DEF LongList, Plainly, Plain
<1>4. QED BY <1>2, <1>3

(* There are as many references as the oldest is old, and one more.         *)
LEMMA AgesCount ==
  ASSUME NEW d \in Buffers, NEW a \in [DOMAIN d -> Nat], NEW b, NEW off, NEW top \in Nat,
         Ages(d, a, b, off, top)
  PROVE  /\ IsFiniteSet(Refs(d)) /\ Cardinality(Refs(d)) <= top
         /\ Cardinality(Refs(d)) = top <=> top = 0 \/ \E i \in Refs(d) : a[i] = top - 1
<1>1. DOMAIN d = 1 .. Len(d) /\ Len(d) \in Nat BY BufferElements
<1>2. Refs(d) \subseteq DOMAIN d BY DEF Refs
<1> DEFINE S == Refs(d)
           T == 0 .. top - 1
           f == [i \in S |-> a[i]]
<1>3. \A i \in S : a[i] \in T BY <1>2 DEF Ages
<1>4. \A i, j \in S : a[i] = a[j] => i = j
  <2>1. \A i, j \in S : i < j => a[j] < a[i] BY DEF Ages
  <2>2. QED BY <1>1, <1>2, <1>3, <2>1
<1>5. f \in Injection(S, T) BY <1>3, <1>4 DEF Injection, IsInjective
<1>6. IsFiniteSet(T) /\ Cardinality(T) = top BY FS_Interval
<1>7. IsFiniteSet(S) /\ Cardinality(S) <= Cardinality(T)
      /\ (Cardinality(S) = Cardinality(T) <=> f \in Surjection(S, T))
  BY <1>5, <1>6, FS_Injection
<1>8. ASSUME NEW i \in S, a[i] = top - 1 PROVE Cardinality(S) = top
  <2>1. \A n \in T : \E j \in S : a[j] = n BY <1>8 DEF Ages
  <2>2. f \in Surjection(S, T) BY <1>3, <2>1 DEF Surjection
  <2>3. QED BY <1>6, <1>7, <2>2
<1>9. ASSUME Cardinality(S) = top, top # 0 PROVE \E i \in S : a[i] = top - 1
  <2>1. f \in Surjection(S, T) /\ top - 1 \in T BY <1>6, <1>7, <1>9
  <2>2. PICK i \in S : f[i] = top - 1 BY <2>1 DEF Surjection
  <2>3. QED BY <2>2
<1>10. top = 0 => Cardinality(S) = top BY <1>6, <1>7, FS_CardinalityType
<1>11. QED BY <1>6, <1>7, <1>8, <1>9, <1>10

(* What is known of a reference picture that opens a frame: no store has    *)
(* its frame_num, and last_picture waits for another one.                   *)
LEMMA NewestIsOne ==
  ASSUME Windowed, NEW d \in Buffers, NEW a \in [DOMAIN d -> Nat], NEW b \in FrameNums,
         Ages(d, a, b, 1, MaxRef), NEW l \in Refs(d), l = Len(d)
  PROVE  d[l].num # b
<1>1. DOMAIN d = 1 .. Len(d) /\ Len(d) \in Nat /\ Refs(d) \subseteq DOMAIN d
  BY BufferElements DEF Refs
<1>2. a[l] \in Nat /\ 0 \in 0 .. a[l] BY <1>1
<1>3. PICK j \in Refs(d) : a[j] = 0 BY <1>2 DEF Ages
<1>4. j = l
  <2>1. j < l => a[l] < a[j] BY DEF Ages
  <2>2. QED BY <1>1, <1>2, <1>3, <2>1
<1>5. d[l].num = Back(b, 0 + 1) BY <1>3, <1>4 DEF Ages
<1>6. MaxFrameNum \in Nat /\ MaxFrameNum > 1 /\ b \in 0 .. MaxFrameNum - 1
  BY WindowNumbers DEF FrameNums
<1>7. Back(b, 0 + 1) # b BY <1>6 DEF Back
<1>8. QED BY <1>5, <1>7

LEMMA PairIsSecond ==
  ASSUME Windowed, IndInv, WindowInv, Pair, cur.ref
  PROVE  Second /\ dpb[last].ref # {}
<1>1. pc = "pair" /\ IsSecondField /\ cur.struct # "frame" /\ last # 0
      /\ dpb[last].num = cur.num /\ dpb[last].orig # {}
  BY DEF Pair, IsSecondField
<1>2. dpb \in Buffers /\ DOMAIN dpb = 1 .. Len(dpb) /\ last = Len(dpb) /\ last \in DOMAIN dpb
  BY <1>1, IndInvBuffer, Position, Zenon DEF WindowInv, BufferWindowed
<1>3. dpb[last].ref # {} BY <1>1 DEF WindowInv, LastWindowed, LastCounts
<1>4. SUFFICES ASSUME ~ Second PROVE FALSE BY <1>3
<1>5. cur.num = stream.pre BY <1>4 DEF WindowInv, CurWindowed
<1>6. Off = 1 /\ Top = MaxRef BY <1>1, <1>4 DEF Off, Top
<1>7. Aged(dpb, stream.pre, 1, MaxRef) BY <1>1, <1>6 DEF WindowInv, BufferWindowed, Quiet
<1>8. PICK a \in [DOMAIN dpb -> Nat] : Ages(dpb, a, stream.pre, 1, MaxRef) BY <1>7 DEF Aged
<1>9. stream.pre \in FrameNums BY IndInvParts DEF RestOK, StreamOf
<1>10. last \in Refs(dpb) BY <1>2, <1>3 DEF Refs
<1>11. QED BY <1>1, <1>2, <1>5, <1>8, <1>9, <1>10, NewestIsOne

LEMMA PairWindowed ==
  ASSUME Windowed, IndInv, WindowInv, Pair
  PROVE  WindowInv'
<1>1. /\ pc = "pair" /\ IsSecondField /\ cur.struct # "frame" /\ last # 0
      /\ dpb[last].num = cur.num
  BY DEF Pair, IsSecondField
<1>2. dpb \in Buffers /\ DOMAIN dpb = 1 .. Len(dpb) /\ last \in DOMAIN dpb
      /\ dpb[last] \in GoodStores
  BY <1>1, IndInvBuffer, BufferElements, Position, Zenon DEF WindowInv, BufferWindowed
<1>3. GoodPicture(cur) /\ Busy BY <1>1, IndInvParts DEF CurGood, Busy
<1>4. cur.lt = FALSE /\ Plainly(dpb) /\ CurWindowed
  BY DEF WindowInv, BufferWindowed, CurWindowed
<1> DEFINE g == Insert(dpb[last], cur)
           d == [dpb EXCEPT ![last] = g]
<1>5. g.num = cur.num /\ g.lt = {} /\ g.ref = Marked(cur, dpb[last].ref) /\ g \in GoodStores
  <2>1. dpb[last].lt = {} BY <1>2, <1>4 DEF Plainly, Plain
  <2>2. g \in GoodStores BY <1>1, <1>2, <1>3, InsertGood
  <2>3. g = Insert(dpb[last], cur) OBVIOUS
  <2> HIDE DEF g
  <2>5. /\ g.num = cur.num /\ g.ref = Marked(cur, dpb[last].ref)
        /\ g.lt = IF cur.lt THEN dpb[last].lt \cup {cur.struct} ELSE dpb[last].lt
    <3>1. dpb[last] \in GoodStores /\ GoodPicture(cur) /\ cur.struct # "frame"
      BY <1>1, <1>2, <1>3
    <3>2. QED BY <2>3, <3>1, InsertFieldLong
  <2>4. QED BY <1>4, <2>1, <2>2, <2>5
<1>6. g.ref = {} <=> dpb[last].ref = {}
  <2>1. CASE cur.ref
    <3>1. dpb[last].ref # {} /\ g.ref # {} BY <1>5, <2>1, PairIsSecond DEF Marked
    <3>2. QED BY <3>1
  <2>2. CASE ~ cur.ref BY <1>5, <2>2 DEF Marked
  <2>3. QED BY <2>1, <2>2
<1>7. /\ pc' = "idle" /\ cur' = NoPicture /\ last' = 0 /\ dpb' = UpdateLists(d)
      /\ stream' = stream /\ err' = err
  BY DEF Pair
<1> HIDE DEF g
<1>8. d \in Buffers /\ DOMAIN d = DOMAIN dpb BY <1>2, <1>5, ReplaceGood, BufferElements
<1>9. \A i \in DOMAIN dpb : d[i].lt = {} /\ d[i].num = dpb[i].num
                           /\ (d[i].ref = {} <=> dpb[i].ref = {})
  <2>1. SUFFICES ASSUME NEW i \in DOMAIN dpb
                 PROVE  /\ d[i].lt = {} /\ d[i].num = dpb[i].num
                        /\ (d[i].ref = {} <=> dpb[i].ref = {})
    OBVIOUS
  <2>2. CASE i = last
    <3>1. d[i] = g BY <1>2, <2>2
    <3>2. QED BY <1>1, <1>5, <1>6, <2>2, <3>1
  <2>3. CASE i # last
    <3>1. d[i] = dpb[i] BY <2>3
    <3>2. QED BY <1>4, <3>1 DEF Plainly, Plain
  <2>4. QED BY <2>2, <2>3
<1> HIDE DEF d
<1>10. /\ Plainly(dpb') /\ Told(dpb') /\ DOMAIN dpb' = DOMAIN dpb
       /\ \A i \in DOMAIN dpb : dpb'[i].num = dpb[i].num /\ (dpb'[i].ref = {} <=> dpb[i].ref = {})
  <2>1. \A i \in DOMAIN d : d[i].lt = {} BY <1>8, <1>9
  <2>2. /\ Plainly(dpb') /\ Told(dpb') /\ DOMAIN dpb' = DOMAIN d
        /\ \A i \in DOMAIN d : dpb'[i].num = d[i].num /\ dpb'[i].ref = d[i].ref
    BY <1>7, <1>8, <2>1, UpdatedPlain
  <2>3. QED BY <1>8, <1>9, <2>2
<1>11. Off = 0 /\ Top = MaxRef BY <1>1, PairIsSecond DEF Off, Top
<1>12. Aged(dpb, stream.pre, 0, MaxRef) BY <1>1, <1>11 DEF WindowInv, BufferWindowed, Quiet
<1>13. Aged(dpb', stream.pre, 0, MaxRef) BY <1>10, <1>12, AgesSame
<1>14. Off' = 0 /\ Top' = MaxRef BY <1>7 DEF Off, Top
<1>15. BufferWindowed' BY <1>7, <1>10, <1>13, <1>14 DEF BufferWindowed
<1>16. CurWindowed' BY <1>7, CurGone
<1>17. stream.first = NoPicture \/ ~ stream.first.ref
  <2>1. stream.first # NoPicture => cur.ref = stream.first.ref
    BY <1>3, <1>4 DEF CurWindowed
  <2>2. cur.ref => stream.first = NoPicture BY PairIsSecond DEF Second
  <2>3. QED BY <2>1, <2>2
<1>18. LastWindowed' BY <1>7, <1>17 DEF LastWindowed, LastCounts
<1>19. QED BY <1>7, <1>15, <1>16, <1>18, StillAccepted DEF WindowInv

(* The window moves on: without room its first frame, the oldest, leaves.   *)
LEMMA AgesSlide ==
  ASSUME NEW d \in Buffers, NEW b, NEW off, NEW top \in Nat, top >= 1, Aged(d, b, off, top)
  PROVE  /\ Cardinality(Refs(d)) # top => Aged(d, b, off, top - 1)
         /\ \A S, e : /\ Cardinality(Refs(d)) = top /\ S = FirstOf(Refs(d))
                      /\ DOMAIN e = DOMAIN d
                      /\ \A i \in DOMAIN d : /\ e[i].num = d[i].num
                                             /\ e[i].ref = IF i \in S THEN {} ELSE d[i].ref
                      => Aged(e, b, off, top - 1)
<1>1. DOMAIN d = 1 .. Len(d) /\ Len(d) \in Nat /\ Refs(d) \subseteq DOMAIN d
  BY BufferElements DEF Refs
<1>2. PICK a \in [DOMAIN d -> Nat] : Ages(d, a, b, off, top) BY DEF Aged
<1>3. \A i \in Refs(d) : a[i] \in Nat /\ a[i] < top BY <1>1, <1>2 DEF Ages
<1>4. ASSUME Cardinality(Refs(d)) # top PROVE Aged(d, b, off, top - 1)
  <2>1. \A i \in Refs(d) : a[i] # top - 1 BY <1>2, <1>4, AgesCount
  <2>2. \A i \in Refs(d) : a[i] < top - 1 BY <1>3, <2>1
  <2>3. Ages(d, a, b, off, top - 1) BY <1>2, <2>2 DEF Ages
  <2>4. QED BY <2>3 DEF Aged
<1>5. ASSUME NEW S, NEW e, Cardinality(Refs(d)) = top, S = FirstOf(Refs(d)),
             DOMAIN e = DOMAIN d,
             \A i \in DOMAIN d : /\ e[i].num = d[i].num
                                 /\ e[i].ref = IF i \in S THEN {} ELSE d[i].ref
      PROVE  Aged(e, b, off, top - 1)
  <2>1. Refs(e) = Refs(d) \ S
    <3>1. \A i \in DOMAIN d : i \in Refs(e) <=> i \in Refs(d) /\ i \notin S
      BY <1>5, Zenon DEF Refs
    <3>2. QED BY <1>5, <3>1 DEF Refs
  <2>2. PICK f \in Refs(d) : a[f] = top - 1
    <3>1. top # 0 OBVIOUS
    <3>2. QED BY <1>2, <1>5, <3>1, AgesCount
  <2>3. \A i \in Refs(e) : a[i] < top - 1
    <3>1. SUFFICES ASSUME NEW i \in Refs(e) PROVE a[i] < top - 1 OBVIOUS
    <3>2. \A j \in Refs(d) : ~ j < f
      <4>1. \A j \in Refs(d) : j < f => a[f] < a[j] BY <1>2 DEF Ages
      <4>2. QED BY <1>3, <2>2, <4>1
    <3>3. f \in S
      <4>1. \A j \in Refs(d) : f <= j BY <1>1, <3>2
      <4>2. QED BY <1>5, <4>1 DEF FirstOf
    <3>4. i # f /\ i \in Refs(d) BY <2>1, <3>3
    <3>5. f < i BY <1>1, <3>2, <3>4
    <3>6. a[i] < a[f] BY <1>2, <3>4, <3>5 DEF Ages
    <3>7. QED BY <2>2, <3>6
  <2>4. \A i \in Refs(e) : \A n \in 0 .. a[i] : \E j \in Refs(e) : a[j] = n
    <3>1. SUFFICES ASSUME NEW i \in Refs(e), NEW n \in 0 .. a[i]
                   PROVE  \E j \in Refs(e) : a[j] = n
      OBVIOUS
    <3>2. PICK j \in Refs(d) : a[j] = n BY <1>2, <2>1 DEF Ages
    <3>3. j \notin S
      <4>1. SUFFICES ASSUME j \in S PROVE FALSE OBVIOUS
      <4>2. j <= i /\ j # i BY <1>5, <2>1, <4>1 DEF FirstOf
      <4>3. a[i] < a[j] BY <1>1, <1>2, <2>1, <4>2 DEF Ages
      <4>4. QED BY <1>3, <2>1, <3>1, <3>2, <4>3
    <3>4. QED BY <2>1, <3>2, <3>3
  <2>5. \A i \in Refs(e) : e[i].num = Back(b, a[i] + off)
    BY <1>1, <1>2, <1>5, <2>1 DEF Ages
  <2>6. \A i, j \in Refs(e) : i < j => a[j] < a[i] BY <1>2, <2>1 DEF Ages
  <2>7. Ages(e, a, b, off, top - 1) BY <2>3, <2>4, <2>5, <2>6 DEF Ages
  <2>8. QED BY <1>5, <2>7 DEF Aged
<1>6. QED BY <1>4, <1>5

LEMMA SlideWindowed ==
  ASSUME Windowed, IndInv, WindowInv, Slide
  PROVE  WindowInv'
<1>1. /\ pc = "pair" /\ ~ IsSecondField /\ pc' = "trim"
      /\ UNCHANGED <<last, ret, cur, err, stream>>
  BY DEF Slide
<1>2. dpb \in Buffers /\ Len(dpb) \in Nat BY IndInvBuffer
<1>3. /\ Plainly(dpb) /\ last \in {0, Len(dpb)} /\ CurWindowed /\ cur.adaptive = FALSE
      /\ LastCounts(dpb, last) /\ LegalStreamAccepted
  BY <1>1 DEF WindowInv, BufferWindowed, LastWindowed, CurWindowed
<1>4. /\ Told(dpb) /\ Aged(dpb, stream.pre, Off, MaxRef) /\ (cur.idr => dpb = <<>>)
  <2>1. Top = MaxRef BY <1>1 DEF Top
  <2>2. QED BY <1>1, <2>1 DEF WindowInv, BufferWindowed, Quiet
<1>5. ~ (cur.ref /\ Second) BY <1>1, <1>3 DEF CurWindowed
<1>6. Off' = Off /\ Top' = IF cur.ref THEN MaxRef - 1 ELSE MaxRef
  BY <1>1 DEF Off, Top, Second
<1>7. ShortList(dpb) = Refs(dpb) /\ LongList(dpb) = {} BY <1>3, <1>4, ListsOf
<1>8. MaxRef \in Nat /\ MaxRef >= 1 BY MaxRefLemma
<1>9. Cardinality(LongList(dpb)) = 0 BY <1>7, FS_EmptySet
<1>10. CurWindowed' BY <1>1, <1>3, <1>5, CurKept DEF Busy, Flushing
<1>11. LegalStreamAccepted' BY <1>1, <1>3, StillAccepted
<1>12. ASSUME dpb' = dpb, Aged(dpb, stream.pre, Off, Top')
       PROVE  WindowInv'
  <2>1. BufferWindowed' BY <1>1, <1>3, <1>4, <1>6, <1>12 DEF BufferWindowed
  <2>2. LastWindowed' BY <1>1, <1>3, <1>12 DEF LastWindowed
  <2>3. QED BY <1>10, <1>11, <2>1, <2>2 DEF WindowInv
<1>13. CASE ~ cur.ref
  <2>1. dpb' = dpb BY <1>13 DEF Slide, Sliding
  <2>2. QED BY <1>4, <1>6, <1>12, <1>13, <2>1
<1>14. CASE cur.idr
  <2>1. dpb' = dpb BY <1>14 DEF Slide, Sliding
  <2>2. QED BY <1>4, <1>12, <1>14, <2>1, EmptyWindowed
<1>15. CASE cur.ref /\ ~ cur.idr /\ Cardinality(Refs(dpb)) # MaxRef
  <2>1. dpb' = dpb BY <1>7, <1>8, <1>9, <1>15 DEF Slide
  <2>2. Aged(dpb, stream.pre, Off, MaxRef - 1) BY <1>2, <1>4, <1>8, <1>15, AgesSlide
  <2>3. QED BY <1>6, <1>12, <1>15, <2>1, <2>2
<1>16. CASE cur.ref /\ ~ cur.idr /\ Cardinality(Refs(dpb)) = MaxRef
  <2> DEFINE S == FirstOf(SlidingVictims)
             d == UnmarkIn(dpb, S)
  <2>1. dpb' = UpdateRefList(d)
    <3>1. Sliding BY <1>3, <1>16 DEF Sliding
    <3>2. Cardinality(ShortList(dpb)) = MaxRef - Cardinality(LongList(dpb))
      BY <1>7, <1>8, <1>9, <1>16
    <3>3. QED BY <3>1, <3>2 DEF Slide
  <2>2. SlidingVictims = Refs(dpb) BY <1>3 DEF SlidingVictims, Refs, Plainly, Plain
  <2>3. d \in Buffers /\ Len(d) = Len(dpb) BY <1>2, UnmarkInGood
  <2>4. DOMAIN d = DOMAIN dpb
        /\ \A i \in DOMAIN dpb : d[i] = IF i \in S THEN Unmark(dpb[i]) ELSE dpb[i]
    BY DEF UnmarkIn
  <2> HIDE DEF d, S
  <2>5. \A fs \in GoodStores : /\ Unmark(fs).num = fs.num /\ Unmark(fs).ref = {}
                               /\ Plain(fs) => Plain(Unmark(fs))
    BY DEF GoodStores, Stores, StoreOf, Plain, Unmark
  <2>6. \A i \in DOMAIN dpb : /\ d[i].num = dpb[i].num /\ Plain(d[i])
                              /\ d[i].ref = IF i \in S THEN {} ELSE dpb[i].ref
    <3>1. \A i \in DOMAIN dpb : dpb[i] \in GoodStores /\ Plain(dpb[i])
      BY <1>2, <1>3, BufferElements DEF Plainly
    <3>2. SUFFICES ASSUME NEW i \in DOMAIN dpb
                   PROVE  /\ d[i].num = dpb[i].num /\ Plain(d[i])
                          /\ d[i].ref = IF i \in S THEN {} ELSE dpb[i].ref
      OBVIOUS
    <3>3. CASE i \in S
      <4>1. d[i] = Unmark(dpb[i]) BY <2>4, <3>3
      <4>2. dpb[i] \in GoodStores /\ Plain(dpb[i]) BY <3>1
      <4>3. d[i].num = dpb[i].num /\ d[i].ref = {} BY <2>5, <4>1, <4>2
      <4>4. Plain(d[i]) BY <2>5, <4>1, <4>2, Zenon
      <4>5. QED BY <3>3, <4>3, <4>4
    <3>4. CASE i \notin S
      <4>1. d[i] = dpb[i] BY <2>4, <3>4
      <4>2. QED BY <3>1, <3>4, <4>1
    <3>5. QED BY <3>3, <3>4
  <2>7. Plainly(d) BY <2>4, <2>6 DEF Plainly
  <2>8. /\ Plainly(dpb') /\ Told(dpb') /\ DOMAIN dpb' = DOMAIN dpb
        /\ \A i \in DOMAIN dpb : dpb'[i].num = d[i].num /\ dpb'[i].ref = d[i].ref
    BY <2>1, <2>3, <2>4, <2>7, ShortUpdatedPlain
  <2>9. Aged(dpb', stream.pre, Off, MaxRef - 1)
    <3>1. S = FirstOf(Refs(dpb)) BY <2>2 DEF S
    <3>2. \A i \in DOMAIN dpb : /\ dpb'[i].num = dpb[i].num
                                /\ dpb'[i].ref = IF i \in S THEN {} ELSE dpb[i].ref
      BY <2>6, <2>8
    <3>3. QED BY <1>2, <1>4, <1>8, <1>16, <2>8, <3>1, <3>2, AgesSlide
  <2>10. Len(dpb') = Len(dpb) BY <2>1, <2>3, UpdateListsGood
  <2>11. BufferWindowed' BY <1>1, <1>3, <1>6, <1>16, <2>8, <2>9, <2>10 DEF BufferWindowed
  <2>12. LastWindowed' BY <1>1, <1>16 DEF LastWindowed
  <2>13. QED BY <1>10, <1>11, <2>11, <2>12 DEF WindowInv
<1>17. QED BY <1>13, <1>14, <1>15, <1>16

LEMMA RoomWindowed ==
  ASSUME Windowed, IndInv, WindowInv, Trim \/ Bump \/ DirectOutput
  PROVE  WindowInv'
<1>1. dpb \in Buffers /\ Len(dpb) \in Nat BY IndInvBuffer
<1>2. /\ Plainly(dpb) /\ last \in {0, Len(dpb)} /\ CurWindowed /\ LegalStreamAccepted
      /\ pc \in {"trim", "room"} /\ Told(dpb) /\ Aged(dpb, stream.pre, Off, Top)
      /\ stream' = stream
  BY DEF WindowInv, BufferWindowed, Quiet, Trim, Bump, DirectOutput
<1>3. Busy /\ ~ (cur.ref /\ Second) BY <1>2 DEF Busy, CurWindowed
<1>4. ~ cur.ref => LastCounts(dpb, last) BY <1>2 DEF WindowInv, LastWindowed
<1>5. ASSUME pc' = "room", UNCHANGED <<cur, err>>, Plainly(dpb'), last' \in {0, Len(dpb')},
             Told(dpb'), Aged(dpb', stream.pre, Off, Top), ~ cur.ref => LastCounts(dpb', last')
      PROVE  WindowInv'
  <2>1. Off' = Off /\ Top' = Top BY <1>2, <1>5 DEF Off, Top, Second
  <2>2. BufferWindowed' BY <1>2, <1>5, <2>1 DEF BufferWindowed
  <2>3. CurWindowed' BY <1>2, <1>3, <1>5, CurKept
  <2>4. LastWindowed' BY <1>5 DEF LastWindowed
  <2>5. QED BY <1>2, <1>5, <2>2, <2>3, <2>4, StillAccepted DEF WindowInv
<1>6. CASE Trim
  <2>1. pc' = "room" /\ UNCHANGED <<cur, err>> BY <1>6 DEF Trim
  <2>2. CASE UNCHANGED <<dpb, last>> BY <1>2, <1>4, <1>5, <2>1, <2>2
  <2>3. CASE RemoveUnused
    <3>1. PICK i \in FirstOf(Unused) : dpb' = RemoveAt(dpb, i) /\ last' = LastAfterRemove(i)
      BY <2>3 DEF RemoveUnused
    <3>2. i \in DOMAIN dpb /\ dpb[i].ref = {} BY <3>1 DEF FirstOf, Unused, UsedForReference
    <3>3. /\ Plainly(dpb') /\ Told(dpb') /\ Aged(dpb', stream.pre, Off, Top)
          /\ last' \in {0, Len(dpb')} /\ (~ cur.ref => LastCounts(dpb', last'))
      BY <1>1, <1>2, <1>4, <3>1, <3>2, RemovalWindowed
    <3>4. QED BY <1>5, <2>1, <3>3
  <2>4. QED BY <1>6, <2>2, <2>3 DEF Trim
<1>7. CASE Bump
  <2>1. pc = "room" /\ OutputOne /\ UNCHANGED <<cur, stream>> BY <1>7 DEF Bump
  <2>2. CASE /\ \E d \in Buffers : Flush(d, "halt") /\ Plainly(d) /\ last \in {0, Len(d)}
             /\ last' = last /\ err' = "output POC must be in ascending order"
    <3>1. LegalStreamAccepted' BY <2>2 DEF LegalStreamAccepted
    <3>2. QED BY <1>2, <1>3, <2>1, <2>2, <3>1, FlushWindowed
  <2>3. CASE /\ UNCHANGED <<pc, ret, err>> /\ Plainly(dpb') /\ last' \in {0, Len(dpb')}
             /\ Told(dpb) => Told(dpb')
             /\ \A b, off, top : Aged(dpb, b, off, top) => Aged(dpb', b, off, top)
             /\ LastCounts(dpb, last) => LastCounts(dpb', last')
    BY <1>2, <1>4, <1>5, <2>1, <2>3
  <2>4. QED BY <1>1, <1>2, <2>1, <2>2, <2>3, OutputWindowed
<1>8. CASE DirectOutput
  <2>1. /\ pc = "room" /\ pc' = "idle" /\ cur' = NoPicture /\ ~ cur.ref
        /\ UNCHANGED <<dpb, last, err>>
    BY <1>8 DEF DirectOutput, GoesOutDirectly
  <2>2. Off = 0 /\ Top = MaxRef /\ Off' = 0 /\ Top' = MaxRef BY <2>1 DEF Off, Top
  <2>3. BufferWindowed' BY <1>2, <2>1, <2>2 DEF BufferWindowed
  <2>4. CurWindowed' BY <2>1, CurGone
  <2>5. stream.first = NoPicture \/ ~ stream.first.ref
    BY <1>2, <1>3, <2>1 DEF CurWindowed
  <2>6. LastWindowed' BY <1>2, <1>4, <2>1, <2>5 DEF LastWindowed
  <2>7. QED BY <1>2, <2>1, <2>3, <2>4, <2>6, StillAccepted DEF WindowInv
<1>9. QED BY <1>6, <1>7, <1>8

(* A store made of a picture that finds none of its frame.                  *)
LEMMA InsertNewWindow ==
  ASSUME NEW p, GoodPicture(p), NEW g, g = Insert(EmptyStore(p.id), p)
  PROVE  /\ g.ref # {} <=> p.ref
         /\ g.orig = g.ref
         /\ p.struct # "frame" => g.used = {p.struct}
<1>1. g.orig = g.ref BY InsertNewMarks
<1>2. EmptyStore(p.id).ref = {} /\ EmptyStore(p.id).used = {} BY DEF EmptyStore
<1>3. CASE p.struct # "frame"
  <2>1. p.struct \in Fields /\ p.id \in Ids \cup {NoId} /\ ~ FrameMbsOnly
    BY <1>3, PictureFields DEF GoodPicture, Pictures, PictureOf, Views
  <2>2. EmptyStore(p.id) \in GoodStores BY <2>1, EmptyStoreGood
  <2>3. g.ref = Marked(p, {}) BY <1>2, <1>3, <2>2, InsertFieldMarks
  <2>4. g.used = {p.struct}
    <3> DEFINE e == WithField(EmptyStore(p.id), p)
    <3>1. EmptyStore(p.id) \in HalfStores BY <2>1, <2>2, GoodIsHalf
    <3>2. e \in Stores /\ e.used = {p.struct}
      BY <1>2, <2>1, <3>1, WithFieldHalf DEF HalfStores
    <3>3. g = [e EXCEPT !.poc = p.poc]
      BY <1>2, <1>3, <2>1 DEF Insert, InsertField, Fields
    <3> HIDE DEF e
    <3>4. QED BY <3>2, <3>3 DEF Stores, StoreOf
  <2>5. QED BY <1>1, <2>3, <2>4 DEF Marked
<1>4. CASE p.struct = "frame"
  <2> DEFINE fs == EmptyStore(p.id)
             ref == IF p.ref THEN Fields ELSE fs.ref
             orig == IF p.ref THEN Fields ELSE fs.orig
             pref == IF p.ref THEN FrameViews ELSE {}
             lt == IF p.ref /\ p.lt THEN Fields ELSE fs.lt
             plt == IF p.lt THEN FrameViews ELSE {}
             idx == IF p.ref /\ p.lt THEN p.idx ELSE fs.idx
  <2>1. g = [fs EXCEPT !.used = Fields, !.num = p.num, !.poc = p.poc, !.out = p.out,
                       !.id = p.id, !.ref = ref, !.orig = orig, !.pref = pref,
                       !.lt = lt, !.plt = plt, !.idx = idx]
    BY <1>4 DEF Insert, InsertFrame
  <2> HIDE DEF ref, orig, pref, lt, plt, idx
  <2>2. g.ref = ref BY <2>1 DEF EmptyStore
  <2>3. QED BY <1>1, <1>2, <1>4, <2>2 DEF ref, Fields
<1>5. QED BY <1>3, <1>4

LEMMA UpdateLeaves ==
  ASSUME NEW d \in Buffers
  PROVE  \A i \in DOMAIN d : /\ UpdateLists(d)[i].used = d[i].used
                            /\ UpdateLists(d)[i].orig = d[i].orig
<1>1. \A fs \in Stores : \A b :
        /\ [fs EXCEPT !.short = b].used = fs.used /\ [fs EXCEPT !.long = b].used = fs.used
        /\ [fs EXCEPT !.short = b].orig = fs.orig /\ [fs EXCEPT !.long = b].orig = fs.orig
  BY DEF Stores, StoreOf
<1>2. /\ UpdateRefList(d) \in Buffers /\ DOMAIN UpdateRefList(d) = DOMAIN d
      /\ \A i \in DOMAIN d : d[i] \in Stores /\ UpdateRefList(d)[i] \in Stores
  BY UpdateListsGood, BufferElements DEF GoodStores
<1>3. \A i \in DOMAIN d : /\ UpdateRefList(d)[i].used = d[i].used
                         /\ UpdateRefList(d)[i].orig = d[i].orig
  BY <1>1, <1>2 DEF UpdateRefList
<1>4. \A i \in DOMAIN d : /\ UpdateLists(d)[i].used = UpdateRefList(d)[i].used
                         /\ UpdateLists(d)[i].orig = UpdateRefList(d)[i].orig
  BY <1>1, <1>2 DEF UpdateLists, UpdateLtRefList
<1>5. QED BY <1>3, <1>4

(* A new store, a reference or not, follows the others.                     *)
LEMMA AgesAppend ==
  ASSUME NEW d \in Buffers, NEW e, DOMAIN e = 1 .. Len(d) + 1,
         \A i \in DOMAIN d : e[i].num = d[i].num /\ e[i].ref = d[i].ref,
         NEW b \in FrameNums, NEW off, NEW top \in Nat
  PROVE  /\ e[Len(d) + 1].ref = {} /\ Aged(d, b, off, top) => Aged(e, b, off, top)
         /\ e[Len(d) + 1].ref # {} /\ e[Len(d) + 1].num = b /\ top >= 1
              /\ Aged(d, b, 1, top - 1) => Aged(e, b, 0, top)
<1> DEFINE n == Len(d) + 1
<1>1. DOMAIN d = 1 .. Len(d) /\ Len(d) \in Nat BY BufferElements
<1>2. \A i \in Refs(e) : i # n => i \in Refs(d) BY <1>1 DEF Refs
<1>3. \A i \in Refs(d) : i \in Refs(e) /\ i < n /\ i \in DOMAIN d BY <1>1 DEF Refs
<1>4. ASSUME e[n].ref = {}, Aged(d, b, off, top) PROVE Aged(e, b, off, top)
  <2>1. PICK a \in [DOMAIN d -> Nat] : Ages(d, a, b, off, top) BY <1>4 DEF Aged
  <2> DEFINE c == [i \in DOMAIN e |-> IF i \in DOMAIN d THEN a[i] ELSE 0]
  <2>2. c \in [DOMAIN e -> Nat] /\ \A i \in DOMAIN d : c[i] = a[i] BY <1>1, <2>1
  <2>3. Refs(e) = Refs(d) BY <1>2, <1>3, <1>4 DEF Refs
  <2> HIDE DEF c
  <2>4. Ages(e, c, b, off, top)
    <3>1. \A i \in Refs(e) : c[i] = a[i] /\ e[i].num = d[i].num BY <1>3, <2>2, <2>3
    <3>2. QED BY <2>1, <2>3, <3>1 DEF Ages
  <2>5. QED BY <2>2, <2>4 DEF Aged
<1>5. ASSUME e[n].ref # {}, e[n].num = b, top >= 1, Aged(d, b, 1, top - 1)
      PROVE  Aged(e, b, 0, top)
  <2>1. PICK a \in [DOMAIN d -> Nat] : Ages(d, a, b, 1, top - 1) BY <1>5 DEF Aged
  <2> DEFINE c == [i \in DOMAIN e |-> IF i \in DOMAIN d THEN a[i] + 1 ELSE 0]
  <2>2. c \in [DOMAIN e -> Nat] /\ c[n] = 0 /\ \A i \in DOMAIN d : c[i] = a[i] + 1
    BY <1>1, <2>1
  <2>3. n \in Refs(e) /\ b \in Nat BY <1>1, <1>5 DEF Refs, FrameNums
  <2> HIDE DEF c
  <2>4. \A i \in Refs(e) : i = n \/ (i \in Refs(d) /\ i < n /\ c[i] = a[i] + 1 /\ a[i] \in Nat)
    BY <1>2, <1>3, <2>1, <2>2
  <2>5. Ages(e, c, b, 0, top)
    <3>1. \A i \in Refs(e) : e[i].num = Back(b, c[i] + 0)
      <4>1. e[n].num = Back(b, c[n] + 0)
        <5>1. c[n] + 0 = 0 BY <2>2
        <5>2. Back(b, 0) = b BY <2>3 DEF Back
        <5>3. QED BY <1>5, <5>1, <5>2
      <4>2. \A i \in Refs(d) : e[i].num = Back(b, a[i] + 1) BY <1>3, <2>1 DEF Ages
      <4>3. \A i \in Refs(d) : c[i] + 0 = a[i] + 1 BY <1>3, <2>1, <2>2
      <4>4. SUFFICES ASSUME NEW i \in Refs(e) PROVE e[i].num = Back(b, c[i] + 0) OBVIOUS
      <4>5. CASE i = n BY <4>1, <4>5
      <4>6. CASE i # n
        <5>1. i \in Refs(d) BY <2>4, <4>6
        <5>2. QED BY <4>2, <4>3, <5>1
      <4>7. QED BY <4>5, <4>6
    <3>2. \A i, j \in Refs(e) : i < j => c[j] < c[i]
      <4>1. SUFFICES ASSUME NEW i \in Refs(e), NEW j \in Refs(e), i < j PROVE c[j] < c[i]
        OBVIOUS
      <4>2. CASE j = n
        <5>1. i # n BY <1>1, <4>1, <4>2
        <5>2. QED BY <2>2, <2>4, <4>2, <5>1
      <4>3. CASE j # n
        <5>1. i # n /\ i \in Refs(d) /\ j \in Refs(d)
          <6>1. j \in Refs(d) /\ j < n /\ j \in DOMAIN d BY <1>3, <2>4, <4>1, <4>3
          <6>2. i \in DOMAIN e BY <4>1 DEF Refs
          <6>3. i # n BY <1>1, <4>1, <6>1, <6>2
          <6>4. QED BY <2>4, <4>1, <6>1, <6>3
        <5>2. a[j] < a[i] BY <2>1, <4>1, <5>1 DEF Ages
        <5>3. QED BY <2>4, <4>3, <5>1, <5>2
      <4>4. QED BY <4>2, <4>3
    <3>3. \A i \in Refs(e) : \A m \in 0 .. c[i] : \E j \in Refs(e) : c[j] = m
      <4>1. SUFFICES ASSUME NEW i \in Refs(e), NEW m \in 0 .. c[i], m # 0
                     PROVE  \E j \in Refs(e) : c[j] = m
        BY <2>2, <2>3
      <4>2. i # n BY <2>2, <4>1
      <4>3. i \in Refs(d) /\ m - 1 \in 0 .. a[i] BY <2>4, <4>1, <4>2
      <4>4. PICK j \in Refs(d) : a[j] = m - 1 BY <2>1, <4>3 DEF Ages
      <4>5. QED BY <1>3, <2>2, <4>1, <4>3, <4>4
    <3>4. \A i \in Refs(e) : c[i] < top
      <4>1. \A i \in Refs(d) : a[i] < top - 1 BY <2>1 DEF Ages
      <4>2. QED BY <1>5, <2>2, <2>4, <4>1
    <3>5. QED BY <3>1, <3>2, <3>3, <3>4 DEF Ages
  <2>6. QED BY <2>2, <2>5 DEF Aged
<1>6. QED BY <1>4, <1>5

LEMMA NoDuplicate ==
  ASSUME Windowed, IndInv, WindowInv, pc = "room"
  PROVE  ~ DuplicateFrameNum
<1>1. SUFFICES ASSUME cur.ref, NEW i \in ShortList(dpb), dpb[i].num = cur.num PROVE FALSE
  BY DEF DuplicateFrameNum
<1>2. ~ Second /\ cur.num = stream.pre BY <1>1 DEF WindowInv, CurWindowed
<1>3. Off = 1 /\ Top = MaxRef - 1 BY <1>1, <1>2 DEF Off, Top
<1>4. Plainly(dpb) /\ Told(dpb) /\ Aged(dpb, stream.pre, 1, MaxRef - 1)
  BY <1>3 DEF WindowInv, BufferWindowed, Quiet
<1>5. i \in Refs(dpb) /\ i \in DOMAIN dpb BY <1>4, ListsOf DEF Refs
<1>6. PICK a \in [DOMAIN dpb -> Nat] : Ages(dpb, a, stream.pre, 1, MaxRef - 1)
  BY <1>4 DEF Aged
<1>7. /\ a[i] \in Nat /\ a[i] < MaxRef - 1 /\ stream.pre = Back(stream.pre, a[i] + 1)
  BY <1>1, <1>2, <1>5, <1>6 DEF Ages
<1>8. stream.pre \in FrameNums BY IndInvParts DEF RestOK, StreamOf
<1>9. QED BY <1>7, <1>8, WindowNumbers DEF Back, FrameNums

LEMMA StoreWindowed ==
  ASSUME Windowed, IndInv, WindowInv, Store
  PROVE  WindowInv'
<1>1. /\ dpb \in Buffers /\ Len(dpb) \in Nat /\ DOMAIN dpb = 1 .. Len(dpb)
      /\ GoodPicture(cur) /\ pc = "room" /\ Busy /\ stream' = stream
  BY IndInvBuffer, IndInvParts DEF Store, CurGood, Busy
<1>2. /\ Plainly(dpb) /\ Told(dpb) /\ Aged(dpb, stream.pre, Off, Top) /\ CurWindowed
      /\ cur.lt = FALSE /\ LegalStreamAccepted
  BY <1>1 DEF WindowInv, BufferWindowed, Quiet, CurWindowed
<1>3. stream.pre \in FrameNums BY IndInvParts DEF RestOK, StreamOf
<1>4. MaxRef \in Nat /\ MaxRef >= 1 BY MaxRefLemma
<1> DEFINE fs == Insert(EmptyStore(cur.id), cur)
           e == Append(dpb, fs)
           d == UpdateLists(e)
           n == Len(dpb) + 1
<1>5. d \in Buffers /\ Len(d) = n BY <1>1, StoreGood
<1>6. /\ ~ DuplicateFrameNum => /\ last' = (IF cur.struct = "frame" THEN 0 ELSE Len(d))
                                /\ ~ TooManyRefs(d) => /\ dpb' = d /\ pc' = "idle"
                                                        /\ cur' = NoPicture /\ err' = err
  BY DEF Store
<1>7. /\ fs \in GoodStores /\ fs.num = cur.num /\ fs.lt = {} /\ (fs.ref # {} <=> cur.ref)
      /\ fs.orig = fs.ref /\ (cur.struct # "frame" => fs.used = {cur.struct})
  <2> HIDE DEF fs
  <2>1. fs = Insert(EmptyStore(cur.id), cur) BY DEF fs
  <2>2. fs \in GoodStores BY <1>1, <2>1, InsertGood
  <2>3. fs.num = cur.num /\ fs.lt = {} BY <1>1, <1>2, <2>1, InsertNewLong
  <2>4. /\ fs.ref # {} <=> cur.ref
        /\ fs.orig = fs.ref /\ (cur.struct # "frame" => fs.used = {cur.struct})
    BY <1>1, <2>1, InsertNewWindow
  <2>5. QED BY <2>2, <2>3, <2>4
<1> HIDE DEF fs
<1>8. /\ e \in Buffers /\ DOMAIN e = 1 .. n /\ e[n] = fs /\ \A i \in DOMAIN dpb : e[i] = dpb[i]
  <2>1. e \in Buffers /\ Len(e) = n BY <1>1, <1>7, AppendProperties DEF Buffers
  <2>2. DOMAIN e = 1 .. Len(e) BY <2>1, BufferElements
  <2>3. QED BY <1>1, <1>7, <2>1, <2>2, AppendProperties DEF Buffers
<1> HIDE DEF e
<1>9. \A i \in DOMAIN e : e[i].lt = {}
  <2>1. \A i \in DOMAIN e : i = n \/ i \in DOMAIN dpb BY <1>1, <1>8
  <2>2. QED BY <1>2, <1>7, <1>8, <2>1 DEF Plainly, Plain
<1>10. /\ Plainly(d) /\ Told(d) /\ DOMAIN d = DOMAIN e
       /\ \A i \in DOMAIN e : d[i].num = e[i].num /\ d[i].ref = e[i].ref
  BY <1>8, <1>9, UpdatedPlain
<1>11. \A i \in DOMAIN e : d[i].used = e[i].used /\ d[i].orig = e[i].orig
  BY <1>8, UpdateLeaves
<1> HIDE DEF d
<1>12. n \in DOMAIN e /\ \A i \in DOMAIN dpb : i \in DOMAIN e BY <1>1, <1>8
<1>13. /\ d[n].num = cur.num /\ (d[n].ref # {} <=> cur.ref) /\ d[n].orig = d[n].ref
       /\ (cur.struct # "frame" => d[n].used = {cur.struct})
  BY <1>7, <1>8, <1>10, <1>11, <1>12
<1>14. Aged(d, stream.pre, 0, MaxRef)
  <2>1. DOMAIN d = 1 .. Len(dpb) + 1
        /\ \A i \in DOMAIN dpb : d[i].num = dpb[i].num /\ d[i].ref = dpb[i].ref
    BY <1>8, <1>10, <1>12
  <2>2. CASE cur.ref
    <3>1. ~ Second /\ cur.num = stream.pre BY <1>1, <1>2, <2>2 DEF CurWindowed
    <3>2. Off = 1 /\ Top = MaxRef - 1 BY <1>1, <2>2, <3>1 DEF Off, Top
    <3>3. Aged(dpb, stream.pre, 1, MaxRef - 1) BY <1>2, <3>2
    <3>4. d[Len(dpb) + 1].ref # {} /\ d[Len(dpb) + 1].num = stream.pre BY <1>13, <2>2, <3>1
    <3>5. QED BY <1>1, <1>3, <1>4, <2>1, <3>3, <3>4, AgesAppend
  <2>3. CASE ~ cur.ref
    <3>1. Off = 0 /\ Top = MaxRef BY <2>3 DEF Off, Top
    <3>2. Aged(dpb, stream.pre, 0, MaxRef) BY <1>2, <3>1
    <3>3. d[Len(dpb) + 1].ref = {} BY <1>13, <2>3
    <3>4. QED BY <1>1, <1>3, <1>4, <2>1, <3>2, <3>3, AgesAppend
  <2>4. QED BY <2>2, <2>3
<1>15. ~ TooManyRefs(d)
  <2>1. ShortList(d) = Refs(d) /\ LongList(d) = {} BY <1>10, ListsOf
  <2>2. PICK a \in [DOMAIN d -> Nat] : Ages(d, a, stream.pre, 0, MaxRef) BY <1>14 DEF Aged
  <2>3. IsFiniteSet(Refs(d)) /\ Cardinality(Refs(d)) <= MaxRef
    BY <1>4, <1>5, <2>2, AgesCount
  <2>4. Cardinality(LongList(d)) = 0 /\ Cardinality(ShortList(d)) <= MaxRef
        /\ Cardinality(ShortList(d)) \in Nat
    BY <2>1, <2>3, FS_EmptySet, FS_CardinalityType
  <2>5. QED BY <1>4, <2>4 DEF TooManyRefs
<1>16. /\ dpb' = d /\ pc' = "idle" /\ cur' = NoPicture /\ err' = err
       /\ last' = IF cur.struct = "frame" THEN 0 ELSE n
  BY <1>1, <1>5, <1>6, <1>15, NoDuplicate
<1>17. BufferWindowed'
  <2>1. Off' = 0 /\ Top' = MaxRef BY <1>16 DEF Off, Top
  <2>2. last' \in {0, Len(dpb')} BY <1>5, <1>16
  <2>3. QED BY <1>1, <1>10, <1>14, <1>16, <2>1, <2>2 DEF BufferWindowed
<1>18. CurWindowed' BY <1>16, CurGone
<1>19. LastWindowed'
  <2>1. LastCounts(dpb', last') BY <1>13, <1>16 DEF LastCounts
  <2>2. ASSUME stream.first # NoPicture, stream.first.ref
        PROVE  /\ last' # 0 /\ dpb'[last'].num = stream.first.num
               /\ dpb'[last'].used = {stream.first.struct} /\ dpb'[last'].orig # {}
    <3>1. /\ cur.struct = stream.first.struct /\ cur.num = stream.first.num
          /\ cur.ref = stream.first.ref
      BY <1>1, <1>2, <2>2 DEF CurWindowed
    <3>2. cur.struct # "frame" BY <2>2, <3>1, IndInvParts DEF FirstGood, Fields
    <3>3. QED BY <1>1, <1>13, <1>16, <2>2, <3>1, <3>2
  <2>3. QED BY <1>1, <1>16, <2>1, <2>2 DEF LastWindowed
<1>20. QED BY <1>2, <1>16, <1>17, <1>18, <1>19, StillAccepted DEF WindowInv

-----------------------------------------------------------------------------
LEMMA WindowInit == Init => WindowInv
<1>1. SUFFICES ASSUME Init PROVE WindowInv OBVIOUS
<1>2. dpb = <<>> /\ last = 0 /\ pc = "idle" /\ cur = NoPicture /\ err = "none"
      /\ stream.first = NoPicture
  BY <1>1 DEF Init
<1>3. Off = 0 /\ Top = MaxRef BY <1>2 DEF Off, Top
<1>4. BufferWindowed BY <1>2, EmptyWindowed DEF BufferWindowed
<1>5. CurWindowed BY <1>2 DEF CurWindowed, NoPicture, Busy, Flushing
<1>6. LastWindowed BY <1>2 DEF LastWindowed, LastCounts
<1>7. QED BY <1>2, <1>4, <1>5, <1>6 DEF WindowInv, LegalStreamAccepted

LEMMA WindowStutters ==
  ASSUME WindowInv, UNCHANGED vars
  PROVE  WindowInv'
<1>1. UNCHANGED <<dpb, last, pc, ret, cur, err, stream>> BY DEF vars
<1>2. BufferWindowed' BY <1>1 DEF WindowInv, BufferWindowed, Quiet, Off, Top, Second
<1>3. CurWindowed'
  BY <1>1 DEF WindowInv, CurWindowed, Busy, Flushing, Second, IsSecondField
<1>4. LastWindowed' BY <1>1 DEF WindowInv, LastWindowed
<1>5. QED BY <1>1, <1>2, <1>3, <1>4, StillAccepted DEF WindowInv

LEMMA WindowKeeps ==
  ASSUME Windowed, IndInv, EmptyInv, WindowInv, [Next]_vars
  PROVE  WindowInv'
<1>1. CASE UNCHANGED vars BY <1>1, WindowStutters
<1>2. CASE Receive BY <1>2, ReceiveWindowed
<1>3. CASE EndOfStream \/ IdrStart \/ IdrTail BY <1>3, IdrWindowed
<1>4. CASE FlushPurge \/ FlushDrain \/ FlushDone BY <1>4, FlushingWindowed
<1>5. ~ Mmco
  <2>1. Mmco => pc = "mmco"
    BY DEF Mmco, Mmco1, Mmco2, Mmco3, Mmco4, Mmco5, Mmco6, MmcoEnd, Operation
  <2>2. QED BY <2>1 DEF WindowInv, CurWindowed
<1>6. CASE Pair BY <1>6, PairWindowed
<1>7. CASE Slide BY <1>7, SlideWindowed
<1>8. CASE Trim \/ Bump \/ DirectOutput BY <1>8, RoomWindowed
<1>9. CASE Store BY <1>9, StoreWindowed
<1>10. CASE Spin \/ Exited BY <1>10, WindowStutters DEF Spin, Exited
<1>11. QED
  BY <1>1, <1>2, <1>3, <1>4, <1>5, <1>6, <1>7, <1>8, <1>9, <1>10 DEF Next, Work

(* A stream without memory management control operations is not refused for *)
(* its references, with either text of LegalStreamAccepted: the frame that  *)
(* enters finds no store with its frame_num in fs_ref, also after frame_num *)
(* has wrapped, and the window leaves room for it, whatever frames and      *)
(* fields it has, paired or not, and whatever gaps are filled.  A stream    *)
(* whose output order takes more stores than there are may still end in the *)
(* error about that order.                                                  *)
THEOREM WindowedStreamsAccepted ==
  ASSUME Windowed
  PROVE  Spec => []LegalStreamAccepted
<1>1. Init => IndInv /\ EmptyInv /\ WindowInv BY InitIndInv, EmptyInit, WindowInit
<1>2. IndInv /\ EmptyInv /\ WindowInv /\ [Next]_vars => (IndInv /\ EmptyInv /\ WindowInv)'
  BY NextKeeps, EmptyKeeps, WindowKeeps
<1>3. WindowInv => LegalStreamAccepted BY DEF WindowInv
<1>4. QED BY <1>1, <1>2, <1>3, PTL DEF Spec

(* FrameNumWrap orders the references by age.                               *)
LEMMA WrapOfAge ==
  ASSUME Windowed, MaxRef < MaxFrameNum, NEW b \in FrameNums, NEW n \in 1 .. MaxRef,
         NEW fs, fs.num = Back(b, n), NEW p, p.num = b
  PROVE  FrameNumWrap(fs, p) = b - n
  BY WindowNumbers DEF Back, FrameNumWrap, FrameNums

LEMMA SlideFreesFirst ==
  ASSUME IndInv, Slide, NEW i \in DOMAIN dpb, dpb[i].ref # {}, dpb'[i].ref = {}
  PROVE  Sliding /\ i \in FirstOf(SlidingVictims)
<1>1. dpb \in Buffers BY IndInvBuffer
<1> DEFINE S == FirstOf(SlidingVictims)
           d == UnmarkIn(dpb, S)
<1>2. dpb' # dpb BY Zenon
<1>3. Sliding /\ dpb' = UpdateRefList(d) BY <1>2 DEF Slide
<1>4. d \in Buffers /\ DOMAIN d = DOMAIN dpb
      /\ (i \notin S => d[i] = dpb[i])
  BY <1>1, UnmarkInGood DEF UnmarkIn
<1> HIDE DEF d, S
<1>5. dpb'[i].ref = d[i].ref BY <1>3, <1>4, UpdateSame DEF SameMarks
<1>6. i \in S BY <1>4, <1>5
<1>7. QED BY <1>3, <1>6 DEF S

(* When the window slides, the reference that leaves is the oldest one in   *)
(* the order of FrameNumWrap, though the code takes the first that it finds *)
(* in the buffer: the order of the buffer is that of decoding, also after   *)
(* frames between have been output and removed.                             *)
THEOREM WindowSlidesOldest ==
  ASSUME Windowed, MaxRef < MaxFrameNum
  PROVE  Spec => SlidesOldest
<1> DEFINE Oldest ==
             \A i \in DOMAIN dpb :
               Slide /\ dpb[i].ref # {} /\ dpb'[i].ref = {} =>
                 \A j \in ShortList(dpb) :
                   FrameNumWrap(dpb[i], cur) <= FrameNumWrap(dpb[j], cur)
<1>1. Init => IndInv /\ EmptyInv /\ WindowInv BY InitIndInv, EmptyInit, WindowInit
<1>2. IndInv /\ EmptyInv /\ WindowInv /\ [Next]_vars => (IndInv /\ EmptyInv /\ WindowInv)'
  BY NextKeeps, EmptyKeeps, WindowKeeps
<1>3. IndInv /\ WindowInv => Oldest
  <2>1. SUFFICES ASSUME IndInv, WindowInv, NEW i \in DOMAIN dpb, Slide, dpb[i].ref # {},
                        dpb'[i].ref = {}, NEW j \in ShortList(dpb)
                 PROVE  FrameNumWrap(dpb[i], cur) <= FrameNumWrap(dpb[j], cur)
    OBVIOUS
  <2>2. cur.ref /\ i \in FirstOf(SlidingVictims)
    BY <2>1, SlideFreesFirst DEF Sliding
  <2>3. pc = "pair" /\ ~ IsSecondField BY <2>1 DEF Slide
  <2>4. ~ Second /\ cur.num = stream.pre
    BY <2>1, <2>2, <2>3 DEF WindowInv, CurWindowed
  <2>5. Off = 1 /\ Top = MaxRef BY <2>2, <2>3, <2>4 DEF Off, Top
  <2>6. Plainly(dpb) /\ Told(dpb) /\ Aged(dpb, stream.pre, 1, MaxRef)
    BY <2>1, <2>3, <2>5 DEF WindowInv, BufferWindowed, Quiet
  <2>7. SlidingVictims = Refs(dpb) BY <2>6 DEF SlidingVictims, Refs, Plainly, Plain
  <2>8. i \in Refs(dpb) /\ j \in Refs(dpb) /\ i <= j
    BY <2>1, <2>2, <2>6, <2>7, ListsOf DEF FirstOf
  <2>9. PICK a \in [DOMAIN dpb -> Nat] : Ages(dpb, a, stream.pre, 1, MaxRef)
    BY <2>6 DEF Aged
  <2>10. stream.pre \in FrameNums /\ MaxRef \in Nat /\ stream.pre \in Nat
    BY <2>1, IndInvParts, MaxRefLemma DEF RestOK, StreamOf, FrameNums
  <2>11. i \in DOMAIN dpb /\ j \in DOMAIN dpb /\ i \in Nat /\ j \in Nat
    BY <2>1, <2>8, IndInvBuffer DEF Refs
  <2>12. \A k \in {i, j} : /\ a[k] + 1 \in 1 .. MaxRef /\ a[k] \in Nat
                           /\ dpb[k].num = Back(stream.pre, a[k] + 1)
    BY <2>8, <2>9, <2>10, <2>11 DEF Ages
  <2>13. \A k \in {i, j} : FrameNumWrap(dpb[k], cur) = stream.pre - (a[k] + 1)
    BY <2>4, <2>10, <2>12, WrapOfAge
  <2>14. a[j] <= a[i]
    <3>1. i < j => a[j] < a[i] BY <2>8, <2>9 DEF Ages
    <3>2. QED BY <2>8, <2>11, <2>12, <3>1
  <2>15. QED BY <2>10, <2>12, <2>13, <2>14
<1>4. QED BY <1>1, <1>2, <1>3, PTL DEF Spec, SlidesOldest
=============================================================================
