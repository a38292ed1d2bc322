---------------------------- MODULE DecodingProofs ----------------------------
(***************************************************************************)
(* Of PictureDecoding, for every value of the constants: type correctness, *)
(* that the slices of a picture have one set of order counts, that each is *)
(* decoded with its own picture parameter set, and that the frame numbers  *)
(* given to the buffer follow each other.  Of decode_poc: what it computes *)
(* for pic_order_cnt_type 0, whatever MaxPicOrderCntLsb is, and for type 1,*)
(* whatever cycle of offsets there is.  And of a stream that loses nothing *)
(* and has no redundant slices: every picture has the order counts it was  *)
(* meant to have, over gaps, operation 5 and pairs of fields, and is stored*)
(* once, whole and in order; the decoder does not give up.                 *)
(***************************************************************************)
EXTENDS PictureDecoding, SequenceTheorems, FiniteSetTheorems, WellFoundedInduction, TLAPS

-----------------------------------------------------------------------------
(* decode_poc.                                                              *)

(* The memory that decode_poc keeps of a reference picture at count b.      *)
Remembers(m, b) == m.msb = b - (b % MaxLsb) /\ m.lsb = b % MaxLsb

(* Division of an integer by a positive number, with the product named.     *)
LEMMA Divides ==
  ASSUME NEW M \in Nat \ {0}, NEW a \in Int
  PROVE  \E q \in Int : a = q * M + (a % M) /\ a % M \in 0 .. M - 1
<1>1. a = M * (a \div M) + (a % M) /\ a % M \in 0 .. M - 1 /\ a \div M \in Int
  BY SMT
<1>2. M * (a \div M) = (a \div M) * M BY <1>1, SMT
<1>3. QED BY <1>1, <1>2

(* Two multiples of M less than 2 * M apart are equal or neighbours.        *)
LEMMA Neighbours ==
  ASSUME NEW M \in Nat \ {0}, NEW p \in Int, NEW q \in Int,
         q * M - p * M < 2 * M, p * M - q * M < 2 * M
  PROVE  q * M = p * M \/ q * M = p * M + M \/ q * M = p * M - M
<1>1. q - p < 2
  <2>1. SUFFICES ASSUME q - p >= 2 PROVE FALSE OBVIOUS
  <2>2. (q - p) * M >= 2 * M BY <2>1, SMT
  <2>3. (q - p) * M = q * M - p * M BY SMT
  <2>4. QED BY <2>2, <2>3, SMT
<1>2. p - q < 2
  <2>1. SUFFICES ASSUME p - q >= 2 PROVE FALSE OBVIOUS
  <2>2. (p - q) * M >= 2 * M BY <2>1, SMT
  <2>3. (p - q) * M = p * M - q * M BY SMT
  <2>4. QED BY <2>2, <2>3, SMT
<1>3. q = p \/ q = p + 1 \/ q = p - 1 BY <1>1, <1>2, SMT
<1>4. (p + 1) * M = p * M + M /\ (p - 1) * M = p * M - M BY SMT
<1>5. QED BY <1>3, <1>4

(* The choice Msb makes, with the two counts as a multiple and a rest: y is *)
(* one of the three multiples near x, and the nearer count decides.         *)
LEMMA Nearest ==
  ASSUME NEW M \in Nat \ {0}, NEW half \in Nat, M = 2 * half,
         NEW x \in Int, NEW y \in Int, NEW r \in 0 .. M - 1, NEW u \in 0 .. M - 1,
         y = x \/ y = x + M \/ y = x - M,
         -M < 2 * ((y + u) - (x + r)), 2 * ((y + u) - (x + r)) <= M
  PROVE  y = IF u < r /\ r - u >= half THEN x + M
             ELSE IF u > r /\ u - r > half THEN x - M ELSE x
BY SMT

(* The count of a picture is recovered from pic_order_cnt_lsb and the       *)
(* memory of the last reference picture, when they are near each other.     *)
THEOREM CountRecovered ==
  ASSUME NEW m, NEW b \in Int, NEW t \in Int, Remembers(m, b),
         -MaxLsb < 2 * (t - b), 2 * (t - b) <= MaxLsb
  PROVE  Msb(m, t % MaxLsb) + (t % MaxLsb) = t
<1>1. MaxLsb \in Nat \ {0} /\ MaxLsb = 2 * (MaxLsb \div 2) /\ MaxLsb \div 2 \in Nat
  BY ModuliAssumption, SMT
<1>2. PICK p \in Int : b = p * MaxLsb + (b % MaxLsb) /\ b % MaxLsb \in 0 .. MaxLsb - 1
  BY <1>1, Divides
<1>3. PICK q \in Int : t = q * MaxLsb + (t % MaxLsb) /\ t % MaxLsb \in 0 .. MaxLsb - 1
  BY <1>1, Divides
<1>4. p * MaxLsb \in Int /\ q * MaxLsb \in Int BY <1>1, SMT
<1>5. m.msb = p * MaxLsb /\ m.lsb = b % MaxLsb BY <1>1, <1>2, <1>4, SMT DEF Remembers
<1>6. \/ q * MaxLsb = p * MaxLsb \/ q * MaxLsb = p * MaxLsb + MaxLsb
      \/ q * MaxLsb = p * MaxLsb - MaxLsb
  <2>1. q * MaxLsb - p * MaxLsb < 2 * MaxLsb /\ p * MaxLsb - q * MaxLsb < 2 * MaxLsb
    BY <1>1, <1>2, <1>3, <1>4, SMT
  <2>2. QED BY <1>1, <2>1, Neighbours
<1>7. q * MaxLsb = Msb(m, t % MaxLsb)
  <2>1. /\ -MaxLsb < 2 * ((q * MaxLsb + (t % MaxLsb)) - (p * MaxLsb + (b % MaxLsb)))
        /\ 2 * ((q * MaxLsb + (t % MaxLsb)) - (p * MaxLsb + (b % MaxLsb))) <= MaxLsb
    BY <1>2, <1>3
  <2>2. q * MaxLsb =
          IF t % MaxLsb < b % MaxLsb /\ (b % MaxLsb) - (t % MaxLsb) >= MaxLsb \div 2
          THEN p * MaxLsb + MaxLsb
          ELSE IF t % MaxLsb > b % MaxLsb /\ (t % MaxLsb) - (b % MaxLsb) > MaxLsb \div 2
          THEN p * MaxLsb - MaxLsb ELSE p * MaxLsb
    BY <1>1, <1>2, <1>3, <1>4, <1>6, <2>1, Nearest
  <2>3. QED BY <1>5, <2>2 DEF Msb
<1>8. QED BY <1>3, <1>7

(* The memory of decode_poc.                                                *)
Memories == [msb : Int, lsb : Int, num : Int, off : Int, mm5 : BOOLEAN, bottom : BOOLEAN]

(* decode_poc of a picture that follows no operation 5, or the one of a     *)
(* bottom field: the counts are the ones meant, and the memory is again     *)
(* that of the last reference picture, so the next picture may rely on it.  *)
THEOREM TypeZeroExact ==
  ASSUME NEW m \in Memories, NEW h, NEW p, NEW b \in Int, NEW t \in Int,
         h.ref \in BOOLEAN, h.num \in Int,
         h.idr \/ (m.mm5 /\ m.bottom) \/ (~m.mm5 /\ Remembers(m, b)), h.idr \/ m.mm5 => b = 0,
         h.lsb = t % MaxLsb, -MaxLsb < 2 * (t - b), 2 * (t - b) <= MaxLsb
  PROVE  LET d == DecodePoc(0, m, h, p)
         IN /\ d.poc = Counts(h, p, t, t + h.dbottom)
            /\ d.mem \in Memories
            /\ Remembers(d.mem, IF h.ref THEN t ELSE b)
<1> DEFINE q == Previous(m, h, p)
           d == DecodePoc(0, m, h, p)
<1>1. MaxLsb \in Nat \ {0} BY ModuliAssumption
<1>2. Remembers(q, b)
  <2>1. CASE h.idr \/ (m.mm5 /\ m.bottom)
    <3>1. q.msb = 0 /\ q.lsb = 0 BY <2>1 DEF Previous, From
    <3>2. 0 % MaxLsb = 0 BY <1>1, SMT
    <3>3. QED BY <2>1, <3>1, <3>2 DEF Remembers
  <2>2. CASE ~(h.idr \/ (m.mm5 /\ m.bottom)) BY <2>2 DEF Previous
  <2>3. QED BY <2>1, <2>2
<1>3. q \in Memories
  <2>1. q = From(m, 0) \/ q = m
    <3>1. CASE h.idr \/ (m.mm5 /\ m.bottom) BY <3>1 DEF Previous
    <3>2. CASE ~(h.idr \/ (m.mm5 /\ m.bottom)) BY <3>2 DEF Previous
    <3>3. QED BY <3>1, <3>2
  <2>2. From(m, 0) \in Memories BY DEF From, Memories
  <2> HIDE DEF q
  <2>3. QED BY <2>1, <2>2
<1>4. Msb(q, h.lsb) + h.lsb = t BY <1>2, CountRecovered
<1>5. t % MaxLsb \in Int BY <1>1
<1>6. Msb(q, h.lsb) = t - (t % MaxLsb) BY <1>1, <1>3, <1>4, <1>5, SMT DEF Msb, Memories
<1>7. d = DecodeType0(m, h, p) BY DEF DecodePoc
<1>8. d.poc = Counts(h, p, t, t + h.dbottom) BY <1>4, <1>7 DEF DecodeType0
<1>9. d.mem = IF h.ref THEN [q EXCEPT !.msb = Msb(q, h.lsb), !.lsb = h.lsb, !.num = h.num]
                       ELSE [q EXCEPT !.num = h.num]
  BY <1>7 DEF DecodeType0
<1> HIDE DEF q, d
<1>10. d.mem \in Memories
  <2> DEFINE x == Msb(q, h.lsb)
             y == h.lsb
             z == h.num
  <2>1. x \in Int /\ y \in Int /\ z \in Int BY <1>5, <1>6
  <2>2. d.mem = IF h.ref THEN [q EXCEPT !.msb = x, !.lsb = y, !.num = z] ELSE [q EXCEPT !.num = z]
    BY <1>9
  <2> HIDE DEF x, y, z
  <2>3. [q EXCEPT !.msb = x, !.lsb = y, !.num = z] \in Memories BY <1>3, <2>1 DEF Memories
  <2>4. [q EXCEPT !.num = z] \in Memories BY <1>3, <2>1 DEF Memories
  <2>5. QED BY <2>2, <2>3, <2>4
<1>11. Remembers(d.mem, IF h.ref THEN t ELSE b)
  BY <1>2, <1>3, <1>6, <1>9 DEF Remembers, Memories
<1>12. QED BY <1>8, <1>10, <1>11 DEF d

-----------------------------------------------------------------------------
(* Types.  Those of order counts are below, with what they are meant to be. *)
FrameNums == 0 .. MaxFrameNum - 1

GoodHead(h) ==
  /\ h.id \in 0 .. MaxPictures /\ h.num \in FrameNums
  /\ h.pps \in PicParameterSets \cup {None} /\ (h.id # 0 => h.pps # None)

IsSlice(s) ==
  /\ s = [head |-> s.head, part |-> s.part, redundant |-> s.redundant, poc |-> s.poc]
  /\ GoodHead(s.head)

(* A list of slice objects.                                                 *)
SlotsGood(sl) == sl # <<>> /\ \E S : sl \in Seq(S) /\ \A x \in S : IsSlice(x)

StreamGood(s) ==
  /\ s = [type |-> s.type, gaps |-> s.gaps, head |-> s.head, heard |-> s.heard, left |-> s.left,
          open |-> s.open, closed |-> s.closed, refs |-> s.refs, base |-> s.base,
          versions |-> s.versions]
  /\ s.type \in PocTypes /\ s.refs \in Int /\ s.head.count \in Int
  /\ GoodHead(s.head) /\ GoodHead(s.heard)
  /\ s.versions \in [PicParameterSets -> {0, 1}]
  /\ s.head.id = 0 => s.head = NoHead /\ s.left = <<>>

TypeInv ==
  /\ TypeOK
  /\ SlotsGood(slots) /\ IsSlice(next) /\ GoodHead(old) /\ GoodHead(pic.head)
  /\ nextPps = [valid |-> nextPps.valid, id |-> nextPps.id, version |-> nextPps.version]
  /\ nextPps.valid => nextPps.id \in PicParameterSets
  /\ nextPps.version \in {0, 1}
  /\ stored = [idr |-> stored.idr, num |-> stored.num, from |-> stored.from, base |-> stored.base]
  /\ StreamGood(stream)
  /\ stream.heard.id = 0 => stream.heard = NoHead /\ stream.head.id = 0

LEMMA SlotsAre ==
  ASSUME NEW sl, SlotsGood(sl)
  PROVE  /\ Len(sl) \in Nat /\ Len(sl) >= 1 /\ DOMAIN sl = 1 .. Len(sl)
         /\ \A i \in DOMAIN sl : IsSlice(sl[i])
<1>1. PICK S : sl \in Seq(S) /\ \A x \in S : IsSlice(x) BY DEF SlotsGood
<1>2. sl # <<>> BY DEF SlotsGood
<1>3. Len(sl) \in Nat /\ Len(sl) # 0 /\ DOMAIN sl = 1 .. Len(sl) BY <1>1, <1>2, EmptySeq, LenProperties
<1>4. \A i \in DOMAIN sl : sl[i] \in S BY <1>1, ElementOfSeq, <1>3
<1>5. QED BY <1>1, <1>3, <1>4

LEMMA SlotsChanged ==
  ASSUME NEW sl, SlotsGood(sl), NEW i \in 1 .. Len(sl), NEW x, IsSlice(x)
  PROVE  /\ SlotsGood([sl EXCEPT ![i] = x]) /\ Len([sl EXCEPT ![i] = x]) = Len(sl)
         /\ [sl EXCEPT ![i] = x][i] = x
         /\ \A j \in 1 .. Len(sl) : j # i => [sl EXCEPT ![i] = x][j] = sl[j]
<1>1. PICK S : sl \in Seq(S) /\ \A y \in S : IsSlice(y) BY DEF SlotsGood
<1> DEFINE T == S \cup {x}
           e == [sl EXCEPT ![i] = x]
<1>2. Len(sl) \in Nat /\ DOMAIN sl = 1 .. Len(sl) BY SlotsAre
<1>3. sl \in Seq(T) BY <1>1
<1>4. e \in Seq(T) /\ Len(e) = Len(sl) /\ e[i] = x
      /\ \A j \in 1 .. Len(sl) : j # i => e[j] = sl[j]
  BY <1>2, <1>3
<1>5. \A y \in T : IsSlice(y) BY <1>1
<1>6. e # <<>> BY <1>2, <1>4
<1>7. QED BY <1>4, <1>5, <1>6 DEF SlotsGood

LEMMA SlotsGrown ==
  ASSUME NEW sl, SlotsGood(sl), NEW x, IsSlice(x)
  PROVE  /\ SlotsGood(Append(sl, x)) /\ Len(Append(sl, x)) = Len(sl) + 1
         /\ \A j \in 1 .. Len(sl) : Append(sl, x)[j] = sl[j]
<1>1. PICK S : sl \in Seq(S) /\ \A y \in S : IsSlice(y) BY DEF SlotsGood
<1> DEFINE T == S \cup {x}
<1>2. sl \in Seq(T) /\ x \in T BY <1>1
<1>3. /\ Append(sl, x) \in Seq(T) /\ Append(sl, x) # <<>> /\ Len(Append(sl, x)) = Len(sl) + 1
      /\ \A j \in 1 .. Len(sl) : Append(sl, x)[j] = sl[j]
  BY <1>2, AppendProperties
<1>4. \A y \in T : IsSlice(y) BY <1>1
<1>5. QED BY <1>3, <1>4 DEF SlotsGood

(* The heads of the next slices and the stream behind them.                 *)
LEMMA CountsAreInt ==
  ASSUME StreamAssumption, NEW s, StreamGood(s), NEW x \in Kinds(s)
  PROVE  CountOf(s, x) \in Int
<1>1. s.refs \in Int /\ s.head.count \in Int BY DEF StreamGood
<1>2. x.gap \in Int
  <2>1. CASE s.open BY <2>1 DEF Kinds, SecondField
  <2>2. CASE ~ s.open
    <3>1. x.gap \in 0 .. MaxGap[s.type] BY <2>2 DEF Kinds
    <3>2. QED BY <3>1
  <2>3. QED BY <2>1, <2>2
<1>3. QED BY <1>1, <1>2 DEF CountOf

LEMMA HeadsGood ==
  ASSUME NEW s, StreamGood(s), s.head.id # MaxPictures, NEW h \in Heads(s)
  PROVE  /\ GoodHead(h) /\ h.id = s.head.id + 1 /\ h.count \in Int
         /\ h.pps \in PicParameterSets /\ h.version = s.versions[h.pps]
         /\ Key(h) # Key(s.head)
<1>0. PICK x \in Kinds(s) : h \in {HeadOf(s, x, c, i) : c \in CountsOf(s, x), i \in PicParameterSets}
  BY DEF Heads
<1>1. PICK i \in PicParameterSets, c \in CountsOf(s, x) : h = HeadOf(s, x, c, i) BY <1>0
<1>2. CountOf(s, x) \in Int BY StreamAssumption, CountsAreInt
<1>3. MaxFrameNum \in Nat \ {0} BY ModuliAssumption
<1>4. CountOf(s, x) % MaxFrameNum \in FrameNums BY <1>2, <1>3 DEF FrameNums
<1>5. s.head.id \in 0 .. MaxPictures /\ MaxPictures \in Nat
  BY StreamAssumption DEF StreamGood, GoodHead
<1>6. /\ h.id = s.head.id + 1 /\ h.count = CountOf(s, x) /\ h.num = CountOf(s, x) % MaxFrameNum
      /\ h.pps = i /\ h.version = s.versions[i]
  BY <1>1 DEF HeadOf
<1>7. i # None BY ParameterSetsAssumption DEF None
<1>8. GoodHead(h) BY <1>4, <1>5, <1>6, <1>7 DEF GoodHead
<1>9. Key(h) # Key(s.head) BY DEF Heads
<1>10. QED BY <1>2, <1>6, <1>8, <1>9

(* What the stream may do next: go on with its picture or begin another.    *)
LEMMA Arrives ==
  ASSUME NEW s, StreamGood(s), NEW a \in NextSlices(s)
  PROVE  /\ GoodHead(a.head) /\ a.head.id \in 1 .. MaxPictures /\ a.head.pps \in PicParameterSets
         /\ StreamGood(a.after) /\ a.after.versions = s.versions /\ a.after.heard = s.heard
         /\ a.after.head = a.head
         /\ \/ a.head = s.head /\ s.left # <<>> /\ a.after.closed = s.closed
            \/ /\ s.left = <<>> /\ ~ a.after.closed /\ Key(a.head) # Key(s.head)
               /\ a.head.id = s.head.id + 1 /\ a.head.version = s.versions[a.head.pps]
<1>s. /\ s = [type |-> s.type, gaps |-> s.gaps, head |-> s.head, heard |-> s.heard, left |-> s.left,
              open |-> s.open, closed |-> s.closed, refs |-> s.refs, base |-> s.base,
              versions |-> s.versions]
      /\ s.type \in PocTypes /\ s.refs \in Int /\ s.head.count \in Int
      /\ GoodHead(s.head) /\ GoodHead(s.heard)
      /\ s.versions \in [PicParameterSets -> {0, 1}]
      /\ s.head.id = 0 => s.head = NoHead /\ s.left = <<>>
  BY DEF StreamGood
<1>1. CASE s.left # <<>>
  <2>1. a = [head |-> s.head, part |-> Head(s.left), after |-> [s EXCEPT !.left = Tail(s.left)]]
    BY <1>1 DEF NextSlices
  <2> DEFINE l == Tail(s.left)
  <2>2. a.head = s.head /\ a.after = [s EXCEPT !.left = l] BY <2>1
  <2> HIDE DEF l
  <2>3. a.after = [type |-> s.type, gaps |-> s.gaps, head |-> s.head, heard |-> s.heard, left |-> l,
                   open |-> s.open, closed |-> s.closed, refs |-> s.refs, base |-> s.base,
                   versions |-> s.versions]
    BY <1>s, <2>2
  <2>4. s.head.id # 0 BY <1>s, <1>1
  <2>5. StreamGood(a.after) BY <1>s, <2>3, <2>4 DEF StreamGood
  <2>6. s.head.id \in 1 .. MaxPictures /\ s.head.pps \in PicParameterSets
    BY <1>s, <2>4, StreamAssumption DEF GoodHead, None
  <2>7. QED BY <1>1, <1>s, <2>2, <2>3, <2>5, <2>6
<1>2. CASE s.left = <<>>
  <2>1. s.head.id # MaxPictures BY <1>2 DEF NextSlices
  <2>2. PICK h \in Heads(s), q \in Slicings : a = [head |-> h, part |-> Head(q), after |-> Begin(s, h, Tail(q))]
    BY <1>2, <2>1 DEF NextSlices
  <2>3. /\ GoodHead(h) /\ h.id = s.head.id + 1 /\ h.count \in Int
        /\ h.pps \in PicParameterSets /\ h.version = s.versions[h.pps]
        /\ Key(h) # Key(s.head)
    BY <2>1, HeadsGood
  <2> DEFINE l == Tail(q)
             o == h.struct # "frame" /\ ~s.open
             r == IF ~h.ref THEN h.count - 1 ELSE IF h.mmco5 THEN 0 ELSE h.count
             b == BaseAfter(s, h)
  <2>4. a.head = h /\ a.after = [s EXCEPT !.head = h, !.left = l, !.closed = FALSE, !.open = o, !.refs = r, !.base = b]
    BY <2>2 DEF Begin
  <2>5. r \in Int BY <2>3
  <2> HIDE DEF l, o, r, b
  <2>6. a.after = [type |-> s.type, gaps |-> s.gaps, head |-> h, heard |-> s.heard, left |-> l,
                   open |-> o, closed |-> FALSE, refs |-> r, base |-> b, versions |-> s.versions]
    BY <1>s, <2>4
  <2>7. s.head.id \in 0 .. MaxPictures /\ MaxPictures \in Nat BY <1>s, StreamAssumption DEF GoodHead
  <2>8. h.id \in 1 .. MaxPictures BY <2>1, <2>3, <2>7
  <2>9. StreamGood(a.after)
    <3>1. h.id # 0 BY <2>8
    <3>2. QED BY <1>s, <2>3, <2>5, <2>6, <3>1 DEF StreamGood
  <2>10. QED BY <1>2, <2>3, <2>4, <2>6, <2>8, <2>9
<1>3. QED BY <1>1, <1>2

-----------------------------------------------------------------------------
(* A slice that is read, and the object it is read into.                    *)
LEMMA Reads ==
  ASSUME TypeInv, NEW a \in Arriving \cup Redundant, Sent(a)
  PROVE  /\ GoodHead(a.head) /\ a.head.id \in 1 .. MaxPictures /\ a.head.pps \in PicParameterSets
         /\ StreamGood(stream') /\ stream'.versions = stream.versions /\ stream'.heard = a.head
         /\ stream'.head = a.head /\ lost' \subseteq 1 .. MaxPictures /\ lost \subseteq lost'
         /\ lost' = {} => a.head.id = stream.heard.id \/ Key(a.head) # Key(stream.heard)
         /\ \/ a.head = stream.head /\ stream'.closed = stream.closed /\ ~ a.redundant
               /\ stream.left # <<>>
            \/ a.head = stream.head /\ a.redundant /\ stream.left = <<>> /\ ~ stream.closed
               /\ ~ stream'.closed
            \/ /\ stream.left = <<>> /\ ~ stream'.closed /\ Key(a.head) # Key(stream.head) /\ ~ a.redundant
               /\ a.head.id = stream.head.id + 1 /\ a.head.version = stream.versions[a.head.pps]
<1>s. /\ StreamGood(stream) /\ lost \subseteq 1 .. MaxPictures
      /\ stream.heard.id = 0 => stream.heard = NoHead /\ stream.head.id = 0
  BY DEF TypeInv, TypeOK
<1>g. /\ GoodHead(stream.heard) /\ GoodHead(stream.head)
      /\ stream.head.id = 0 => stream.head = NoHead /\ stream.left = <<>>
  BY <1>s DEF StreamGood
<1>m. MaxPictures \in Nat BY StreamAssumption
<1>1. /\ GoodHead(a.head) /\ a.head.id \in 1 .. MaxPictures /\ a.head.pps \in PicParameterSets
      /\ StreamGood(a.after) /\ a.after.versions = stream.versions
      /\ a.after.head = a.head
      /\ \/ a.head = stream.head /\ a.after.closed = stream.closed /\ ~ a.redundant
            /\ stream.left # <<>>
         \/ a.head = stream.head /\ a.redundant /\ stream.left = <<>> /\ ~ stream.closed
            /\ ~ a.after.closed
         \/ /\ stream.left = <<>> /\ ~ a.after.closed /\ Key(a.head) # Key(stream.head) /\ ~ a.redundant
            /\ a.head.id = stream.head.id + 1 /\ a.head.version = stream.versions[a.head.pps]
  <2>1. CASE a \in Arriving
    <3>1. PICK b \in NextSlices(stream) : a = [head |-> b.head, part |-> b.part, redundant |-> FALSE, after |-> b.after]
      BY <2>1 DEF Arriving
    <3>2. a.head = b.head /\ a.after = b.after /\ ~ a.redundant BY <3>1
    <3>3. /\ GoodHead(b.head) /\ b.head.id \in 1 .. MaxPictures /\ b.head.pps \in PicParameterSets
          /\ StreamGood(b.after) /\ b.after.versions = stream.versions
          /\ b.after.head = b.head
          /\ \/ b.head = stream.head /\ stream.left # <<>> /\ b.after.closed = stream.closed
             \/ /\ stream.left = <<>> /\ ~ b.after.closed /\ Key(b.head) # Key(stream.head)
                /\ b.head.id = stream.head.id + 1 /\ b.head.version = stream.versions[b.head.pps]
      BY <1>s, Arrives
    <3>4. QED BY <3>2, <3>3
  <2>2. CASE a \in Redundant
    <3>1. PICK p \in UNION {Range(q) : q \in Slicings} :
            a = [head |-> stream.head, part |-> p, redundant |-> TRUE, after |-> stream]
      BY <2>2 DEF Redundant
    <3>2. stream.head # NoHead /\ stream.left = <<>> /\ ~ stream.closed BY <2>2 DEF Redundant
    <3>3. stream.head.id # 0 BY <1>g, <3>2
    <3>4. stream.head.id \in 1 .. MaxPictures /\ stream.head.pps \in PicParameterSets
      BY <1>g, <1>m, <3>3 DEF GoodHead, None
    <3>5. a.head = stream.head /\ a.redundant /\ a.after = stream BY <3>1
    <3>6. QED BY <1>s, <1>g, <3>2, <3>4, <3>5
  <2>3. QED BY <2>1, <2>2
<1> DEFINE x == a.after
           h == a.head
<1>2. /\ stream' = [x EXCEPT !.heard = h]
      /\ lost' = lost \cup Merged(a)
  BY DEF Sent
<1>3. x = [type |-> x.type, gaps |-> x.gaps, head |-> x.head, heard |-> x.heard, left |-> x.left,
           open |-> x.open, closed |-> x.closed, refs |-> x.refs, base |-> x.base,
           versions |-> x.versions]
  BY <1>1 DEF StreamGood
<1>4. stream' = [type |-> x.type, gaps |-> x.gaps, head |-> x.head, heard |-> h, left |-> x.left,
           open |-> x.open, closed |-> x.closed, refs |-> x.refs, base |-> x.base,
           versions |-> x.versions]
  BY <1>2, <1>3
<1>5. StreamGood(stream') BY <1>1, <1>4 DEF StreamGood
<1>6. Merged(a) \subseteq 1 .. MaxPictures /\ (Merged(a) = {} => h.id = stream.heard.id \/ Key(h) # Key(stream.heard))
  <2>1. CASE h.id # stream.heard.id /\ Key(h) = Key(stream.heard)
    <3>1. Merged(a) = {h.id, stream.heard.id} BY <2>1 DEF Merged
    <3>2. stream.heard.id # 0
      <4>1. SUFFICES ASSUME stream.heard.id = 0 PROVE FALSE OBVIOUS
      <4>2. stream.heard = NoHead /\ stream.head = NoHead /\ stream.left = <<>> BY <1>s, <1>g, <4>1
      <4>3. Key(h) # Key(stream.head) BY <1>1, <1>g, <4>2, <4>1, <2>1
      <4>4. QED BY <2>1, <4>2, <4>3
    <3>3. stream.heard.id \in 1 .. MaxPictures BY <1>g, <1>m, <3>2 DEF GoodHead
    <3>4. QED BY <1>1, <3>1, <3>3
  <2>2. CASE ~(h.id # stream.heard.id /\ Key(h) = Key(stream.heard))
    <3>1. Merged(a) = {} BY <2>2 DEF Merged
    <3>2. QED BY <2>2, <3>1
  <2>3. QED BY <2>1, <2>2
<1>7. /\ stream'.heard = h /\ stream'.head = x.head /\ stream'.versions = x.versions
      /\ stream'.closed = x.closed
  BY <1>4
<1> HIDE DEF x, h
<1>8. lost' \subseteq 1 .. MaxPictures /\ lost \subseteq lost' BY <1>s, <1>2, <1>6
<1>9. lost' = {} => h.id = stream.heard.id \/ Key(h) # Key(stream.heard) BY <1>2, <1>6
<1>10. QED BY <1>1, <1>5, <1>7, <1>8, <1>9 DEF x, h

LEMMA ObjectsGood ==
  ASSUME TypeInv
  PROVE  /\ SlotsGood(Objects) /\ Len(Objects) \in Nat /\ n \in Nat /\ n + 1 <= Len(Objects)
         /\ \A i \in 1 .. n : Objects[i] = slots[i]
         /\ Objects[1] = slots[1] /\ IsSlice(Objects[1]) /\ IsSlice(Objects[n + 1])
<1>1. SlotsGood(slots) /\ n \in 0 .. Len(slots) BY DEF TypeInv, TypeOK
<1>2. Len(slots) \in Nat /\ Len(slots) >= 1 /\ DOMAIN slots = 1 .. Len(slots)
      /\ \A i \in DOMAIN slots : IsSlice(slots[i])
  BY <1>1, SlotsAre
<1>3. CASE n + 1 > Len(slots)
  <2>1. Objects = Append(slots, FreshSlice) BY <1>3 DEF Objects
  <2>2. IsSlice(FreshSlice)
    BY StreamAssumption, ModuliAssumption DEF IsSlice, FreshSlice, GoodHead, NoHead, FrameNums, None
  <2>3. /\ SlotsGood(Objects) /\ Len(Objects) = Len(slots) + 1
        /\ \A j \in 1 .. Len(slots) : Objects[j] = slots[j]
    BY <1>1, <2>1, <2>2, SlotsGrown
  <2>4. DOMAIN Objects = 1 .. Len(Objects) /\ \A i \in DOMAIN Objects : IsSlice(Objects[i])
    BY <2>3, SlotsAre
  <2>5. 1 \in 1 .. Len(slots) /\ 1 \in DOMAIN Objects /\ n + 1 \in DOMAIN Objects
        /\ 1 .. n \subseteq 1 .. Len(slots)
    BY <1>1, <1>2, <1>3, <2>3, <2>4
  <2>6. QED BY <1>1, <1>2, <1>3, <2>3, <2>4, <2>5
<1>4. CASE ~(n + 1 > Len(slots))
  <2>1. Objects = slots BY <1>4 DEF Objects
  <2>2. 1 \in DOMAIN slots /\ n + 1 \in DOMAIN slots BY <1>1, <1>2, <1>4
  <2>3. QED BY <1>1, <1>2, <1>4, <2>1, <2>2
<1>5. QED BY <1>3, <1>4

LEMMA ReadsInto ==
  ASSUME TypeInv, NEW a, GoodHead(a.head)
  PROVE  /\ IsSlice(ReadInto(a)) /\ ReadInto(a).head = a.head /\ ReadInto(a).redundant = a.redundant
         /\ ReadInto(a).poc = Objects[n + 1].poc
<1> DEFINE x == Objects[n + 1]
<1>1. IsSlice(x) BY ObjectsGood
<1>2. x = [head |-> x.head, part |-> x.part, redundant |-> x.redundant, poc |-> x.poc]
  BY <1>1 DEF IsSlice
<1>3. ReadInto(a) = [x EXCEPT !.head = a.head, !.part = a.part, !.redundant = a.redundant] BY DEF ReadInto
<1> HIDE DEF x
<1>4. ReadInto(a) = [head |-> a.head, part |-> a.part, redundant |-> a.redundant, poc |-> x.poc]
  BY <1>2, <1>3
<1>5. QED BY <1>4 DEF IsSlice, x

(* The first slice object is given other counts.                            *)
LEMMA CountsGiven ==
  ASSUME TypeInv, NEW p
  PROVE  LET t == [slots EXCEPT ![1].poc = p]
         IN /\ SlotsGood(t) /\ Len(t) = Len(slots) /\ IsSlice(t[1]) /\ t[1].poc = p
            /\ t[1].head = slots[1].head /\ t[1].redundant = slots[1].redundant
<1> DEFINE x == [slots[1] EXCEPT !.poc = p]
           y == slots[1]
<1>1. /\ SlotsGood(slots) /\ Len(slots) \in Nat /\ 1 \in 1 .. Len(slots) /\ DOMAIN slots = 1 .. Len(slots)
      /\ IsSlice(slots[1])
  BY SlotsAre DEF TypeInv
<1>2. y = [head |-> y.head, part |-> y.part, redundant |-> y.redundant, poc |-> y.poc] /\ GoodHead(y.head)
  BY <1>1 DEF IsSlice
<1> HIDE DEF y
<1>3. x = [head |-> y.head, part |-> y.part, redundant |-> y.redundant, poc |-> p] BY <1>2 DEF y
<1>4. IsSlice(x) BY <1>2, <1>3 DEF IsSlice
<1>5. x.poc = p /\ x.head = y.head /\ x.redundant = y.redundant BY <1>3
<1>6. [slots EXCEPT ![1].poc = p] = [slots EXCEPT ![1] = x] BY <1>1
<1> HIDE DEF x
<1>7. SlotsGood([slots EXCEPT ![1] = x]) /\ Len([slots EXCEPT ![1] = x]) = Len(slots)
      /\ [slots EXCEPT ![1] = x][1] = x
  BY <1>1, <1>4, SlotsChanged
<1>8. QED BY <1>4, <1>5, <1>6, <1>7 DEF y

LEMMA NoHeadGood == GoodHead(NoHead) /\ IsSlice(FreshSlice) /\ NoPicture.head = NoHead
  BY StreamAssumption, ModuliAssumption DEF IsSlice, FreshSlice, GoodHead, NoHead, FrameNums, None, NoPicture

LEMMA TypeInit == Init => TypeInv
<1> SUFFICES ASSUME Init PROVE TypeInv OBVIOUS
<1>1. PICK t \in PocTypes, g \in GapsAllowed :
        stream = [type |-> t, gaps |-> g, head |-> NoHead, heard |-> NoHead, left |-> <<>>, open |-> FALSE,
                  closed |-> FALSE, refs |-> 0, base |-> 0, versions |-> [i \in PicParameterSets |-> 0]]
  BY DEF Init, FirstStreams
<1>2. GoodHead(NoHead) /\ IsSlice(FreshSlice) /\ NoPicture.head = NoHead BY NoHeadGood
<1>3. NoHead.count = 0 /\ NoHead.id = 0 BY DEF NoHead
<1>4. StreamGood(stream) BY <1>1, <1>2, <1>3 DEF StreamGood
<1>5. stream.heard = NoHead /\ stream.head = NoHead BY <1>1
<1>6. Len(<<FreshSlice>>) = 1 /\ <<FreshSlice>> # <<>> /\ <<FreshSlice>> \in Seq({FreshSlice}) OBVIOUS
<1>7. SlotsGood(slots)
  <2>1. slots \in Seq({FreshSlice}) /\ slots # <<>> BY <1>6 DEF Init
  <2>2. \A x \in {FreshSlice} : IsSlice(x) BY <1>2
  <2>3. QED BY <2>1, <2>2 DEF SlotsGood
<1>8. 0 \in FrameNums BY ModuliAssumption DEF FrameNums
<1>9. TypeOK
  <2>1. n \in 0 .. Len(slots) /\ Len(slots) > 0 BY <1>6 DEF Init
  <2>2. {preNum, prevNum, stored.num, stored.base} \subseteq 0 .. MaxFrameNum - 1
    BY <1>8 DEF Init, NothingStored, FrameNums
  <2>3. pps \in [PicParameterSets -> {0, 1}] BY DEF Init
  <2>4. nextPps.id \in PicParameterSets \cup {None} BY DEF Init, NoPps, None
  <2>5. QED BY <2>1, <2>2, <2>3, <2>4 DEF Init, TypeOK
<1>10. QED BY <1>2, <1>3, <1>4, <1>5, <1>7, <1>9 DEF TypeInv, Init, NoPps, NothingStored

(* TypeOK in parts.                                                         *)
LEMMA TypesOf ==
  ASSUME TypeInv
  PROVE  /\ SlotsGood(slots) /\ Len(slots) \in Nat /\ 1 \in 1 .. Len(slots) /\ DOMAIN slots = 1 .. Len(slots)
         /\ \A i \in 1 .. Len(slots) : IsSlice(slots[i])
         /\ n \in Nat /\ n <= Len(slots) /\ IsSlice(Current) /\ GoodHead(Current.head)
         /\ preNum \in FrameNums /\ prevNum \in FrameNums /\ AfterPreNum \in FrameNums
         /\ Current.head.num \in FrameNums /\ Current.head.pps \in PicParameterSets \cup {None}
         /\ 0 \in FrameNums
<1>1. /\ SlotsGood(slots) /\ n \in 0 .. Len(slots) /\ preNum \in FrameNums /\ prevNum \in FrameNums
  BY DEF TypeInv, TypeOK, FrameNums
<1>2. Len(slots) \in Nat /\ Len(slots) >= 1 /\ DOMAIN slots = 1 .. Len(slots)
      /\ \A i \in DOMAIN slots : IsSlice(slots[i])
  BY <1>1, SlotsAre
<1>3. MaxFrameNum \in Nat \ {0} BY ModuliAssumption
<1>4. AfterPreNum \in FrameNums /\ 0 \in FrameNums BY <1>1, <1>3 DEF AfterPreNum, FrameNums
<1>5. IsSlice(Current) /\ GoodHead(Current.head)
  <2>1. IsSlice(slots[1]) BY <1>2
  <2>2. QED BY <2>1 DEF Current, IsSlice
<1>6. QED BY <1>1, <1>2, <1>4, <1>5 DEF GoodHead

LEMMA TypeStart == ASSUME TypeInv, Start PROVE TypeInv'
<1> DEFINE t == [slots EXCEPT ![1] = next]
<1>1. SlotsGood(t) /\ Len(t) = Len(slots)
  <2>1. SlotsGood(slots) /\ 1 \in 1 .. Len(slots) BY TypesOf
  <2>2. IsSlice(next) BY DEF TypeInv
  <2>3. QED BY <2>1, <2>2, SlotsChanged
<1>2. slots' = t /\ next' = slots[1] BY DEF Start
<1>3. IsSlice(next') /\ SlotsGood(slots') /\ Len(slots') = Len(slots) BY <1>1, <1>2, TypesOf DEF Current
<1>4. activePps' \in PicParameterSets \cup {None} BY DEF Start, TypeInv, IsSlice, GoodHead
<1>5. /\ pps' \in [PicParameterSets -> {0, 1}]
      /\ nextPps'.id = nextPps.id /\ nextPps'.version \in {0, 1} /\ ~ nextPps'.valid
      /\ nextPps' = [valid |-> nextPps'.valid, id |-> nextPps'.id, version |-> nextPps'.version]
  <2>1. CASE nextPps.valid
    <3>1. nextPps' = [valid |-> FALSE, id |-> nextPps.id, version |-> nextPps.version]
      BY <2>1 DEF Start, RestorePps, TypeInv
    <3>2. pps' = [pps EXCEPT ![nextPps.id] = nextPps.version] BY <2>1 DEF Start, RestorePps
    <3>3. pps' \in [PicParameterSets -> {0, 1}] BY <2>1, <3>2 DEF TypeInv, TypeOK
    <3>4. QED BY <3>1, <3>3 DEF TypeInv
  <2>2. CASE ~ nextPps.valid BY <2>2 DEF Start, RestorePps, TypeInv, TypeOK
  <2>3. QED BY <2>1, <2>2
<1>6. /\ n' = 0 /\ pc' = "init"
      /\ UNCHANGED <<newframe, old, pic, preNum, prevNum, mem, stored, stream, lost, spent>>
  BY DEF Start
<1>7. Len(slots) \in Nat /\ Len(slots) >= 1 BY TypesOf
<1>8. n' \in 0 .. Len(slots') /\ Len(slots') > 0 BY <1>3, <1>6, <1>7
<1>9. nextPps'.id \in PicParameterSets \cup {None} BY <1>5 DEF TypeInv, TypeOK
<1>10. TypeOK' BY <1>4, <1>5, <1>6, <1>8, <1>9 DEF TypeInv, TypeOK
<1>11. QED BY <1>3, <1>5, <1>6, <1>10 DEF TypeInv

LEMMA TypeGap == ASSUME TypeInv, FillGap PROVE TypeInv'
<1>1. SlotsGood(slots') /\ Len(slots') = Len(slots) BY CountsGiven DEF FillGap
<1>2. /\ preNum' \in FrameNums /\ preNum' = AfterPreNum
      /\ UNCHANGED <<next, n, newframe, old, pic, prevNum, pps, nextPps, activePps, pc, stream, lost, spent>>
  BY TypesOf DEF FillGap
<1> DEFINE k == AfterPreNum
<1>3. stored' = [stored EXCEPT !.idr = FALSE, !.num = k, !.base = k] BY DEF FillGap
<1>4. k \in FrameNums BY TypesOf
<1> HIDE DEF k
<1>5. stored' = [idr |-> FALSE, num |-> k, from |-> stored.from, base |-> k] BY <1>3 DEF TypeInv
<1>6. {preNum', prevNum', stored'.num, stored'.base} \subseteq 0 .. MaxFrameNum - 1
  BY <1>2, <1>4, <1>5, TypesOf DEF FrameNums
<1>7. TypeOK' BY <1>1, <1>2, <1>6 DEF TypeInv, TypeOK
<1>8. QED BY <1>1, <1>2, <1>5, <1>7 DEF TypeInv

LEMMA TypeInitPicture == ASSUME TypeInv, InitPicture PROVE TypeInv'
<1> DEFINE d == DecodePoc(stream.type, mem, Current.head, Current.poc)
<1>1. /\ slots' = [slots EXCEPT ![1].poc = d.poc]
      /\ pic' = [head |-> Current.head, poc |-> d.poc]
      /\ preNum' = IF Current.head.ref THEN Current.head.num ELSE preNum
      /\ n' \in {0, 1} /\ pc' \in {"read", "decode"}
      /\ UNCHANGED <<next, newframe, old, prevNum, pps, nextPps, activePps, stored, stream, lost, spent>>
  BY DEF InitPicture
<1> HIDE DEF d
<1>2. SlotsGood(slots') /\ Len(slots') = Len(slots) BY <1>1, CountsGiven
<1>3. pic'.head = Current.head BY <1>1
<1>4. GoodHead(pic'.head) /\ preNum' \in FrameNums BY <1>1, <1>3, TypesOf
<1>5. n' \in 0 .. Len(slots') /\ Len(slots') > 0
  <2>1. Len(slots) \in Nat /\ Len(slots) >= 1 BY TypesOf
  <2>2. QED BY <1>1, <1>2, <2>1
<1>6. TypeOK' BY <1>1, <1>4, <1>5 DEF TypeInv, TypeOK, FrameNums
<1>7. QED BY <1>1, <1>2, <1>4, <1>6 DEF TypeInv

(* What the actions that read a slice have in common.                       *)
LEMMA TypeRead ==
  ASSUME TypeInv, NEW a \in Arriving \cup Redundant, Sent(a), HeaderRead(a),
         SlotsGood(slots'), n' \in 0 .. Len(slots'), IsSlice(next'), newframe' \in BOOLEAN,
         old' \in {old, a.head}, pc' \in {"init", "read", "decode"}
  PROVE  TypeInv'
<1>1. /\ GoodHead(a.head) /\ a.head.id \in 1 .. MaxPictures /\ a.head.pps \in PicParameterSets
      /\ StreamGood(stream') /\ stream'.heard = a.head
      /\ lost' \subseteq 1 .. MaxPictures
  BY Reads
<1>2. activePps' = a.head.pps /\ preNum' = (IF a.head.idr THEN a.head.num ELSE preNum)
      /\ UNCHANGED <<pic, prevNum, mem, pps, nextPps, stored>>
  BY DEF HeaderRead
<1>3. preNum' \in FrameNums BY <1>1, <1>2, TypesOf DEF GoodHead
<1>4. Len(slots') > 0 BY SlotsAre
<1>5. TypeOK' BY <1>1, <1>2, <1>3, <1>4 DEF TypeInv, TypeOK, FrameNums
<1>6. stream'.heard.id # 0 BY <1>1
<1>7. GoodHead(old') /\ GoodHead(pic'.head) BY <1>1, <1>2 DEF TypeInv
<1>8. QED BY <1>1, <1>2, <1>5, <1>6, <1>7 DEF TypeInv

(* A slice is read into the place of one of the objects.                    *)
LEMMA ObjectChanged ==
  ASSUME TypeInv, NEW i \in {1, n + 1}, NEW x, IsSlice(x)
  PROVE  /\ SlotsGood([Objects EXCEPT ![i] = x])
         /\ Len([Objects EXCEPT ![i] = x]) = Len(Objects)
         /\ [Objects EXCEPT ![i] = x][i] = x
         /\ \A j \in 1 .. n : j # i => [Objects EXCEPT ![i] = x][j] = slots[j]
<1>1. /\ SlotsGood(Objects) /\ Len(Objects) \in Nat /\ n \in Nat /\ n + 1 <= Len(Objects)
      /\ \A j \in 1 .. n : Objects[j] = slots[j]
  BY ObjectsGood
<1>2. i \in 1 .. Len(Objects) /\ 1 .. n \subseteq 1 .. Len(Objects) BY <1>1
<1>3. /\ SlotsGood([Objects EXCEPT ![i] = x]) /\ Len([Objects EXCEPT ![i] = x]) = Len(Objects)
      /\ [Objects EXCEPT ![i] = x][i] = x
      /\ \A j \in 1 .. Len(Objects) : j # i => [Objects EXCEPT ![i] = x][j] = Objects[j]
  BY <1>1, <1>2, SlotsChanged
<1>4. QED BY <1>1, <1>2, <1>3

LEMMA CopyGood ==
  ASSUME TypeInv, NEW x, IsSlice(x)
  PROVE  /\ IsSlice(CopyPoc(x)) /\ CopyPoc(x).head = x.head /\ CopyPoc(x).redundant = x.redundant
         /\ n > 0 => CopyPoc(x).poc = Current.poc
         /\ n = 0 => CopyPoc(x) = x
<1>1. x = [head |-> x.head, part |-> x.part, redundant |-> x.redundant, poc |-> x.poc] /\ GoodHead(x.head)
  BY DEF IsSlice
<1>2. n \in Nat BY TypesOf
<1>3. CASE n > 0
  <2> DEFINE p == Current.poc
  <2>1. CopyPoc(x) = [x EXCEPT !.poc = p] BY <1>3 DEF CopyPoc
  <2> HIDE DEF p
  <2>2. CopyPoc(x) = [head |-> x.head, part |-> x.part, redundant |-> x.redundant, poc |-> p] BY <1>1, <2>1
  <2>3. QED BY <1>1, <1>3, <2>2 DEF IsSlice, p
<1>4. CASE n = 0 BY <1>4 DEF CopyPoc
<1>5. QED BY <1>2, <1>3, <1>4

LEMMA TypeFirst == ASSUME TypeInv, ReceiveFirst PROVE TypeInv'
<1>1. PICK a \in Arriving \cup Redundant : ReadFirst(a) /\ Sent(a) BY DEF ReceiveFirst
<1>2. GoodHead(a.head) BY <1>1, Reads
<1>3. /\ HeaderRead(a) /\ n = 0 /\ slots' = [Objects EXCEPT ![1] = ReadInto(a)]
      /\ old' \in {old, a.head} /\ pc' = "init" /\ UNCHANGED <<next, n, newframe>>
  BY <1>1 DEF ReadFirst
<1>4. IsSlice(ReadInto(a)) BY <1>2, ReadsInto
<1>5. SlotsGood(slots') /\ Len(slots') = Len(Objects) BY <1>3, <1>4, ObjectChanged
<1>6. n' \in 0 .. Len(slots') BY <1>3, <1>5, ObjectsGood
<1>7. IsSlice(next') /\ newframe' \in BOOLEAN BY <1>3 DEF TypeInv, TypeOK
<1>8. QED BY <1>1, <1>3, <1>5, <1>6, <1>7, TypeRead

LEMMA TypeSlice == ASSUME TypeInv, ReceiveSlice PROVE TypeInv'
<1>1. PICK a \in Arriving \cup Redundant : ReadSlice(a) /\ Sent(a) BY DEF ReceiveSlice
<1>2. GoodHead(a.head) BY <1>1, Reads
<1>3. /\ HeaderRead(a) /\ slots' = [Objects EXCEPT ![n + 1] = CopyPoc(ReadInto(a))]
      /\ old' \in {old, a.head} /\ pc' = "read" /\ n' = n + 1 /\ UNCHANGED <<next, newframe>>
  BY <1>1 DEF ReadSlice, HeaderRead
<1>4. IsSlice(CopyPoc(ReadInto(a))) BY <1>2, ReadsInto, CopyGood
<1>5. SlotsGood(slots') /\ Len(slots') = Len(Objects) BY <1>3, <1>4, ObjectChanged
<1>6. n' \in 0 .. Len(slots') BY <1>3, <1>5, ObjectsGood
<1>7. IsSlice(next') /\ newframe' \in BOOLEAN BY <1>3 DEF TypeInv, TypeOK
<1>8. QED BY <1>1, <1>3, <1>5, <1>6, <1>7, TypeRead

LEMMA TypeAhead == ASSUME TypeInv, ReceiveAhead PROVE TypeInv'
<1>1. PICK a \in Arriving \cup Redundant : ReadAhead(a) /\ Sent(a) BY DEF ReceiveAhead
<1>2. GoodHead(a.head) BY <1>1, Reads
<1>3. /\ HeaderRead(a) /\ slots' = [Objects EXCEPT ![n + 1] = next] /\ next' = ReadInto(a)
      /\ old' \in {old, a.head} /\ pc' = "decode" /\ n' = n /\ newframe' = TRUE
  BY <1>1 DEF ReadAhead, HeaderRead
<1>4. IsSlice(next) /\ IsSlice(next') BY <1>2, <1>3, ReadsInto DEF TypeInv
<1>5. SlotsGood(slots') /\ Len(slots') = Len(Objects) BY <1>3, <1>4, ObjectChanged
<1>6. n' \in 0 .. Len(slots') BY <1>3, <1>5, ObjectsGood
<1>7. QED BY <1>1, <1>3, <1>4, <1>5, <1>6, TypeRead

LEMMA TypeRedundant == ASSUME TypeInv, ReceiveRedundant PROVE TypeInv'
<1>1. PICK a \in Arriving \cup Redundant : Discard(a) /\ Sent(a) BY DEF ReceiveRedundant
<1>2. GoodHead(a.head) BY <1>1, Reads
<1>3. /\ HeaderRead(a) /\ slots' = [Objects EXCEPT ![n + 1] = ReadInto(a)]
      /\ old' \in {old, a.head} /\ pc' \in {"read", "decode"} /\ UNCHANGED <<next, n, newframe>>
  BY <1>1 DEF Discard, HeaderRead
<1>4. IsSlice(ReadInto(a)) BY <1>2, ReadsInto
<1>5. SlotsGood(slots') /\ Len(slots') = Len(Objects) BY <1>3, <1>4, ObjectChanged
<1>6. n' \in 0 .. Len(slots') BY <1>3, <1>5, ObjectsGood
<1>7. IsSlice(next') /\ newframe' \in BOOLEAN BY <1>3 DEF TypeInv, TypeOK
<1>8. QED BY <1>1, <1>3, <1>5, <1>6, <1>7, TypeRead

LEMMA TypeLost ==
  ASSUME TypeInv, LoseSlice
  PROVE  /\ TypeInv' /\ lost' # {} /\ stream'.versions = stream.versions /\ stream'.heard = stream.heard
<1>1. PICK a \in Arriving : stream' = a.after /\ lost' = lost \cup {a.head.id} BY DEF LoseSlice
<1>2. PICK b \in NextSlices(stream) : a = [head |-> b.head, part |-> b.part, redundant |-> FALSE, after |-> b.after]
  BY DEF Arriving
<1>3. a.head = b.head /\ a.after = b.after BY <1>2
<1>4. StreamGood(stream) /\ (stream.heard.id = 0 => stream.heard = NoHead /\ stream.head.id = 0) BY DEF TypeInv
<1>5. /\ b.head.id \in 1 .. MaxPictures /\ StreamGood(b.after) /\ b.after.heard = stream.heard
      /\ b.after.versions = stream.versions
  BY <1>4, Arrives
<1>6. stream.head # NoHead /\ UNCHANGED decoder BY DEF LoseSlice
<1>7. stream.heard.id # 0 BY <1>4, <1>6 DEF StreamGood
<1>8. StreamGood(stream') /\ stream'.heard.id # 0 BY <1>1, <1>3, <1>5, <1>7
<1>9. lost' \subseteq 1 .. MaxPictures /\ lost' # {} BY <1>1, <1>3, <1>5 DEF TypeInv, TypeOK
<1>10. TypeOK' BY <1>6, <1>9 DEF decoder, TypeInv, TypeOK
<1>11. QED BY <1>1, <1>3, <1>5, <1>6, <1>8, <1>9, <1>10 DEF decoder, TypeInv

(* A parameter set is sent again.                                           *)
LEMMA Resends ==
  ASSUME NEW s, StreamGood(s), NEW i \in PicParameterSets
  PROVE  /\ StreamGood(Resent(s, i)) /\ Resent(s, i).closed /\ Resent(s, i).head = s.head
         /\ Resent(s, i).heard = s.heard /\ Resent(s, i).left = s.left
         /\ Resent(s, i).versions = [s.versions EXCEPT ![i] = 1 - s.versions[i]]
         /\ Resent(s, i).versions[i] \in {0, 1} /\ Resent(s, i).versions[i] # s.versions[i]
<1> DEFINE v == [s.versions EXCEPT ![i] = 1 - s.versions[i]]
<1>s. s = [type |-> s.type, gaps |-> s.gaps, head |-> s.head, heard |-> s.heard, left |-> s.left,
           open |-> s.open, closed |-> s.closed, refs |-> s.refs, base |-> s.base,
           versions |-> s.versions]
      /\ s.versions \in [PicParameterSets -> {0, 1}]
  BY DEF StreamGood
<1>1. s.versions[i] \in {0, 1} /\ 1 - s.versions[i] \in {0, 1} /\ 1 - s.versions[i] # s.versions[i] BY <1>s
<1>2. v \in [PicParameterSets -> {0, 1}] /\ v[i] = 1 - s.versions[i] BY <1>s, <1>1
<1>3. Resent(s, i) = [s EXCEPT !.versions = v, !.closed = TRUE] BY <1>s DEF Resent
<1> HIDE DEF v
<1>4. Resent(s, i) = [type |-> s.type, gaps |-> s.gaps, head |-> s.head, heard |-> s.heard, left |-> s.left,
                      open |-> s.open, closed |-> TRUE, refs |-> s.refs, base |-> s.base,
                      versions |-> v]
  BY <1>s, <1>3
<1>5. StreamGood(Resent(s, i)) BY <1>2, <1>4 DEF StreamGood
<1>6. QED BY <1>1, <1>2, <1>4, <1>5 DEF v

LEMMA TypePps == ASSUME TypeInv, ReceivePps PROVE TypeInv'
<1>1. PICK i \in PicParameterSets : stream' = Resent(stream, i) /\ ProcessPps(i, stream'.versions[i])
  BY DEF ReceivePps
<1>2. StreamGood(stream) BY DEF TypeInv
<1>3. /\ StreamGood(stream') /\ stream'.head = stream.head /\ stream'.heard = stream.heard
      /\ stream'.versions[i] \in {0, 1}
  BY <1>1, <1>2, Resends
<1>4. UNCHANGED <<slots, next, n, newframe, old, pic, preNum, prevNum, mem, pc, stored, lost>> BY DEF ReceivePps
<1> DEFINE v == stream'.versions[i]
<1>5. /\ pps' = [pps EXCEPT ![i] = v]
      /\ \/ nextPps' = [valid |-> TRUE, id |-> i, version |-> pps[i]] /\ activePps' = None
         \/ UNCHANGED <<nextPps, activePps>>
  BY <1>1 DEF ProcessPps
<1> HIDE DEF v
<1>6. pps' \in [PicParameterSets -> {0, 1}] /\ pps[i] \in {0, 1} BY <1>3, <1>5 DEF TypeInv, TypeOK, v
<1>7. /\ activePps' \in PicParameterSets \cup {None} /\ nextPps'.id \in PicParameterSets \cup {None}
      /\ nextPps'.valid => nextPps'.id \in PicParameterSets
      /\ nextPps'.version \in {0, 1}
      /\ nextPps' = [valid |-> nextPps'.valid, id |-> nextPps'.id, version |-> nextPps'.version]
  <2>1. CASE nextPps' = [valid |-> TRUE, id |-> i, version |-> pps[i]] /\ activePps' = None
    BY <1>6, <2>1
  <2>2. CASE UNCHANGED <<nextPps, activePps>> BY <2>2 DEF TypeInv, TypeOK
  <2>3. QED BY <1>5, <2>1, <2>2
<1>8. TypeOK' BY <1>4, <1>6, <1>7 DEF TypeInv, TypeOK
<1>9. QED BY <1>3, <1>4, <1>7, <1>8 DEF TypeInv

LEMMA TypeEnd == ASSUME TypeInv, EndOfStream PROVE TypeInv'
<1>1. /\ slots' = [Objects EXCEPT ![n + 1] = next] /\ next' = Objects[n + 1] /\ newframe' = TRUE
      /\ old' = Objects[n + 1].head /\ pc' = "last"
      /\ UNCHANGED <<n, pic, preNum, prevNum, mem, pps, nextPps, activePps, stored, stream, lost, spent>>
  BY DEF EndOfStream
<1>2. IsSlice(next) BY DEF TypeInv
<1>3. SlotsGood(slots') /\ Len(slots') = Len(Objects) BY <1>1, <1>2, ObjectChanged
<1>4. n' \in 0 .. Len(slots') /\ Len(slots') > 0 BY <1>1, <1>3, ObjectsGood, SlotsAre
<1>5. IsSlice(next') /\ GoodHead(old') BY <1>1, ObjectsGood DEF IsSlice
<1>6. TypeOK' BY <1>1, <1>4 DEF TypeInv, TypeOK
<1>7. QED BY <1>1, <1>3, <1>5, <1>6 DEF TypeInv

LEMMA Swaps ==
  ASSUME TypeInv, SwapPps
  PROVE  /\ pps' \in [PicParameterSets -> {0, 1}]
         /\ nextPps' = [valid |-> nextPps.valid, id |-> nextPps.id, version |-> nextPps'.version]
         /\ nextPps'.version \in {0, 1}
         /\ IF nextPps.valid /\ nextPps.id = Current.head.pps
            THEN pps' = [pps EXCEPT ![nextPps.id] = nextPps.version] /\ nextPps'.version = pps[nextPps.id]
            ELSE UNCHANGED <<pps, nextPps>>
<1> DEFINE i == nextPps.id
           v == pps[i]
<1>1. CASE nextPps.valid /\ i = Current.head.pps
  <2>1. i \in PicParameterSets BY <1>1 DEF TypeInv
  <2>2. /\ pps' = [pps EXCEPT ![i] = nextPps.version] /\ nextPps' = [nextPps EXCEPT !.version = v]
    BY <1>1 DEF SwapPps
  <2>3. v \in {0, 1} /\ pps' \in [PicParameterSets -> {0, 1}] BY <2>1, <2>2 DEF TypeInv, TypeOK
  <2> HIDE DEF v
  <2>4. nextPps' = [valid |-> nextPps.valid, id |-> nextPps.id, version |-> v] BY <2>2 DEF TypeInv
  <2>5. QED BY <1>1, <2>2, <2>3, <2>4 DEF v
<1>2. CASE ~(nextPps.valid /\ i = Current.head.pps)
  BY <1>2 DEF SwapPps, TypeInv, TypeOK
<1>3. QED BY <1>1, <1>2

LEMMA TypeDecode == ASSUME TypeInv, Decode PROVE TypeInv'
<1>1. /\ SwapPps /\ activePps' = Current.head.pps /\ prevNum' = Current.head.num /\ n' = 0
      /\ pc' \in {"end", "start", "read"}
      /\ UNCHANGED <<slots, next, newframe, old, stream, lost, spent>>
      /\ StorePicture \/ UNCHANGED <<stored, mem, preNum, pic>>
  BY DEF Decode
<1>2. /\ pps' \in [PicParameterSets -> {0, 1}] /\ nextPps'.version \in {0, 1}
      /\ nextPps' = [valid |-> nextPps'.valid, id |-> nextPps'.id, version |-> nextPps'.version]
      /\ nextPps'.valid = nextPps.valid /\ nextPps'.id = nextPps.id
  <2>1. /\ pps' \in [PicParameterSets -> {0, 1}] /\ nextPps'.version \in {0, 1}
        /\ nextPps' = [valid |-> nextPps.valid, id |-> nextPps.id, version |-> nextPps'.version]
    BY <1>1, Swaps
  <2>2. nextPps'.valid = nextPps.valid /\ nextPps'.id = nextPps.id BY <2>1
  <2>3. QED BY <2>1, <2>2
<1>3. /\ GoodHead(pic'.head) /\ preNum' \in FrameNums
      /\ stored'.num \in FrameNums /\ stored'.base \in FrameNums
      /\ stored' = [idr |-> stored'.idr, num |-> stored'.num, from |-> stored'.from, base |-> stored'.base]
  <2>1. CASE UNCHANGED <<stored, mem, preNum, pic>> BY <2>1 DEF TypeInv, TypeOK, FrameNums
  <2>2. CASE StorePicture
    <3> DEFINE f == UNION {{s.head.id} \X s.part : s \in Decoded}
               b == IF ~pic.head.ref THEN stored.base ELSE IF pic.head.mmco5 THEN 0 ELSE pic.head.num
    <3>1. /\ stored' = [idr |-> pic.head.idr, num |-> pic.head.num, from |-> f, base |-> b]
          /\ preNum' = (IF pic.head.mmco5 THEN 0 ELSE preNum) /\ pic' = NoPicture
      BY <2>2 DEF StorePicture
    <3>2. b \in FrameNums /\ pic.head.num \in FrameNums BY TypesOf DEF TypeInv, TypeOK, GoodHead, FrameNums
    <3> HIDE DEF f, b
    <3>3. QED BY <3>1, <3>2, TypesOf, NoHeadGood
  <2>3. QED BY <1>1, <2>1, <2>2
<1>4. Len(slots) \in Nat /\ prevNum' \in FrameNums BY <1>1, TypesOf
<1>5. TypeOK'
  <2>1. n' \in 0 .. Len(slots') /\ Len(slots') > 0 BY <1>1, <1>4 DEF TypeInv, TypeOK
  <2>2. activePps' \in PicParameterSets \cup {None} BY <1>1, TypesOf
  <2>3. QED BY <1>1, <1>2, <1>3, <1>4, <2>1, <2>2 DEF TypeInv, TypeOK, FrameNums
<1>6. QED BY <1>1, <1>2, <1>3, <1>5 DEF TypeInv

LEMMA TypeNext == TypeInv /\ [Next]_vars => TypeInv'
<1> SUFFICES ASSUME TypeInv, [Next]_vars PROVE TypeInv' OBVIOUS
<1>1. CASE Start BY <1>1, TypeStart
<1>2. CASE UnintentionalLoss BY <1>2 DEF UnintentionalLoss, TypeInv, TypeOK
<1>3. CASE FillGap BY <1>3, TypeGap
<1>4. CASE InitPicture BY <1>4, TypeInitPicture
<1>5. CASE ReceiveFirst BY <1>5, TypeFirst
<1>6. CASE ReceiveSlice BY <1>6, TypeSlice
<1>7. CASE ReceiveAhead BY <1>7, TypeAhead
<1>8. CASE ReceiveRedundant BY <1>8, TypeRedundant
<1>9. CASE LoseSlice BY <1>9, TypeLost
<1>10. CASE ReceivePps BY <1>10, TypePps
<1>11. CASE EndOfStream BY <1>11, TypeEnd
<1>12. CASE Decode BY <1>12, TypeDecode
<1>13. CASE Ended \/ UNCHANGED vars BY <1>13 DEF Ended, vars, decoder, TypeInv, TypeOK
<1>14. QED
  BY <1>1, <1>2, <1>3, <1>4, <1>5, <1>6, <1>7, <1>8, <1>9, <1>10, <1>11, <1>12, <1>13 DEF Next

(* The frame numbers that the decoder keeps are in the range of frame_num,  *)
(* there is an object for each slice of the picture at work, and active_pps *)
(* and pNextPPS name parameter sets, whatever is lost, sent again or left   *)
(* out of the stream.                                                       *)
THEOREM TypeCorrect == Spec => []TypeOK
<1>1. Init => TypeInv BY TypeInit
<1>2. TypeInv /\ [Next]_vars => TypeInv' BY TypeNext
<1>3. TypeInv => TypeOK BY DEF TypeInv
<1>4. QED BY <1>1, <1>2, <1>3, PTL DEF Spec

-----------------------------------------------------------------------------
(* The slices of the picture at work, and the first object, which the next  *)
(* slice is read into when there are none, have the order counts of         *)
(* dec_picture.                                                             *)
AgreeInv ==
  pc \in {"read", "decode", "last"} /\ (n > 0 \/ pic # NoPicture) =>
    slots[1].poc = pic.poc /\ \A i \in 1 .. n : slots[i].poc = pic.poc


LEMMA AgreeRead ==
  ASSUME TypeInv, AgreeInv, NEW a \in Arriving \cup Redundant, Sent(a),
         ReadFirst(a) \/ ReadSlice(a) \/ ReadAhead(a) \/ Discard(a)
  PROVE  AgreeInv'
<1>1. GoodHead(a.head) BY Reads
<1>2. IsSlice(ReadInto(a)) /\ ReadInto(a).poc = Objects[n + 1].poc BY <1>1, ReadsInto
<1>3. n \in Nat /\ Objects[1] = slots[1] BY TypesOf, ObjectsGood
<1>4. IsSlice(next) BY DEF TypeInv
<1>5. CASE ReadFirst(a) BY <1>5 DEF ReadFirst, AgreeInv
<1>6. CASE ReadSlice(a)
  <2>1. /\ slots' = [Objects EXCEPT ![n + 1] = CopyPoc(ReadInto(a))] /\ n' = n + 1 /\ pic' = pic
        /\ pc = "read" /\ pic # NoPicture
    BY <1>6 DEF ReadSlice, HeaderRead, IsNewPicture
  <2>2. slots[1].poc = pic.poc /\ \A i \in 1 .. n : slots[i].poc = pic.poc BY <2>1 DEF AgreeInv
  <2> DEFINE x == CopyPoc(ReadInto(a))
  <2>3. IsSlice(x) BY <1>2, CopyGood
  <2>4. x.poc = pic.poc
    <3>1. CASE n > 0 BY <1>2, <2>2, <3>1, CopyGood DEF Current
    <3>2. CASE n = 0
      <4>1. x = ReadInto(a) BY <1>2, <3>2, CopyGood
      <4>2. QED BY <1>2, <1>3, <2>2, <3>2, <4>1
    <3>3. QED BY <1>3, <3>1, <3>2
  <2> HIDE DEF x
  <2>5. slots'[n + 1] = x /\ \A j \in 1 .. n : j # n + 1 => slots'[j] = slots[j]
    BY <2>1, <2>3, ObjectChanged DEF x
  <2>6. \A i \in 1 .. n' : slots'[i].poc = pic.poc
    <3> TAKE i \in 1 .. n'
    <3>1. CASE i = n + 1 BY <3>1, <2>4, <2>5
    <3>2. CASE i # n + 1
      <4>1. i \in 1 .. n BY <1>3, <2>1, <3>2
      <4>2. QED BY <2>2, <2>5, <3>2, <4>1
    <3>3. QED BY <3>1, <3>2
  <2>7. 1 \in 1 .. n' BY <1>3, <2>1
  <2>8. QED BY <2>1, <2>6, <2>7 DEF AgreeInv
<1>7. CASE ReadAhead(a)
  <2>1. /\ slots' = [Objects EXCEPT ![n + 1] = next] /\ n' = n /\ pic' = pic /\ pc = "read" /\ n > 0
    BY <1>7 DEF ReadAhead, HeaderRead
  <2>2. \A i \in 1 .. n : slots[i].poc = pic.poc BY <2>1 DEF AgreeInv
  <2>3. \A j \in 1 .. n : j # n + 1 => slots'[j] = slots[j] BY <2>1, <1>4, ObjectChanged
  <2>4. \A j \in 1 .. n : slots'[j].poc = pic.poc
    <3> TAKE j \in 1 .. n
    <3>1. j # n + 1 BY <1>3
    <3>2. QED BY <2>2, <2>3, <3>1
  <2>5. 1 \in 1 .. n BY <1>3, <2>1
  <2>6. QED BY <2>1, <2>4, <2>5 DEF AgreeInv
<1>8. CASE Discard(a)
  <2>1. /\ slots' = [Objects EXCEPT ![n + 1] = ReadInto(a)] /\ n' = n /\ pic' = pic /\ pc = "read"
        /\ n > 0 \/ pic # NoPicture
    BY <1>8 DEF Discard, HeaderRead, IsNewPicture
  <2>2. slots[1].poc = pic.poc /\ \A i \in 1 .. n : slots[i].poc = pic.poc BY <2>1 DEF AgreeInv
  <2>3. /\ slots'[n + 1] = ReadInto(a)
        /\ \A j \in 1 .. n : j # n + 1 => slots'[j] = slots[j]
    BY <2>1, <1>2, ObjectChanged
  <2>4. \A j \in 1 .. n : slots'[j].poc = pic.poc
    <3> TAKE j \in 1 .. n
    <3>1. j # n + 1 BY <1>3
    <3>2. QED BY <2>2, <2>3, <3>1
  <2>5. slots'[1].poc = pic.poc
    <3>1. CASE n = 0 BY <1>2, <1>3, <2>2, <2>3, <3>1
    <3>2. CASE n > 0
      <4>1. 1 \in 1 .. n BY <1>3, <3>2
      <4>2. QED BY <2>4, <4>1
    <3>3. QED BY <1>3, <3>1, <3>2
  <2>6. QED BY <2>1, <2>4, <2>5 DEF AgreeInv
<1>9. QED BY <1>5, <1>6, <1>7, <1>8

LEMMA AgreeNext == TypeInv /\ AgreeInv /\ [Next]_vars => AgreeInv'
<1> SUFFICES ASSUME TypeInv, AgreeInv, [Next]_vars PROVE AgreeInv' OBVIOUS
<1>1. CASE Start \/ UnintentionalLoss \/ FillGap
  BY <1>1 DEF Start, UnintentionalLoss, FillGap, AgreeInv
<1>2. CASE InitPicture
  <2> DEFINE d == DecodePoc(stream.type, mem, Current.head, Current.poc)
  <2>1. /\ slots' = [slots EXCEPT ![1].poc = d.poc]
        /\ pic' = [head |-> Current.head, poc |-> d.poc]
        /\ n' \in {0, 1}
    BY <1>2 DEF InitPicture
  <2> HIDE DEF d
  <2>2. slots'[1].poc = d.poc /\ pic'.poc = d.poc BY <2>1, CountsGiven
  <2>3. \A i \in 1 .. n' : i = 1 BY <2>1
  <2>4. QED BY <2>2, <2>3 DEF AgreeInv
<1>3. CASE ReceiveFirst \/ ReceiveSlice \/ ReceiveAhead \/ ReceiveRedundant
  <2>1. \E a \in Arriving \cup Redundant :
          Sent(a) /\ (ReadFirst(a) \/ ReadSlice(a) \/ ReadAhead(a) \/ Discard(a))
    BY <1>3 DEF ReceiveFirst, ReceiveSlice, ReceiveAhead, ReceiveRedundant
  <2>2. QED BY <2>1, AgreeRead
<1>4. CASE LoseSlice \/ ReceivePps \/ Ended \/ UNCHANGED vars
  BY <1>4 DEF LoseSlice, ReceivePps, Ended, vars, decoder, AgreeInv
<1>5. CASE EndOfStream
  <2>1. /\ slots' = [Objects EXCEPT ![n + 1] = next] /\ n' = n /\ pic' = pic /\ pc = "read" /\ n > 0
    BY <1>5 DEF EndOfStream
  <2>2. \A i \in 1 .. n : slots[i].poc = pic.poc BY <2>1 DEF AgreeInv
  <2>3. IsSlice(next) /\ n \in Nat BY TypesOf DEF TypeInv
  <2>4. \A j \in 1 .. n : j # n + 1 => slots'[j] = slots[j] BY <2>1, <2>3, ObjectChanged
  <2>5. \A j \in 1 .. n : slots'[j].poc = pic.poc
    <3> TAKE j \in 1 .. n
    <3>1. j # n + 1 BY <2>3
    <3>2. QED BY <2>2, <2>4, <3>1
  <2>6. 1 \in 1 .. n BY <2>1, <2>3
  <2>7. QED BY <2>1, <2>5, <2>6 DEF AgreeInv
<1>6. CASE Decode
  <2>1. /\ n' = 0 /\ slots' = slots /\ pc \in {"decode", "last"} /\ pic' \in {pic, NoPicture}
    BY <1>6 DEF Decode, StorePicture
  <2>2. SUFFICES ASSUME pic' = pic, pic # NoPicture PROVE slots[1].poc = pic.poc BY <2>1 DEF AgreeInv
  <2>3. QED BY <2>1, <2>2 DEF AgreeInv
<1>7. QED BY <1>1, <1>2, <1>3, <1>4, <1>5, <1>6 DEF Next

(* All slices of a picture are decoded with the order counts of its first   *)
(* one: CopyPOC gives them those of slot 0, and slot 0 keeps them though    *)
(* objects change places between the lists of two pictures, and though the  *)
(* stream may lose slices or send redundant ones.                           *)
THEOREM SlicesShareCounts == Spec => []SlicesAgree
<1>1. Init => TypeInv /\ AgreeInv
  <2>1. Init => AgreeInv BY DEF Init, AgreeInv
  <2>2. QED BY <2>1, TypeInit
<1>2. TypeInv /\ AgreeInv /\ [Next]_vars => TypeInv' /\ AgreeInv' BY TypeNext, AgreeNext
<1>3. TypeInv /\ AgreeInv => SlicesAgree
  <2> SUFFICES ASSUME TypeInv, AgreeInv, pc \in {"decode", "last"}, NEW s \in Decoded PROVE s.poc = pic.poc
    BY DEF SlicesAgree
  <2>1. PICK i \in 1 .. n : s = slots[i] BY DEF Decoded
  <2>2. n > 0 BY <2>1, TypesOf
  <2>3. QED BY <2>1, <2>2 DEF AgreeInv
<1>4. QED BY <1>1, <1>2, <1>3, PTL DEF Spec

-----------------------------------------------------------------------------
(* old is the last slice of the stream; the set that h refers to was last   *)
(* sent with the content h was written for; or pNextPPS keeps that content. *)
Latest == old = stream.heard /\ old.id # 0
WrittenFor(h) == stream.versions[h.pps] = h.version
Kept(h) ==
  \/ ~nextPps.valid /\ WrittenFor(h)
  \/ nextPps.valid /\ nextPps.id = h.pps /\ nextPps.version = h.version

(* Of a stream that lost nothing: in which content the sets are at each     *)
(* place of decode_one_frame, and which slices the objects hold.            *)
SetsInv ==
  /\ stream.head = stream.heard
  /\ pc \in {"init", "read", "decode", "last"} => pps = stream.versions
  /\ pc = "start" =>
       /\ newframe /\ next.head = old /\ Latest /\ WrittenFor(old)
       /\ IF nextPps.valid
          THEN /\ nextPps.version = stream.versions[nextPps.id]
               /\ \A j \in PicParameterSets \ {nextPps.id} : pps[j] = stream.versions[j]
          ELSE pps = stream.versions
  /\ pc = "init" =>
       /\ Current.head = old /\ Latest /\ WrittenFor(old) /\ (newframe \/ ~Current.redundant)
       /\ ~nextPps.valid /\ activePps = old.pps
  /\ pc = "read" /\ n = 0 =>
       ~nextPps.valid /\ stream.head = NoHead /\ activePps = None /\ pic = NoPicture
  /\ pc = "read" /\ n > 0 =>
       /\ pic.head = old /\ Latest /\ Kept(old) /\ \A i \in 1 .. n : slots[i].head = old
       /\ IF nextPps.valid THEN activePps = None /\ stream.closed /\ stream.left = <<>>
                           ELSE activePps = old.pps
  /\ pc = "decode" => newframe /\ next.head = old /\ Latest /\ WrittenFor(old)
  /\ pc \in {"decode", "last"} =>
       /\ n > 0 /\ Current.head.pps \in PicParameterSets /\ Kept(Current.head)
       /\ \A i \in 1 .. n : slots[i].head = Current.head

PpsInv == lost = {} => SetsInv

(* Nothing is lost in the step either, and the arriving slice is one of the *)
(* picture of old or the first of the next.                                 *)
LEMMA SetsRead ==
  ASSUME TypeInv, PpsInv, NEW a \in Arriving \cup Redundant, Sent(a), HeaderRead(a), lost' = {}
  PROVE  /\ SetsInv /\ stream'.versions = stream.versions /\ stream'.head = a.head /\ stream'.heard = a.head
         /\ a.head.id # 0 /\ a.head.pps \in PicParameterSets
         /\ pps' = stream'.versions /\ nextPps' = nextPps /\ pic' = pic /\ activePps' = a.head.pps /\ pc = "read"
         /\ \/ a.head = stream.head /\ (stream.left # <<>> \/ ~ stream.closed)
               /\ (a.redundant => stream.head.id # 0)
            \/ /\ Key(a.head) # Key(stream.head) /\ ~ a.redundant /\ a.head.version = stream.versions[a.head.pps]
<1>1. /\ a.head.id \in 1 .. MaxPictures /\ a.head.pps \in PicParameterSets
      /\ stream'.versions = stream.versions /\ stream'.heard = a.head
      /\ stream'.head = a.head /\ lost \subseteq lost'
      /\ \/ a.head = stream.head /\ stream'.closed = stream.closed /\ ~ a.redundant
            /\ stream.left # <<>>
         \/ a.head = stream.head /\ a.redundant /\ stream.left = <<>> /\ ~ stream.closed
            /\ ~ stream'.closed
         \/ /\ stream.left = <<>> /\ ~ stream'.closed /\ Key(a.head) # Key(stream.head) /\ ~ a.redundant
            /\ a.head.id = stream.head.id + 1 /\ a.head.version = stream.versions[a.head.pps]
  BY Reads
<1>2. lost = {} BY <1>1
<1>3. SetsInv BY <1>2 DEF PpsInv
<1>4. pc = "read" /\ pps' = pps /\ nextPps' = nextPps /\ pic' = pic /\ activePps' = a.head.pps BY DEF HeaderRead
<1>5. pps = stream.versions BY <1>3, <1>4 DEF SetsInv
<1>6. a.head.id # 0 /\ (a.head = stream.head => stream.head.id # 0) BY <1>1
<1>7. QED BY <1>1, <1>3, <1>4, <1>5, <1>6

(* A slice of another picture has a key of its own.                         *)
LEMMA SetsFirst == ASSUME TypeInv, PpsInv, ReceiveFirst, lost' = {} PROVE SetsInv'
<1>1. PICK a \in Arriving \cup Redundant : ReadFirst(a) /\ Sent(a) BY DEF ReceiveFirst
<1>2. HeaderRead(a) /\ n = 0 /\ slots' = [Objects EXCEPT ![1] = ReadInto(a)] /\ pc' = "init"
      /\ old' = (IF Discarded(ReadInto(a)) THEN old ELSE a.head)
  BY <1>1 DEF ReadFirst
<1>3. /\ SetsInv /\ stream'.versions = stream.versions /\ stream'.head = a.head /\ stream'.heard = a.head
      /\ a.head.id # 0 /\ pps' = stream'.versions /\ nextPps' = nextPps /\ activePps' = a.head.pps /\ pc = "read"
      /\ \/ a.head = stream.head /\ (a.redundant => stream.head.id # 0)
         \/ ~ a.redundant /\ a.head.version = stream.versions[a.head.pps]
  BY <1>1, <1>2, SetsRead
<1>4. stream.head = NoHead /\ ~ nextPps.valid BY <1>2, <1>3 DEF SetsInv
<1>5. NoHead.id = 0 BY DEF NoHead
<1>6. ~ a.redundant /\ a.head.version = stream.versions[a.head.pps] BY <1>3, <1>4, <1>5
<1>7. GoodHead(a.head) BY <1>1, Reads
<1>8. IsSlice(ReadInto(a)) /\ ReadInto(a).head = a.head /\ ReadInto(a).redundant = a.redundant
  BY <1>7, ReadsInto
<1>9. slots'[1] = ReadInto(a) BY <1>2, <1>8, ObjectChanged
<1>10. old' = a.head BY <1>2, <1>6, <1>8 DEF Discarded
<1>11. Current'.head = old' /\ ~ Current'.redundant BY <1>6, <1>8, <1>9, <1>10 DEF Current
<1>12. QED BY <1>2, <1>3, <1>4, <1>6, <1>10, <1>11 DEF SetsInv, Latest, WrittenFor

LEMMA SetsSlice == ASSUME TypeInv, PpsInv, ReceiveSlice, lost' = {} PROVE SetsInv'
<1>1. PICK a \in Arriving \cup Redundant : ReadSlice(a) /\ Sent(a) BY DEF ReceiveSlice
<1>2. /\ HeaderRead(a) /\ slots' = [Objects EXCEPT ![n + 1] = CopyPoc(ReadInto(a))] /\ pc' = pc
      /\ old' = a.head /\ n' = n + 1 /\ pic # NoPicture /\ Key(a.head) = Key(old)
  BY <1>1 DEF ReadSlice, IsNewPicture
<1>3. /\ SetsInv /\ stream'.versions = stream.versions /\ stream'.head = a.head /\ stream'.heard = a.head
      /\ a.head.id # 0 /\ a.head.pps \in PicParameterSets
      /\ pps' = stream'.versions /\ nextPps' = nextPps /\ pic' = pic /\ activePps' = a.head.pps /\ pc = "read"
      /\ \/ a.head = stream.head /\ (stream.left # <<>> \/ ~ stream.closed)
         \/ /\ Key(a.head) # Key(stream.head) /\ a.head.version = stream.versions[a.head.pps] /\ ~ a.redundant
  BY <1>1, <1>2, SetsRead
<1>4. n \in Nat BY TypesOf
<1>5. GoodHead(a.head) BY <1>1, Reads
<1>6. n > 0
  <2>1. SUFFICES ASSUME n = 0 PROVE FALSE BY <1>4
  <2>2. pic = NoPicture BY <1>3, <2>1 DEF SetsInv
  <2>3. QED BY <1>2, <2>2
<1>7. /\ pic.head = old /\ Latest /\ Kept(old) /\ \A i \in 1 .. n : slots[i].head = old
      /\ IF nextPps.valid THEN activePps = None /\ stream.closed /\ stream.left = <<>>
                          ELSE activePps = old.pps
  BY <1>3, <1>6 DEF SetsInv
<1>8. old = stream.head BY <1>3, <1>7 DEF SetsInv, Latest
<1>9. a.head = old /\ ~ nextPps.valid BY <1>2, <1>3, <1>7, <1>8
<1> DEFINE x == CopyPoc(ReadInto(a))
<1>10. IsSlice(x) /\ x.head = old BY <1>5, <1>9, ReadsInto, CopyGood
<1> HIDE DEF x
<1>11. slots'[n + 1] = x /\ \A j \in 1 .. n : j # n + 1 => slots'[j] = slots[j]
  BY <1>2, <1>10, ObjectChanged DEF x
<1>12. \A i \in 1 .. n' : slots'[i].head = old
  <2> TAKE i \in 1 .. n'
  <2>1. CASE i = n + 1 BY <1>10, <1>11, <2>1
  <2>2. CASE i # n + 1
    <3>1. i \in 1 .. n BY <1>2, <1>4, <2>2
    <3>2. QED BY <1>7, <1>11, <2>2, <3>1
  <2>3. QED BY <2>1, <2>2
<1>13. n' > 0 /\ n' # 0 BY <1>2, <1>4
<1>14. WrittenFor(old) BY <1>7, <1>9 DEF Kept
<1>15. old' = old /\ Latest' /\ Kept(old)' BY <1>2, <1>3, <1>9, <1>14 DEF Latest, Kept, WrittenFor
<1>16. QED BY <1>2, <1>3, <1>7, <1>9, <1>12, <1>13, <1>15 DEF SetsInv

LEMMA SetsAhead == ASSUME TypeInv, PpsInv, ReceiveAhead, lost' = {} PROVE SetsInv'
<1>1. PICK a \in Arriving \cup Redundant : ReadAhead(a) /\ Sent(a) BY DEF ReceiveAhead
<1>2. /\ HeaderRead(a) /\ slots' = [Objects EXCEPT ![n + 1] = next] /\ next' = ReadInto(a) /\ pc' = "decode"
      /\ old' = a.head /\ n' = n /\ n > 0 /\ newframe' = TRUE
      /\ pic = NoPicture \/ Key(a.head) # Key(old)
  BY <1>1 DEF ReadAhead, IsNewPicture
<1>3. /\ SetsInv /\ stream'.versions = stream.versions /\ stream'.head = a.head /\ stream'.heard = a.head
      /\ a.head.id # 0 /\ a.head.pps \in PicParameterSets
      /\ pps' = stream'.versions /\ nextPps' = nextPps /\ pic' = pic /\ activePps' = a.head.pps /\ pc = "read"
      /\ \/ a.head = stream.head /\ (stream.left # <<>> \/ ~ stream.closed)
         \/ /\ Key(a.head) # Key(stream.head) /\ a.head.version = stream.versions[a.head.pps] /\ ~ a.redundant
  BY <1>1, <1>2, SetsRead
<1>4. n \in Nat /\ IsSlice(next) BY TypesOf DEF TypeInv
<1>5. GoodHead(a.head) BY <1>1, Reads
<1>6. /\ pic.head = old /\ Latest /\ Kept(old) /\ \A i \in 1 .. n : slots[i].head = old
  BY <1>2, <1>3 DEF SetsInv
<1>7. old = stream.head /\ old.id # 0 BY <1>3, <1>6 DEF SetsInv, Latest
<1>8. pic # NoPicture BY <1>6, <1>7, NoHeadGood DEF NoHead
<1>9. a.head.version = stream.versions[a.head.pps] BY <1>2, <1>3, <1>7, <1>8
<1>10. next'.head = a.head BY <1>2, <1>5, ReadsInto
<1>11. \A j \in 1 .. n : j # n + 1 => slots'[j] = slots[j] BY <1>2, <1>4, ObjectChanged
<1>12. \A j \in 1 .. n : slots'[j].head = old
  <2> TAKE j \in 1 .. n
  <2>1. j # n + 1 BY <1>4
  <2>2. QED BY <1>6, <1>11, <2>1
<1>13. Current'.head = old
  <2>1. 1 \in 1 .. n BY <1>2, <1>4
  <2>2. QED BY <1>12, <2>1 DEF Current
<1>14. GoodHead(old) BY DEF TypeInv
<1>15. old.pps \in PicParameterSets BY <1>7, <1>14 DEF GoodHead, None
<1> DEFINE c == old
<1>16. Kept(c) BY <1>6
<1>17. (stream'.versions = stream.versions /\ nextPps' = nextPps) BY <1>3
<1>18. Current'.head = c /\ c.pps \in PicParameterSets /\ \A j \in 1 .. n : slots'[j].head = c
  BY <1>12, <1>13, <1>15
<1>19. \/ ~nextPps'.valid /\ stream'.versions[Current'.head.pps] = Current'.head.version
       \/ nextPps'.valid /\ nextPps'.id = Current'.head.pps /\ nextPps'.version = Current'.head.version
  BY <1>16, <1>17, <1>18 DEF Kept, WrittenFor
<1> HIDE DEF c
<1>20. QED BY <1>2, <1>3, <1>9, <1>10, <1>18, <1>19 DEF SetsInv, Latest, Kept, WrittenFor

LEMMA SetsRedundant == ASSUME TypeInv, PpsInv, ReceiveRedundant, lost' = {} PROVE SetsInv'
<1>1. PICK a \in Arriving \cup Redundant : Discard(a) /\ Sent(a) /\ a \in Redundant BY DEF ReceiveRedundant
<1>2. /\ HeaderRead(a) /\ slots' = [Objects EXCEPT ![n + 1] = ReadInto(a)]
      /\ UNCHANGED <<next, n, newframe, old>> /\ (n > 0 \/ ~IsNewPicture(a))
      /\ pc' = IF IsNewPicture(a) THEN "decode" ELSE "read"
  BY <1>1 DEF Discard
<1>3. /\ SetsInv /\ stream'.versions = stream.versions /\ stream'.head = a.head /\ stream'.heard = a.head
      /\ a.head.id # 0 /\ a.head.pps \in PicParameterSets
      /\ pps' = stream'.versions /\ nextPps' = nextPps /\ pic' = pic /\ activePps' = a.head.pps /\ pc = "read"
      /\ \/ a.head = stream.head /\ (stream.left # <<>> \/ ~ stream.closed)
         \/ /\ Key(a.head) # Key(stream.head) /\ a.head.version = stream.versions[a.head.pps] /\ ~ a.redundant
  BY <1>1, <1>2, SetsRead
<1>4. n \in Nat BY TypesOf
<1>5. GoodHead(a.head) BY <1>1, Reads
<1>6. a.redundant /\ a.head = stream.head BY <1>1, <1>3 DEF Redundant
<1>7. n > 0
  <2>1. SUFFICES ASSUME n = 0 PROVE FALSE BY <1>4
  <2>2. pic = NoPicture BY <1>3, <2>1 DEF SetsInv
  <2>3. QED BY <1>2, <2>1, <2>2 DEF IsNewPicture
<1>8. /\ pic.head = old /\ Latest /\ Kept(old) /\ \A i \in 1 .. n : slots[i].head = old
      /\ IF nextPps.valid THEN activePps = None /\ stream.closed /\ stream.left = <<>>
                          ELSE activePps = old.pps
  BY <1>3, <1>7 DEF SetsInv
<1>9. old = stream.head /\ old.id # 0 BY <1>3, <1>8 DEF SetsInv, Latest
<1>10. pic # NoPicture BY <1>8, <1>9, NoHeadGood DEF NoHead
<1>11. ~IsNewPicture(a) /\ pc' = "read" BY <1>2, <1>6, <1>9, <1>10 DEF IsNewPicture
<1>12. ~ nextPps.valid BY <1>3, <1>6, <1>8
<1>13. IsSlice(ReadInto(a)) BY <1>5, ReadsInto
<1>14. \A j \in 1 .. n : j # n + 1 => slots'[j] = slots[j] BY <1>2, <1>13, ObjectChanged
<1>15. \A j \in 1 .. n : slots'[j].head = old
  <2> TAKE j \in 1 .. n
  <2>1. j # n + 1 BY <1>4
  <2>2. QED BY <1>8, <1>14, <2>1
<1>16. WrittenFor(old) BY <1>8, <1>12 DEF Kept
<1>17. Latest' /\ Kept(old)' BY <1>2, <1>3, <1>6, <1>9, <1>12, <1>16 DEF Latest, Kept, WrittenFor
<1>18. QED BY <1>2, <1>3, <1>6, <1>7, <1>8, <1>9, <1>11, <1>12, <1>15, <1>17 DEF SetsInv

LEMMA SetsStart == ASSUME TypeInv, SetsInv, Start PROVE SetsInv'
<1>1. /\ pc = "start" /\ RestorePps /\ slots' = [slots EXCEPT ![1] = next] /\ activePps' = next.head.pps
      /\ pc' = "init" /\ UNCHANGED <<newframe, old, stream>>
  BY DEF Start
<1>2. /\ newframe /\ next.head = old /\ Latest /\ WrittenFor(old) /\ stream.head = stream.heard
      /\ IF nextPps.valid
          THEN /\ nextPps.version = stream.versions[nextPps.id]
               /\ \A j \in PicParameterSets \ {nextPps.id} : pps[j] = stream.versions[j]
          ELSE pps = stream.versions
  BY <1>1 DEF SetsInv
<1>3. slots'[1] = next BY <1>1, TypesOf
<1>4. stream.versions \in [PicParameterSets -> {0, 1}] /\ pps \in [PicParameterSets -> {0, 1}]
  BY DEF TypeInv, TypeOK, StreamGood
<1>5. pps' = stream.versions /\ ~ nextPps'.valid
  <2>1. CASE nextPps.valid
    <3>1. pps' = [pps EXCEPT ![nextPps.id] = nextPps.version] /\ nextPps' = [nextPps EXCEPT !.valid = FALSE]
      BY <1>1, <2>1 DEF RestorePps
    <3>2. \A j \in PicParameterSets : pps'[j] = stream.versions[j] BY <1>2, <1>4, <2>1, <3>1
    <3>3. pps' = stream.versions BY <1>4, <3>1, <3>2
    <3>4. nextPps' = [valid |-> FALSE, id |-> nextPps.id, version |-> nextPps.version] BY <3>1 DEF TypeInv
    <3>5. QED BY <3>3, <3>4
  <2>2. CASE ~ nextPps.valid BY <1>1, <1>2, <2>2 DEF RestorePps
  <2>3. QED BY <2>1, <2>2
<1>6. Current'.head = old BY <1>2, <1>3 DEF Current
<1>7. QED BY <1>1, <1>2, <1>5, <1>6 DEF SetsInv, Latest, WrittenFor

LEMMA SetsGap == ASSUME TypeInv, SetsInv, FillGap PROVE SetsInv'
<1>1. /\ pc = "init" /\ slots' = [slots EXCEPT ![1].poc = GapPoc.poc]
      /\ UNCHANGED <<next, n, newframe, old, pic, pps, nextPps, activePps, pc, stream>>
  BY DEF FillGap
<1>2. Current'.head = Current.head /\ Current'.redundant = Current.redundant BY <1>1, CountsGiven DEF Current
<1>3. QED BY <1>1, <1>2 DEF SetsInv, Latest, WrittenFor

LEMMA SetsInitPicture == ASSUME TypeInv, SetsInv, InitPicture PROVE SetsInv'
<1> DEFINE d == DecodePoc(stream.type, mem, Current.head, Current.poc)
<1>1. /\ pc = "init" /\ slots' = [slots EXCEPT ![1].poc = d.poc]
      /\ pic' = [head |-> Current.head, poc |-> d.poc]
      /\ IF newframe \/ ~Discarded(Current)
         THEN n' = 1 /\ pc' = "read"
         ELSE n' = 0 /\ pc' = "decode"
      /\ UNCHANGED <<next, newframe, old, prevNum, pps, nextPps, activePps, stream>>
  BY DEF InitPicture
<1> HIDE DEF d
<1>2. /\ Current.head = old /\ Latest /\ WrittenFor(old) /\ (newframe \/ ~Current.redundant)
      /\ ~nextPps.valid /\ activePps = old.pps /\ pps = stream.versions /\ stream.head = stream.heard
  BY <1>1 DEF SetsInv
<1>3. n' = 1 /\ pc' = "read" BY <1>1, <1>2 DEF Discarded
<1>4. slots'[1].head = old BY <1>1, <1>2, CountsGiven DEF Current
<1>5. pic'.head = old BY <1>1, <1>2
<1>6. \A i \in 1 .. n' : slots'[i].head = old
  <2>1. \A i \in 1 .. n' : i = 1 BY <1>3
  <2>2. QED BY <1>4, <2>1
<1>7. Latest' /\ Kept(old)' BY <1>1, <1>2 DEF Latest, Kept, WrittenFor
<1>8. QED BY <1>1, <1>2, <1>3, <1>5, <1>6, <1>7 DEF SetsInv

LEMMA SetsPps == ASSUME TypeInv, SetsInv, ReceivePps PROVE SetsInv'
<1>1. PICK i \in PicParameterSets : stream' = Resent(stream, i) /\ ProcessPps(i, stream'.versions[i])
  BY DEF ReceivePps
<1>2. /\ pc = "read" /\ stream.left = <<>>
      /\ UNCHANGED <<slots, next, n, newframe, old, pic, preNum, prevNum, mem, pc, stored, lost>>
  BY DEF ReceivePps
<1>3. StreamGood(stream) /\ pps = stream.versions /\ stream.head = stream.heard
  BY <1>2 DEF TypeInv, SetsInv
<1>4. /\ stream'.closed /\ stream'.head = stream.head
      /\ stream'.heard = stream.heard /\ stream'.left = stream.left
      /\ stream'.versions = [stream.versions EXCEPT ![i] = 1 - stream.versions[i]]
      /\ stream'.versions[i] # stream.versions[i]
  BY <1>1, <1>3, Resends
<1>5. stream.versions \in [PicParameterSets -> {0, 1}] BY <1>3 DEF StreamGood
<1> DEFINE v == stream'.versions[i]
<1>6. /\ pps' = [pps EXCEPT ![i] = v]
      /\ IF activePps = i /\ v # pps[i]
         THEN nextPps' = [valid |-> TRUE, id |-> i, version |-> pps[i]] /\ activePps' = None
         ELSE UNCHANGED <<nextPps, activePps>>
  BY <1>1 DEF ProcessPps
<1>7. v # pps[i] /\ v = 1 - stream.versions[i] BY <1>3, <1>4, <1>5
<1>8. \A j \in PicParameterSets \ {i} : stream'.versions[j] = stream.versions[j] BY <1>4, <1>5
<1>9. pps' = stream'.versions
  <2>1. pps' = [stream.versions EXCEPT ![i] = v] BY <1>3, <1>6
  <2>2. stream'.versions = [stream.versions EXCEPT ![i] = v] BY <1>4, <1>7
  <2>3. QED BY <2>1, <2>2
<1>10. i # None BY ParameterSetsAssumption DEF None
<1> HIDE DEF v
<1>11. CASE n = 0
  <2>1. ~nextPps.valid /\ stream.head = NoHead /\ activePps = None /\ pic = NoPicture
    BY <1>2, <1>11 DEF SetsInv
  <2>2. UNCHANGED <<nextPps, activePps>> BY <1>6, <1>10, <2>1
  <2>3. QED BY <1>2, <1>3, <1>4, <1>9, <1>11, <2>1, <2>2 DEF SetsInv
<1>12. CASE n > 0
  <2>1. /\ pic.head = old /\ Latest /\ Kept(old) /\ \A j \in 1 .. n : slots[j].head = old
        /\ IF nextPps.valid THEN activePps = None /\ stream.closed /\ stream.left = <<>>
                            ELSE activePps = old.pps
    BY <1>2, <1>12 DEF SetsInv
  <2>2. GoodHead(old) /\ old.id # 0 BY <2>1 DEF TypeInv, Latest
  <2>3. old.pps \in PicParameterSets BY <2>2 DEF GoodHead, None
  <2>4. n # 0 BY <1>12
  <2>5. Latest' BY <1>2, <1>4, <2>1 DEF Latest
  <2>6. CASE activePps = i
    <3>1. nextPps' = [valid |-> TRUE, id |-> i, version |-> pps[i]] /\ activePps' = None BY <1>6, <1>7, <2>6
    <3>2. nextPps'.valid /\ nextPps'.id = i /\ nextPps'.version = pps[i] BY <3>1
    <3>3. ~ nextPps.valid /\ old.pps = i BY <1>10, <2>1, <2>6
    <3>4. pps[i] = old.version BY <1>3, <2>1, <3>3 DEF Kept, WrittenFor
    <3>5. Kept(old)' BY <1>2, <3>2, <3>3, <3>4 DEF Kept
    <3>6. QED BY <1>2, <1>3, <1>4, <1>9, <1>12, <2>1, <2>4, <2>5, <3>1, <3>2, <3>5 DEF SetsInv
  <2>7. CASE activePps # i
    <3>1. UNCHANGED <<nextPps, activePps>> BY <1>6, <2>7
    <3>2. ~ nextPps.valid => old.pps # i BY <2>1, <2>7
    <3>3. Kept(old)' BY <1>2, <1>8, <2>1, <2>3, <3>1, <3>2 DEF Kept, WrittenFor
    <3>4. QED BY <1>2, <1>3, <1>4, <1>9, <1>12, <2>1, <2>4, <2>5, <3>1, <3>3 DEF SetsInv
  <2>8. QED BY <2>6, <2>7
<1>13. n \in Nat BY TypesOf
<1>14. QED BY <1>11, <1>12, <1>13

LEMMA SetsEnd == ASSUME TypeInv, SetsInv, EndOfStream PROVE SetsInv'
<1>1. /\ pc = "read" /\ n > 0 /\ slots' = [Objects EXCEPT ![n + 1] = next] /\ pc' = "last"
      /\ UNCHANGED <<n, pic, preNum, prevNum, mem, pps, nextPps, activePps, stored, stream, lost, spent>>
  BY DEF EndOfStream
<1>2. /\ pic.head = old /\ Latest /\ Kept(old) /\ \A i \in 1 .. n : slots[i].head = old
      /\ stream.head = stream.heard /\ pps = stream.versions
  BY <1>1 DEF SetsInv
<1>3. IsSlice(next) /\ n \in Nat /\ GoodHead(old) BY TypesOf DEF TypeInv
<1>4. \A j \in 1 .. n : j # n + 1 => slots'[j] = slots[j] BY <1>1, <1>3, ObjectChanged
<1>5. \A j \in 1 .. n : slots'[j].head = old
  <2> TAKE j \in 1 .. n
  <2>1. j # n + 1 BY <1>3
  <2>2. QED BY <1>2, <1>4, <2>1
<1>6. Current'.head = old
  <2>1. 1 \in 1 .. n BY <1>1, <1>3
  <2>2. QED BY <1>5, <2>1 DEF Current
<1>7. old.pps \in PicParameterSets BY <1>2, <1>3 DEF Latest, GoodHead, None
<1>8. \/ ~nextPps'.valid /\ stream'.versions[Current'.head.pps] = Current'.head.version
      \/ nextPps'.valid /\ nextPps'.id = Current'.head.pps /\ nextPps'.version = Current'.head.version
  BY <1>1, <1>2, <1>6 DEF Kept, WrittenFor
<1>9. QED BY <1>1, <1>2, <1>5, <1>6, <1>7, <1>8 DEF SetsInv, Kept, WrittenFor

LEMMA SetsDecode ==
  ASSUME TypeInv, SetsInv, Decode
  PROVE  SetsInv' /\ pps'[Current.head.pps] = Current.head.version
<1>1. /\ pc \in {"decode", "last"} /\ SwapPps /\ n' = 0
      /\ pc' = IF pc = "last" THEN "end" ELSE IF newframe THEN "start" ELSE "read"
      /\ UNCHANGED <<slots, next, newframe, old, stream, lost, spent>>
  BY DEF Decode
<1> DEFINE c == Current.head
           i == nextPps.id
<1>2. /\ c.pps \in PicParameterSets /\ Kept(c) /\ pps = stream.versions /\ stream.head = stream.heard
      /\ pc = "decode" => newframe /\ next.head = old /\ Latest /\ WrittenFor(old)
  BY <1>1 DEF SetsInv
<1>3. /\ nextPps' = [valid |-> nextPps.valid, id |-> i, version |-> nextPps'.version]
      /\ IF nextPps.valid /\ i = c.pps
         THEN pps' = [pps EXCEPT ![i] = nextPps.version] /\ nextPps'.version = pps[i]
         ELSE UNCHANGED <<pps, nextPps>>
  BY <1>1, Swaps
<1>4. pps \in [PicParameterSets -> {0, 1}] BY DEF TypeInv, TypeOK
<1>5. nextPps'.valid = nextPps.valid /\ nextPps'.id = i BY <1>3
<1> HIDE DEF c
<1>6. CASE nextPps.valid
  <2>1. i = c.pps /\ nextPps.version = c.version BY <1>2, <1>6 DEF Kept
  <2>2. pps' = [pps EXCEPT ![i] = nextPps.version] /\ nextPps'.version = stream.versions[i]
    BY <1>2, <1>3, <1>6, <2>1
  <2>3. pps'[c.pps] = c.version /\ \A j \in PicParameterSets \ {i} : pps'[j] = stream.versions[j]
    BY <1>2, <1>4, <2>1, <2>2
  <2>4. QED BY <1>1, <1>2, <1>5, <1>6, <2>2, <2>3 DEF SetsInv, Latest, WrittenFor, c
<1>7. CASE ~ nextPps.valid
  <2>1. pps' = pps /\ nextPps' = nextPps BY <1>3, <1>7
  <2>2. pps'[c.pps] = c.version BY <1>2, <1>7, <2>1 DEF Kept, WrittenFor
  <2>3. QED BY <1>1, <1>2, <1>7, <2>1, <2>2 DEF SetsInv, Latest, WrittenFor, c
<1>8. QED BY <1>6, <1>7

LEMMA SetsNext == TypeInv /\ PpsInv /\ [Next]_vars => PpsInv'
<1> SUFFICES ASSUME TypeInv, PpsInv, [Next]_vars, lost' = {} PROVE SetsInv' BY DEF PpsInv
<1>1. CASE ReceiveFirst BY <1>1, SetsFirst
<1>2. CASE ReceiveSlice BY <1>2, SetsSlice
<1>3. CASE ReceiveAhead BY <1>3, SetsAhead
<1>4. CASE ReceiveRedundant BY <1>4, SetsRedundant
<1>5. CASE LoseSlice BY <1>5, TypeLost
<1>6. ASSUME lost = {} PROVE SetsInv BY <1>6 DEF PpsInv
<1>7. CASE Start BY <1>6, <1>7, SetsStart DEF Start
<1>8. CASE UnintentionalLoss BY <1>6, <1>8 DEF UnintentionalLoss, SetsInv, Latest, WrittenFor
<1>9. CASE FillGap BY <1>6, <1>9, SetsGap DEF FillGap
<1>10. CASE InitPicture BY <1>6, <1>10, SetsInitPicture DEF InitPicture
<1>11. CASE ReceivePps BY <1>6, <1>11, SetsPps DEF ReceivePps
<1>12. CASE EndOfStream BY <1>6, <1>12, SetsEnd DEF EndOfStream
<1>13. CASE Decode BY <1>6, <1>13, SetsDecode DEF Decode
<1>14. CASE Ended \/ UNCHANGED vars
  BY <1>6, <1>14 DEF Ended, vars, decoder, SetsInv, Latest, Kept, WrittenFor, Current
<1>15. QED
  BY <1>1, <1>2, <1>3, <1>4, <1>5, <1>7, <1>8, <1>9, <1>10, <1>11, <1>12, <1>13, <1>14 DEF Next

(* Each slice is decoded with the content of the picture parameter set that *)
(* it was written for: ProcessPPS keeps the old content of the active set   *)
(* in pNextPPS, init_picture_decoding puts it back for the picture at work, *)
(* and decode_one_frame restores the new one before the next picture, in    *)
(* every order in which sets and slices may come; as long as none is lost.  *)
THEOREM SlicesHaveTheirSets == Spec => OwnParameterSet
<1>1. Init => TypeInv /\ PpsInv
  <2>1. ASSUME Init PROVE SetsInv
    <3>1. PICK t \in PocTypes, g \in GapsAllowed :
            stream = [type |-> t, gaps |-> g, head |-> NoHead, heard |-> NoHead, left |-> <<>>, open |-> FALSE,
                      closed |-> FALSE, refs |-> 0, base |-> 0, versions |-> [i \in PicParameterSets |-> 0]]
      BY <2>1 DEF Init, FirstStreams
    <3>2. stream.head = NoHead /\ stream.heard = NoHead /\ stream.versions = [i \in PicParameterSets |-> 0]
      BY <3>1
    <3>3. QED BY <2>1, <3>2 DEF Init, SetsInv, NoPps
  <2>2. QED BY <2>1, TypeInit DEF PpsInv
<1>2. TypeInv /\ PpsInv /\ [Next]_vars => TypeInv' /\ PpsInv' BY TypeNext, SetsNext
<1>3. TypeInv /\ PpsInv /\ [Next]_vars =>
        [Decode /\ lost = {} => \A s \in Decoded : pps'[s.head.pps] = s.head.version]_vars
  <2> SUFFICES ASSUME TypeInv, PpsInv, Decode, lost = {}, NEW s \in Decoded
               PROVE  pps'[s.head.pps] = s.head.version
    OBVIOUS
  <2>1. SetsInv /\ pc \in {"decode", "last"} BY DEF PpsInv, Decode
  <2>2. \A i \in 1 .. n : slots[i].head = Current.head BY <2>1 DEF SetsInv
  <2>3. s.head = Current.head BY <2>2 DEF Decoded
  <2>4. QED BY <2>1, <2>3, SetsDecode
<1>4. QED BY <1>1, <1>2, <1>3, PTL DEF Spec, OwnParameterSet
(* The sum over the slices of a picture, of which there are at most two.    *)
LEMMA SumOfTwo ==
  ASSUME NEW f, NEW S \in {{1}, {1, 2}}, \A i \in S : f[i] \in Int
  PROVE  FoldFunctionOnSet(+, 0, f, S) = IF S = {1} THEN f[1] ELSE f[1] + f[2]
<1> DEFINE G(g) == [s \in SUBSET S |->
                      IF s = {} THEN 0 ELSE LET x == CHOOSE x \in s : TRUE IN f[x] + g[s \ {x}]]
           iter == CHOOSE g : g = G(g)
           sum == [s \in SUBSET S |->
                     IF s = {} THEN 0 ELSE IF s = {1} THEN f[1] ELSE IF s = {2} THEN f[2] ELSE f[1] + f[2]]
<1>1. FoldFunctionOnSet(+, 0, f, S) = iter[S] BY DEF FoldFunctionOnSet, MapThenFoldSet
<1>2. sum = G(sum)
  <2>1. ASSUME NEW s \in SUBSET S PROVE sum[s] = G(sum)[s]
    <3>1. s = {} \/ s = {1} \/ (S = {1, 2} /\ (s = {2} \/ s = {1, 2})) OBVIOUS
    <3> DEFINE x == CHOOSE x \in s : TRUE
    <3>2. CASE s = {} BY <3>2
    <3>3. CASE s = {1} \/ (S = {1, 2} /\ s = {2})
      <4>1. x \in s /\ s \ {x} = {} /\ {} \in SUBSET S /\ s # {} BY <3>3
      <4>2. G(sum)[s] = f[x] + sum[s \ {x}] BY <4>1
      <4>3. sum[s \ {x}] = 0 BY <4>1
      <4>4. sum[s] = f[x] /\ f[x] \in Int BY <3>3, <4>1
      <4> HIDE DEF sum, x
      <4>5. QED BY <4>2, <4>3, <4>4
    <3>4. CASE S = {1, 2} /\ s = {1, 2}
      <4>1. x \in s /\ s # {} /\ s # {1} /\ s # {2} BY <3>4
      <4>2. G(sum)[s] = f[x] + sum[s \ {x}] BY <4>1
      <4>3. sum[s] = f[1] + f[2] /\ f[1] \in Int /\ f[2] \in Int BY <3>4, <4>1
      <4> HIDE DEF x
      <4>4. (x = 1 /\ s \ {x} = {2}) \/ (x = 2 /\ s \ {x} = {1}) BY <3>4, <4>1
      <4>5. sum[{1}] = f[1] /\ sum[{2}] = f[2]
        <5>1. {1} \in SUBSET S /\ {2} \in SUBSET S /\ {1} # {} /\ {2} # {} /\ {2} # {1} BY <3>4
        <5>2. QED BY <5>1
      <4> HIDE DEF sum, G
      <4>6. G(sum)[s] = f[1] + f[2] \/ G(sum)[s] = f[2] + f[1] BY <4>2, <4>4, <4>5, Zenon
      <4>7. QED BY <4>3, <4>6
    <3>5. QED BY <3>1, <3>2, <3>3, <3>4
  <2>2. QED BY <2>1
<1> HIDE DEF sum
<1>3. iter = G(iter)
  <2> HIDE DEF G
  <2>1. \E g : g = G(g) BY <1>2, Zenon
  <2>2. (CHOOSE g : g = G(g)) = G(CHOOSE g : g = G(g)) BY <2>1, Zenon
  <2>3. QED BY <2>2
<1> HIDE DEF iter
<1>4. iter[{}] = 0 /\ \A i \in S : iter[{i}] = f[i]
  <2>1. iter[{}] = 0
    <3>1. {} \in SUBSET S OBVIOUS
    <3>2. G(iter)[{}] = 0 BY <3>1
    <3> HIDE DEF G
    <3>3. QED BY <1>3, <3>2
  <2>2. ASSUME NEW i \in S PROVE iter[{i}] = f[i]
    <3> DEFINE x == CHOOSE x \in {i} : TRUE
    <3>1. x = i /\ {i} \ {x} = {} /\ {i} \in SUBSET S /\ {i} # {} OBVIOUS
    <3>2. G(iter)[{i}] = f[x] + iter[{i} \ {x}] BY <3>1
    <3> HIDE DEF x
    <3>3. iter[{i}] = f[i] + 0 BY <1>3, <2>1, <3>1, <3>2
    <3>4. QED BY <3>3
  <2>3. QED BY <2>1, <2>2
<1>5. CASE S = {1}
  <2>1. iter[S] = f[1] BY <1>4, <1>5
  <2>2. QED BY <1>1, <1>5, <2>1
<1>6. CASE S = {1, 2}
  <2> DEFINE x == CHOOSE x \in S : TRUE
  <2>1. x \in S /\ S # {} /\ S \in SUBSET S BY <1>6
  <2>2. G(iter)[S] = f[x] + iter[S \ {x}] BY <2>1
  <2> HIDE DEF x, G
  <2>3. (x = 1 /\ S \ {x} = {2}) \/ (x = 2 /\ S \ {x} = {1}) BY <1>6, <2>1
  <2>4. iter[{1}] = f[1] /\ iter[{2}] = f[2] /\ f[1] \in Int /\ f[2] \in Int BY <1>4, <1>6
  <2>5. iter[S] = f[1] + f[2] \/ iter[S] = f[2] + f[1] BY <1>3, <2>2, <2>3, <2>4, Zenon
  <2>6. S # {1} BY <1>6
  <2>7. iter[S] = f[1] + f[2] BY <2>4, <2>5
  <2>8. QED BY <1>1, <2>6, <2>7, Zenon
<1>7. QED BY <1>5, <1>6

-----------------------------------------------------------------------------
(* frame_num.  Every picture at work is complete when its slices are        *)
(* decoded: it is stored.                                                   *)
WholePictures == pc \in {"decode", "last"} => IsComplete

(* What the headers of the stream say of a picture.                         *)
GoodKind(h) == (h.idr => h.ref /\ ~h.mmco5 /\ h.num = 0) /\ (h.mmco5 => h.ref)

(* pre_frame_num before the picture of slice s is begun, and behind the     *)
(* picture at work; and the frame_num the buffer will be given.             *)
Begins(s) ==
  /\ ~s.redundant /\ GoodKind(s.head) /\ s.head = old
  /\ preNum = IF s.head.idr THEN s.head.num ELSE stored.base
Referred == IF pic.head.ref THEN pic.head.num ELSE stored.base
Working ==
  /\ GoodKind(pic.head)
  /\ pic.head.idr \/ pic.head.num \in {stored.base, (stored.base + 1) % MaxFrameNum}

NumInv ==
  /\ spent = [lost |-> spent.lost, redundant |-> 0, resent |-> spent.resent]
  /\ GoodKind(stream.head)
  /\ pc = "read" /\ n = 0 => pic = NoPicture /\ preNum = stored.base
  /\ pc = "read" /\ n > 0 => Working /\ Key(old) = Key(pic.head) /\ preNum = Referred
  /\ pc = "init" => Begins(Current)
  /\ pc = "decode" =>
       /\ Working /\ newframe /\ ~next.redundant /\ GoodKind(old) /\ next.head = old
       /\ preNum = IF old.idr THEN old.num ELSE Referred
  /\ pc = "last" => Working
  /\ pc = "start" => Begins(next)

LEMMA KeyTells ==
  ASSUME NEW g, NEW h, Key(g) = Key(h)
  PROVE  g.num = h.num /\ g.idr = h.idr /\ g.ref = h.ref /\ g.struct = h.struct
<1>1. Key(g)[2] = Key(h)[2] /\ Key(g)[3] = Key(h)[3] /\ Key(g)[4] = Key(h)[4] /\ Key(g)[5] = Key(h)[5]
  OBVIOUS
<1>2. \A k : Key(k)[2] = k.num /\ Key(k)[3] = k.struct /\ Key(k)[4] = k.ref /\ Key(k)[5] = k.idr
  BY DEF Key
<1>3. QED BY <1>1, <1>2

(* The kinds of pictures that may come next, and their headers.             *)
LEMMA KindsAre ==
  ASSUME NEW s, NEW x \in Kinds(s)
  PROVE  /\ x.idr => x.ref /\ ~x.mmco5
         /\ x.mmco5 => x.ref /\ ~s.open /\ x.struct \in Mmco5Structures[s.type]
         /\ s.open => ~x.idr /\ ~x.mmco5 /\ x.ref = s.head.ref /\ x.struct \in {"top", "bottom"}
         /\ ~s.open => x.gap \in 0 .. MaxGap[s.type] /\ x.struct \in Structures
         /\ s.head.id = 0 /\ ~s.open => x.idr
<1>1. CASE s.open BY <1>1 DEF Kinds, SecondField
<1>2. CASE ~s.open BY <1>2 DEF Kinds
<1>3. QED BY <1>1, <1>2

LEMMA HeadsAre ==
  ASSUME NEW s, NEW h \in Heads(s)
  PROVE  \E x \in Kinds(s) : \E c \in CountsOf(s, x) :
           /\ h.count = CountOf(s, x) /\ h.num = CountOf(s, x) % MaxFrameNum
           /\ h.struct = x.struct /\ h.idr = x.idr /\ h.ref = x.ref /\ h.mmco5 = x.mmco5
           /\ h.lsb = c.lsb /\ h.dbottom = c.dbottom /\ h.d0 = c.d0 /\ h.d1 = c.d1
           /\ h.first = c.first /\ h.second = c.second
<1>1. PICK x \in Kinds(s) : h \in {HeadOf(s, x, c, i) : c \in CountsOf(s, x), i \in PicParameterSets}
  BY DEF Heads
<1>2. PICK i \in PicParameterSets, c \in CountsOf(s, x) : h = HeadOf(s, x, c, i) BY <1>1
<1>3. QED BY <1>2 DEF HeadOf

LEMMA KindsGood ==
  ASSUME NEW s, NEW h \in Heads(s)
  PROVE  GoodKind(h)
<1>1. PICK x \in Kinds(s) : \E c \in CountsOf(s, x) :
        /\ h.num = CountOf(s, x) % MaxFrameNum
        /\ h.idr = x.idr /\ h.ref = x.ref /\ h.mmco5 = x.mmco5
  BY HeadsAre
<1>2. x.idr => CountOf(s, x) = 0 BY DEF CountOf
<1>3. MaxFrameNum \in Nat \ {0} /\ 0 % MaxFrameNum = 0 BY ModuliAssumption, SMT
<1>4. QED BY <1>1, <1>2, <1>3, KindsAre DEF GoodKind

(* A slice that arrives is the next one of the stream's picture, or the     *)
(* first one of another.                                                    *)
Continues(s, a) ==
  /\ s.left # <<>> /\ a.head = s.head /\ a.part = Head(s.left)
  /\ a.after = [s EXCEPT !.left = Tail(s.left)]
BeginsAnother(s, a) ==
  /\ s.left = <<>> /\ s.head.id # MaxPictures /\ a.head \in Heads(s)
  /\ \E q \in Slicings : a.part = Head(q) /\ a.after = Begin(s, a.head, Tail(q))

LEMMA ArrivingAre ==
  ASSUME NEW a \in Arriving
  PROVE  ~a.redundant /\ (Continues(stream, a) \/ BeginsAnother(stream, a))
<1>1. PICK b \in NextSlices(stream) : a = [head |-> b.head, part |-> b.part, redundant |-> FALSE, after |-> b.after]
  BY DEF Arriving
<1>2. CASE stream.left # <<>>
  <2>1. b = [head |-> stream.head, part |-> Head(stream.left), after |-> [stream EXCEPT !.left = Tail(@)]]
    BY <1>2 DEF NextSlices
  <2>2. QED BY <1>1, <1>2, <2>1 DEF Continues
<1>3. CASE stream.left = <<>>
  <2>1. stream.head.id # MaxPictures BY <1>3 DEF NextSlices
  <2>2. PICK h \in Heads(stream), q \in Slicings :
          b = [head |-> h, part |-> Head(q), after |-> Begin(stream, h, Tail(q))]
    BY <1>3, <2>1 DEF NextSlices
  <2>3. a.head = h /\ a.part = Head(q) /\ a.after = Begin(stream, h, Tail(q)) /\ ~a.redundant
    BY <1>1, <2>2
  <2>4. QED BY <1>3, <2>1, <2>3 DEF BeginsAnother
<1>4. QED BY <1>2, <1>3

LEMMA NumRead ==
  ASSUME MaxRedundant = 0, TypeInv, NumInv, NEW a \in Arriving \cup Redundant, Sent(a)
  PROVE  /\ a \in Arriving /\ ~a.redundant /\ GoodKind(a.head) /\ ~Discarded(ReadInto(a))
         /\ stream'.head = a.head /\ spent' = spent /\ GoodKind(stream'.head)
         /\ IsSlice(ReadInto(a)) /\ ReadInto(a).head = a.head /\ ~ReadInto(a).redundant
<1>1. spent.redundant = 0 BY DEF NumInv
<1>2. a \in Arriving BY <1>1 DEF Redundant
<1>3. ~a.redundant /\ (Continues(stream, a) \/ BeginsAnother(stream, a)) BY <1>2, ArrivingAre
<1>4. GoodKind(a.head) BY <1>3, KindsGood DEF NumInv, Continues, BeginsAnother
<1>5. spent' = spent BY <1>3 DEF Sent
<1>6. GoodHead(a.head) /\ stream'.head = a.head BY Reads
<1>7. IsSlice(ReadInto(a)) /\ ReadInto(a).head = a.head /\ ReadInto(a).redundant = a.redundant
  BY <1>6, ReadsInto
<1>8. QED BY <1>2, <1>3, <1>4, <1>5, <1>6, <1>7 DEF Discarded

LEMMA NumReading ==
  ASSUME MaxRedundant = 0, TypeInv, NumInv, ReceiveFirst \/ ReceiveSlice \/ ReceiveAhead \/ ReceiveRedundant
  PROVE  NumInv' /\ stored' = stored
<1>1. PICK a \in Arriving \cup Redundant :
        Sent(a) /\ (ReadFirst(a) \/ ReadSlice(a) \/ ReadAhead(a) \/ Discard(a))
  BY DEF ReceiveFirst, ReceiveSlice, ReceiveAhead, ReceiveRedundant
<1>2. HeaderRead(a) BY <1>1 DEF ReadFirst, ReadSlice, ReadAhead, Discard
<1>3. /\ pc = "read" /\ preNum' = (IF a.head.idr THEN a.head.num ELSE preNum) /\ pic' = pic /\ stored' = stored
  BY <1>2 DEF HeaderRead
<1>4. /\ ~a.redundant /\ GoodKind(a.head) /\ ~Discarded(ReadInto(a))
      /\ stream'.head = a.head /\ spent' = spent /\ GoodKind(stream'.head)
      /\ IsSlice(ReadInto(a)) /\ ReadInto(a).head = a.head /\ ~ReadInto(a).redundant
  BY <1>1, NumRead
<1>5. n \in Nat BY TypesOf
<1>6. CASE ReadFirst(a)
  <2>1. n = 0 /\ slots' = [Objects EXCEPT ![1] = ReadInto(a)] /\ pc' = "init" /\ n' = n /\ old' = a.head
    BY <1>4, <1>6 DEF ReadFirst
  <2>2. slots'[1] = ReadInto(a) BY <1>4, <2>1, ObjectChanged
  <2>3. preNum = stored.base BY <1>3, <2>1 DEF NumInv
  <2>4. Begins(Current)' BY <1>3, <1>4, <2>1, <2>2, <2>3 DEF Begins, Current
  <2>5. QED BY <1>3, <1>4, <2>1, <2>4 DEF NumInv
<1>7. CASE ReadSlice(a)
  <2>1. pic # NoPicture /\ Key(a.head) = Key(old) /\ n' = n + 1 /\ old' = a.head /\ pc' = pc
    BY <1>7 DEF ReadSlice, IsNewPicture
  <2>2. n > 0 /\ n' > 0 /\ n' # 0 BY <1>3, <1>5, <2>1 DEF NumInv
  <2>3. Working /\ Key(old) = Key(pic.head) /\ preNum = Referred BY <1>3, <2>2 DEF NumInv
  <2>4. a.head.num = pic.head.num /\ a.head.idr = pic.head.idr BY <2>1, <2>3, KeyTells
  <2>5. preNum' = Referred BY <1>3, <2>3, <2>4 DEF Working, GoodKind, Referred
  <2>6. Working' /\ Referred' = Referred BY <1>3, <2>3 DEF Working, Referred
  <2>7. QED BY <1>3, <1>4, <2>1, <2>2, <2>3, <2>5, <2>6 DEF NumInv
<1>8. CASE ReadAhead(a)
  <2>1. n > 0 /\ next' = ReadInto(a) /\ newframe' = TRUE /\ old' = a.head /\ pc' = "decode"
    BY <1>8 DEF ReadAhead
  <2>2. Working /\ preNum = Referred BY <1>3, <2>1 DEF NumInv
  <2>3. Working' /\ Referred' = Referred BY <1>3, <2>2 DEF Working, Referred
  <2>4. QED BY <1>3, <1>4, <2>1, <2>2, <2>3 DEF NumInv
<1>9. ~Discard(a) BY <1>4 DEF Discard
<1>10. QED BY <1>1, <1>3, <1>6, <1>7, <1>8, <1>9

LEMMA NumDecode ==
  ASSUME TypeInv, NumInv, IsComplete, Decode
  PROVE  /\ NumInv' /\ stored'.idr = pic.head.idr /\ stored'.num = pic.head.num
         /\ pic.head.idr \/ pic.head.num \in {stored.base, (stored.base + 1) % MaxFrameNum}
<1>1. /\ pc \in {"decode", "last"} /\ StorePicture /\ n' = 0
      /\ pc' = IF pc = "last" THEN "end" ELSE IF newframe THEN "start" ELSE "read"
      /\ UNCHANGED <<next, old, stream, spent>>
  BY DEF Decode
<1>2. /\ stored'.idr = pic.head.idr /\ stored'.num = pic.head.num
      /\ stored'.base = IF ~pic.head.ref THEN stored.base ELSE IF pic.head.mmco5 THEN 0 ELSE pic.head.num
      /\ preNum' = IF pic.head.mmco5 THEN 0 ELSE preNum
  BY <1>1 DEF StorePicture
<1>3. Working BY <1>1 DEF NumInv
<1>4. CASE pc = "last" BY <1>1, <1>2, <1>3, <1>4 DEF NumInv, Working
<1>5. CASE pc = "decode"
  <2>1. /\ newframe /\ ~next.redundant /\ GoodKind(old) /\ next.head = old
        /\ preNum = IF old.idr THEN old.num ELSE Referred
    BY <1>5 DEF NumInv
  <2>2. preNum' = IF old.idr THEN old.num ELSE stored'.base
    BY <1>2, <1>3, <2>1 DEF Working, GoodKind, Referred
  <2>3. pc' = "start" /\ Begins(next)' BY <1>1, <1>5, <2>1, <2>2 DEF Begins
  <2>4. QED BY <1>1, <1>2, <1>3, <2>3 DEF NumInv, Working
<1>6. QED BY <1>1, <1>4, <1>5

LEMMA NumGap ==
  ASSUME TypeInv, NumInv, FillGap
  PROVE  NumInv' /\ stored'.num = (stored.base + 1) % MaxFrameNum
<1> DEFINE k == AfterPreNum
<1>1. /\ pc = "init" /\ IsGap /\ slots' = [slots EXCEPT ![1].poc = GapPoc.poc] /\ preNum' = k
      /\ stored' = [stored EXCEPT !.idr = FALSE, !.num = k, !.base = k]
      /\ UNCHANGED <<next, n, newframe, old, pic, pc, stream, spent>>
  BY DEF FillGap
<1>2. Begins(Current) BY <1>1 DEF NumInv
<1>3. ~Current.head.idr /\ preNum = stored.base BY <1>1, <1>2 DEF Begins, IsGap
<1>4. k = (stored.base + 1) % MaxFrameNum BY <1>3 DEF AfterPreNum
<1> HIDE DEF k
<1>5. stored'.num = k /\ stored'.base = k BY <1>1 DEF TypeInv
<1>6. Current'.head = Current.head /\ Current'.redundant = Current.redundant BY <1>1, CountsGiven DEF Current
<1>7. Begins(Current)' BY <1>1, <1>2, <1>3, <1>5, <1>6 DEF Begins
<1>8. QED BY <1>1, <1>4, <1>5, <1>7 DEF NumInv

LEMMA NumInitPicture ==
  ASSUME TypeInv, NumInv, InitPicture
  PROVE  NumInv' /\ stored' = stored
<1> DEFINE d == DecodePoc(stream.type, mem, Current.head, Current.poc)
<1>1. /\ pc = "init" /\ ~IsGap /\ pic' = [head |-> Current.head, poc |-> d.poc]
      /\ preNum' = IF Current.head.ref THEN Current.head.num ELSE preNum
      /\ IF newframe \/ ~Discarded(Current) THEN n' = 1 /\ pc' = "read" ELSE n' = 0 /\ pc' = "decode"
      /\ UNCHANGED <<next, newframe, old, stored, stream, spent>>
  BY DEF InitPicture
<1> HIDE DEF d
<1>2. Begins(Current) BY <1>1 DEF NumInv
<1>3. n' = 1 /\ pc' = "read" BY <1>1, <1>2 DEF Begins, Discarded
<1>4. pic'.head = Current.head BY <1>1
<1>5. Current.head.num = preNum \/ Current.head.num = (preNum + 1) % MaxFrameNum
  BY <1>1 DEF IsGap, AfterPreNum
<1>6. Working' /\ preNum' = Referred' BY <1>1, <1>2, <1>4, <1>5 DEF Working, Referred, Begins, GoodKind
<1>7. Key(old)' = Key(pic.head)' BY <1>1, <1>2, <1>4 DEF Begins
<1>8. QED BY <1>1, <1>3, <1>6, <1>7 DEF NumInv

LEMMA NumNext ==
  ASSUME MaxRedundant = 0, TypeInv, NumInv, WholePictures, [Next]_vars
  PROVE  /\ NumInv'
         /\ stored' # stored =>
              stored'.idr \/ stored'.num \in {stored.base, (stored.base + 1) % MaxFrameNum}
<1>1. CASE ReceiveFirst \/ ReceiveSlice \/ ReceiveAhead \/ ReceiveRedundant BY <1>1, NumReading
<1>2. CASE Decode
  <2>1. IsComplete BY <1>2 DEF Decode, WholePictures
  <2>2. QED BY <1>2, <2>1, NumDecode
<1>3. CASE FillGap BY <1>3, NumGap
<1>4. CASE InitPicture BY <1>4, NumInitPicture
<1>5. CASE Start
  <2>1. /\ pc = "start" /\ slots' = [slots EXCEPT ![1] = next] /\ n' = 0 /\ pc' = "init"
        /\ UNCHANGED <<newframe, old, pic, preNum, stored, stream, spent>>
    BY <1>5 DEF Start
  <2>2. slots'[1] = next BY <2>1, TypesOf
  <2>3. Begins(Current)' BY <2>1, <2>2 DEF NumInv, Begins, Current
  <2>4. QED BY <2>1, <2>3 DEF NumInv
<1>6. CASE UnintentionalLoss BY <1>6 DEF UnintentionalLoss, NumInv
<1>7. CASE LoseSlice
  <2>1. PICK a \in Arriving : stream' = a.after BY <1>7 DEF LoseSlice
  <2>2. Continues(stream, a) \/ BeginsAnother(stream, a) BY ArrivingAre
  <2>3. GoodKind(a.head) BY <2>2, KindsGood DEF NumInv, Continues, BeginsAnother
  <2>4. a.after.head = a.head
    <3>1. PICK b \in NextSlices(stream) :
            a = [head |-> b.head, part |-> b.part, redundant |-> FALSE, after |-> b.after]
      BY DEF Arriving
    <3>2. StreamGood(stream) BY DEF TypeInv
    <3>3. b.after.head = b.head BY <3>2, Arrives
    <3>4. QED BY <3>1, <3>3
  <2>5. UNCHANGED decoder /\ spent' = [spent EXCEPT !.lost = spent.lost + 1] BY <1>7 DEF LoseSlice
  <2>6. spent' = [lost |-> spent'.lost, redundant |-> 0, resent |-> spent'.resent] BY <2>5 DEF NumInv
  <2>7. QED BY <2>1, <2>3, <2>4, <2>5, <2>6 DEF NumInv, decoder, Begins, Working, Referred, Current
<1>8. CASE ReceivePps
  <2>1. PICK i \in PicParameterSets : stream' = Resent(stream, i) BY <1>8 DEF ReceivePps
  <2>2. stream'.head = stream.head
    <3>1. StreamGood(stream) BY DEF TypeInv
    <3>2. QED BY <2>1, <3>1, Resends
  <2>3. /\ UNCHANGED <<slots, next, n, newframe, old, pic, preNum, pc, stored>>
        /\ spent' = [spent EXCEPT !.resent = spent.resent + 1]
    BY <1>8 DEF ReceivePps
  <2>4. spent' = [lost |-> spent'.lost, redundant |-> 0, resent |-> spent'.resent] BY <2>3 DEF NumInv
  <2>5. QED BY <2>2, <2>3, <2>4 DEF NumInv, Begins, Working, Referred, Current
<1>9. CASE EndOfStream
  <2>1. pc = "read" /\ n > 0 /\ pc' = "last" /\ UNCHANGED <<pic, stored, stream, spent>>
    BY <1>9 DEF EndOfStream
  <2>2. QED BY <2>1 DEF NumInv, Working
<1>10. CASE Ended \/ UNCHANGED vars
  BY <1>10 DEF Ended, vars, decoder, NumInv, Begins, Working, Referred, Current
<1>11. QED BY <1>1, <1>2, <1>3, <1>4, <1>5, <1>6, <1>7, <1>8, <1>9, <1>10 DEF Next

(* The buffer is given pictures in order of frame_num: a picture stored has *)
(* that of the last reference picture, or one more, the gaps being filled   *)
(* before it, as long as every picture that is begun is complete, whatever  *)
(* whole pictures are lost in between.  A picture that is not stored has    *)
(* moved pre_frame_num on without the buffer.                               *)
THEOREM NumbersFollow ==
  ASSUME MaxRedundant = 0
  PROVE  Spec /\ []WholePictures => FrameNumsFollow
<1>1. Init => TypeInv /\ NumInv
  <2>1. ASSUME Init PROVE NumInv
    <3>1. PICK t \in PocTypes, g \in GapsAllowed :
            stream = [type |-> t, gaps |-> g, head |-> NoHead, heard |-> NoHead, left |-> <<>>, open |-> FALSE,
                      closed |-> FALSE, refs |-> 0, base |-> 0, versions |-> [i \in PicParameterSets |-> 0]]
      BY <2>1 DEF Init, FirstStreams
    <3>2. stream.head = NoHead /\ GoodKind(NoHead) BY <3>1 DEF GoodKind, NoHead
    <3>3. QED BY <2>1, <3>2 DEF Init, NumInv, NothingStored
  <2>2. QED BY <2>1, TypeInit
<1>2. TypeInv /\ NumInv /\ WholePictures /\ [Next]_vars =>
        /\ TypeInv' /\ NumInv'
        /\ [stored' # stored =>
              stored'.idr \/ stored'.num \in {stored.base, (stored.base + 1) % MaxFrameNum}]_vars
  BY TypeNext, NumNext
<1>3. QED BY <1>1, <1>2, PTL DEF Spec, FrameNumsFollow

-----------------------------------------------------------------------------
(* A stream that loses nothing and has no redundant slices.                 *)
Lossless == MaxLost = 0 /\ MaxRedundant = 0

(* The first slice of a picture, with what the stream has left of it; and   *)
(* all slices of one.                                                       *)
Rest(p) ==
  \/ p = Macroblocks /\ stream.left = <<>>
  \/ p = {1} /\ stream.left = <<{2}>>
Complete ==
  \/ n = 1 /\ slots[1].part = Macroblocks
  \/ n = 2 /\ slots[1].part = {1} /\ slots[2].part = {2}

(* The pictures before the one with this head have been stored.             *)
StoredBefore(h) ==
  /\ h.id \in 1 .. MaxPictures
  /\ stored.from = IF h.id = 1 THEN {} ELSE {h.id - 1} \X Macroblocks

PartsInv ==
  /\ lost = {} /\ spent = [lost |-> 0, redundant |-> 0, resent |-> spent.resent]
  /\ pc = "read" /\ n = 0 => stream.left = <<>> /\ stored.from = {}
  /\ pc = "read" /\ n > 0 =>
       /\ (n = 1 /\ Rest(slots[1].part)) \/ (Complete /\ stream.left = <<>>)
       /\ StoredBefore(pic.head)
  /\ pc = "init" => Rest(Current.part) /\ StoredBefore(old)
  /\ pc \in {"decode", "last"} =>
       Complete /\ StoredBefore(pic.head) /\ pic.head = Current.head
  /\ pc = "decode" => Rest(next.part) /\ old.id = pic.head.id + 1
  /\ pc = "last" => stream.head = pic.head
  /\ pc = "start" => Rest(next.part) /\ StoredBefore(old)

LEMMA CompleteIs ==
  ASSUME Complete
  PROVE  IsComplete
<1> DEFINE f == [i \in 1 .. n |-> Cardinality(slots[i].part)]
<1>1. Cardinality({1, 2}) = 2 /\ Cardinality({1}) = 1 /\ Cardinality({2}) = 1
  <2>1. Cardinality({1}) = 1 /\ Cardinality({2}) = 1 /\ IsFiniteSet({1}) BY FS_Singleton
  <2>2. {1, 2} = {1} \cup {2} /\ 2 \notin {1} OBVIOUS
  <2>3. Cardinality({1} \cup {2}) = Cardinality({1}) + 1 BY <2>1, <2>2, FS_AddElement, Zenon
  <2>4. QED BY <2>1, <2>2, <2>3
<1>2. CASE n = 1 /\ slots[1].part = Macroblocks
  <2>1. 1 .. n = {1} /\ f[1] = 2 BY <1>1, <1>2 DEF Macroblocks
  <2>2. FoldFunctionOnSet(+, 0, f, {1}) = f[1]
    <3>1. {1} \in {{1}, {1, 2}} /\ \A i \in {1} : f[i] \in Int BY <2>1
    <3> HIDE DEF f
    <3>2. QED BY <3>1, SumOfTwo
  <2>3. QED BY <1>1, <2>1, <2>2 DEF IsComplete, NumDecMb, Macroblocks
<1>3. CASE n = 2 /\ slots[1].part = {1} /\ slots[2].part = {2}
  <2>1. 1 .. n = {1, 2} /\ f[1] = 1 /\ f[2] = 1 BY <1>1, <1>3
  <2>2. FoldFunctionOnSet(+, 0, f, {1, 2}) = f[1] + f[2]
    <3>1. {1, 2} \in {{1}, {1, 2}} /\ {1, 2} # {1} /\ \A i \in {1, 2} : f[i] \in Int BY <2>1
    <3> HIDE DEF f
    <3>2. QED BY <3>1, SumOfTwo
  <2>3. FoldFunctionOnSet(+, 0, f, 1 .. n) = 2
    <3>1. f[1] + f[2] = 2 /\ 1 .. n = {1, 2} BY <2>1
    <3> HIDE DEF f
    <3>2. QED BY <2>2, <3>1, Zenon
  <2>4. NumDecMb = FoldFunctionOnSet(+, 0, f, 1 .. n) BY Zenon DEF NumDecMb
  <2>5. QED BY <1>1, <2>3, <2>4 DEF IsComplete, Macroblocks
<1>4. QED BY <1>2, <1>3 DEF Complete

LEMMA Cuts ==
  ASSUME NEW q \in Slicings
  PROVE  (Head(q) = Macroblocks /\ Tail(q) = <<>>) \/ (Head(q) = {1} /\ Tail(q) = <<{2}>>)
<1>1. q = <<{1, 2}>> \/ q = <<{1}, {2}>> BY DEF Slicings, Macroblocks
<1>2. CASE q = <<{1, 2}>>
  <2>1. Head(q) = {1, 2} /\ Tail(q) = <<>> BY <1>2
  <2>2. QED BY <2>1 DEF Macroblocks
<1>3. CASE q = <<{1}, {2}>>
  <2>1. Head(q) = {1} /\ Tail(q) = <<{2}>> BY <1>3
  <2>2. QED BY <2>1
<1>4. QED BY <1>1, <1>2, <1>3

(* A slice that arrives: nothing is lost with it.                           *)
LEMMA LosslessRead ==
  ASSUME Lossless, TypeInv, PpsInv, PartsInv,
         NEW a \in Arriving \cup Redundant, Sent(a), HeaderRead(a)
  PROVE  /\ SetsInv /\ ~a.redundant /\ lost' = {} /\ spent' = spent /\ pc = "read"
         /\ pic' = pic /\ stored' = stored /\ mem' = mem
         /\ preNum' = IF a.head.idr THEN a.head.num ELSE preNum
         /\ stream'.head = a.head /\ a.head.id \in 1 .. MaxPictures
         /\ stream' = [a.after EXCEPT !.heard = a.head]
         /\ IsSlice(ReadInto(a)) /\ ReadInto(a).head = a.head /\ ~Discarded(ReadInto(a))
         /\ ~ReadInto(a).redundant /\ ReadInto(a).part = a.part
         /\ \/ /\ Continues(stream, a) /\ stream'.left = Tail(stream.left)
            \/ /\ BeginsAnother(stream, a) /\ Key(a.head) # Key(stream.head)
               /\ a.head.id = stream.head.id + 1 /\ Rest(a.part)'
<1>1. lost = {} /\ spent.redundant = 0 /\ spent = [lost |-> 0, redundant |-> 0, resent |-> spent.resent]
  BY DEF PartsInv
<1>2. SetsInv BY <1>1 DEF PpsInv
<1>3. a \in Arriving BY <1>1 DEF Redundant, Lossless
<1>4. ~a.redundant /\ (Continues(stream, a) \/ BeginsAnother(stream, a)) BY <1>3, ArrivingAre
<1>5. spent' = spent /\ stream' = [a.after EXCEPT !.heard = a.head] BY <1>4 DEF Sent
<1>6. /\ GoodHead(a.head) /\ stream'.head = a.head /\ a.head.id \in 1 .. MaxPictures
      /\ \/ a.head = stream.head
         \/ a.head.id = stream.head.id + 1 /\ Key(a.head) # Key(stream.head) /\ stream.left = <<>>
  BY Reads
<1>7. stream.heard = stream.head BY <1>2 DEF SetsInv
<1>8. Merged(a) = {} BY <1>6, <1>7 DEF Merged
<1>9. lost' = {} BY <1>1, <1>8 DEF Sent
<1>10. /\ IsSlice(ReadInto(a)) /\ ReadInto(a).head = a.head /\ ReadInto(a).redundant = a.redundant
  BY <1>6, ReadsInto
<1>11. ReadInto(a).part = a.part
  <2> DEFINE x == Objects[n + 1]
  <2>1. IsSlice(x) BY ObjectsGood
  <2>2. x = [head |-> x.head, part |-> x.part, redundant |-> x.redundant, poc |-> x.poc]
    BY <2>1 DEF IsSlice
  <2>3. ReadInto(a) = [x EXCEPT !.head = a.head, !.part = a.part, !.redundant = a.redundant] BY DEF ReadInto
  <2> HIDE DEF x
  <2>4. QED BY <2>2, <2>3
<1>12. ~Discarded(ReadInto(a)) BY <1>4, <1>10 DEF Discarded
<1>13. StreamGood(stream) BY DEF TypeInv
<1>14. CASE Continues(stream, a)
  <2> DEFINE l == Tail(stream.left)
  <2>1. stream' = [[stream EXCEPT !.left = l] EXCEPT !.heard = a.head] BY <1>5, <1>14 DEF Continues
  <2> HIDE DEF l
  <2>2. stream'.left = l BY <1>13, <2>1 DEF StreamGood
  <2>3. QED BY <1>2, <1>4, <1>5, <1>6, <1>9, <1>10, <1>11, <1>12, <1>14, <2>2 DEF HeaderRead, l
<1>15. CASE BeginsAnother(stream, a)
  <2>1. PICK q \in Slicings : a.part = Head(q) /\ a.after = Begin(stream, a.head, Tail(q))
    BY <1>15 DEF BeginsAnother
  <2> DEFINE l == Tail(q)
  <2>2. stream'.left = l
    <3> HIDE DEF l
    <3>1. stream' = [Begin(stream, a.head, l) EXCEPT !.heard = a.head] BY <1>5, <2>1 DEF l
    <3>2. Begin(stream, a.head, l).left = l BY <1>13 DEF Begin, StreamGood
    <3>3. QED BY <3>1, <3>2
  <2>3. Rest(a.part)' BY <2>1, <2>2, Cuts DEF Rest
  <2>4. Key(a.head) # Key(stream.head) BY <1>15 DEF BeginsAnother, Heads
  <2>5. a.head.id = stream.head.id + 1 BY <1>6, <2>4
  <2>6. QED BY <1>2, <1>4, <1>5, <1>6, <1>9, <1>10, <1>11, <1>12, <1>15, <2>3, <2>4, <2>5 DEF HeaderRead
<1>16. QED BY <1>4, <1>14, <1>15

(* The picture at work while slices are read.                               *)
LEMMA AtWork ==
  ASSUME TypeInv, SetsInv, pc = "read", n > 0
  PROVE  /\ pic.head = old /\ old = stream.head /\ old.id # 0 /\ pic # NoPicture
         /\ Current.head = old /\ \A i \in 1 .. n : slots[i].head = old
<1>1. /\ pic.head = old /\ Latest /\ \A i \in 1 .. n : slots[i].head = old /\ stream.head = stream.heard
  BY DEF SetsInv
<1>2. pic # NoPicture BY <1>1, NoHeadGood DEF NoHead, Latest
<1>3. n \in Nat /\ 1 \in 1 .. n BY TypesOf
<1>4. QED BY <1>1, <1>2, <1>3 DEF Latest, Current

LEMMA PartsReading ==
  ASSUME Lossless, TypeInv, PpsInv, PartsInv,
         ReceiveFirst \/ ReceiveSlice \/ ReceiveAhead \/ ReceiveRedundant
  PROVE  PartsInv'
<1>1. PICK a \in Arriving \cup Redundant :
        Sent(a) /\ (ReadFirst(a) \/ ReadSlice(a) \/ ReadAhead(a) \/ Discard(a))
  BY DEF ReceiveFirst, ReceiveSlice, ReceiveAhead, ReceiveRedundant
<1>2. HeaderRead(a) BY <1>1 DEF ReadFirst, ReadSlice, ReadAhead, Discard
<1>3. /\ SetsInv /\ ~a.redundant /\ lost' = {} /\ spent' = spent /\ pc = "read"
      /\ pic' = pic /\ stored' = stored
      /\ stream'.head = a.head /\ a.head.id \in 1 .. MaxPictures
      /\ IsSlice(ReadInto(a)) /\ ReadInto(a).head = a.head /\ ~Discarded(ReadInto(a))
      /\ ReadInto(a).part = a.part
      /\ \/ /\ Continues(stream, a) /\ stream'.left = Tail(stream.left)
         \/ /\ BeginsAnother(stream, a) /\ Key(a.head) # Key(stream.head)
            /\ a.head.id = stream.head.id + 1 /\ Rest(a.part)'
  BY <1>1, <1>2, LosslessRead
<1>4. n \in Nat BY TypesOf
<1>5. CASE ReadFirst(a)
  <2>1. n = 0 /\ slots' = [Objects EXCEPT ![1] = ReadInto(a)] /\ pc' = "init" /\ old' = a.head
    BY <1>3, <1>5 DEF ReadFirst
  <2>2. slots'[1] = ReadInto(a) BY <1>3, <2>1, ObjectChanged
  <2>3. stream.left = <<>> /\ stored.from = {} /\ stream.head.id = 0
    BY <1>3, <2>1 DEF PartsInv, SetsInv, NoHead
  <2>4. a.head.id = 1 /\ Rest(a.part)' BY <1>3, <2>3 DEF Continues
  <2>5. StoredBefore(old)' BY <1>3, <2>1, <2>3, <2>4 DEF StoredBefore
  <2>6. Rest(Current.part)' BY <1>3, <2>2, <2>4 DEF Current, Rest
  <2>7. QED BY <1>3, <2>1, <2>5, <2>6 DEF PartsInv
<1>6. CASE ReadSlice(a)
  <2>1. /\ pic # NoPicture /\ Key(a.head) = Key(old) /\ n' = n + 1 /\ pc' = pc
        /\ slots' = [Objects EXCEPT ![n + 1] = CopyPoc(ReadInto(a))]
    BY <1>6 DEF ReadSlice, IsNewPicture
  <2>2. n > 0 BY <1>3, <1>4, <2>1 DEF SetsInv
  <2>3. Continues(stream, a) /\ stream'.left = Tail(stream.left)
    BY <1>3, <2>1, <2>2, AtWork
  <2>4. n = 1 /\ slots[1].part = {1} /\ stream.left = <<{2}>> /\ StoredBefore(pic.head)
    BY <1>3, <2>2, <2>3 DEF PartsInv, Rest, Continues
  <2>5. stream'.left = <<>> /\ a.part = {2} BY <2>3, <2>4 DEF Continues
  <2> DEFINE x == CopyPoc(ReadInto(a))
  <2>6. IsSlice(x) /\ x.part = {2}
    <3> DEFINE r == ReadInto(a)
    <3>1. r = [head |-> r.head, part |-> r.part, redundant |-> r.redundant, poc |-> r.poc]
      BY <1>3 DEF IsSlice
    <3>2. x = r \/ x = [r EXCEPT !.poc = Current.poc] BY DEF CopyPoc
    <3>3. IsSlice(x) BY <1>3, CopyGood
    <3>4. r.part = {2} BY <1>3, <2>5
    <3> HIDE DEF r, x
    <3>5. x.part = r.part BY <3>1, <3>2
    <3>6. QED BY <3>3, <3>4, <3>5
  <2>7. slots'[2] = x /\ slots'[1] = slots[1]
    <3>1. slots'[n + 1] = x /\ \A j \in 1 .. n : j # n + 1 => slots'[j] = slots[j]
      BY <2>1, <2>6, ObjectChanged
    <3>2. QED BY <2>4, <3>1
  <2> HIDE DEF x
  <2>8. Complete' BY <2>1, <2>4, <2>6, <2>7 DEF Complete
  <2>9. StoredBefore(pic.head)' BY <1>3, <2>4 DEF StoredBefore
  <2>10. QED BY <1>3, <2>1, <2>4, <2>5, <2>8, <2>9 DEF PartsInv
<1>7. CASE ReadAhead(a)
  <2>1. /\ n > 0 /\ next' = ReadInto(a) /\ old' = a.head /\ pc' = "decode" /\ n' = n
        /\ slots' = [Objects EXCEPT ![n + 1] = next]
        /\ (pic = NoPicture \/ Key(a.head) # Key(old))
    BY <1>7 DEF ReadAhead, IsNewPicture
  <2>2. pic.head = old /\ old = stream.head /\ Current.head = old /\ pic # NoPicture
    BY <1>3, <2>1, AtWork
  <2>3. BeginsAnother(stream, a) /\ a.head.id = stream.head.id + 1 /\ Rest(a.part)'
    BY <1>3, <2>1, <2>2 DEF Continues
  <2>4. Complete /\ StoredBefore(pic.head)
    BY <1>3, <2>1, <2>3 DEF PartsInv, Rest, Complete, BeginsAnother
  <2>5. \A j \in 1 .. n : slots'[j] = slots[j]
    <3>1. IsSlice(next) BY DEF TypeInv
    <3>2. QED BY <1>4, <2>1, <3>1, ObjectChanged
  <2>6. slots'[1] = slots[1] /\ (n = 2 => slots'[2] = slots[2])
    <3>1. 1 \in 1 .. n /\ (n = 2 => 2 \in 1 .. n) BY <1>4, <2>1
    <3>2. QED BY <2>5, <3>1
  <2>7. Complete' BY <2>1, <2>4, <2>6 DEF Complete
  <2>8. StoredBefore(pic.head)' BY <1>3, <2>4 DEF StoredBefore
  <2>9. Rest(next.part)' BY <1>3, <2>1, <2>3
  <2>10. pic'.head = Current'.head BY <1>3, <2>2, <2>6 DEF Current
  <2>11. old'.id = pic'.head.id + 1 BY <1>3, <2>1, <2>2, <2>3
  <2>12. QED BY <1>3, <2>1, <2>7, <2>8, <2>9, <2>10, <2>11 DEF PartsInv
<1>8. ~Discard(a) BY <1>3 DEF Discard
<1>9. QED BY <1>1, <1>5, <1>6, <1>7, <1>8

LEMMA PartsGiven ==
  ASSUME TypeInv, NEW p, slots' = [slots EXCEPT ![1].poc = p]
  PROVE  Current'.part = Current.part
<1> DEFINE y == slots[1]
<1>1. 1 \in DOMAIN slots /\ IsSlice(y) BY TypesOf
<1>2. y = [head |-> y.head, part |-> y.part, redundant |-> y.redundant, poc |-> y.poc] BY <1>1 DEF IsSlice
<1>3. slots'[1] = [y EXCEPT !.poc = p] BY <1>1
<1> HIDE DEF y
<1>4. slots'[1].part = y.part BY <1>2, <1>3
<1>5. QED BY <1>4 DEF y, Current

(* What a picture is decoded from.                                          *)
LEMMA AllOfOne ==
  ASSUME Complete, NEW h, \A i \in 1 .. n : slots[i].head = h
  PROVE  UNION {{s.head.id} \X s.part : s \in Decoded} = {h.id} \X Macroblocks
<1>1. CASE n = 1 /\ slots[1].part = Macroblocks
  <2>1. 1 .. n = {1} BY <1>1
  <2>2. Decoded = {slots[1]} BY <2>1 DEF Decoded
  <2>3. slots[1].head = h BY <2>1
  <2>4. QED BY <1>1, <2>2, <2>3
<1>2. CASE n = 2 /\ slots[1].part = {1} /\ slots[2].part = {2}
  <2>1. 1 .. n = {1, 2} BY <1>2
  <2>2. Decoded = {slots[1], slots[2]} BY <2>1 DEF Decoded
  <2>3. slots[1].head = h /\ slots[2].head = h BY <2>1
  <2>4. UNION {{s.head.id} \X s.part : s \in Decoded} = ({h.id} \X {1}) \cup ({h.id} \X {2})
    BY <1>2, <2>2, <2>3
  <2>5. QED BY <2>4 DEF Macroblocks
<1>3. QED BY <1>1, <1>2 DEF Complete

LEMMA PartsDecode ==
  ASSUME TypeInv, SetsInv, PartsInv, Decode
  PROVE  /\ PartsInv' /\ IsComplete /\ pc \in {"decode", "last"}
         /\ stored'.from = {pic.head.id} \X Macroblocks
<1>1. /\ pc \in {"decode", "last"} /\ n' = 0
      /\ pc' = IF pc = "last" THEN "end" ELSE IF newframe THEN "start" ELSE "read"
      /\ UNCHANGED <<slots, next, newframe, old, stream, lost, spent>>
      /\ IF IsComplete THEN StorePicture ELSE UNCHANGED <<stored, mem, preNum, pic>>
  BY DEF Decode
<1>2. Complete /\ StoredBefore(pic.head) /\ pic.head = Current.head BY <1>1 DEF PartsInv
<1>3. IsComplete BY <1>2, CompleteIs
<1>4. stored'.from = UNION {{s.head.id} \X s.part : s \in Decoded} BY <1>1, <1>3 DEF StorePicture
<1>5. \A i \in 1 .. n : slots[i].head = pic.head BY <1>1, <1>2 DEF SetsInv
<1> DEFINE h == pic.head
<1>6. stored'.from = {h.id} \X Macroblocks BY <1>2, <1>4, <1>5, AllOfOne
<1>7. CASE pc = "last" BY <1>1, <1>3, <1>6, <1>7 DEF PartsInv
<1>8. CASE pc = "decode"
  <2>1. newframe /\ GoodHead(old) BY <1>8 DEF SetsInv, TypeInv
  <2>2. Rest(next.part) /\ old.id = h.id + 1 BY <1>8 DEF PartsInv
  <2>3. h.id \in 1 .. MaxPictures /\ MaxPictures \in Nat BY <1>2, StreamAssumption DEF StoredBefore
  <2> HIDE DEF h
  <2>4. old.id \in 1 .. MaxPictures /\ old.id # 1 /\ old.id - 1 = h.id
    BY <2>1, <2>2, <2>3 DEF GoodHead
  <2>5. StoredBefore(old)' BY <1>1, <1>6, <2>4 DEF StoredBefore
  <2>6. Rest(next.part)' BY <1>1, <2>2 DEF Rest
  <2>7. QED BY <1>1, <1>3, <1>6, <1>8, <2>1, <2>5, <2>6 DEF PartsInv, h
<1>9. QED BY <1>1, <1>7, <1>8

LEMMA PartsNext ==
  ASSUME Lossless, TypeInv, PpsInv, PartsInv, [Next]_vars
  PROVE  PartsInv' /\ WholePictures
<1>0. SetsInv BY DEF PpsInv, PartsInv
<1>1. WholePictures BY CompleteIs DEF PartsInv, WholePictures
<1>2. CASE ReceiveFirst \/ ReceiveSlice \/ ReceiveAhead \/ ReceiveRedundant
  BY <1>1, <1>2, PartsReading
<1>3. CASE Decode BY <1>0, <1>1, <1>3, PartsDecode
<1>4. CASE FillGap
  <2> DEFINE k == AfterPreNum
  <2>1. /\ pc = "init" /\ slots' = [slots EXCEPT ![1].poc = GapPoc.poc]
        /\ stored' = [stored EXCEPT !.idr = FALSE, !.num = k, !.base = k]
        /\ UNCHANGED <<next, n, newframe, old, pic, pc, stream, lost, spent>>
    BY <1>4 DEF FillGap
  <2> HIDE DEF k
  <2>2. stored'.from = stored.from BY <2>1 DEF TypeInv
  <2>3. Current'.part = Current.part BY <2>1, PartsGiven
  <2>4. QED BY <1>1, <2>1, <2>2, <2>3 DEF PartsInv, StoredBefore, Rest
<1>5. CASE InitPicture
  <2> DEFINE d == DecodePoc(stream.type, mem, Current.head, Current.poc)
  <2>1. /\ pc = "init" /\ slots' = [slots EXCEPT ![1].poc = d.poc]
        /\ pic' = [head |-> Current.head, poc |-> d.poc]
        /\ IF newframe \/ ~Discarded(Current) THEN n' = 1 /\ pc' = "read" ELSE n' = 0 /\ pc' = "decode"
        /\ UNCHANGED <<next, newframe, old, stored, stream, lost, spent>>
    BY <1>5 DEF InitPicture
  <2> HIDE DEF d
  <2>2. Current.head = old /\ (newframe \/ ~Current.redundant) BY <1>0, <2>1 DEF SetsInv
  <2>3. n' = 1 /\ pc' = "read" BY <2>1, <2>2 DEF Discarded
  <2>4. Current'.part = Current.part /\ pic'.head = old BY <2>1, <2>2, PartsGiven
  <2>5. Rest(Current.part) /\ StoredBefore(old) BY <2>1 DEF PartsInv
  <2>6. Rest(Current.part)' BY <2>1, <2>4, <2>5 DEF Rest
  <2>7. StoredBefore(pic.head)' BY <2>1, <2>4, <2>5 DEF StoredBefore
  <2>8. n' > 0 /\ n' # 0 BY <2>3
  <2>9. QED BY <1>1, <2>1, <2>3, <2>6, <2>7, <2>8 DEF PartsInv, Current
<1>6. CASE Start
  <2>1. /\ pc = "start" /\ slots' = [slots EXCEPT ![1] = next] /\ n' = 0 /\ pc' = "init"
        /\ UNCHANGED <<old, pic, stored, stream, lost, spent>>
    BY <1>6 DEF Start
  <2>2. slots'[1] = next BY <2>1, TypesOf
  <2>3. QED BY <1>1, <2>1, <2>2 DEF PartsInv, Rest, StoredBefore, Current
<1>7. CASE UnintentionalLoss BY <1>1, <1>7 DEF UnintentionalLoss, PartsInv
<1>8. ~LoseSlice
  <2>1. spent.lost = 0 BY DEF PartsInv
  <2>2. QED BY <2>1 DEF LoseSlice, Lossless
<1>9. CASE ReceivePps
  <2>1. PICK i \in PicParameterSets : stream' = Resent(stream, i) BY <1>9 DEF ReceivePps
  <2>2. stream'.head = stream.head /\ stream'.left = stream.left
    <3>1. StreamGood(stream) BY DEF TypeInv
    <3>2. QED BY <2>1, <3>1, Resends
  <2>3. /\ UNCHANGED <<slots, next, n, old, pic, pc, stored, lost>>
        /\ spent' = [spent EXCEPT !.resent = spent.resent + 1]
    BY <1>9 DEF ReceivePps
  <2>4. spent' = [lost |-> 0, redundant |-> 0, resent |-> spent'.resent] BY <2>3 DEF PartsInv
  <2>5. QED BY <1>1, <2>2, <2>3, <2>4 DEF PartsInv, Rest, StoredBefore, Complete, Current
<1>10. CASE EndOfStream
  <2>1. /\ pc = "read" /\ n > 0 /\ stream.left = <<>> /\ pc' = "last"
        /\ slots' = [Objects EXCEPT ![n + 1] = next]
        /\ UNCHANGED <<n, pic, stored, stream, lost, spent>>
    BY <1>10 DEF EndOfStream
  <2>2. pic.head = old /\ old = stream.head /\ Current.head = old BY <1>0, <2>1, AtWork
  <2>3. Complete /\ StoredBefore(pic.head) BY <2>1 DEF PartsInv, Rest, Complete
  <2>4. n \in Nat /\ IsSlice(next) BY TypesOf DEF TypeInv
  <2>5. \A j \in 1 .. n : slots'[j] = slots[j] BY <2>1, <2>4, ObjectChanged
  <2>6. slots'[1] = slots[1] /\ (n = 2 => slots'[2] = slots[2])
    <3>1. 1 \in 1 .. n /\ (n = 2 => 2 \in 1 .. n) BY <2>1, <2>4
    <3>2. QED BY <2>5, <3>1
  <2>7. Complete' BY <2>1, <2>3, <2>6 DEF Complete
  <2>8. QED BY <1>1, <2>1, <2>2, <2>3, <2>6, <2>7 DEF PartsInv, StoredBefore, Current
<1>11. CASE Ended \/ UNCHANGED vars
  <2>1. UNCHANGED <<slots, next, n, old, pic, pc, stored, stream, lost, spent>>
    BY <1>11 DEF Ended, vars, decoder
  <2>2. Current' = Current /\ (Complete' <=> Complete) /\ (Rest(Current.part)' <=> Rest(Current.part))
        /\ (Rest(next.part)' <=> Rest(next.part)) /\ (Rest(slots[1].part)' <=> Rest(slots[1].part))
        /\ (StoredBefore(old)' <=> StoredBefore(old)) /\ (StoredBefore(pic.head)' <=> StoredBefore(pic.head))
    BY <2>1 DEF Rest, StoredBefore, Complete, Current
  <2>3. QED BY <1>1, <2>1, <2>2 DEF PartsInv
<1>12. QED
  BY <1>2, <1>3, <1>4, <1>5, <1>6, <1>7, <1>8, <1>9, <1>10, <1>11 DEF Next

-----------------------------------------------------------------------------
(* frame_num without its wrap.                                              *)
LEMMA WrapSame ==
  ASSUME NEW M \in Nat \ {0}, NEW a \in Int, NEW b \in Int, a % M = b % M, a - b < M, b - a < M
  PROVE  a = b
<1>1. PICK p \in Int : a = p * M + (a % M) /\ a % M \in 0 .. M - 1 BY Divides
<1>2. PICK q \in Int : b = q * M + (b % M) /\ b % M \in 0 .. M - 1 BY Divides
<1>3. p * M \in Int /\ q * M \in Int BY SMT
<1> DEFINE x == p * M
           y == q * M
<1>4. a = x + (a % M) /\ b = y + (a % M) /\ a % M \in Int /\ x \in Int /\ y \in Int BY <1>1, <1>2, <1>3
<1>5. y - x < 2 * M /\ x - y < 2 * M
  <2> HIDE DEF x, y
  <2>1. QED BY <1>4
<1>6. y = x \/ y = x + M \/ y = x - M BY <1>5, Neighbours
<1> HIDE DEF x, y
<1>7. QED BY <1>4, <1>6

LEMMA WrapNext ==
  ASSUME NEW M \in Nat \ {0}, NEW a \in Int
  PROVE  ((a % M) + 1) % M = (a + 1) % M
<1>1. PICK p \in Int : a = p * M + (a % M) /\ a % M \in 0 .. M - 1 BY Divides
<1>2. PICK q \in Int : a + 1 = q * M + ((a + 1) % M) /\ (a + 1) % M \in 0 .. M - 1
  <2>1. a + 1 \in Int OBVIOUS
  <2>2. QED BY <2>1, Divides, Zenon
<1>3. p * M \in Int /\ q * M \in Int BY SMT
<1> DEFINE x == p * M
           y == q * M
           r == a % M
           u == (a + 1) % M
<1>4. /\ a = x + r /\ a + 1 = y + u /\ r \in 0 .. M - 1 /\ u \in 0 .. M - 1
      /\ x \in Int /\ y \in Int
  BY <1>1, <1>2, <1>3
<1>5. y = x \/ y = x + M \/ y = x - M
  <2>1. y - x < 2 * M /\ x - y < 2 * M
    <3> HIDE DEF x, y, r, u
    <3>1. QED BY <1>4
  <2>2. QED BY <2>1, Neighbours
<1>6. (r + 1 < M /\ u = r + 1) \/ (r + 1 = M /\ u = 0)
  <2> HIDE DEF x, y, r, u
  <2>1. QED BY <1>4, <1>5
<1>7. \A k \in 0 .. M - 1 : k % M = k BY SMT
<1>8. M % M = 0 BY SMT
<1> HIDE DEF x, y
<1>9. QED BY <1>4, <1>6, <1>7, <1>8

(* The choice FrameNumOffset makes: a frame whose number without the wrap   *)
(* is no further than one turn behind c has it found from frame_num.        *)
LEMMA WrapCount ==
  ASSUME NEW M \in Nat \ {0}, NEW c \in Int, NEW k \in Int, c <= k, k < c + M
  PROVE  (IF k % M < c % M THEN c - (c % M) + M ELSE c - (c % M)) + (k % M) = k
<1>1. PICK p \in Int : c = p * M + (c % M) /\ c % M \in 0 .. M - 1 BY Divides
<1>2. PICK q \in Int : k = q * M + (k % M) /\ k % M \in 0 .. M - 1 BY Divides
<1>3. p * M \in Int /\ q * M \in Int BY SMT
<1> DEFINE x == p * M
           y == q * M
           r == c % M
           u == k % M
<1>4. c = x + r /\ k = y + u /\ r \in 0 .. M - 1 /\ u \in 0 .. M - 1 /\ x \in Int /\ y \in Int
  BY <1>1, <1>2, <1>3
<1>5. y = x \/ y = x + M \/ y = x - M
  <2>1. y - x < 2 * M /\ x - y < 2 * M
    <3> HIDE DEF x, y, r, u
    <3>1. QED BY <1>4
  <2>2. QED BY <2>1, Neighbours
<1>6. (IF u < r THEN c - r + M ELSE c - r) + u = k
  <2> HIDE DEF x, y, r, u
  <2>1. QED BY <1>4, <1>5
<1>7. QED BY <1>6

-----------------------------------------------------------------------------
(* Operation 5 is where decode_poc of type 0 does not read the slice object *)
(* for it: see the run v_poc_mmco5 for the rest.                            *)
BottomMmco5 == 0 \in PocTypes => Mmco5Structures[0] \subseteq {"bottom"}

(* What the headers of a stream of this type say of the counts.             *)
CountsMeant(type, h) ==
  /\ type = 0 =>
       /\ h.first \in Int /\ h.lsb = h.first % MaxLsb /\ (h.idr => h.first = 0)
       /\ h.dbottom \in Int /\ (h.struct = "frame" => h.second = h.first + h.dbottom)
       /\ BottomMmco5 /\ h.mmco5 => h.struct = "bottom"
  /\ type = 1 =>
       /\ h.first = ExpectedCount(h.count, h.ref) + (IF h.struct = "bottom" THEN BottomOffset ELSE 0) + h.d0
       /\ h.struct = "frame" => h.second = h.first + BottomOffset + h.d1
       /\ h.d0 \in Int /\ h.d1 \in Int
  /\ type = 2 => h.first = (IF h.ref THEN 2 * h.count ELSE 2 * h.count - 1) /\ h.second = h.first

Meant(type, h) ==
  /\ GoodKind(h) /\ h.struct \in {"frame", "top", "bottom"} /\ h.ref \in BOOLEAN /\ h.mmco5 \in BOOLEAN
  /\ h.count \in Nat /\ h.num = h.count % MaxFrameNum
  /\ (h.idr => h.count = 0) /\ (~h.ref => h.count > 0)
  /\ CountsMeant(type, h) /\ {"num", "idr"} \subseteq DOMAIN h

(* The last reference frame of a stream whose last picture has head h, and  *)
(* the last frame.                                                          *)
RefsOf(h) == IF ~h.ref THEN h.count - 1 ELSE IF h.mmco5 THEN 0 ELSE h.count
LastFrame(h) == IF h.mmco5 THEN 0 ELSE h.count

StreamInv(s) ==
  /\ s.refs \in Nat /\ s.open \in BOOLEAN /\ (s.type = 0 => s.base \in Int)
  /\ s.head.id = 0 => ~s.open
  /\ s.head.id # 0 =>
       /\ Meant(s.type, s.head) /\ s.refs = RefsOf(s.head)
       /\ s.head.mmco5 /\ s.head.struct = "bottom" => s.open
       /\ s.type = 0 /\ s.head.ref /\ BottomMmco5 => s.base = IF s.head.mmco5 THEN 0 ELSE s.head.first

(* How far the next picture may be from the last reference frame.           *)
Near(s, h) ==
  /\ s.refs <= h.count /\ h.count < s.refs + MaxFrameNum /\ (~h.ref => s.refs < h.count)
  /\ (~s.gaps => h.count <= s.refs + 1) /\ LastFrame(s.head) <= h.count
  /\ s.open => h.count = LastFrame(s.head)
  /\ s.type = 0 => -MaxLsb < 2 * (h.first - s.base) /\ 2 * (h.first - s.base) <= MaxLsb

LEMMA CountsCoded ==
  ASSUME NEW s, s.type \in PocTypes, s.type = 0 => s.base \in Int,
         NEW x \in Kinds(s), CountOf(s, x) \in Nat, NEW c \in CountsOf(s, x)
  PROVE  /\ s.type = 0 =>
              /\ c.first \in Int /\ c.lsb = c.first % MaxLsb /\ (x.idr => c.first = 0)
              /\ c.dbottom \in Int /\ (x.struct = "frame" => c.second = c.first + c.dbottom)
              /\ ~x.idr => -MaxLsb < 2 * (c.first - s.base) /\ 2 * (c.first - s.base) <= MaxLsb
         /\ s.type = 1 =>
              /\ c.first = ExpectedCount(CountOf(s, x), x.ref)
                             + (IF x.struct = "bottom" THEN BottomOffset ELSE 0) + c.d0
              /\ x.struct = "frame" => c.second = c.first + BottomOffset + c.d1
              /\ c.d0 \in Int /\ c.d1 \in Int
         /\ s.type = 2 =>
              c.first = (IF x.ref THEN 2 * CountOf(s, x) ELSE 2 * CountOf(s, x) - 1) /\ c.second = c.first
<1>1. CASE s.type = 0
  <2>1. c \in Counted0(s, x) BY <1>1 DEF CountsOf
  <2>2. PICK t \in IF x.idr THEN {0} ELSE {s.base + d : d \in Steps}, e \in OnlyFrames(x, BottomSteps) :
          c = Coded(t, t + e, t % MaxLsb, e, 0, 0)
    BY <2>1 DEF Counted0
  <2>3. c.first = t /\ c.second = t + e /\ c.lsb = t % MaxLsb /\ c.dbottom = e BY <2>2 DEF Coded
  <2>4. MaxLsb \in Nat \ {0} /\ e \in Int BY ModuliAssumption, StreamAssumption DEF OnlyFrames
  <2>5. CASE x.idr BY <1>1, <2>2, <2>3, <2>4, <2>5
  <2>6. CASE ~x.idr
    <3>1. PICK d \in Steps : t = s.base + d BY <2>2, <2>6
    <3>2. d \in Int /\ -MaxLsb < 2 * d /\ 2 * d <= MaxLsb BY StreamAssumption
    <3>3. s.base \in Int BY <1>1
    <3>4. t \in Int /\ t - s.base = d BY <3>1, <3>2, <3>3
    <3>5. QED BY <1>1, <2>3, <2>4, <2>6, <3>2, <3>4
  <2>7. QED BY <2>5, <2>6
<1>2. CASE s.type = 1
  <2> DEFINE e == ExpectedCount(CountOf(s, x), x.ref) + (IF x.struct = "bottom" THEN BottomOffset ELSE 0)
  <2>1. c \in Counted1(s, x) BY <1>2 DEF CountsOf
  <2>2. PICK a \in IF x.idr THEN {0} ELSE Deltas, b \in OnlyFrames(x, Deltas) :
          c = Coded(e + a, e + a + BottomOffset + b, 0, 0, a, b)
    BY <2>1 DEF Counted1
  <2> HIDE DEF e
  <2>3. c.first = e + a /\ c.second = e + a + BottomOffset + b /\ c.d0 = a /\ c.d1 = b BY <2>2 DEF Coded
  <2>4. a \in Int /\ b \in Int BY <2>2, StreamAssumption DEF OnlyFrames
  <2>5. c.first = e + c.d0 /\ c.second = c.first + BottomOffset + c.d1 BY <2>3
  <2>6. QED BY <1>2, <2>3, <2>4, <2>5 DEF e
<1>3. CASE s.type = 2
  <2> DEFINE t == IF x.ref THEN 2 * CountOf(s, x) ELSE 2 * CountOf(s, x) - 1
  <2>1. c \in Counted2(s, x) BY <1>3 DEF CountsOf
  <2>2. c = Coded(t, t, 0, 0, 0, 0) BY <2>1 DEF Counted2
  <2> HIDE DEF t
  <2>3. c.first = t /\ c.second = t BY <2>2 DEF Coded
  <2>4. QED BY <1>3, <2>3 DEF t
<1>4. QED BY <1>1, <1>2, <1>3

LEMMA NextNear ==
  ASSUME NEW s, StreamGood(s), StreamInv(s), NEW h \in Heads(s)
  PROVE  Meant(s.type, h) /\ (h.idr \/ (s.head.id # 0 /\ Near(s, h))) /\ (h.mmco5 => ~s.open)
<1>1. PICK x \in Kinds(s) : \E c \in CountsOf(s, x) :
        /\ h.count = CountOf(s, x) /\ h.num = CountOf(s, x) % MaxFrameNum
        /\ h.struct = x.struct /\ h.idr = x.idr /\ h.ref = x.ref /\ h.mmco5 = x.mmco5
        /\ h.lsb = c.lsb /\ h.dbottom = c.dbottom /\ h.d0 = c.d0 /\ h.d1 = c.d1
        /\ h.first = c.first /\ h.second = c.second
  BY HeadsAre
<1>2. PICK c \in CountsOf(s, x) :
        /\ h.count = CountOf(s, x) /\ h.num = CountOf(s, x) % MaxFrameNum
        /\ h.struct = x.struct /\ h.idr = x.idr /\ h.ref = x.ref /\ h.mmco5 = x.mmco5
        /\ h.lsb = c.lsb /\ h.dbottom = c.dbottom /\ h.d0 = c.d0 /\ h.d1 = c.d1
        /\ h.first = c.first /\ h.second = c.second
  BY <1>1
<1>3. GoodKind(h) BY KindsGood
<1>4. s.type \in PocTypes /\ MaxFrameNum \in Nat \ {0} /\ MaxGap[s.type] \in 0 .. MaxFrameNum - 2
  BY StreamAssumption, ModuliAssumption DEF StreamGood
<1>5. /\ x.mmco5 => x.ref /\ ~s.open /\ x.struct \in Mmco5Structures[s.type]
      /\ s.open => ~x.idr /\ ~x.mmco5 /\ x.ref = s.head.ref /\ x.struct \in {"top", "bottom"}
      /\ ~s.open => x.gap \in 0 .. MaxGap[s.type] /\ x.struct \in Structures
      /\ s.head.id = 0 /\ ~s.open => x.idr
  BY KindsAre
<1>6. x.ref \in BOOLEAN /\ x.mmco5 \in BOOLEAN /\ (~s.open /\ ~s.gaps /\ ~x.idr => x.gap = 0)
  <2>1. CASE s.open
    <3>1. x = SecondField(s) BY <2>1 DEF Kinds
    <3>2. s.head.ref \in BOOLEAN BY <2>1 DEF StreamInv, Meant
    <3>3. QED BY <2>1, <3>1, <3>2 DEF SecondField
  <2>2. CASE ~s.open BY <2>2 DEF Kinds
  <2>3. QED BY <2>1, <2>2
<1>7. s.head.id # 0 => Meant(s.type, s.head) /\ s.refs = RefsOf(s.head) BY DEF StreamInv
<1>8. s.refs \in Nat BY DEF StreamInv
<1>9. /\ CountOf(s, x) \in Nat /\ (x.idr => CountOf(s, x) = 0) /\ (~x.ref => CountOf(s, x) > 0)
      /\ ~x.idr => /\ s.head.id # 0
                   /\ s.refs <= CountOf(s, x) /\ CountOf(s, x) < s.refs + MaxFrameNum
                   /\ (~x.ref => s.refs < CountOf(s, x))
                   /\ (~s.gaps => CountOf(s, x) <= s.refs + 1) /\ LastFrame(s.head) <= CountOf(s, x)
                   /\ s.open => CountOf(s, x) = LastFrame(s.head)
  <2>1. CASE x.idr
    <3>1. x.ref BY <1>2, <1>3, <2>1 DEF GoodKind
    <3>2. QED BY <2>1, <3>1 DEF CountOf
  <2>2. CASE ~x.idr /\ s.open
    <3>1. s.head.id # 0 BY <2>2 DEF StreamInv
    <3>2. CountOf(s, x) = LastFrame(s.head) BY <2>2 DEF CountOf, LastFrame
    <3>3. Meant(s.type, s.head) /\ s.refs = RefsOf(s.head) /\ x.ref = s.head.ref BY <1>5, <1>7, <2>2, <3>1
    <3>4. QED BY <1>4, <1>8, <2>2, <3>1, <3>2, <3>3 DEF LastFrame, RefsOf, Meant, GoodKind
  <2>3. CASE ~x.idr /\ ~s.open
    <3>1. s.head.id # 0 /\ x.gap \in 0 .. MaxFrameNum - 2 /\ (~s.gaps => x.gap = 0)
      BY <1>4, <1>5, <1>6, <2>3
    <3>2. CountOf(s, x) = s.refs + 1 + x.gap BY <2>3 DEF CountOf
    <3>3. LastFrame(s.head) <= s.refs + 1 BY <1>7, <3>1 DEF LastFrame, RefsOf, Meant
    <3>4. LastFrame(s.head) \in Int BY <1>7, <3>1 DEF LastFrame, Meant
    <3>5. QED BY <1>4, <1>8, <2>3, <3>1, <3>2, <3>3, <3>4
  <2>4. QED BY <2>1, <2>2, <2>3
<1>10. /\ s.type = 0 =>
              /\ c.first \in Int /\ c.lsb = c.first % MaxLsb /\ (x.idr => c.first = 0)
              /\ c.dbottom \in Int /\ (x.struct = "frame" => c.second = c.first + c.dbottom)
              /\ ~x.idr => -MaxLsb < 2 * (c.first - s.base) /\ 2 * (c.first - s.base) <= MaxLsb
       /\ s.type = 1 =>
              /\ c.first = ExpectedCount(CountOf(s, x), x.ref)
                             + (IF x.struct = "bottom" THEN BottomOffset ELSE 0) + c.d0
              /\ x.struct = "frame" => c.second = c.first + BottomOffset + c.d1
              /\ c.d0 \in Int /\ c.d1 \in Int
       /\ s.type = 2 =>
              c.first = (IF x.ref THEN 2 * CountOf(s, x) ELSE 2 * CountOf(s, x) - 1) /\ c.second = c.first
  BY <1>4, <1>9, CountsCoded DEF StreamInv
<1>11. x.struct \in {"frame", "top", "bottom"} BY <1>5, StreamAssumption
<1>12. BottomMmco5 /\ s.type = 0 /\ x.mmco5 => x.struct = "bottom" BY <1>4, <1>5 DEF BottomMmco5
<1>13. CountsMeant(s.type, h) BY <1>2, <1>10, <1>12 DEF CountsMeant
<1>14. {"num", "idr"} \subseteq DOMAIN h
  <2>1. \E y, d, i : h = HeadOf(s, y, d, i) BY DEF Heads
  <2>2. QED BY <2>1 DEF HeadOf
<1>15. Meant(s.type, h) BY <1>2, <1>3, <1>6, <1>9, <1>11, <1>13, <1>14 DEF Meant
<1>16. h.idr \/ (s.head.id # 0 /\ Near(s, h)) BY <1>2, <1>9, <1>10 DEF Near
<1>17. QED BY <1>2, <1>5, <1>15, <1>16

LEMMA BeginGood ==
  ASSUME NEW s, StreamGood(s), StreamInv(s), NEW h \in Heads(s), h.id # 0, NEW q
  PROVE  LET b == Begin(s, h, q)
         IN /\ StreamInv(b) /\ b.head = h /\ b.type = s.type /\ b.gaps = s.gaps
            /\ s.type = 0 /\ ~h.ref => b.base = s.base
<1> DEFINE b == Begin(s, h, q)
           o == h.struct # "frame" /\ ~s.open
           r == IF ~h.ref THEN h.count - 1 ELSE IF h.mmco5 THEN 0 ELSE h.count
           a == BaseAfter(s, h)
<1>1. Meant(s.type, h) /\ (h.mmco5 => ~s.open) BY NextNear
<1>2. b = [s EXCEPT !.head = h, !.left = q, !.closed = FALSE, !.open = o, !.refs = r, !.base = a]
  BY DEF Begin
<1>3. a = IF ~h.ref THEN s.base
          ELSE IF ~h.mmco5 THEN h.first
          ELSE IF h.struct = "frame" THEN h.first - Min2(h.first, h.second) ELSE 0
  BY DEF BaseAfter
<1>4. r = RefsOf(h) /\ r \in Nat BY <1>1 DEF RefsOf, Meant
<1>5. s.type = 0 => a \in Int
  <2>1. ASSUME s.type = 0 PROVE a \in Int
    <3>1. s.base \in Int /\ h.first \in Int BY <1>1, <2>1 DEF StreamInv, Meant, CountsMeant
    <3>2. CASE h.ref /\ h.mmco5 /\ h.struct = "frame"
      <4>1. h.second = h.first + h.dbottom /\ h.dbottom \in Int BY <1>1, <2>1, <3>2 DEF Meant, CountsMeant
      <4>2. a = h.first - Min2(h.first, h.second) BY <1>3, <3>2
      <4>3. Min2(h.first, h.second) \in Int BY <3>1, <4>1 DEF Min2
      <4>4. QED BY <3>1, <4>2, <4>3
    <3>3. CASE ~(h.ref /\ h.mmco5 /\ h.struct = "frame") BY <1>3, <3>1, <3>3
    <3>4. QED BY <3>2, <3>3
  <2>2. QED BY <2>1
<1>6. s.type = 0 /\ h.ref /\ BottomMmco5 => a = IF h.mmco5 THEN 0 ELSE h.first
  BY <1>1, <1>3 DEF Meant, CountsMeant
<1> HIDE DEF o, r, a, b
<1>7. /\ b.head = h /\ b.open = o /\ b.refs = r /\ b.base = a /\ b.type = s.type /\ b.gaps = s.gaps
  BY <1>2 DEF StreamGood
<1>8. o \in BOOLEAN /\ (h.mmco5 /\ h.struct = "bottom" => o) BY <1>1 DEF o
<1>9. StreamInv(b) BY <1>1, <1>4, <1>5, <1>6, <1>7, <1>8 DEF StreamInv
<1>10. QED BY <1>3, <1>7, <1>9 DEF b

-----------------------------------------------------------------------------
(* What the memory of decode_poc says: the last frame, without the wrap of  *)
(* frame_num, or the count of the last reference picture.                   *)
FramesCounted(m) == IF m.mm5 THEN 0 ELSE m.off + m.num
Unwraps(m) == m.mm5 \/ m.num = FramesCounted(m) % MaxFrameNum

(* pre_frame_num pn and the memory m reach the picture of h, the last of    *)
(* the stream s: the gap to it is filled, or is an error, and it gets the   *)
(* counts meant.                                                            *)
Ahead(s, m, pn, p, h) ==
  /\ pn = p % MaxFrameNum /\ p <= h.count /\ h.count < p + MaxFrameNum
  /\ (~h.ref => p < h.count) /\ (~s.gaps => h.count <= p + 1)
  /\ s.type # 0 => FramesCounted(m) \in {p, p + 1} /\ FramesCounted(m) <= h.count /\ Unwraps(m)
NearCount(s, m, pn, b, h) ==
  /\ IF m.mm5 THEN m.bottom /\ b = 0 /\ h.num = pn ELSE Remembers(m, b)
  /\ -MaxLsb < 2 * (h.first - b) /\ 2 * (h.first - b) <= MaxLsb
  /\ ~h.ref => s.base = b
Reaches(s, m, pn, h) ==
  IF h.idr THEN pn = h.num
  ELSE /\ \E p \in Nat : Ahead(s, m, pn, p, h)
       /\ s.type = 0 /\ BottomMmco5 => \E b \in Int : NearCount(s, m, pn, b, h)

(* They stand behind the last picture of the stream.                        *)
Standing(s, m, pn) ==
  /\ pn = s.refs % MaxFrameNum
  /\ s.type # 0 => FramesCounted(m) = LastFrame(s.head) /\ Unwraps(m)
  /\ s.type = 0 /\ BottomMmco5 =>
       /\ m.mm5 = s.head.mmco5
       /\ IF m.mm5 THEN m.bottom /\ s.open /\ s.base = 0 ELSE Remembers(m, s.base)

LEMMA StandingReaches ==
  ASSUME NEW s, StreamGood(s), StreamInv(s), NEW h \in Heads(s),
         NEW m, NEW pn, s.head.id # 0 => Standing(s, m, pn),
         NEW t, t.type = s.type, t.gaps = s.gaps, s.type = 0 /\ ~h.ref => t.base = s.base
  PROVE  Reaches(t, m, IF h.idr THEN h.num ELSE pn, h)
<1>1. CASE h.idr BY <1>1 DEF Reaches
<1>2. CASE ~h.idr
  <2>1. Meant(s.type, h) /\ s.head.id # 0 /\ Near(s, h) BY <1>2, NextNear
  <2>2. Standing(s, m, pn) /\ s.refs \in Nat /\ Meant(s.type, s.head) /\ s.refs = RefsOf(s.head)
    BY <2>1 DEF StreamInv
  <2>3. MaxFrameNum \in Nat \ {0} BY ModuliAssumption
  <2>4. LastFrame(s.head) \in {s.refs, s.refs + 1} BY <2>2 DEF LastFrame, RefsOf, Meant, GoodKind
  <2>5. Ahead(t, m, pn, s.refs, h) BY <2>1, <2>2, <2>4 DEF Near, Standing, Ahead
  <2>6. ASSUME s.type = 0, BottomMmco5 PROVE \E b \in Int : NearCount(t, m, pn, b, h)
    <3>1. s.base \in Int BY <2>6 DEF StreamInv
    <3>2. CASE m.mm5
      <4>1. m.bottom /\ s.open /\ s.base = 0 /\ s.head.mmco5 BY <2>2, <2>6, <3>2 DEF Standing
      <4>2. h.count = 0 /\ s.refs = 0
        BY <2>1, <2>2, <4>1 DEF Near, LastFrame, RefsOf, Meant, GoodKind
      <4>3. h.num = pn BY <2>1, <2>2, <4>2 DEF Meant, Standing
      <4>4. NearCount(t, m, pn, 0, h) BY <2>1, <2>6, <3>2, <4>1, <4>3 DEF NearCount, Near
      <4>5. QED BY <4>4
    <3>3. CASE ~m.mm5
      <4>1. Remembers(m, s.base) BY <2>2, <2>6, <3>3 DEF Standing
      <4>2. NearCount(t, m, pn, s.base, h) BY <2>1, <2>6, <3>3, <4>1 DEF NearCount, Near
      <4>3. QED BY <3>1, <4>2
    <3>4. QED BY <3>2, <3>3
  <2>7. QED BY <1>2, <2>2, <2>5, <2>6 DEF Reaches
<1>3. QED BY <1>1, <1>2

(* decode_poc of types 1 and 2: frame_num is counted without its wrap.      *)
LEMMA OffsetExact ==
  ASSUME NEW m \in Memories, NEW h, NEW k \in Nat, h.num = k % MaxFrameNum,
         IF h.idr THEN k = 0
         ELSE Unwraps(m) /\ FramesCounted(m) <= k /\ k < FramesCounted(m) + MaxFrameNum
  PROVE  FrameNumOffset(m, h) \in Int /\ h.num \in Int /\ FrameNumOffset(m, h) + h.num = k
<1>1. MaxFrameNum \in Nat \ {0} /\ 0 % MaxFrameNum = 0 BY ModuliAssumption, SMT
<1>2. h.num \in Int BY <1>1
<1>3. CASE h.idr BY <1>1, <1>2, <1>3 DEF FrameNumOffset
<1>4. CASE ~h.idr
  <2> DEFINE c == FramesCounted(m)
  <2>1. c \in Int /\ c <= k /\ k < c + MaxFrameNum BY <1>4 DEF FramesCounted, Memories
  <2>2. (IF k % MaxFrameNum < c % MaxFrameNum
         THEN c - (c % MaxFrameNum) + MaxFrameNum ELSE c - (c % MaxFrameNum)) + (k % MaxFrameNum) = k
    <3> HIDE DEF c
    <3>1. k \in Int OBVIOUS
    <3>2. QED BY <1>1, <2>1, <3>1, WrapCount, Zenon
  <2>3. /\ (IF m.mm5 THEN 0 ELSE m.num) = c % MaxFrameNum
        /\ (IF m.mm5 THEN 0 ELSE m.off) = c - (c % MaxFrameNum)
    <3>1. CASE m.mm5
      <4>1. c = 0 BY <3>1 DEF FramesCounted
      <4> HIDE DEF c
      <4>2. QED BY <1>1, <3>1, <4>1
    <3>2. CASE ~m.mm5
      <4>1. c = m.off + m.num /\ m.num = c % MaxFrameNum BY <1>4, <3>2 DEF FramesCounted, Unwraps
      <4>2. m.off \in Int /\ m.num \in Int BY DEF Memories
      <4> HIDE DEF c
      <4>3. QED BY <3>2, <4>1, <4>2
    <3>3. QED BY <3>1, <3>2
  <2>4. c % MaxFrameNum \in Int BY <1>1, <2>1
  <2>5. FrameNumOffset(m, h) =
          IF h.num < c % MaxFrameNum THEN c - (c % MaxFrameNum) + MaxFrameNum ELSE c - (c % MaxFrameNum)
    <3> HIDE DEF c
    <3>1. QED BY <1>4, <2>3 DEF FrameNumOffset
  <2> HIDE DEF c
  <2>6. QED BY <1>1, <1>2, <2>1, <2>2, <2>4, <2>5
<1>5. QED BY <1>3, <1>4

-----------------------------------------------------------------------------
(* Induction over the natural numbers, from their having a least element in *)
(* every set.                                                               *)
LEMMA LeastOf ==
  ASSUME NEW T \in SUBSET Nat, T # {}
  PROVE  \E x \in T : \A y \in T : x <= y
<1> DEFINE R == OpToRel(<, Nat)
<1>1. IsWellFoundedOn(R, Nat) BY NatLessThanWellFounded
<1>2. R = {ss \in Nat \X Nat : ss[1] < ss[2]} BY DEF OpToRel
<1> HIDE DEF R
<1>3. T \subseteq Nat OBVIOUS
<1>4. \E x \in T : \A y \in T : <<y, x>> \notin R BY <1>1, <1>3, WFMin, Zenon
<1>5. PICK x \in T : \A y \in T : <<y, x>> \notin R BY <1>4
<1>6. \A y \in T : ~(y < x)
  <2>1. TAKE y \in T
  <2>2. <<y, x>> \in Nat \X Nat OBVIOUS
  <2>3. QED BY <1>2, <1>5, <2>2
<1>7. QED BY <1>6

LEMMA Inducts ==
  ASSUME NEW T \in SUBSET Nat, 0 \in T, \A i \in T : i + 1 \in T
  PROVE  \A i \in Nat : i \in T
<1>1. SUFFICES ASSUME Nat \ T # {} PROVE FALSE OBVIOUS
<1>2. PICK x \in Nat \ T : \A y \in Nat \ T : x <= y BY <1>1, LeastOf
<1>3. x - 1 \in T BY <1>2
<1>4. QED BY <1>2, <1>3

(* g has the sums of f over the subsets of 1 .. n.                          *)
IsSum(g, f, k) ==
  /\ g[{}] = 0
  /\ \A s \in SUBSET (1 .. k) : g[s] \in Int /\ \A x \in (1 .. k) \ s : g[s \cup {x}] = g[s] + f[x]

LEMMA SumExists ==
  ASSUME NEW f \in [Nat -> Int]
  PROVE  \A k \in Nat : \E g : IsSum(g, f, k)
<1> DEFINE T == {k \in Nat : \E g : IsSum(g, f, k)}
<1>1. 0 \in T
  <2> DEFINE g == [s \in {{}} |-> 0]
  <2>1. 1 .. 0 = {} OBVIOUS
  <2>2. g[{}] = 0 OBVIOUS
  <2> HIDE DEF g
  <2>3. \A s \in SUBSET (1 .. 0) : g[s] \in Int /\ (1 .. 0) \ s = {}
    <3>1. TAKE s \in SUBSET (1 .. 0)
    <3>2. \A x \in s : FALSE BY <2>1
    <3>3. s = {} BY <3>2
    <3>4. QED BY <2>1, <2>2, <3>3
  <2>4. IsSum(g, f, 0) BY <2>2, <2>3 DEF IsSum
  <2>5. QED BY <2>4
<1>2. ASSUME NEW k \in T PROVE k + 1 \in T
  <2>1. k \in Nat /\ 1 .. (k + 1) = (1 .. k) \cup {k + 1} /\ k + 1 \notin 1 .. k OBVIOUS
  <2>2. PICK h : IsSum(h, f, k) OBVIOUS
  <2> DEFINE g == [s \in SUBSET (1 .. (k + 1)) |->
                     IF k + 1 \in s THEN h[s \ {k + 1}] + f[k + 1] ELSE h[s]]
  <2>3. g[{}] = 0 BY <2>2 DEF IsSum
  <2>4. ASSUME NEW s \in SUBSET (1 .. (k + 1))
        PROVE  g[s] \in Int /\ \A x \in (1 .. (k + 1)) \ s : g[s \cup {x}] = g[s] + f[x]
    <3> DEFINE r == s \ {k + 1}
    <3>1. r \in SUBSET (1 .. k) /\ f[k + 1] \in Int BY <2>1
    <3>2. h[r] \in Int /\ \A x \in (1 .. k) \ r : h[r \cup {x}] = h[r] + f[x] BY <2>2, <3>1 DEF IsSum
    <3>3. g[s] = IF k + 1 \in s THEN h[r] + f[k + 1] ELSE h[r]
      <4>1. k + 1 \notin s => r = s OBVIOUS
      <4>2. QED BY <4>1
    <3>4. ASSUME NEW x \in (1 .. (k + 1)) \ s PROVE g[s \cup {x}] = g[s] + f[x]
      <4> DEFINE u == s \cup {x}
      <4>1. u \in SUBSET (1 .. (k + 1)) /\ f[x] \in Int OBVIOUS
      <4>2. g[u] = IF k + 1 \in u THEN h[u \ {k + 1}] + f[k + 1] ELSE h[u] BY <4>1
      <4>3. CASE x = k + 1
        <5>1. k + 1 \in u /\ u \ {k + 1} = r /\ k + 1 \notin s BY <4>3
        <5> HIDE DEF g, r, u
        <5>2. g[u] = h[r] + f[x] BY <4>2, <4>3, <5>1
        <5>3. QED BY <3>3, <5>1, <5>2 DEF u
      <4>4. CASE x # k + 1
        <5>1. /\ k + 1 \in u <=> k + 1 \in s
              /\ x \in (1 .. k) \ r /\ u \ {k + 1} = r \cup {x} /\ (k + 1 \notin u => u = r \cup {x})
          BY <2>1, <4>4
        <5> HIDE DEF g, r, u
        <5>2. h[r \cup {x}] = h[r] + f[x] BY <3>2, <5>1
        <5>3. CASE k + 1 \in s
          <6>1. g[u] = h[r \cup {x}] + f[k + 1] /\ g[s] = h[r] + f[k + 1] BY <3>3, <4>2, <5>1, <5>3
          <6>2. g[u] = g[s] + f[x] BY <3>1, <3>2, <4>1, <5>2, <6>1
          <6>3. QED BY <6>2 DEF u
        <5>4. CASE k + 1 \notin s
          <6>1. g[u] = h[r \cup {x}] /\ g[s] = h[r] BY <3>3, <4>2, <5>1, <5>4
          <6>2. QED BY <5>2, <6>1 DEF u
        <5>5. QED BY <5>3, <5>4
      <4>5. QED BY <4>3, <4>4
    <3> HIDE DEF g, r
    <3>5. QED BY <3>1, <3>2, <3>3, <3>4
  <2> HIDE DEF g
  <2>5. IsSum(g, f, k + 1) BY <2>3, <2>4 DEF IsSum
  <2>6. QED BY <2>1, <2>5
<1> HIDE DEF T
<1>3. T \in SUBSET Nat BY DEF T
<1>4. \A k \in Nat : k \in T BY <1>1, <1>2, <1>3, Inducts
<1>5. QED BY <1>4 DEF T

(* The sum of f over 1 .. k.                                                *)
Total(f, k) == (CHOOSE g : IsSum(g, f, k))[1 .. k]

LEMMA TotalNext ==
  ASSUME NEW f \in [Nat -> Int]
  PROVE  /\ Total(f, 0) = 0
         /\ \A k \in Nat : Total(f, k) \in Int /\ Total(f, k + 1) = Total(f, k) + f[k + 1]
<1> DEFINE G(k) == CHOOSE g : IsSum(g, f, k)
<1>1. \A k \in Nat : IsSum(G(k), f, k) BY SumExists
<1> HIDE DEF G
<1>2. \A k : Total(f, k) = G(k)[1 .. k] BY DEF Total, G
<1>3. Total(f, 0) = 0
  <2>1. 1 .. 0 = {} /\ 0 \in Nat OBVIOUS
  <2>2. G(0)[{}] = 0 BY <1>1, <2>1 DEF IsSum
  <2>3. QED BY <1>2, <2>1, <2>2
<1>4. ASSUME NEW k \in Nat PROVE Total(f, k) \in Int /\ Total(f, k + 1) = Total(f, k) + f[k + 1]
  <2> DEFINE T == {j \in Nat : j <= k => G(k)[1 .. j] = G(k + 1)[1 .. j]}
  <2>1. k + 1 \in Nat OBVIOUS
  <2>2. IsSum(G(k), f, k) /\ IsSum(G(k + 1), f, k + 1) BY <1>1, <2>1
  <2>3. 0 \in T
    <3>1. 1 .. 0 = {} /\ G(k)[{}] = 0 /\ G(k + 1)[{}] = 0 BY <2>2 DEF IsSum
    <3>2. QED BY <3>1
  <2>4. ASSUME NEW j \in T PROVE j + 1 \in T
    <3>1. SUFFICES ASSUME j + 1 <= k PROVE G(k)[1 .. (j + 1)] = G(k + 1)[1 .. (j + 1)] OBVIOUS
    <3>2. G(k)[1 .. j] = G(k + 1)[1 .. j] BY <3>1
    <3>3. /\ 1 .. (j + 1) = (1 .. j) \cup {j + 1} /\ 1 .. j \in SUBSET (1 .. k) /\ j + 1 \in (1 .. k) \ (1 .. j)
          /\ 1 .. j \in SUBSET (1 .. (k + 1)) /\ j + 1 \in (1 .. (k + 1)) \ (1 .. j)
      BY <3>1
    <3>4. G(k)[(1 .. j) \cup {j + 1}] = G(k)[1 .. j] + f[j + 1] BY <2>2, <3>3 DEF IsSum
    <3>5. G(k + 1)[(1 .. j) \cup {j + 1}] = G(k + 1)[1 .. j] + f[j + 1] BY <2>2, <3>3 DEF IsSum
    <3>6. QED BY <3>2, <3>3, <3>4, <3>5
  <2> HIDE DEF T
  <2>5. T \in SUBSET Nat BY DEF T
  <2>6. \A j \in Nat : j \in T BY <2>3, <2>4, <2>5, Inducts
  <2>7. G(k)[1 .. k] = G(k + 1)[1 .. k] BY <2>6 DEF T
  <2>8. /\ 1 .. (k + 1) = (1 .. k) \cup {k + 1} /\ 1 .. k \in SUBSET (1 .. (k + 1))
        /\ k + 1 \in (1 .. (k + 1)) \ (1 .. k)
    OBVIOUS
  <2>9. G(k + 1)[(1 .. k) \cup {k + 1}] = G(k + 1)[1 .. k] + f[k + 1] /\ G(k + 1)[1 .. k] \in Int
    BY <2>2, <2>8 DEF IsSum
  <2>10. QED BY <1>2, <2>7, <2>8, <2>9
<1>5. QED BY <1>3, <1>4

(* What a fold over 1 .. k computes, whatever order it takes the elements   *)
(* in: ch[s] is the one it takes of s.                                      *)
Chooses(ch, k) == \A s \in SUBSET (1 .. k) : s # {} => ch[s] \in s

IsFold(g, f, ch, k) ==
  /\ g \in [SUBSET (1 .. k) -> Int]
  /\ \A s \in SUBSET (1 .. k) : g[s] = IF s = {} THEN 0 ELSE f[ch[s]] + g[s \ {ch[s]}]

LEMMA FoldExists ==
  ASSUME NEW k \in Nat, NEW f \in [Nat -> Int], NEW ch, Chooses(ch, k)
  PROVE  \E g : IsFold(g, f, ch, k)
<1>1. PICK h : IsSum(h, f, k) BY SumExists
<1> DEFINE g == [s \in SUBSET (1 .. k) |-> h[s]]
<1>2. g \in [SUBSET (1 .. k) -> Int] BY <1>1 DEF IsSum
<1>3. ASSUME NEW s \in SUBSET (1 .. k) PROVE g[s] = IF s = {} THEN 0 ELSE f[ch[s]] + g[s \ {ch[s]}]
  <2>1. g[{}] = 0 BY <1>1 DEF IsSum
  <2>2. ASSUME s # {} PROVE g[s] = f[ch[s]] + g[s \ {ch[s]}]
    <3> DEFINE x == ch[s]
               r == s \ {x}
    <3>1. x \in s BY <2>2 DEF Chooses
    <3>2. r \in SUBSET (1 .. k) /\ x \in (1 .. k) \ r /\ s = r \cup {x} BY <3>1
    <3>3. h[r] \in Int /\ h[r \cup {x}] = h[r] + f[x] BY <1>1, <3>2 DEF IsSum
    <3>4. g[s] = h[s] /\ g[r] = h[r] /\ f[x] \in Int BY <3>2
    <3> HIDE DEF x, r, g
    <3>5. g[s] = f[x] + g[r] BY <3>2, <3>3, <3>4
    <3>6. QED BY <3>5 DEF x, r
  <2> HIDE DEF g
  <2>3. QED BY <2>1, <2>2
<1> HIDE DEF g
<1>4. IsFold(g, f, ch, k) BY <1>2, <1>3 DEF IsFold
<1>5. QED BY <1>4

Folds(g, f, ch, k) ==
  \A s \in SUBSET (1 .. k) :
    IF s = {} THEN g[s] = 0
    ELSE g[s] = f[ch[s]] + g[s \ {ch[s]}] \/ g[s] = g[s \ {ch[s]}] + f[ch[s]]

LEMMA FoldIsTotal ==
  ASSUME NEW k \in Nat, NEW f \in [Nat -> Int], NEW ch, Chooses(ch, k), NEW g, Folds(g, f, ch, k)
  PROVE  g[1 .. k] = Total(f, k)
<1> DEFINE h == CHOOSE u : IsSum(u, f, k)
           T == {j \in Nat : \A s \in SUBSET (1 .. k) : Cardinality(s) = j => g[s] = h[s]}
<1>1. IsSum(h, f, k) BY SumExists
<1>2. Total(f, k) = h[1 .. k] BY DEF Total
<1> HIDE DEF h
<1>3. IsFiniteSet(1 .. k) BY FS_Interval
<1>4. \A s \in SUBSET (1 .. k) : IsFiniteSet(s) BY <1>3, FS_Subset
<1>5. 0 \in T
  <2>1. ASSUME NEW s \in SUBSET (1 .. k), Cardinality(s) = 0 PROVE g[s] = h[s]
    <3>1. s = {} BY <1>4, <2>1, FS_EmptySet
    <3>2. QED BY <1>1, <3>1 DEF IsSum, Folds
  <2>2. QED BY <2>1
<1>6. ASSUME NEW j \in T PROVE j + 1 \in T
  <2>1. ASSUME NEW s \in SUBSET (1 .. k), Cardinality(s) = j + 1 PROVE g[s] = h[s]
    <3> DEFINE x == ch[s]
               r == s \ {x}
    <3>1. s # {}
      <4>1. j + 1 # 0 OBVIOUS
      <4>2. QED BY <2>1, <4>1, FS_EmptySet
    <3>2. x \in s BY <3>1 DEF Chooses
    <3>3. Cardinality(r) = Cardinality(s) - 1 BY <1>4, <3>2, FS_RemoveElement
    <3>4. r \in SUBSET (1 .. k) /\ x \in (1 .. k) \ r /\ s = r \cup {x} BY <3>2
    <3>5. Cardinality(r) = j BY <2>1, <3>3
    <3>6. g[r] = h[r] BY <3>4, <3>5
    <3>7. g[s] = f[x] + g[r] \/ g[s] = g[r] + f[x] BY <3>1 DEF Folds
    <3>8. h[r] \in Int /\ h[r \cup {x}] = h[r] + f[x] BY <1>1, <3>4 DEF IsSum
    <3>9. f[x] \in Int BY <3>4
    <3> HIDE DEF x, r
    <3>10. QED BY <3>4, <3>6, <3>7, <3>8, <3>9
  <2>2. QED BY <2>1
<1> HIDE DEF T
<1>7. T \in SUBSET Nat BY DEF T
<1>8. \A j \in Nat : j \in T BY <1>5, <1>6, <1>7, Inducts
<1>9. Cardinality(1 .. k) \in Nat BY <1>3, FS_CardinalityType
<1>10. QED BY <1>2, <1>8, <1>9 DEF T

-----------------------------------------------------------------------------
(* pic_order_cnt_type 1: the offsets of all frames, cycle after cycle.      *)
Offset == [i \in Nat |-> OffsetOfFrame(i)]
OffsetInCycle == [i \in Nat |-> IF i \in 1 .. Len(RefOffsets) THEN RefOffsets[i] ELSE 0]

LEMMA OffsetsAre ==
  /\ Len(RefOffsets) \in Nat /\ (RefOffsets # <<>> => Len(RefOffsets) > 0)
  /\ \A i \in 1 .. Len(RefOffsets) : RefOffsets[i] \in Int
  /\ OffsetInCycle \in [Nat -> Int]
<1>1. RefOffsets \in Seq(Int) BY OffsetsAssumption
<1>2. /\ Len(RefOffsets) \in Nat /\ (RefOffsets # <<>> => Len(RefOffsets) > 0)
      /\ \A i \in 1 .. Len(RefOffsets) : RefOffsets[i] \in Int
  BY <1>1
<1>3. QED BY <1>2 DEF OffsetInCycle

LEMMA MaxIn ==
  ASSUME NEW k \in Nat, NEW s \in SUBSET (1 .. k), s # {}
  PROVE  Max(s) \in s
<1> DEFINE T == {j \in Nat : k - j \in s}
<1>1. T # {}
  <2>1. PICK x \in s : TRUE OBVIOUS
  <2>2. k - x \in Nat /\ k - (k - x) = x BY <2>1
  <2>3. k - x \in T BY <2>1, <2>2
  <2>4. QED BY <2>3
<1>2. T \in SUBSET Nat OBVIOUS
<1> HIDE DEF T
<1>3. PICK j \in T : \A i \in T : j <= i BY <1>1, <1>2, LeastOf
<1>4. j \in Nat /\ k - j \in s BY <1>3 DEF T
<1>5. ASSUME NEW y \in s PROVE k - j >= y
  <2>1. k - y \in Nat /\ k - (k - y) = y OBVIOUS
  <2>2. k - y \in T BY <2>1 DEF T
  <2>3. j <= k - y BY <1>3, <2>2
  <2>4. QED BY <1>4, <2>1, <2>3
<1>6. \E x \in s : \A y \in s : x >= y BY <1>4, <1>5
<1>7. (CHOOSE x \in s : \A y \in s : x >= y) \in s BY <1>6
<1>8. QED BY <1>7 DEF Max

LEMMA SumOfOffsetsIs ==
  ASSUME NEW j \in 0 .. Len(RefOffsets)
  PROVE  SumOfOffsets(j) = Total(OffsetInCycle, j)
<1> DEFINE q == SubSeq(RefOffsets, 1, j)
           f == OffsetInCycle
           ch == [s \in SUBSET (1 .. j) |-> Max(s)]
           G(g) == [s \in SUBSET (DOMAIN q) |->
                      IF s = {} THEN 0 ELSE LET x == Max(s) IN g[s \ {x}] + q[x]]
           iter == CHOOSE g : g = G(g)
<1>1. j \in Nat /\ j <= Len(RefOffsets) /\ f \in [Nat -> Int] BY OffsetsAre
<1>2. q \in Seq(Int) /\ Len(q) = j /\ \A i \in 1 .. j : q[i] = RefOffsets[i]
  BY <1>1, OffsetsAssumption, OffsetsAre
<1>3. DOMAIN q = 1 .. j BY <1>2
<1>4. \A i \in 1 .. j : q[i] = f[i] /\ f[i] \in Int
  BY <1>1, <1>2, OffsetsAre DEF OffsetInCycle
<1>5. SumOfOffsets(j) = iter[DOMAIN q] BY DEF SumOfOffsets, FoldLeft, MapThenFoldSet
<1> HIDE DEF q, f
<1>6. Chooses(ch, j) BY <1>1, MaxIn DEF Chooses
<1>7. \A s \in SUBSET (1 .. j) : ch[s] = Max(s) OBVIOUS
<1> HIDE DEF ch
<1>8. \A g : \A s \in SUBSET (1 .. j) :
        G(g)[s] = IF s = {} THEN 0 ELSE g[s \ {ch[s]}] + f[ch[s]]
  <2>1. TAKE g
  <2>2. TAKE s \in SUBSET (1 .. j)
  <2>3. G(g)[s] = IF s = {} THEN 0 ELSE g[s \ {ch[s]}] + q[ch[s]] BY <1>3, <1>7
  <2>4. s # {} => ch[s] \in 1 .. j BY <1>6 DEF Chooses
  <2> HIDE DEF G
  <2>5. QED BY <1>4, <2>3, <2>4
<1>9. \A g : G(g) = [s \in SUBSET (1 .. j) |-> G(g)[s]] BY <1>3
<1>10. PICK h : IsFold(h, f, ch, j) BY <1>1, <1>6, FoldExists
<1> HIDE DEF G
<1>11. h = G(h)
  <2>1. ASSUME NEW s \in SUBSET (1 .. j) PROVE h[s] = G(h)[s]
    <3>1. s # {} => ch[s] \in 1 .. j /\ s \ {ch[s]} \in SUBSET (1 .. j) BY <1>6 DEF Chooses
    <3>2. s # {} => h[s \ {ch[s]}] \in Int /\ f[ch[s]] \in Int BY <1>4, <1>10, <3>1 DEF IsFold
    <3>3. h[s] = IF s = {} THEN 0 ELSE f[ch[s]] + h[s \ {ch[s]}] BY <1>10 DEF IsFold
    <3>4. G(h)[s] = IF s = {} THEN 0 ELSE h[s \ {ch[s]}] + f[ch[s]] BY <1>8, Zenon
    <3>5. QED BY <3>2, <3>3, <3>4
  <2>2. h = [s \in SUBSET (1 .. j) |-> h[s]] BY <1>10 DEF IsFold
  <2>3. [s \in SUBSET (1 .. j) |-> h[s]] = [s \in SUBSET (1 .. j) |-> G(h)[s]] BY <2>1
  <2>4. G(h) = [s \in SUBSET (1 .. j) |-> G(h)[s]] BY <1>9, Zenon
  <2>5. QED BY <2>2, <2>3, <2>4, Zenon
<1>12. iter = G(iter) BY <1>11
<1> HIDE DEF iter
<1>13. Folds(iter, f, ch, j)
  BY <1>8, <1>12 DEF Folds
<1>14. iter[1 .. j] = Total(f, j) BY <1>1, <1>6, <1>13, FoldIsTotal
<1>15. QED BY <1>3, <1>5, <1>14 DEF f

LEMMA SumOfFramesIs ==
  ASSUME NEW k \in Nat, NEW f \in [Nat -> Int], \A i \in 1 .. k : OffsetOfFrame(i) = f[i]
  PROVE  MapThenSumSet(OffsetOfFrame, 1 .. k) = Total(f, k)
<1> DEFINE ch == [s \in SUBSET (1 .. k) |-> CHOOSE x \in s : TRUE]
           G(g) == [s \in SUBSET (1 .. k) |->
                      IF s = {} THEN 0 ELSE LET x == CHOOSE x \in s : TRUE IN OffsetOfFrame(x) + g[s \ {x}]]
           iter == CHOOSE g : g = G(g)
<1>1. MapThenSumSet(OffsetOfFrame, 1 .. k) = iter[1 .. k] BY DEF MapThenSumSet, MapThenFoldSet
<1>2. \A s \in SUBSET (1 .. k) : ch[s] = CHOOSE x \in s : TRUE OBVIOUS
<1>3. Chooses(ch, k) BY DEF Chooses
<1> HIDE DEF ch
<1>4. \A g : \A s \in SUBSET (1 .. k) :
        G(g)[s] = IF s = {} THEN 0 ELSE f[ch[s]] + g[s \ {ch[s]}]
  <2>1. TAKE g
  <2>2. TAKE s \in SUBSET (1 .. k)
  <2>3. G(g)[s] = IF s = {} THEN 0 ELSE OffsetOfFrame(ch[s]) + g[s \ {ch[s]}] BY <1>2
  <2>4. s # {} => ch[s] \in 1 .. k BY <1>3 DEF Chooses
  <2> HIDE DEF G
  <2>5. QED BY <2>3, <2>4
<1>5. \A g : G(g) = [s \in SUBSET (1 .. k) |-> G(g)[s]] OBVIOUS
<1>6. PICK h : IsFold(h, f, ch, k) BY <1>3, FoldExists
<1> HIDE DEF G
<1>7. h = G(h)
  <2>1. ASSUME NEW s \in SUBSET (1 .. k) PROVE h[s] = G(h)[s]
    <3>1. h[s] = IF s = {} THEN 0 ELSE f[ch[s]] + h[s \ {ch[s]}] BY <1>6 DEF IsFold
    <3>2. G(h)[s] = IF s = {} THEN 0 ELSE f[ch[s]] + h[s \ {ch[s]}] BY <1>4, Zenon
    <3>3. QED BY <3>1, <3>2
  <2>2. h = [s \in SUBSET (1 .. k) |-> h[s]] BY <1>6 DEF IsFold
  <2>3. [s \in SUBSET (1 .. k) |-> h[s]] = [s \in SUBSET (1 .. k) |-> G(h)[s]] BY <2>1
  <2>4. G(h) = [s \in SUBSET (1 .. k) |-> G(h)[s]] BY <1>5, Zenon
  <2>5. QED BY <2>2, <2>3, <2>4, Zenon
<1>8. iter = G(iter) BY <1>7
<1> HIDE DEF iter
<1>9. Folds(iter, f, ch, k)
  BY <1>4, <1>8 DEF Folds
<1>10. iter[1 .. k] = Total(f, k) BY <1>3, <1>9, FoldIsTotal
<1>11. QED BY <1>1, <1>10

(* One more frame: the next place in the cycle, or the next cycle.          *)
LEMMA TurnNext ==
  ASSUME NEW M \in Nat \ {0}, NEW k \in Nat
  PROVE  /\ k \div M \in Nat /\ k % M \in 0 .. M - 1
         /\ IF (k % M) + 1 < M
            THEN (k + 1) \div M = k \div M /\ (k + 1) % M = (k % M) + 1
            ELSE (k + 1) \div M = (k \div M) + 1 /\ (k + 1) % M = 0
<1>1. /\ k \div M \in Nat /\ k % M \in 0 .. M - 1 /\ k = M * (k \div M) + (k % M)
      /\ (k + 1) \div M \in Nat /\ (k + 1) % M \in 0 .. M - 1 /\ k + 1 = M * ((k + 1) \div M) + ((k + 1) % M)
  BY SMT
<1> DEFINE a == k \div M
           b == (k + 1) \div M
           r == k % M
           u == (k + 1) % M
<1>2. /\ a \in Nat /\ b \in Nat /\ r \in 0 .. M - 1 /\ u \in 0 .. M - 1
      /\ k = M * a + r /\ k + 1 = M * b + u
  BY <1>1
<1> HIDE DEF a, b, r, u
<1>3. M * a \in Int /\ M * b \in Int /\ M * (a + 1) = M * a + M BY <1>2, SMT
<1>4. M * b - M * a = r + 1 - u BY <1>2, <1>3
<1>5. b = a \/ b = a + 1
  <2>1. CASE b < a
    <3>1. M * a >= M * b + M
      <4>1. a - b >= 1 /\ a - b \in Nat BY <1>2, <2>1
      <4>2. M * (a - b) >= M BY <4>1, SMT
      <4>3. M * (a - b) = M * a - M * b BY <1>2, SMT
      <4>4. QED BY <1>3, <4>2, <4>3
    <3>2. QED BY <1>2, <1>3, <1>4, <3>1
  <2>2. CASE b > a + 1
    <3>1. M * b >= M * a + M + M
      <4>1. b - a >= 2 /\ b - a \in Nat BY <1>2, <2>2
      <4>2. M * (b - a) >= M * 2 BY <4>1, SMT
      <4>3. M * (b - a) = M * b - M * a /\ M * 2 = M + M BY <1>2, SMT
      <4>4. QED BY <1>3, <4>2, <4>3
    <3>2. QED BY <1>2, <1>3, <1>4, <3>1
  <2>3. QED BY <1>2, <2>1, <2>2
<1>6. IF r + 1 < M THEN b = a /\ u = r + 1 ELSE b = a + 1 /\ u = 0 BY <1>2, <1>3, <1>4, <1>5
<1>7. QED BY <1>2, <1>6 DEF a, b, r, u

(* The sum up to a frame is that of its cycles and the rest.                *)
LEMMA CyclesSummed ==
  ASSUME RefOffsets # <<>>
  PROVE  /\ Offset \in [Nat -> Int]
         /\ \A k \in Nat : Total(Offset, k + 1) = CyclePosition(k + 1)
<1> DEFINE L == Len(RefOffsets)
           c == OffsetInCycle
           U(j) == Total(c, j)
<1>1. L \in Nat \ {0} /\ c \in [Nat -> Int] BY OffsetsAre
<1>2. U(0) = 0 /\ \A j \in Nat : U(j) \in Int /\ U(j + 1) = U(j) + c[j + 1] BY <1>1, TotalNext
<1>3. \A i \in Int : OffsetOfFrame(i) \in Int /\ OffsetOfFrame(i) = c[((i - 1) % L) + 1]
  <2>1. TAKE i \in Int
  <2>2. i - 1 \in Int OBVIOUS
  <2>3. (i - 1) % L \in 0 .. L - 1 BY <1>1, <2>2
  <2>4. ((i - 1) % L) + 1 \in 1 .. L BY <1>1, <2>3
  <2>5. OffsetOfFrame(i) = RefOffsets[((i - 1) % L) + 1] BY DEF OffsetOfFrame
  <2> DEFINE z == ((i - 1) % L) + 1
  <2>6. z \in 1 .. L /\ OffsetOfFrame(i) = RefOffsets[z] BY <2>4, <2>5
  <2> HIDE DEF z
  <2>7. RefOffsets[z] \in Int /\ c[z] = RefOffsets[z] BY <1>1, <2>6, OffsetsAre DEF OffsetInCycle
  <2>8. QED BY <2>6, <2>7 DEF z
<1>4. Offset \in [Nat -> Int] BY <1>3 DEF Offset
<1>5. Total(Offset, 0) = 0 /\ \A k \in Nat : Total(Offset, k) \in Int /\ Total(Offset, k + 1) = Total(Offset, k) + Offset[k + 1]
  BY <1>4, TotalNext
<1> HIDE DEF L, c, U
<1>6. \A k \in Nat : Offset[k + 1] = c[(k % L) + 1]
  <2>1. TAKE k \in Nat
  <2>2. Offset[k + 1] = OffsetOfFrame(k + 1) /\ k + 1 \in Int /\ (k + 1) - 1 = k BY DEF Offset
  <2>3. QED BY <1>3, <2>2
<1> DEFINE T == {k \in Nat : Total(Offset, k) = (k \div L) * U(L) + U(k % L)}
<1>7. 0 \in T
  <2>1. 0 \div L = 0 /\ 0 % L = 0 BY <1>1, SMT
  <2>2. 0 * U(L) = 0 BY <1>1, <1>2, SMT
  <2>3. QED BY <1>2, <1>5, <2>1, <2>2
<1>8. ASSUME NEW k \in T PROVE k + 1 \in T /\ Total(Offset, k + 1) = (k \div L) * U(L) + U((k % L) + 1)
  <2> DEFINE a == k \div L
             r == k % L
  <2>1. k \in Nat /\ Total(Offset, k) = a * U(L) + U(r) OBVIOUS
  <2>2. /\ a \in Nat /\ r \in 0 .. L - 1
        /\ IF r + 1 < L THEN (k + 1) \div L = a /\ (k + 1) % L = r + 1
                        ELSE (k + 1) \div L = a + 1 /\ (k + 1) % L = 0
    BY <1>1, <2>1, TurnNext
  <2>3. Total(Offset, k + 1) = Total(Offset, k) + c[r + 1] BY <1>5, <1>6, <2>1
  <2> HIDE DEF a, r
  <2>4. r \in Nat /\ U(r) \in Int /\ U(r + 1) = U(r) + c[r + 1] /\ U(L) \in Int
    <3>1. r \in Nat /\ L \in Nat BY <1>1, <2>2
    <3>2. QED BY <1>2, <3>1, Zenon
  <2>5. c[r + 1] \in Int BY <1>1, <2>4
  <2>6. a * U(L) \in Int /\ (a + 1) * U(L) = a * U(L) + U(L)
    <3> DEFINE w == U(L)
    <3>1. a \in Int /\ w \in Int BY <2>2, <2>4
    <3> HIDE DEF w
    <3>2. a * w \in Int /\ (a + 1) * w = a * w + w BY <3>1, SMT
    <3>3. QED BY <3>2 DEF w
  <2>7. Total(Offset, k + 1) = a * U(L) + U(r + 1)
    <3> DEFINE y == a * U(L)
    <3>1. y \in Int /\ Total(Offset, k + 1) = (y + U(r)) + c[r + 1] BY <2>1, <2>3, <2>6
    <3> HIDE DEF y
    <3>2. Total(Offset, k + 1) = y + U(r + 1) BY <2>4, <2>5, <3>1
    <3>3. QED BY <3>2 DEF y
  <2>8. CASE r + 1 < L
    <3>1. Total(Offset, k + 1) = ((k + 1) \div L) * U(L) + U((k + 1) % L) BY <2>2, <2>7, <2>8
    <3>2. QED BY <2>1, <2>7, <3>1 DEF a, r
  <2>9. CASE ~(r + 1 < L)
    <3>1. r + 1 = L BY <1>1, <2>2, <2>9
    <3>2. Total(Offset, k + 1) = (a + 1) * U(L) + U(0)
      <4>1. Total(Offset, k + 1) = a * U(L) + U(L) BY <2>7, <3>1
      <4> DEFINE w == (a + 1) * U(L)
      <4>2. w \in Int /\ Total(Offset, k + 1) = w BY <2>4, <2>6, <4>1
      <4> HIDE DEF w
      <4>3. Total(Offset, k + 1) = w + U(0) BY <1>2, <4>2
      <4>4. QED BY <4>3 DEF w
    <3>3. Total(Offset, k + 1) = ((k + 1) \div L) * U(L) + U((k + 1) % L) BY <2>2, <2>9, <3>2
    <3>4. QED BY <2>1, <2>7, <3>3 DEF a, r
  <2>10. QED BY <2>8, <2>9
<1>9. \A k \in Nat : k \in T
  <2>1. T \in SUBSET Nat OBVIOUS
  <2> HIDE DEF T
  <2>2. QED BY <1>7, <1>8, <2>1, Inducts
<1>10. ASSUME NEW k \in Nat PROVE Total(Offset, k + 1) = CyclePosition(k + 1)
  <2>1. Total(Offset, k + 1) = (k \div L) * U(L) + U((k % L) + 1)
    <3>1. k \in T BY <1>9
    <3> HIDE DEF T
    <3>2. QED BY <1>8, <3>1
  <2>2. k % L \in 0 .. L - 1 BY <1>1
  <2>3. L \in 0 .. Len(RefOffsets) /\ (k % L) + 1 \in 0 .. Len(RefOffsets) BY <1>1, <2>2 DEF L
  <2>4. SumOfOffsets(L) = U(L) /\ SumOfOffsets((k % L) + 1) = U((k % L) + 1)
    BY <2>3, SumOfOffsetsIs DEF U, c
  <2>5. CyclePosition(k + 1) = (((k + 1) - 1) \div L) * SumOfOffsets(L) + SumOfOffsets((((k + 1) - 1) % L) + 1)
    BY DEF CyclePosition, L
  <2>6. (k + 1) - 1 = k OBVIOUS
  <2>7. QED BY <2>1, <2>4, <2>5, <2>6
<1>11. QED BY <1>4, <1>10

(* decode_poc's expectedPicOrderCnt of type 1: from the whole cycles passed *)
(* and the place in the cycle it computes the sum of the offsets of all     *)
(* frames, for every cycle of offsets, the empty one included, when the     *)
(* FrameNumOffset it is given unwraps frame_num.                            *)
THEOREM ExpectedExact ==
  ASSUME NEW off \in Int, NEW h, NEW k \in Nat, h.num \in Int, off + h.num = k, h.ref \in BOOLEAN
  PROVE  /\ ExpectedPicOrderCnt(off, h) = ExpectedCount(k, h.ref)
         /\ ExpectedCount(k, h.ref) \in Int
<1> DEFINE j == IF RefOffsets = <<>> THEN 0 ELSE IF h.ref \/ k = 0 THEN k ELSE k - 1
           r == IF h.ref THEN 0 ELSE NonRefOffset
           sum == MapThenSumSet(OffsetOfFrame, 1 .. j)
<1>1. j \in Nat /\ r \in Int BY OffsetsAssumption
<1>2. ExpectedCount(k, h.ref) = sum + r BY DEF ExpectedCount
<1>3. ExpectedPicOrderCnt(off, h) = (IF j = 0 THEN 0 ELSE CyclePosition(j)) + r
  <2> DEFINE number == IF RefOffsets = <<>> THEN 0 ELSE off + h.num
             abs == IF ~h.ref /\ number > 0 THEN number - 1 ELSE number
  <2>1. number = IF RefOffsets = <<>> THEN 0 ELSE k OBVIOUS
  <2> HIDE DEF number
  <2>2. abs = j BY <2>1
  <2>3. ExpectedPicOrderCnt(off, h) = (IF abs = 0 THEN 0 ELSE CyclePosition(abs)) + r
    BY DEF ExpectedPicOrderCnt, number
  <2> HIDE DEF abs, j
  <2>4. QED BY <2>2, <2>3
<1>4. j # 0 => RefOffsets # <<>> OBVIOUS
<1> HIDE DEF j
<1>5. sum = (IF j = 0 THEN 0 ELSE CyclePosition(j)) /\ sum \in Int
  <2>1. CASE j = 0
    <3>1. OffsetInCycle \in [Nat -> Int] BY OffsetsAre
    <3>2. \A i \in 1 .. j : OffsetOfFrame(i) = OffsetInCycle[i] BY <2>1
    <3>3. sum = Total(OffsetInCycle, j) BY <1>1, <3>1, <3>2, SumOfFramesIs
    <3>4. Total(OffsetInCycle, 0) = 0 BY <3>1, TotalNext
    <3> HIDE DEF sum
    <3>5. QED BY <2>1, <3>3, <3>4
  <2>2. CASE j # 0
    <3>1. Offset \in [Nat -> Int] /\ \A i \in Nat : Total(Offset, i + 1) = CyclePosition(i + 1)
      BY <1>4, <2>2, CyclesSummed
    <3>2. \A i \in 1 .. j : OffsetOfFrame(i) = Offset[i] BY DEF Offset
    <3>3. sum = Total(Offset, j) BY <1>1, <3>1, <3>2, SumOfFramesIs
    <3>4. j - 1 \in Nat /\ (j - 1) + 1 = j BY <1>1, <2>2
    <3>5. Total(Offset, j) = CyclePosition(j) BY <3>1, <3>4
    <3>6. Total(Offset, j) \in Int BY <1>1, <3>1, TotalNext
    <3> HIDE DEF sum
    <3>7. QED BY <2>2, <3>3, <3>5, <3>6
  <2>3. QED BY <2>1, <2>2
<1> HIDE DEF sum, r
<1>6. QED BY <1>1, <1>2, <1>3, <1>5

-----------------------------------------------------------------------------
(* decode_poc of the picture that the memory reaches.                       *)
Right(h, c) ==
  CASE h.struct = "frame" -> c.top = h.first /\ c.bottom = h.second /\ c.frame = Min2(h.first, h.second)
    [] h.struct = "top" -> c.top = h.first /\ c.frame = h.first
    [] h.struct = "bottom" -> c.bottom = h.first /\ c.frame = h.first

LEMMA CountsRight ==
  ASSUME NEW h, h.struct \in {"frame", "top", "bottom"}, NEW q, NEW y, h.struct = "frame" => y = h.second
  PROVE  Right(h, Counts(h, q, h.first, y))
BY DEF Right, Counts

(* The last frame before the picture at count k is at k or at k - 1, where  *)
(* there is no gap to it.                                                   *)
LEMMA AheadAdjacent ==
  ASSUME NEW s, NEW m, NEW pn, NEW p \in Nat, NEW h, h.count \in Nat, h.num = h.count % MaxFrameNum,
         Ahead(s, m, pn, p, h)
  PROVE  /\ h.num = pn <=> h.count = p
         /\ h.num = (pn + 1) % MaxFrameNum <=> h.count = p + 1 \/ (MaxFrameNum = 1 /\ h.count = p)
<1>1. MaxFrameNum \in Nat \ {0} BY ModuliAssumption
<1>2. pn = p % MaxFrameNum /\ p <= h.count /\ h.count < p + MaxFrameNum BY DEF Ahead
<1>3. (pn + 1) % MaxFrameNum = (p + 1) % MaxFrameNum
  <2>1. p \in Int OBVIOUS
  <2>2. ((p % MaxFrameNum) + 1) % MaxFrameNum = (p + 1) % MaxFrameNum BY <1>1, <2>1, WrapNext, Zenon
  <2>3. QED BY <1>2, <2>2
<1>4. h.num = pn => h.count = p BY <1>1, <1>2, WrapSame
<1>5. h.num = (p + 1) % MaxFrameNum => h.count = p + 1 \/ (MaxFrameNum = 1 /\ h.count = p)
  <2>1. CASE h.count = p /\ MaxFrameNum # 1
    <3>1. (p + 1) - p < MaxFrameNum /\ p - (p + 1) < MaxFrameNum BY <1>1, <2>1
    <3>2. p + 1 \in Int OBVIOUS
    <3>3. (p + 1) % MaxFrameNum = p % MaxFrameNum => p + 1 = p
      <4> DEFINE a == p + 1
      <4>1. a \in Int /\ a - p < MaxFrameNum /\ p - a < MaxFrameNum /\ p \in Int BY <3>1
      <4> HIDE DEF a
      <4>2. a % MaxFrameNum = p % MaxFrameNum => a = p BY <1>1, <4>1, WrapSame
      <4>3. QED BY <4>2 DEF a
    <3>4. QED BY <2>1, <3>3
  <2>2. CASE h.count # p
    <3>1. h.count - (p + 1) < MaxFrameNum /\ (p + 1) - h.count < MaxFrameNum BY <1>1, <1>2, <2>2
    <3>2. p + 1 \in Int OBVIOUS
    <3>3. h.num = (p + 1) % MaxFrameNum => h.count = p + 1 BY <1>1, <3>1, <3>2, WrapSame
    <3>4. QED BY <3>3
  <2>3. QED BY <2>1, <2>2
<1>6. MaxFrameNum = 1 => (p + 1) % MaxFrameNum = 0 /\ p % MaxFrameNum = 0 BY SMT
<1>7. QED BY <1>2, <1>3, <1>4, <1>5, <1>6

LEMMA NumberStands ==
  ASSUME NEW s, StreamInv(s), s.head.id # 0, NEW m, NEW pn, Reaches(s, m, pn, s.head),
         s.head.num = pn \/ s.head.num = (pn + 1) % MaxFrameNum
  PROVE  (IF s.head.mmco5 THEN 0 ELSE IF s.head.ref THEN s.head.num ELSE pn) = s.refs % MaxFrameNum
<1> DEFINE h == s.head
<1>1. Meant(s.type, h) /\ s.refs = RefsOf(h) BY DEF StreamInv
<1>2. MaxFrameNum \in Nat \ {0} /\ 0 % MaxFrameNum = 0 BY ModuliAssumption, SMT
<1>3. CASE h.mmco5 BY <1>1, <1>2, <1>3 DEF RefsOf, Meant, GoodKind
<1>4. CASE ~h.mmco5 /\ h.ref BY <1>1, <1>4 DEF RefsOf, Meant
<1>5. CASE ~h.mmco5 /\ ~h.ref
  <2>1. ~h.idr BY <1>1, <1>5 DEF Meant, GoodKind
  <2>2. PICK p \in Nat : Ahead(s, m, pn, p, h) BY <2>1 DEF Reaches
  <2>3. h.count \in Nat /\ h.num = h.count % MaxFrameNum BY <1>1 DEF Meant
  <2>4. h.count = p \/ h.count = p + 1 BY <2>2, <2>3, AheadAdjacent
  <2>5. p < h.count /\ pn = p % MaxFrameNum BY <1>5, <2>2 DEF Ahead
  <2>6. s.refs = p BY <1>1, <1>5, <2>3, <2>4, <2>5 DEF RefsOf
  <2>7. QED BY <1>5, <2>5, <2>6
<1>6. QED BY <1>1, <1>3, <1>4, <1>5 DEF Meant

(* Where the memory of decode_poc is enough to know the counts.             *)
Known(s) == s.type # 0 \/ BottomMmco5
AfterPicture(m, h) == [m EXCEPT !.mm5 = h.mmco5, !.bottom = h.struct = "bottom"]

LEMMA DecodesRight ==
  ASSUME NEW s, s.type \in PocTypes, StreamInv(s), s.head.id # 0, Known(s),
         NEW m \in Memories, NEW pn, NEW q, Reaches(s, m, pn, s.head),
         s.head.num = pn \/ s.head.num = (pn + 1) % MaxFrameNum
  PROVE  LET d == DecodePoc(s.type, m, s.head, q)
             a == AfterPicture(d.mem, s.head)
         IN /\ Right(s.head, d.poc) /\ d.mem \in Memories
            /\ s.type # 0 => FramesCounted(a) = LastFrame(s.head) /\ Unwraps(a)
            /\ s.type = 0 /\ BottomMmco5 =>
                 /\ a.mm5 = s.head.mmco5
                 /\ IF a.mm5 THEN a.bottom /\ s.open /\ s.base = 0 ELSE Remembers(a, s.base)
<1> DEFINE h == s.head
           d == DecodePoc(s.type, m, h, q)
           a == AfterPicture(d.mem, h)
<1>1. /\ Meant(s.type, h) /\ s.refs = RefsOf(h) /\ (h.mmco5 /\ h.struct = "bottom" => s.open)
      /\ s.type = 0 /\ h.ref /\ BottomMmco5 => s.base = IF h.mmco5 THEN 0 ELSE h.first
  BY DEF StreamInv
<1>2. /\ GoodKind(h) /\ h.struct \in {"frame", "top", "bottom"} /\ h.ref \in BOOLEAN /\ h.mmco5 \in BOOLEAN
      /\ h.count \in Nat /\ h.num = h.count % MaxFrameNum /\ (h.idr => h.count = 0) /\ (~h.ref => h.count > 0)
      /\ CountsMeant(s.type, h)
  BY <1>1 DEF Meant
<1>3. MaxFrameNum \in Nat \ {0} /\ MaxLsb \in Nat \ {0} BY ModuliAssumption
<1>4. h.num \in Int BY <1>2, <1>3
<1>5. CASE s.type = 0
  <2>1. BottomMmco5 BY <1>5 DEF Known
  <2>2. \E b \in Int : /\ h.idr \/ (m.mm5 /\ m.bottom) \/ (~m.mm5 /\ Remembers(m, b))
                       /\ h.idr \/ m.mm5 => b = 0
                       /\ -MaxLsb < 2 * (h.first - b) /\ 2 * (h.first - b) <= MaxLsb
                       /\ ~h.ref => s.base = b
    <3>1. CASE h.idr
      <4>1. h.first = 0 /\ h.ref BY <1>2, <1>5, <3>1 DEF CountsMeant, GoodKind
      <4>2. -MaxLsb < 2 * (0 - 0) /\ 2 * (0 - 0) <= MaxLsb BY <1>3
      <4>3. QED BY <3>1, <4>1, <4>2
    <3>2. CASE ~h.idr
      <4>1. PICK b \in Int : NearCount(s, m, pn, b, h) BY <1>5, <2>1, <3>2 DEF Reaches
      <4>2. m.mm5 \in BOOLEAN BY DEF Memories
      <4>3. QED BY <3>2, <4>1, <4>2 DEF NearCount
    <3>3. QED BY <3>1, <3>2
  <2>3. PICK b \in Int : /\ h.idr \/ (m.mm5 /\ m.bottom) \/ (~m.mm5 /\ Remembers(m, b))
                         /\ h.idr \/ m.mm5 => b = 0
                         /\ -MaxLsb < 2 * (h.first - b) /\ 2 * (h.first - b) <= MaxLsb
                         /\ ~h.ref => s.base = b
    BY <2>2
  <2>4. /\ h.first \in Int /\ h.lsb = h.first % MaxLsb /\ (h.struct = "frame" => h.second = h.first + h.dbottom)
        /\ h.mmco5 => h.struct = "bottom"
    BY <1>2, <1>5, <2>1 DEF CountsMeant
  <2>5. d = DecodePoc(0, m, h, q) BY <1>5
  <2> DEFINE t == h.first
  <2>6. /\ d.poc = Counts(h, q, t, t + h.dbottom) /\ d.mem \in Memories
        /\ Remembers(d.mem, IF h.ref THEN t ELSE b)
    <3> HIDE DEF t, h, d
    <3>1. t \in Int /\ h.ref \in BOOLEAN /\ h.num \in Int /\ h.lsb = t % MaxLsb
          /\ -MaxLsb < 2 * (t - b) /\ 2 * (t - b) <= MaxLsb
      BY <1>2, <1>4, <2>3, <2>4 DEF t
    <3>2. QED BY <2>3, <2>5, <3>1, TypeZeroExact
  <2> HIDE DEF d
  <2>7. Right(h, d.poc)
    <3> DEFINE y == h.first + h.dbottom
    <3>1. d.poc = Counts(h, q, h.first, y) /\ (h.struct = "frame" => y = h.second) BY <2>4, <2>6
    <3> HIDE DEF y, h
    <3>2. Right(h, Counts(h, q, h.first, y)) BY <1>2, <3>1, CountsRight
    <3>3. QED BY <3>1, <3>2
  <2>8. a.mm5 = h.mmco5 /\ a.bottom = (h.struct = "bottom") /\ a.msb = d.mem.msb /\ a.lsb = d.mem.lsb
    BY <2>6 DEF AfterPicture, Memories
  <2> HIDE DEF a
  <2>9. IF a.mm5 THEN a.bottom /\ s.open /\ s.base = 0 ELSE Remembers(a, s.base)
    <3>1. CASE h.mmco5
      <4>1. h.ref /\ h.struct = "bottom" BY <1>2, <2>4, <3>1 DEF GoodKind
      <4>2. QED BY <1>1, <1>5, <2>1, <2>8, <3>1, <4>1
    <3>2. CASE ~h.mmco5
      <4>1. s.base = IF h.ref THEN t ELSE b BY <1>1, <1>5, <2>1, <2>3, <3>2
      <4>2. Remembers(a, s.base) BY <2>6, <2>8, <4>1 DEF Remembers
      <4>3. QED BY <2>8, <3>2, <4>2
    <3>3. QED BY <1>2, <3>1, <3>2
  <2>10. QED BY <1>5, <2>6, <2>7, <2>8, <2>9 DEF a, d
<1>6. CASE s.type # 0
  <2> DEFINE o == FrameNumOffset(m, h)
             k == h.count
  <2>1. o \in Int /\ o + h.num = k
    <3>1. IF h.idr THEN k = 0 ELSE Unwraps(m) /\ FramesCounted(m) <= k /\ k < FramesCounted(m) + MaxFrameNum
      <4>1. CASE h.idr BY <1>2, <4>1
      <4>2. CASE ~h.idr
        <5>1. PICK p \in Nat : Ahead(s, m, pn, p, h) BY <4>2 DEF Reaches
        <5>2. FramesCounted(m) \in {p, p + 1} /\ FramesCounted(m) <= k /\ k < p + MaxFrameNum /\ Unwraps(m)
          BY <1>6, <5>1 DEF Ahead
        <5>3. QED BY <1>2, <1>3, <4>2, <5>2
      <4>3. QED BY <4>1, <4>2
    <3>2. k \in Nat /\ h.num = k % MaxFrameNum BY <1>2
    <3> HIDE DEF k, h
    <3>3. QED BY <3>1, <3>2, OffsetExact
  <2>2. d.mem = [m EXCEPT !.num = h.num, !.off = o] BY <1>6 DEF DecodePoc, DecodeType1, DecodeType2, Counted
  <2>3. Right(h, d.poc)
    <3>1. CASE s.type = 1
      <4>1. ExpectedPicOrderCnt(o, h) = ExpectedCount(k, h.ref) /\ ExpectedCount(k, h.ref) \in Int
        <5> HIDE DEF o
        <5>1. QED BY <1>2, <1>4, <2>1, ExpectedExact
      <4> DEFINE e == ExpectedPicOrderCnt(o, h)
                 x == IF h.struct = "bottom" THEN e + BottomOffset + h.d0 ELSE e + h.d0
      <4>2. d.poc = Counts(h, q, x, x + BottomOffset + h.d1) BY <3>1 DEF DecodePoc, DecodeType1
      <4>3. /\ h.first = e + (IF h.struct = "bottom" THEN BottomOffset ELSE 0) + h.d0
            /\ h.struct = "frame" => h.second = h.first + BottomOffset + h.d1
            /\ h.d0 \in Int /\ h.d1 \in Int
        BY <1>2, <3>1, <4>1 DEF CountsMeant
      <4>4. e \in Int /\ BottomOffset \in Int BY <4>1, OffsetsAssumption
      <4> HIDE DEF e
      <4>5. x = h.first BY <4>3, <4>4
      <4> HIDE DEF x, d
      <4>6. d.poc = Counts(h, q, h.first, h.first + BottomOffset + h.d1) BY <4>2, <4>5
      <4>7. QED BY <1>2, <4>3, <4>6, CountsRight
    <3>2. CASE s.type = 2
      <4>1. h.first = (IF h.ref THEN 2 * k ELSE 2 * k - 1) /\ h.second = h.first
        BY <1>2, <3>2 DEF CountsMeant
      <4> DEFINE abs == o + h.num
                 x == IF h.ref THEN 2 * abs ELSE 2 * abs - 1
      <4>2. d.poc = IF h.idr THEN FirstPoc ELSE Counts(h, q, x, x) BY <3>2 DEF DecodePoc, DecodeType2
      <4>3. x = h.first
        <5> HIDE DEF o
        <5>1. QED BY <2>1, <4>1
      <4> HIDE DEF x, d
      <4>4. CASE h.idr
        <5>1. h.first = 0 /\ h.second = 0 BY <1>2, <4>1, <4>4 DEF GoodKind
        <5>2. d.poc = [top |-> 0, bottom |-> 0, frame |-> 0] BY <4>2, <4>4 DEF FirstPoc
        <5>3. Min2(0, 0) = 0 BY DEF Min2
        <5>4. d.poc.top = 0 /\ d.poc.bottom = 0 /\ d.poc.frame = 0 BY <5>2
        <5> HIDE DEF h
        <5>5. QED BY <1>2, <5>1, <5>3, <5>4 DEF Right
      <4>5. CASE ~h.idr
        <5>1. d.poc = Counts(h, q, h.first, h.first) BY <4>2, <4>3, <4>5
        <5>2. QED BY <1>2, <4>1, <5>1, CountsRight
      <4>6. QED BY <4>4, <4>5
    <3>3. s.type \in {0, 1, 2} BY StreamAssumption
    <3>4. QED BY <1>6, <3>1, <3>2, <3>3
  <2> HIDE DEF o, d
  <2>4. d.mem \in Memories BY <1>4, <2>1, <2>2 DEF Memories
  <2>5. a.mm5 = h.mmco5 /\ a.num = h.num /\ a.off = o BY <2>2 DEF AfterPicture, Memories
  <2> HIDE DEF a
  <2>6. o + h.num = k BY <2>1
  <2>7. FramesCounted(a) = LastFrame(h) /\ Unwraps(a)
    BY <1>2, <1>4, <2>1, <2>5, <2>6 DEF FramesCounted, LastFrame, Unwraps
  <2>8. QED BY <1>6, <2>3, <2>4, <2>7 DEF a, d
<1>7. QED BY <1>5, <1>6

-----------------------------------------------------------------------------
(* A stream that loses nothing: at each place of decode_one_frame, what     *)
(* pre_frame_num and the memory of decode_poc are to the stream.            *)
AfterNum == IF pic.head.mmco5 THEN 0 ELSE preNum
AfterMem == AfterPicture(mem, pic.head)

CountInv ==
  /\ StreamInv(stream)
  /\ pic.head.mmco5 \in BOOLEAN
  /\ Known(stream) => mem \in Memories /\ PocRight
  /\ pc \in {"init", "start"} => Reaches(stream, mem, preNum, stream.head)
  /\ pc = "read" /\ n > 0 => Standing(stream, AfterMem, AfterNum)
  /\ pc = "decode" => Reaches(stream, AfterMem, AfterNum, stream.head)

LEMMA PocIs == PocRight <=> (pic # NoPicture => Right(pic.head, pic.poc))
BY DEF PocRight, Right

(* What slices and parameter sets do to a stream.                           *)
LEMMA StreamSame ==
  ASSUME NEW s, NEW t, StreamInv(s), t.type = s.type, t.gaps = s.gaps, t.head = s.head, t.open = s.open,
         t.refs = s.refs, t.base = s.base
  PROVE  /\ StreamInv(t) /\ (Known(t) <=> Known(s))
         /\ \A m, pn : Standing(s, m, pn) => Standing(t, m, pn)
         /\ \A m, pn, h : Reaches(s, m, pn, h) => Reaches(t, m, pn, h)
<1>1. StreamInv(t) BY DEF StreamInv
<1>2. Known(t) <=> Known(s) BY DEF Known
<1>3. \A m, pn : Standing(s, m, pn) => Standing(t, m, pn) BY DEF Standing
<1>4. \A m, pn, p, h : Ahead(s, m, pn, p, h) <=> Ahead(t, m, pn, p, h) BY DEF Ahead
<1>5. \A m, pn, b, h : NearCount(s, m, pn, b, h) <=> NearCount(t, m, pn, b, h) BY DEF NearCount
<1>6. \A m, pn, h : Reaches(s, m, pn, h) => Reaches(t, m, pn, h) BY <1>4, <1>5 DEF Reaches
<1>7. QED BY <1>1, <1>2, <1>3, <1>6

LEMMA CountContinues ==
  ASSUME TypeInv, StreamInv(stream), NEW a, Continues(stream, a), stream' = [a.after EXCEPT !.heard = a.head]
  PROVE  /\ stream'.type = stream.type /\ stream'.gaps = stream.gaps /\ stream'.head = stream.head
         /\ stream'.open = stream.open /\ stream'.refs = stream.refs /\ stream'.base = stream.base
<1>1. StreamGood(stream) BY DEF TypeInv
<1> DEFINE l == Tail(stream.left)
           k == a.head
<1>2. stream' = [[stream EXCEPT !.left = l] EXCEPT !.heard = k] BY DEF Continues
<1> HIDE DEF l, k
<1>3. QED BY <1>1, <1>2 DEF StreamGood

LEMMA CountBegins ==
  ASSUME TypeInv, StreamInv(stream), NEW a, BeginsAnother(stream, a), a.head.id # 0,
         stream' = [a.after EXCEPT !.heard = a.head],
         NEW m, NEW pn, stream.head.id # 0 => Standing(stream, m, pn)
  PROVE  /\ StreamInv(stream)' /\ stream'.head = a.head /\ stream'.type = stream.type
         /\ Reaches(stream', m, IF a.head.idr THEN a.head.num ELSE pn, a.head)
<1>1. StreamGood(stream) BY DEF TypeInv
<1>2. PICK q \in Slicings : a.after = Begin(stream, a.head, Tail(q)) BY DEF BeginsAnother
<1> DEFINE b == Begin(stream, a.head, Tail(q))
<1>3. a.head \in Heads(stream) BY DEF BeginsAnother
<1>4. /\ StreamInv(b) /\ b.head = a.head /\ b.type = stream.type /\ b.gaps = stream.gaps
      /\ stream.type = 0 /\ ~a.head.ref => b.base = stream.base
  <2> DEFINE l == Tail(q)
             k == a.head
  <2>1. k \in Heads(stream) /\ k.id # 0 BY <1>3
  <2> HIDE DEF l, k
  <2>2. LET c == Begin(stream, k, l)
        IN /\ StreamInv(c) /\ c.head = k /\ c.type = stream.type /\ c.gaps = stream.gaps
           /\ stream.type = 0 /\ ~k.ref => c.base = stream.base
    BY <1>1, <2>1, BeginGood
  <2>3. QED BY <2>2 DEF l, k
<1>5. stream' = [b EXCEPT !.heard = a.head] BY <1>2
<1>6. /\ stream'.head = b.head /\ stream'.type = b.type /\ stream'.gaps = b.gaps /\ stream'.open = b.open
      /\ stream'.refs = b.refs /\ stream'.base = b.base
  <2>1. \E o, l, c, r, e : b = [stream EXCEPT !.head = a.head, !.left = l, !.closed = c, !.open = o, !.refs = r, !.base = e]
    BY DEF Begin
  <2> HIDE DEF b
  <2>2. QED BY <1>1, <1>5, <2>1 DEF StreamGood
<1> HIDE DEF b
<1>7. StreamInv(stream') BY <1>4, <1>6, StreamSame
<1>8. Reaches(stream', m, IF a.head.idr THEN a.head.num ELSE pn, a.head)
  <2> DEFINE k == a.head
  <2>1. /\ k \in Heads(stream) /\ stream'.type = stream.type /\ stream'.gaps = stream.gaps
        /\ stream.type = 0 /\ ~k.ref => stream'.base = stream.base
    BY <1>3, <1>4, <1>6
  <2> HIDE DEF k
  <2>2. Reaches(stream', m, IF k.idr THEN k.num ELSE pn, k) BY <1>1, <2>1, StandingReaches
  <2>3. QED BY <2>2 DEF k
<1>9. QED BY <1>4, <1>6, <1>7, <1>8

LEMMA CountReading ==
  ASSUME Lossless, TypeInv, PpsInv, PartsInv, CountInv,
         ReceiveFirst \/ ReceiveSlice \/ ReceiveAhead \/ ReceiveRedundant
  PROVE  CountInv'
<1>1. PICK a \in Arriving \cup Redundant :
        Sent(a) /\ (ReadFirst(a) \/ ReadSlice(a) \/ ReadAhead(a) \/ Discard(a))
  BY DEF ReceiveFirst, ReceiveSlice, ReceiveAhead, ReceiveRedundant
<1>2. HeaderRead(a) BY <1>1 DEF ReadFirst, ReadSlice, ReadAhead, Discard
<1>3. /\ SetsInv /\ pc = "read" /\ pic' = pic /\ mem' = mem
      /\ preNum' = (IF a.head.idr THEN a.head.num ELSE preNum)
      /\ stream'.head = a.head /\ a.head.id \in 1 .. MaxPictures
      /\ stream' = [a.after EXCEPT !.heard = a.head] /\ ~Discarded(ReadInto(a))
      /\ \/ Continues(stream, a)
         \/ BeginsAnother(stream, a) /\ Key(a.head) # Key(stream.head)
  BY <1>1, <1>2, LosslessRead
<1>4. n \in Nat /\ StreamInv(stream) BY TypesOf DEF CountInv
<1>5. a.head.id # 0 BY <1>3
<1>6. PocRight' <=> PocRight BY <1>3 DEF PocRight
<1>7. AfterMem' = AfterMem BY <1>3 DEF AfterMem, AfterPicture
<1>8. CASE ReadFirst(a)
  <2>1. n = 0 /\ n' = n /\ pc' = "init" BY <1>8 DEF ReadFirst
  <2>2. stream.head = NoHead BY <1>3, <2>1 DEF SetsInv
  <2>3. stream.head.id = 0 BY <2>2 DEF NoHead
  <2>4. stream.left = <<>> BY <2>3 DEF TypeInv, StreamGood
  <2>5. BeginsAnother(stream, a) BY <1>3, <2>4 DEF Continues
  <2>6. /\ StreamInv(stream)' /\ stream'.type = stream.type
        /\ Reaches(stream', mem, IF a.head.idr THEN a.head.num ELSE preNum, a.head)
    BY <1>3, <1>4, <1>5, <2>3, <2>5, CountBegins
  <2>7. Reaches(stream, mem, preNum, stream.head)' BY <1>3, <2>6
  <2>8. Known(stream)' <=> Known(stream) BY <2>6 DEF Known
  <2>9. QED BY <1>3, <1>6, <2>1, <2>6, <2>7, <2>8 DEF CountInv
<1>9. CASE ReadSlice(a)
  <2>1. pic # NoPicture /\ Key(a.head) = Key(old) /\ n' = n + 1 /\ pc' = pc
    BY <1>9 DEF ReadSlice, IsNewPicture
  <2>2. n > 0 BY <1>3, <1>4, <2>1 DEF SetsInv
  <2>3. pic.head = stream.head /\ old = stream.head BY <1>3, <2>2, AtWork
  <2>4. Continues(stream, a) BY <1>3, <2>1, <2>3
  <2>5. /\ stream'.type = stream.type /\ stream'.gaps = stream.gaps /\ stream'.head = stream.head
        /\ stream'.open = stream.open /\ stream'.refs = stream.refs /\ stream'.base = stream.base
    BY <1>3, <1>4, <2>4, CountContinues
  <2>6. Standing(stream, AfterMem, AfterNum) BY <1>3, <2>2 DEF CountInv
  <2>7. AfterNum' = AfterNum
    <3>1. CASE a.head.idr
      <4>1. pic.head = a.head /\ stream.head.id # 0 BY <1>3, <1>5, <2>3, <2>5
      <4>2. Meant(stream.type, a.head) /\ stream.refs = RefsOf(a.head) BY <1>4, <4>1, <2>3 DEF StreamInv
      <4>3. ~a.head.mmco5 /\ a.head.ref /\ a.head.num = a.head.count % MaxFrameNum
        BY <3>1, <4>2 DEF Meant, GoodKind
      <4>4. AfterNum = a.head.count % MaxFrameNum BY <2>6, <4>2, <4>3 DEF Standing, RefsOf
      <4>5. AfterNum' = a.head.num BY <1>3, <3>1, <4>1, <4>3 DEF AfterNum
      <4>6. QED BY <4>3, <4>4, <4>5
    <3>2. CASE ~a.head.idr BY <1>3, <3>2 DEF AfterNum
    <3>3. QED BY <3>1, <3>2
  <2>8. StreamInv(stream') /\ (Known(stream') <=> Known(stream)) /\ Standing(stream', AfterMem, AfterNum)
    BY <1>4, <2>5, <2>6, StreamSame
  <2>9. Standing(stream, AfterMem, AfterNum)' BY <1>7, <2>7, <2>8
  <2>10. StreamInv(stream)' /\ (Known(stream)' <=> Known(stream)) BY <2>8
  <2>11. QED BY <1>3, <1>6, <2>1, <2>9, <2>10 DEF CountInv
<1>10. CASE ReadAhead(a)
  <2>1. n > 0 /\ pc' = "decode" /\ (pic = NoPicture \/ Key(a.head) # Key(old))
    BY <1>10 DEF ReadAhead, IsNewPicture
  <2>2. pic.head = stream.head /\ old = stream.head /\ pic # NoPicture BY <1>3, <2>1, AtWork
  <2>3. BeginsAnother(stream, a) BY <1>3, <2>1, <2>2 DEF Continues
  <2>4. Standing(stream, AfterMem, AfterNum) BY <1>3, <2>1 DEF CountInv
  <2>5. /\ StreamInv(stream)' /\ stream'.type = stream.type
        /\ Reaches(stream', AfterMem, IF a.head.idr THEN a.head.num ELSE AfterNum, a.head)
    BY <1>3, <1>4, <1>5, <2>3, <2>4, CountBegins
  <2>6. AfterNum' = IF a.head.idr THEN a.head.num ELSE AfterNum
    <3>1. GoodKind(a.head)
      <4>1. a.head \in Heads(stream) BY <2>3 DEF BeginsAnother
      <4>2. QED BY <4>1, KindsGood
    <3>2. QED BY <1>3, <3>1 DEF AfterNum, GoodKind
  <2>7. Reaches(stream, AfterMem, AfterNum, stream.head)' BY <1>3, <1>7, <2>5, <2>6
  <2>8. Known(stream)' <=> Known(stream) BY <2>5 DEF Known
  <2>9. QED BY <1>3, <1>6, <2>1, <2>5, <2>7, <2>8 DEF CountInv
<1>11. ~Discard(a) BY <1>3 DEF Discard
<1>12. QED BY <1>1, <1>8, <1>9, <1>10, <1>11

(* One round of fill_frame_num_gap brings the memory a frame nearer.        *)
LEMMA CountGap ==
  ASSUME TypeInv, SetsInv, CountInv, FillGap
  PROVE  CountInv'
<1> DEFINE h == stream.head
           k == AfterPreNum
<1>1. /\ pc = "init" /\ Current.head.num # preNum /\ Current.head.num # k /\ stream.gaps
      /\ mem' = [GapPoc.mem EXCEPT !.mm5 = FALSE, !.bottom = FALSE] /\ preNum' = k
      /\ pic' = pic /\ pc' = pc /\ stream' = stream
  BY DEF FillGap, IsGap
<1>2. Current.head = h /\ h.id # 0 BY <1>1 DEF SetsInv, Latest
<1>3. Meant(stream.type, h) /\ StreamInv(stream) BY <1>2 DEF CountInv, StreamInv
<1>4. Reaches(stream, mem, preNum, h) BY <1>1 DEF CountInv
<1>5. ~h.idr BY <1>1, <1>2, <1>4 DEF Reaches
<1>6. PICK p \in Nat : Ahead(stream, mem, preNum, p, h) BY <1>4, <1>5 DEF Reaches
<1>7. h.count \in Nat /\ h.num = h.count % MaxFrameNum BY <1>3 DEF Meant
<1>8. MaxFrameNum \in Nat \ {0} BY ModuliAssumption
<1>9. h.count # p /\ h.count # p + 1 BY <1>1, <1>2, <1>6, <1>7, AheadAdjacent DEF AfterPreNum
<1>10. p + 1 <= h.count /\ h.count < (p + 1) + MaxFrameNum /\ p + 1 < h.count /\ MaxFrameNum > 1
  BY <1>6, <1>7, <1>8, <1>9 DEF Ahead
<1>11. k = (p + 1) % MaxFrameNum
  <2>1. preNum = p % MaxFrameNum /\ p \in Int BY <1>6 DEF Ahead
  <2>2. ((p % MaxFrameNum) + 1) % MaxFrameNum = (p + 1) % MaxFrameNum BY <1>8, <2>1, WrapNext, Zenon
  <2>3. QED BY <2>1, <2>2 DEF AfterPreNum
<1>12. PocRight' <=> PocRight BY <1>1 DEF PocRight
<1> HIDE DEF k
<1>13. CASE stream.type = 0
  <2>1. GapPoc.mem = mem BY <1>13 DEF GapPoc
  <2>2. Ahead(stream, mem', k, p + 1, h) BY <1>1, <1>10, <1>11, <1>13 DEF Ahead
  <2>3. ASSUME BottomMmco5
        PROVE  mem' \in Memories /\ \E b \in Int : NearCount(stream, mem', k, b, h)
    <3>1. mem \in Memories BY <2>3 DEF CountInv, Known
    <3>2. mem' = [mem EXCEPT !.mm5 = FALSE, !.bottom = FALSE] BY <1>1, <2>1
    <3>3. mem' \in Memories /\ mem'.msb = mem.msb /\ mem'.lsb = mem.lsb /\ ~mem'.mm5
      BY <3>1, <3>2 DEF Memories
    <3>4. PICK b \in Int : NearCount(stream, mem, preNum, b, h)
      BY <1>4, <1>5, <1>13, <2>3 DEF Reaches
    <3>5. ~mem.mm5 BY <1>1, <1>2, <3>4 DEF NearCount
    <3>6. NearCount(stream, mem', k, b, h) BY <3>3, <3>4, <3>5 DEF NearCount, Remembers
    <3>7. QED BY <3>3, <3>6
  <2>4. p + 1 \in Nat OBVIOUS
  <2>5. Reaches(stream, mem', k, h) BY <1>5, <2>2, <2>3, <2>4 DEF Reaches
  <2>6. Reaches(stream, mem, preNum, stream.head)' BY <1>1, <2>5
  <2>7. Known(stream) <=> BottomMmco5 BY <1>13 DEF Known
  <2>8. QED BY <1>1, <1>12, <2>3, <2>6, <2>7 DEF CountInv
<1>14. CASE stream.type # 0
  <2> DEFINE g == [h EXCEPT !.num = k, !.d0 = 0, !.d1 = 0]
             o == FrameNumOffset(mem, g)
  <2>1. mem \in Memories /\ Known(stream) BY <1>14 DEF CountInv, Known
  <2>2. GapPoc.mem = Counted(mem, g)
    <3>1. GapPoc = DecodePoc(stream.type, mem, g, Current.poc) BY <1>2, <1>14 DEF GapPoc, k
    <3> HIDE DEF g
    <3>2. QED BY <1>14, <3>1 DEF DecodePoc, DecodeType1, DecodeType2
  <2>3. {"num", "idr"} \subseteq DOMAIN h BY <1>3 DEF Meant
  <2>4. g.num = k /\ g.idr = h.idr
    <3> HIDE DEF h
    <3>1. QED BY <2>3
  <2>5. o \in Int /\ o + k = p + 1
    <3>1. FramesCounted(mem) \in {p, p + 1} /\ Unwraps(mem) BY <1>6, <1>14 DEF Ahead
    <3>2. p + 1 \in Nat /\ FramesCounted(mem) <= p + 1 /\ p + 1 < FramesCounted(mem) + MaxFrameNum
      BY <1>8, <1>10, <3>1
    <3> HIDE DEF g
    <3>3. QED BY <1>5, <1>11, <2>1, <2>4, <3>1, <3>2, OffsetExact
  <2>6. Counted(mem, g) = [mem EXCEPT !.num = k, !.off = o] BY <2>4 DEF Counted
  <2> HIDE DEF g, o
  <2>7. mem' = [[mem EXCEPT !.num = k, !.off = o] EXCEPT !.mm5 = FALSE, !.bottom = FALSE] BY <1>1, <2>2, <2>6
  <2>8. k \in Int BY <1>8, <1>11
  <2>9. mem' \in Memories /\ mem'.num = k /\ mem'.off = o /\ ~mem'.mm5 BY <2>1, <2>5, <2>7, <2>8 DEF Memories
  <2>10. FramesCounted(mem') = p + 1 /\ Unwraps(mem')
    BY <1>11, <2>5, <2>9 DEF FramesCounted, Unwraps
  <2>11. p + 1 \in Nat OBVIOUS
  <2>12. Ahead(stream, mem', k, p + 1, h) BY <1>1, <1>10, <1>11, <2>10, <2>11 DEF Ahead
  <2>13. Reaches(stream, mem', k, h) BY <1>5, <1>14, <2>11, <2>12 DEF Reaches
  <2>14. Reaches(stream, mem, preNum, stream.head)' BY <1>1, <2>13
  <2>15. QED BY <1>1, <1>12, <2>1, <2>9, <2>14 DEF CountInv
<1>15. QED BY <1>13, <1>14

LEMMA CountInitPicture ==
  ASSUME TypeInv, SetsInv, CountInv, InitPicture
  PROVE  CountInv'
<1> DEFINE h == stream.head
           d == DecodePoc(stream.type, mem, Current.head, Current.poc)
<1>1. /\ pc = "init" /\ ~IsGap /\ mem' = d.mem /\ pic' = [head |-> Current.head, poc |-> d.poc]
      /\ preNum' = (IF Current.head.ref THEN Current.head.num ELSE preNum) /\ pc' \in {"read", "decode"}
      /\ pc' = "decode" => ~(newframe \/ ~Discarded(Current))
      /\ stream' = stream
  BY DEF InitPicture
<1>2. Current.head = h /\ h.id # 0 /\ (newframe \/ ~Current.redundant) BY <1>1 DEF SetsInv, Latest
<1>3. pc' = "read" BY <1>1, <1>2 DEF Discarded
<1>4. h.num = preNum \/ h.num = (preNum + 1) % MaxFrameNum BY <1>1, <1>2 DEF IsGap, AfterPreNum
<1>5. Reaches(stream, mem, preNum, h) /\ StreamInv(stream) BY <1>1 DEF CountInv
<1>6. stream.type \in PocTypes BY DEF TypeInv, StreamGood
<1>7. pic'.head = h /\ pic'.poc = d.poc BY <1>1, <1>2
<1>8. AfterNum' = stream.refs % MaxFrameNum
  <2>1. (IF h.mmco5 THEN 0 ELSE IF h.ref THEN h.num ELSE preNum) = stream.refs % MaxFrameNum
    BY <1>2, <1>4, <1>5, NumberStands
  <2>2. AfterNum' = IF h.mmco5 THEN 0 ELSE IF h.ref THEN h.num ELSE preNum BY <1>1, <1>2, <1>7 DEF AfterNum
  <2>3. QED BY <2>1, <2>2
<1>9. AfterMem' = AfterPicture(d.mem, h) BY <1>1, <1>7 DEF AfterMem, AfterPicture
<1>10. ASSUME Known(stream)
       PROVE  LET a == AfterPicture(d.mem, h)
              IN /\ Right(h, d.poc) /\ d.mem \in Memories
                 /\ stream.type # 0 => FramesCounted(a) = LastFrame(h) /\ Unwraps(a)
                 /\ stream.type = 0 /\ BottomMmco5 =>
                      /\ a.mm5 = h.mmco5
                      /\ IF a.mm5 THEN a.bottom /\ stream.open /\ stream.base = 0
                         ELSE Remembers(a, stream.base)
  <2>1. mem \in Memories BY <1>10 DEF CountInv
  <2>2. QED BY <1>2, <1>4, <1>5, <1>6, <1>10, <2>1, DecodesRight
<1> HIDE DEF d, h
<1>11. Standing(stream, AfterMem', AfterNum')
  <2> DEFINE a == AfterPicture(d.mem, h)
  <2>1. Known(stream) =>
          /\ stream.type # 0 => FramesCounted(a) = LastFrame(h) /\ Unwraps(a)
          /\ stream.type = 0 /\ BottomMmco5 =>
               /\ a.mm5 = h.mmco5
               /\ IF a.mm5 THEN a.bottom /\ stream.open /\ stream.base = 0 ELSE Remembers(a, stream.base)
    BY <1>10
  <2>2. AfterMem' = a BY <1>9
  <2> HIDE DEF a
  <2>3. QED BY <1>8, <2>1, <2>2 DEF Standing, Known, h
<1>12. Standing(stream, AfterMem, AfterNum)' BY <1>1, <1>11
<1>13. (Known(stream) => mem \in Memories /\ PocRight)'
  <2>1. ASSUME Known(stream)' PROVE mem' \in Memories /\ Right(pic'.head, pic'.poc)
    <3>1. Known(stream) BY <1>1, <2>1
    <3>2. QED BY <1>1, <1>7, <1>10, <3>1
  <2>2. PocRight' <=> (pic' # NoPicture => Right(pic'.head, pic'.poc)) BY DEF PocRight, Right
  <2>3. QED BY <2>1, <2>2
<1>14. StreamInv(stream)' BY <1>1, <1>5
<1>15. pic'.head.mmco5 \in BOOLEAN BY <1>2, <1>5, <1>7 DEF StreamInv, Meant, h
<1>16. QED BY <1>3, <1>12, <1>13, <1>14, <1>15 DEF CountInv

LEMMA CountDecode ==
  ASSUME TypeInv, SetsInv, PartsInv, CountInv, Decode
  PROVE  CountInv'
<1>1. /\ pc' = (IF pc = "last" THEN "end" ELSE IF newframe THEN "start" ELSE "read")
      /\ IF IsComplete THEN StorePicture ELSE UNCHANGED <<stored, mem, preNum, pic>>
      /\ pc \in {"decode", "last"} /\ stream' = stream /\ n' = 0
  BY DEF Decode
<1>2. IsComplete BY PartsDecode
<1>3. /\ mem' = AfterMem /\ preNum' = AfterNum /\ pic' = NoPicture
  BY <1>1, <1>2 DEF StorePicture, AfterMem, AfterPicture, AfterNum
<1>4. PocRight' /\ pic'.head.mmco5 \in BOOLEAN BY <1>3 DEF PocRight, NoPicture, NoHead
<1>5. mem \in Memories => mem' \in Memories
  <2>1. pic.head.mmco5 \in BOOLEAN BY DEF CountInv
  <2>2. QED BY <1>3, <2>1 DEF AfterMem, AfterPicture, Memories
<1>6. CASE pc = "last" BY <1>1, <1>3, <1>4, <1>5, <1>6 DEF CountInv
<1>7. CASE pc = "decode"
  <2>1. newframe BY <1>7 DEF SetsInv
  <2>2. Reaches(stream, AfterMem, AfterNum, stream.head) BY <1>7 DEF CountInv
  <2>3. Reaches(stream, mem, preNum, stream.head)' BY <1>1, <1>3, <2>2
  <2>4. QED BY <1>1, <1>3, <1>4, <1>5, <1>7, <2>1, <2>3 DEF CountInv
<1>8. QED BY <1>1, <1>6, <1>7

LEMMA CountInit == Init => CountInv
<1> SUFFICES ASSUME Init PROVE CountInv OBVIOUS
<1>1. PICK t \in PocTypes, g \in GapsAllowed :
        stream = [type |-> t, gaps |-> g, head |-> NoHead, heard |-> NoHead, left |-> <<>>, open |-> FALSE,
                  closed |-> FALSE, refs |-> 0, base |-> 0, versions |-> [i \in PicParameterSets |-> 0]]
  BY DEF Init, FirstStreams
<1>2. /\ stream.refs = 0 /\ ~stream.open /\ stream.base = 0 /\ stream.head.id = 0 /\ stream.open \in BOOLEAN
  BY <1>1 DEF NoHead
<1>3. StreamInv(stream) BY <1>2 DEF StreamInv
<1>4. mem \in Memories BY DEF Init, FirstMemory, Memories
<1>5. PocRight /\ pic.head.mmco5 \in BOOLEAN BY DEF Init, PocRight, NoPicture, NoHead
<1>6. pc = "read" /\ n = 0 BY DEF Init
<1>7. QED BY <1>3, <1>4, <1>5, <1>6 DEF CountInv

(* An unintentional loss of pictures is what a stream that loses nothing    *)
(* and leaves no frame out never looks like.                                *)
LEMMA NoneMissed ==
  ASSUME TypeInv, SetsInv, CountInv
  PROVE  ~UnintentionalLoss
<1> SUFFICES ASSUME UnintentionalLoss PROVE FALSE OBVIOUS
<1> DEFINE h == stream.head
<1>1. pc = "init" /\ Current.head.num # preNum /\ Current.head.num # AfterPreNum /\ ~stream.gaps
  BY DEF UnintentionalLoss, IsGap
<1>2. Current.head = h /\ h.id # 0 BY <1>1 DEF SetsInv, Latest
<1>3. Meant(stream.type, h) BY <1>2 DEF CountInv, StreamInv
<1>4. Reaches(stream, mem, preNum, h) BY <1>1 DEF CountInv
<1>5. ~h.idr BY <1>1, <1>2, <1>4 DEF Reaches
<1>6. PICK p \in Nat : Ahead(stream, mem, preNum, p, h) BY <1>4, <1>5 DEF Reaches
<1>7. h.count \in Nat /\ h.num = h.count % MaxFrameNum BY <1>3 DEF Meant
<1>8. h.count # p /\ h.count # p + 1 BY <1>1, <1>2, <1>6, <1>7, AheadAdjacent DEF AfterPreNum
<1>9. p <= h.count /\ h.count <= p + 1 BY <1>1, <1>6 DEF Ahead
<1>10. QED BY <1>7, <1>8, <1>9

LEMMA CountNext ==
  ASSUME Lossless, TypeInv, PpsInv, PartsInv, CountInv, [Next]_vars
  PROVE  CountInv' /\ ~UnintentionalLoss
<1>0. SetsInv /\ ~UnintentionalLoss BY NoneMissed DEF PpsInv, PartsInv
<1>1. CASE ReceiveFirst \/ ReceiveSlice \/ ReceiveAhead \/ ReceiveRedundant BY <1>0, <1>1, CountReading
<1>2. CASE Decode BY <1>0, <1>2, CountDecode
<1>3. CASE FillGap BY <1>0, <1>3, CountGap
<1>4. CASE InitPicture BY <1>0, <1>4, CountInitPicture
<1>5. CASE Start
  <2>1. pc = "start" /\ pc' = "init" /\ UNCHANGED <<pic, preNum, mem, stream>> BY <1>5 DEF Start
  <2>2. PocRight' <=> PocRight BY <2>1 DEF PocRight
  <2>3. QED BY <1>0, <2>1, <2>2 DEF CountInv
<1>6. ~LoseSlice
  <2>1. spent.lost = 0 BY DEF PartsInv
  <2>2. QED BY <2>1 DEF LoseSlice, Lossless
<1>7. CASE ReceivePps
  <2>1. PICK i \in PicParameterSets : stream' = Resent(stream, i) BY <1>7 DEF ReceivePps
  <2>2. UNCHANGED <<n, pic, preNum, mem, pc>> BY <1>7 DEF ReceivePps
  <2>3. /\ stream'.type = stream.type /\ stream'.gaps = stream.gaps /\ stream'.head = stream.head
        /\ stream'.open = stream.open /\ stream'.refs = stream.refs /\ stream'.base = stream.base
    <3>1. StreamGood(stream) BY DEF TypeInv
    <3> DEFINE v == [stream.versions EXCEPT ![i] = 1 - stream.versions[i]]
    <3>2. stream' = [[stream EXCEPT !.versions = v] EXCEPT !.closed = TRUE] BY <2>1 DEF Resent
    <3> HIDE DEF v
    <3>3. QED BY <3>1, <3>2 DEF StreamGood
  <2>4. PocRight' <=> PocRight BY <2>2 DEF PocRight
  <2>5. AfterMem' = AfterMem /\ AfterNum' = AfterNum BY <2>2 DEF AfterMem, AfterNum, AfterPicture
  <2>6. /\ StreamInv(stream') /\ (Known(stream') <=> Known(stream))
        /\ \A m, pn : Standing(stream, m, pn) => Standing(stream', m, pn)
        /\ pc = "read" /\ pc' = pc /\ StreamInv(stream)
    BY <1>7, <2>2, <2>3, StreamSame DEF CountInv, ReceivePps
  <2>7. pc = "read" /\ n > 0 => Standing(stream, AfterMem, AfterNum)'
    <3>1. ASSUME n > 0 PROVE Standing(stream', AfterMem', AfterNum')
      <4>1. Standing(stream, AfterMem, AfterNum) BY <2>6, <3>1 DEF CountInv
      <4>2. QED BY <2>5, <2>6, <4>1
    <3>2. QED BY <3>1
  <2>8. StreamInv(stream)' /\ (Known(stream)' <=> Known(stream)) BY <2>6
  <2>9. QED BY <1>0, <2>2, <2>4, <2>6, <2>7, <2>8 DEF CountInv
<1>8. CASE EndOfStream
  <2>1. pc' = "last" /\ UNCHANGED <<pic, mem, stream>> BY <1>8 DEF EndOfStream
  <2>2. PocRight' <=> PocRight BY <2>1 DEF PocRight
  <2>3. QED BY <1>0, <2>1, <2>2 DEF CountInv
<1>9. CASE Ended \/ UNCHANGED vars
  <2>1. UNCHANGED <<n, pic, preNum, mem, pc, stream>> BY <1>9 DEF Ended, vars, decoder
  <2>2. PocRight' <=> PocRight BY <2>1 DEF PocRight
  <2>3. AfterMem' = AfterMem /\ AfterNum' = AfterNum BY <2>1 DEF AfterMem, AfterNum, AfterPicture
  <2>4. QED BY <1>0, <2>1, <2>2, <2>3 DEF CountInv
<1>10. QED BY <1>0, <1>1, <1>2, <1>3, <1>4, <1>5, <1>6, <1>7, <1>8, <1>9 DEF Next

-----------------------------------------------------------------------------
(* Delivery.  The pictures stored are told apart by the number of the       *)
(* picture their macroblocks were sent in.                                  *)
LEMMA LastStoredIs ==
  ASSUME NEW h, StoredBefore(h)
  PROVE  Delivery!LastStored = h.id - 1
<1>1. /\ h.id \in 1 .. MaxPictures /\ MaxPictures \in Nat
      /\ stored.from = IF h.id = 1 THEN {} ELSE {h.id - 1} \X Macroblocks
  BY StreamAssumption DEF StoredBefore
<1>2. CASE h.id = 1 BY <1>1, <1>2 DEF Delivery!LastStored
<1>3. CASE h.id # 1
  <2> DEFINE k == h.id - 1
  <2>1. k \in 1 .. MaxPictures /\ stored.from = {k} \X Macroblocks BY <1>1, <1>3
  <2> HIDE DEF k
  <2>2. \A i, j : {i} \X Macroblocks = {j} \X Macroblocks => i = j
    <3>1. ASSUME NEW i, NEW j, {i} \X Macroblocks = {j} \X Macroblocks PROVE i = j
      <4>1. <<i, 1>> \in {i} \X Macroblocks BY DEF Macroblocks
      <4>2. <<i, 1>> \in {j} \X Macroblocks BY <3>1, <4>1
      <4>3. QED BY <4>2
    <3>2. QED BY <3>1
  <2>3. stored.from # {}
    <3>1. <<k, 1>> \in stored.from BY <2>1 DEF Macroblocks
    <3>2. QED BY <3>1
  <2>4. Delivery!LastStored = CHOOSE i \in 1 .. MaxPictures : {i} \X Macroblocks = stored.from
    BY <2>3 DEF Delivery!LastStored, Delivery!Whole
  <2>5. QED BY <2>1, <2>2, <2>4 DEF k
<1>4. QED BY <1>2, <1>3

LEMMA Delivers ==
  ASSUME Lossless, TypeInv, PpsInv, PartsInv, CountInv, pc # "exit", [Next]_vars, lost' = {}
  PROVE  pc' # "exit" /\ [Delivery!Next]_(Delivery!vars)
<1>0. SetsInv /\ lost = {} /\ ~UnintentionalLoss BY CountNext DEF PpsInv, PartsInv
<1> DEFINE Stutters == stream'.head = stream.head /\ stored'.from = stored.from /\ lost' = lost /\ pc' # "exit"
<1>1. ASSUME Stutters PROVE pc' # "exit" /\ [Delivery!Next]_(Delivery!vars)
  BY <1>1 DEF Delivery!vars
<1>2. CASE ReceiveFirst \/ ReceiveSlice \/ ReceiveAhead \/ ReceiveRedundant
  <2>1. PICK a \in Arriving \cup Redundant :
          Sent(a) /\ (ReadFirst(a) \/ ReadSlice(a) \/ ReadAhead(a) \/ Discard(a))
    BY <1>2 DEF ReceiveFirst, ReceiveSlice, ReceiveAhead, ReceiveRedundant
  <2>2. HeaderRead(a) BY <2>1 DEF ReadFirst, ReadSlice, ReadAhead, Discard
  <2>3. /\ pc = "read" /\ stored' = stored /\ stream'.head = a.head
        /\ a.head = stream.head \/ a.head.id = stream.head.id + 1
    BY <2>1, <2>2, LosslessRead DEF Continues
  <2>4. pc' # "exit" BY <2>1, <2>3 DEF ReadFirst, ReadSlice, ReadAhead, Discard
  <2>5. CASE a.head = stream.head BY <1>0, <1>1, <2>3, <2>4, <2>5
  <2>6. CASE a.head.id = stream.head.id + 1
    <3>1. Delivery!Send BY <1>0, <2>3, <2>4, <2>6 DEF Delivery!Send
    <3>2. QED BY <2>4, <3>1 DEF Delivery!Next
  <2>7. QED BY <2>3, <2>5, <2>6
<1>3. CASE Decode
  <2> DEFINE i == pic.head.id
  <2>1. pc \in {"decode", "last"} /\ stored'.from = {i} \X Macroblocks BY <1>0, <1>3, PartsDecode
  <2>2. StoredBefore(pic.head) BY <2>1 DEF PartsInv
  <2>3. i \in 1 .. MaxPictures /\ Delivery!LastStored = i - 1 BY <2>2, LastStoredIs DEF StoredBefore
  <2>4. stream.head.id \in {i, i + 1} BY <1>0, <2>1 DEF PartsInv, SetsInv, Latest
  <2>5. UNCHANGED <<stream, lost>> /\ pc' # "exit" BY <1>3 DEF Decode
  <2> HIDE DEF i
  <2>6. i \in (Delivery!LastStored + 1) .. stream.head.id BY <2>3, <2>4
  <2>7. (Delivery!LastStored + 1) .. (i - 1) = {} BY <2>3
  <2>8. Delivery!Store BY <1>0, <2>1, <2>5, <2>6, <2>7 DEF Delivery!Store, Delivery!Whole
  <2>9. QED BY <2>5, <2>8 DEF Delivery!Next
<1>4. CASE FillGap
  <2> DEFINE k == AfterPreNum
  <2>1. /\ stored' = [stored EXCEPT !.idr = FALSE, !.num = k, !.base = k]
        /\ UNCHANGED <<pc, stream, lost>>
    BY <1>4 DEF FillGap
  <2> HIDE DEF k
  <2>2. stored'.from = stored.from BY <2>1 DEF TypeInv
  <2>3. QED BY <1>1, <2>1, <2>2
<1>5. CASE InitPicture BY <1>1, <1>5 DEF InitPicture
<1>6. CASE Start BY <1>1, <1>6 DEF Start
<1>7. ~LoseSlice
  <2>1. spent.lost = 0 BY DEF PartsInv
  <2>2. QED BY <2>1 DEF LoseSlice, Lossless
<1>8. CASE ReceivePps
  <2>1. PICK i \in PicParameterSets : stream' = Resent(stream, i) BY <1>8 DEF ReceivePps
  <2>2. stream'.head = stream.head
    <3>1. StreamGood(stream) BY DEF TypeInv
    <3>2. QED BY <2>1, <3>1, Resends
  <2>3. UNCHANGED <<pc, stored, lost>> BY <1>8 DEF ReceivePps
  <2>4. QED BY <1>1, <2>2, <2>3
<1>9. CASE EndOfStream BY <1>1, <1>9 DEF EndOfStream
<1>10. CASE Ended \/ UNCHANGED vars BY <1>1, <1>10 DEF Ended, vars, decoder
<1>11. QED BY <1>0, <1>2, <1>3, <1>4, <1>5, <1>6, <1>7, <1>8, <1>9, <1>10 DEF Next

-----------------------------------------------------------------------------
(* What holds of a stream that loses nothing.                               *)
LosslessInv == TypeInv /\ PpsInv /\ PartsInv /\ CountInv /\ pc # "exit"

LEMMA LosslessInit == Init => LosslessInv /\ Delivery!Init
<1> SUFFICES ASSUME Init PROVE LosslessInv /\ Delivery!Init OBVIOUS
<1>1. PICK t \in PocTypes, g \in GapsAllowed :
        stream = [type |-> t, gaps |-> g, head |-> NoHead, heard |-> NoHead, left |-> <<>>, open |-> FALSE,
                  closed |-> FALSE, refs |-> 0, base |-> 0, versions |-> [i \in PicParameterSets |-> 0]]
  BY DEF Init, FirstStreams
<1>2. stream.head = NoHead /\ stream.heard = NoHead /\ stream.left = <<>>
      /\ stream.versions = [i \in PicParameterSets |-> 0]
  BY <1>1
<1>3. PartsInv BY <1>2 DEF Init, PartsInv, NothingStored
<1>4. PpsInv BY <1>2 DEF Init, PpsInv, SetsInv, NoPps
<1>5. Delivery!Init BY <1>2 DEF Init, Delivery!Init, NothingStored, NoHead
<1>6. QED BY <1>3, <1>4, <1>5, TypeInit, CountInit DEF LosslessInv, Init

LEMMA LosslessNext ==
  ASSUME Lossless
  PROVE  LosslessInv /\ [Next]_vars => LosslessInv' /\ WholePictures /\ [Delivery!Next]_(Delivery!vars)
<1> SUFFICES ASSUME LosslessInv, [Next]_vars
             PROVE  LosslessInv' /\ WholePictures /\ [Delivery!Next]_(Delivery!vars)
  OBVIOUS
<1>1. TypeInv' BY TypeNext DEF LosslessInv
<1>2. PpsInv' BY SetsNext DEF LosslessInv
<1>3. PartsInv' /\ WholePictures BY PartsNext DEF LosslessInv
<1>4. CountInv' BY CountNext DEF LosslessInv
<1>5. lost' = {} BY <1>3 DEF PartsInv
<1>6. pc' # "exit" /\ [Delivery!Next]_(Delivery!vars) BY <1>5, Delivers DEF LosslessInv
<1>7. QED BY <1>1, <1>2, <1>3, <1>4, <1>6 DEF LosslessInv

(* Of a stream that loses nothing and has no redundant slices, whatever its *)
(* structures, gaps and repeated parameter sets: decode_one_frame gives     *)
(* each picture to store_picture_in_dpb once, whole, unmixed with the next, *)
(* whose first slice it has read by then, and in order (the safety part of  *)
(* ImplementsDelivery); and it never reports an unintentional loss.         *)
THEOREM PicturesDelivered ==
  ASSUME Lossless
  PROVE  Spec => Delivery!InOrder /\ [](pc # "exit")
<1>1. LosslessInv => pc # "exit" BY DEF LosslessInv
<1>2. QED BY <1>1, LosslessInit, LosslessNext, PTL DEF Spec, Delivery!InOrder

(* The buffer is given such a stream in order of frame_num, the gaps filled *)
(* by fill_frame_num_gap, without the assumption of NumbersFollow.          *)
THEOREM GivenInOrder ==
  ASSUME Lossless
  PROVE  Spec => FrameNumsFollow
<1>1. LosslessInv => WholePictures
  BY CompleteIs DEF LosslessInv, PartsInv, WholePictures
<1>2. Spec => []WholePictures BY <1>1, LosslessInit, LosslessNext, PTL DEF Spec
<1>3. MaxRedundant = 0 BY DEF Lossless
<1>4. QED BY <1>2, <1>3, NumbersFollow, PTL

(* decode_poc gives every picture of such a stream the counts it was meant  *)
(* to have, in all three types: from a wrapped field or a wrapped frame     *)
(* number, over filled gaps, operation 5 and pairs of fields.  In type 0    *)
(* operation 5 is on bottom fields only: for the rest decode_poc reads the  *)
(* slice object, and the run v_poc_mmco5 shows it wrong.                    *)
THEOREM CountsRecovered ==
  ASSUME Lossless, BottomMmco5
  PROVE  Spec => []PocRight
<1>1. LosslessInv => PocRight BY DEF LosslessInv, CountInv, Known
<1>2. QED BY <1>1, LosslessInit, LosslessNext, PTL DEF Spec
=============================================================================
