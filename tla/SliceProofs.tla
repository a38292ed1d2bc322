---------------------------- MODULE SliceProofs ----------------------------
(***************************************************************************)
(* Of a picture that is coded and decoded in SliceData, for pictures of    *)
(* every size, every partition into slice groups and every slice mode:     *)
(* what two counters say of the encoder's progress agrees, where slices of *)
(* an MBAFF picture begin, and that the decoder finds every macroblock and *)
(* the end of every slice where the encoder wrote them.                    *)
(***************************************************************************)
EXTENDS SliceData, FiniteSetTheorems, SequenceTheorems, WellFoundedInduction, TLAPS

-----------------------------------------------------------------------------
(* The lowest and the highest number of a set.                              *)
LessThan == {e \in Nat \X Nat : e[1] < e[2]}

LEMMA Minimum ==
  ASSUME NEW S \in SUBSET Nat, S # {}
  PROVE  \E m \in S : \A n \in S : m <= n
<1>1. IsWellFoundedOn(LessThan, Nat) BY NatLessThanWellFounded DEF OpToRel, LessThan
<1>2. PICK m \in S : \A n \in S : <<n, m>> \notin LessThan BY <1>1, WFMin
<1>3. \A n \in S : <<n, m>> \in Nat \X Nat /\ <<n, m>>[1] = n /\ <<n, m>>[2] = m
  OBVIOUS
<1>4. \A n \in S : ~ (n < m) BY <1>2, <1>3 DEF LessThan
<1>5. QED BY <1>4

LEMMA LowestFound ==
  ASSUME NEW S \in SUBSET Nat, S # {}
  PROVE  Lowest(S) \in S /\ \A n \in S : Lowest(S) <= n
BY Minimum DEF Lowest

LEMMA HighestFound ==
  ASSUME NEW k \in Nat, NEW S \in SUBSET (0 .. k), S # {}
  PROVE  Highest(S) \in S /\ \A n \in S : Highest(S) >= n
<1> DEFINE T == {k - n : n \in S}
<1>1. T \in SUBSET Nat /\ T # {}
  <2>1. \A n \in S : n \in 0 .. k OBVIOUS
  <2>2. \A n \in S : k - n \in Nat BY <2>1
  <2>3. T \in SUBSET Nat BY <2>2
  <2>4. PICK n \in S : TRUE OBVIOUS
  <2>5. QED BY <2>3, <2>4
<1>2. PICK t \in T : \A u \in T : t <= u BY <1>1, Minimum
<1>3. PICK m \in S : t = k - m BY <1>2
<1>4. \A n \in S : m >= n
  <2>1. SUFFICES ASSUME NEW n \in S PROVE m >= n OBVIOUS
  <2>2. t <= k - n BY <1>2
  <2>3. QED BY <1>3, <2>2, SMT
<1>5. QED BY <1>3, <1>4 DEF Highest

(* What the walk through a slice group finds.                               *)
Walk(at, n) ==
  /\ n # -1 => n \in DOMAIN map /\ map[n] = map[at]
  /\ n = -1 \/ n > at
  /\ \A m \in DOMAIN map : map[m] = map[at] => (m <= at <=> (n = -1 \/ m < n))

LEMMA NextFound ==
  ASSUME NEW k \in Nat, DOMAIN map = 0 .. k, NEW at \in 0 .. k
  PROVE  Walk(at, FmoGetNextMBNr(map, at))
<1> DEFINE S == {m \in GroupMbs(map, map[at]) : m > at}
           n == Lowest(S)
<1>1. n = FmoGetNextMBNr(map, at) BY DEF FmoGetNextMBNr
<1>2. S \in SUBSET Nat /\ \A m \in S : m \in 0 .. k /\ map[m] = map[at] /\ m > at
  BY DEF GroupMbs
<1>3. \A m \in 0 .. k : map[m] = map[at] /\ m > at => m \in S BY DEF GroupMbs
<1>4. CASE S = {}
  <2>1. n = -1 BY <1>4 DEF Lowest
  <2>2. \A m \in 0 .. k : map[m] = map[at] => m <= at BY <1>3, <1>4
  <2>3. QED BY <1>1, <2>1, <2>2 DEF Walk
<1>5. CASE S # {}
  <2>1. n \in S /\ \A m \in S : n <= m BY <1>2, <1>5, LowestFound
  <2> HIDE DEF n, S
  <2>2. \A m \in 0 .. k : map[m] = map[at] => (m <= at <=> m < n)
    BY <1>2, <1>3, <2>1
  <2>3. QED BY <1>1, <1>2, <2>1, <2>2 DEF Walk
<1>6. QED BY <1>4, <1>5

LEMMA PreviousFound ==
  ASSUME NEW k \in Nat, DOMAIN map = 0 .. k, NEW at \in 0 .. k,
         FmoGetPreviousMBNr(map, at) # -1
  PROVE  LET n == FmoGetPreviousMBNr(map, at)
         IN /\ n \in 0 .. k /\ map[n] = map[at] /\ n < at
            /\ \A m \in 0 .. k : map[m] = map[at] => (m <= n <=> m < at)
<1> DEFINE S == {m \in GroupMbs(map, map[at]) : m < at}
           n == Highest(S)
<1>1. n = FmoGetPreviousMBNr(map, at) BY DEF FmoGetPreviousMBNr
<1>2. S \in SUBSET (0 .. k) /\ \A m \in S : map[m] = map[at] /\ m < at
  BY DEF GroupMbs
<1>3. \A m \in 0 .. k : map[m] = map[at] /\ m < at => m \in S BY DEF GroupMbs
<1>4. S # {} BY <1>1 DEF Highest
<1>5. n \in S /\ \A m \in S : n >= m BY <1>2, <1>4, HighestFound
<1> HIDE DEF n, S
<1>6. QED BY <1>1, <1>2, <1>3, <1>5

-----------------------------------------------------------------------------
(* The map of the picture, when it is one into the slice groups: the two    *)
(* macroblocks of an MBAFF pair are in the same group.                      *)
MapInv ==
  /\ job \in Jobs
  /\ map \in [Mbs(picture) -> Groups(job.pps)]
  /\ Mbaff => \A m \in Mbs(picture) :
       /\ Top(m)  => m + 1 \in Mbs(picture) /\ map[m + 1] = map[m]
       /\ ~Top(m) => m - 1 \in Mbs(picture) /\ map[m - 1] = map[m]

(* Whether the encoder is past a macroblock.                                *)
Past(m) ==
  IF pc = "macroblock" /\ map[m] = map[mb] THEN m < mb
  ELSE IF pc = "end of slice" /\ map[m] = map[mb] THEN m <= mb
  ELSE FirstMBInSlice[map[m]] = -1 \/ m < FirstMBInSlice[map[m]]

CodedMbs == {m \in Mbs(picture) : coded[m] # Nothing}

(* A macroblock counts as coded exactly when the encoder is past it, in the *)
(* middle of a slice as between two.                                        *)
ProgressInv ==
  /\ MapInv
  /\ pc # "error 300"
  /\ DOMAIN FirstMBInSlice = Groups(job.pps)
  /\ \A g \in Groups(job.pps) :
       FirstMBInSlice[g] # -1 => /\ FirstMBInSlice[g] \in Mbs(picture)
                                 /\ map[FirstMBInSlice[g]] = g
  /\ pc \in {"macroblock", "end of slice"} => mb \in Mbs(picture)
  /\ pc = "macroblock" => DOMAIN slice = DOMAIN NoSlice /\ ~slice.recode
  /\ DOMAIN coded = Mbs(picture)
  /\ pc \in {"slices", "macroblock", "end of slice"} =>
       /\ CodedMbs = {m \in Mbs(picture) : Past(m)}
       /\ NumberOfCodedMBs = Cardinality(CodedMbs)

LEMMA SizesAreNatural ==
  ASSUME NEW p, p.width \in Nat \ {0}, p.height \in Nat \ {0}
  PROVE  /\ PicSizeInMapUnits(p) \in Nat \ {0}
         /\ PicSizeInMbs(p) \in Nat \ {0}
         /\ p.coding # "progressive" => PicSizeInMbs(p) = 2 * PicSizeInMapUnits(p)
<1>1. \A a, b \in Nat \ {0} : a * b \in Nat \ {0} BY SMT
<1>2. PicSizeInMapUnits(p) \in Nat \ {0} BY <1>1 DEF PicSizeInMapUnits
<1>3. QED BY <1>2 DEF PicSizeInMbs

LEMMA MbsAreNumbers ==
  ASSUME job \in Jobs
  PROVE  \E k \in Nat : Mbs(picture) = 0 .. k
<1>1. PicSizeInMbs(picture) \in Nat \ {0}
  BY SizesAreNatural, JobsAssumption DEF picture
<1>2. QED BY <1>1 DEF Mbs

(* The pairs of an MBAFF picture are not divided between slice groups.      *)
LEMMA PairsTogether ==
  ASSUME job \in Jobs, Mbaff, map = MbToSliceGroupMap(job.picture, job.pps, job.cycle),
         NEW m \in Mbs(picture)
  PROVE  /\ Top(m) => m + 1 \in Mbs(picture) /\ map[m + 1] = map[m]
         /\ ~Top(m) => m - 1 \in Mbs(picture) /\ map[m - 1] = map[m]
<1> DEFINE units == PicSizeInMapUnits(picture)
<1>1. units \in Nat \ {0} /\ Mbs(picture) = 0 .. 2 * units - 1
  BY SizesAreNatural, JobsAssumption DEF picture, Mbaff, Mbs
<1>2. picture.coding = "mbaff" BY DEF Mbaff
<1>3. \A n, o \in Mbs(picture) : n \div 2 = o \div 2 => map[n] = map[o]
  BY <1>2 DEF MbToSliceGroupMap, MapUnitOf, picture
<1> HIDE DEF units
<1>4. CASE Top(m)
  <2>1. m + 1 \in Mbs(picture) /\ (m + 1) \div 2 = m \div 2 BY <1>1, <1>4 DEF Top
  <2>2. QED BY <1>3, <1>4, <2>1
<1>5. CASE ~Top(m)
  <2>1. m - 1 \in Mbs(picture) /\ (m - 1) \div 2 = m \div 2 BY <1>1, <1>5 DEF Top
  <2>2. QED BY <1>3, <1>5, <2>1
<1>6. QED BY <1>4, <1>5

LEMMA InitProgress ==
  ASSUME Init, GroupsEvolve
  PROVE  ProgressInv
<1>1. job \in Jobs /\ map = MbToSliceGroupMap(job.picture, job.pps, job.cycle)
  BY DEF Init
<1>2. PICK k \in Nat : Mbs(picture) = 0 .. k BY <1>1, MbsAreNumbers
<1>3. map \in [Mbs(picture) -> Groups(job.pps)]
  <2>1. \A m \in Mbs(picture) : map[m] \in Groups(job.pps) BY DEF Init, GroupsEvolve
  <2>2. map = [m \in Mbs(picture) |-> map[m]] BY <1>1 DEF MbToSliceGroupMap, picture
  <2>3. QED BY <2>1, <2>2
<1>4. MapInv BY <1>1, <1>3, PairsTogether DEF MapInv
<1>5. FirstMBInSlice = [g \in Groups(job.pps) |-> FmoGetFirstMBOfSliceGroup(map, g)]
  BY DEF Init
<1>6. ASSUME NEW g \in Groups(job.pps)
      PROVE  /\ FirstMBInSlice[g] # -1 => /\ FirstMBInSlice[g] \in Mbs(picture)
                                          /\ map[FirstMBInSlice[g]] = g
             /\ \A m \in Mbs(picture) :
                  map[m] = g => FirstMBInSlice[g] # -1 /\ FirstMBInSlice[g] <= m
  <2> DEFINE S == GroupMbs(map, g)
  <2>1. FirstMBInSlice[g] = Lowest(S) BY <1>5 DEF FmoGetFirstMBOfSliceGroup
  <2>2. S \in SUBSET Nat /\ S = {m \in Mbs(picture) : map[m] = g}
    BY <1>2, <1>3 DEF GroupMbs
  <2>3. CASE S = {} BY <2>1, <2>2, <2>3 DEF Lowest
  <2>4. CASE S # {}
    <3>1. Lowest(S) \in S /\ \A m \in S : Lowest(S) <= m BY <2>2, <2>4, LowestFound
    <3>2. Lowest(S) # -1 BY <2>2, <3>1
    <3>3. QED BY <2>1, <2>2, <3>1, <3>2
  <2>5. QED BY <2>3, <2>4
<1>7. pc = "slices" /\ NumberOfCodedMBs = 0
      /\ coded = [m \in Mbs(picture) |-> Nothing]
  BY DEF Init, picture
<1>8. CodedMbs = {} BY <1>7 DEF CodedMbs
<1>9. {m \in Mbs(picture) : Past(m)} = {}
  <2>1. SUFFICES ASSUME NEW m \in Mbs(picture), Past(m) PROVE FALSE OBVIOUS
  <2>2. FirstMBInSlice[map[m]] # -1 /\ FirstMBInSlice[map[m]] <= m BY <1>3, <1>6
  <2>3. FirstMBInSlice[map[m]] \in 0 .. k BY <1>2, <1>3, <1>6, <2>2
  <2>4. QED BY <1>2, <1>7, <2>1, <2>2, <2>3 DEF Past
<1>10. Cardinality(CodedMbs) = 0 BY <1>8, FS_EmptySet
<1>11. DOMAIN FirstMBInSlice = Groups(job.pps) /\ DOMAIN coded = Mbs(picture)
  BY <1>5, <1>7
<1>12. QED BY <1>4, <1>6, <1>7, <1>8, <1>9, <1>10, <1>11 DEF ProgressInv

-----------------------------------------------------------------------------
(* Only Decide sets recode, and only for a macroblock that is too big and   *)
(* has another of its slice before it.                                      *)
LEMMA RecodeOnly ==
  ASSUME NEW s, DOMAIN s = DOMAIN NoSlice, ~s.recode, NEW m, NEW type, NEW tooBig
  PROVE  LET e == EndMacroblock(WriteMacroblock(StartMacroblock(s, m), m, type), m, tooBig)
         IN /\ DOMAIN e = DOMAIN NoSlice
            /\ e.recode => job.mode = "FIXED_RATE" /\ tooBig /\ ~NewSlice(m)
<1> DEFINE Fields == DOMAIN NoSlice
           a == StartMacroblock(s, m)
           b == WriteMacroblock(a, m, type)
           c == Decide(b, m, tooBig)
           e == Settle(c)
<1>1. Fields = {"first", "data", "stored", "cod_counter", "num_mb", "end", "recode"}
  BY DEF NoSlice
<1>2. DOMAIN a = Fields /\ a.recode = s.recode BY <1>1 DEF StartMacroblock
<1> HIDE DEF a
<1>3. DOMAIN b = Fields /\ b.recode = a.recode BY <1>1, <1>2 DEF WriteMacroblock
<1> HIDE DEF b
<1>4. /\ DOMAIN c = Fields
      /\ c.recode => b.recode \/ (job.mode = "FIXED_RATE" /\ tooBig /\ ~NewSlice(m))
  BY <1>1, <1>3 DEF Decide
<1> HIDE DEF c
<1>5. DOMAIN e = Fields /\ e.recode = c.recode BY <1>1, <1>4 DEF Settle
<1> HIDE DEF e
<1>6. e = EndMacroblock(WriteMacroblock(StartMacroblock(s, m), m, type), m, tooBig)
  BY DEF EndMacroblock, a, b, c, e
<1>7. QED BY <1>2, <1>3, <1>4, <1>5, <1>6

LEMMA StartKeepsProgress ==
  ASSUME ProgressInv, StartSlice
  PROVE  ProgressInv'
<1>1. PICK k \in Nat : Mbs(picture) = 0 .. k BY MbsAreNumbers DEF ProgressInv, MapInv
<1>2. UNCHANGED <<job, map, FirstMBInSlice, NumberOfCodedMBs, coded>> /\ pc' = "macroblock"
      /\ pc = "slices" /\ mb' = FirstMBInSlice[SliceGroup]
  BY DEF StartSlice
<1>3. mb' \in Mbs(picture) /\ map[mb'] = SliceGroup /\ mb' # -1
  BY <1>1, <1>2 DEF StartSlice, FmoSliceGroupCompletelyCoded, ProgressInv
<1>4. MapInv' BY <1>2 DEF ProgressInv, MapInv, picture, Mbaff, Top
<1>5. \A m \in Mbs(picture) : Past(m)' <=> Past(m)
  BY <1>2, <1>3 DEF Past
<1>6. CodedMbs' = CodedMbs BY <1>2 DEF CodedMbs, picture
<1>7. {m \in Mbs(picture) : Past(m)}' = {m \in Mbs(picture) : Past(m)}
  BY <1>2, <1>5 DEF picture
<1>8. slice' = [NoSlice EXCEPT !.first = mb'] BY DEF StartSlice
<1>9. DOMAIN slice' = DOMAIN NoSlice /\ ~slice'.recode BY <1>8 DEF NoSlice
<1>10. CodedMbs = {m \in Mbs(picture) : Past(m)} /\ NumberOfCodedMBs = Cardinality(CodedMbs)
  BY <1>2 DEF ProgressInv
<1>11. QED
  BY <1>2, <1>3, <1>4, <1>6, <1>7, <1>9, <1>10 DEF ProgressInv, picture

LEMMA FinishKeepsProgress ==
  ASSUME ProgressInv, FinishSlice
  PROVE  ProgressInv'
<1>1. PICK k \in Nat : Mbs(picture) = 0 .. k BY MbsAreNumbers DEF ProgressInv, MapInv
<1> DEFINE n == FmoGetNextMBNr(map, mb)
<1>2. /\ UNCHANGED <<job, map, NumberOfCodedMBs, coded>>
      /\ pc = "end of slice" /\ pc' = "slices"
      /\ FirstMBInSlice' = [FirstMBInSlice EXCEPT ![map[mb]] = n]
  BY DEF FinishSlice
<1>3. mb \in Mbs(picture) /\ map \in [Mbs(picture) -> Groups(job.pps)]
  BY <1>2 DEF ProgressInv, MapInv
<1>4. Walk(mb, n) BY <1>1, <1>3, NextFound
<1> HIDE DEF n
<1>5. MapInv' BY <1>2 DEF ProgressInv, MapInv, picture, Mbaff, Top
<1>6. map[mb] \in Groups(job.pps) /\ DOMAIN FirstMBInSlice = Groups(job.pps)
  BY <1>3 DEF ProgressInv
<1>7. /\ FirstMBInSlice'[map[mb]] = n
      /\ \A g \in Groups(job.pps) : g # map[mb] => FirstMBInSlice'[g] = FirstMBInSlice[g]
      /\ DOMAIN FirstMBInSlice' = Groups(job.pps)
  BY <1>2, <1>6
<1>8. \A g \in Groups(job.pps) :
        FirstMBInSlice'[g] # -1 => /\ FirstMBInSlice'[g] \in Mbs(picture)
                                   /\ map[FirstMBInSlice'[g]] = g
  BY <1>3, <1>4, <1>7 DEF ProgressInv, Walk
<1>9. \A m \in Mbs(picture) : Past(m)' <=> Past(m)
  BY <1>2, <1>3, <1>4, <1>7 DEF Past, Walk
<1>10. {m \in Mbs(picture) : Past(m)}' = {m \in Mbs(picture) : Past(m)}
  BY <1>2, <1>9 DEF picture
<1>11. CodedMbs' = CodedMbs BY <1>2 DEF CodedMbs, picture
<1>12. CodedMbs = {m \in Mbs(picture) : Past(m)} /\ NumberOfCodedMBs = Cardinality(CodedMbs)
       /\ DOMAIN coded = Mbs(picture)
  BY <1>2 DEF ProgressInv
<1>13. QED
  BY <1>2, <1>5, <1>7, <1>8, <1>10, <1>11, <1>12 DEF ProgressInv, picture

(* A macroblock that is taken back leaves the slice behind the one before   *)
(* it; one that stays is one more.                                          *)
LEMMA CodeKeepsProgress ==
  ASSUME ProgressInv, CodeMacroblock
  PROVE  ProgressInv'
<1>1. PICK k \in Nat : Mbs(picture) = 0 .. k BY MbsAreNumbers DEF ProgressInv, MapInv
<1>2. PICK type, tooBig :
        /\ type \in Types
        /\ LET s == EndMacroblock(WriteMacroblock(StartMacroblock(slice, mb), mb, type), mb, tooBig)
           IN slice' = s
        /\ IF slice'.recode
           THEN /\ mb' = TakenBack(mb)
                /\ UNCHANGED <<coded, NumberOfCodedMBs>>
                /\ pc' = IF mb' = -1 THEN "error 300" ELSE "end of slice"
           ELSE /\ coded' = [coded EXCEPT ![mb] = type]
                /\ NumberOfCodedMBs' = NumberOfCodedMBs + 1
                /\ IF (slice'.end \/ NextMb = -1) /\ LooksAtEnd(mb)
                   THEN mb' = mb /\ pc' = "end of slice"
                   ELSE mb' = NextMb /\ UNCHANGED pc
  BY DEF CodeMacroblock
<1>3. UNCHANGED <<job, map, FirstMBInSlice>> /\ pc = "macroblock" BY DEF CodeMacroblock
<1>4. /\ mb \in Mbs(picture) /\ map \in [Mbs(picture) -> Groups(job.pps)]
      /\ DOMAIN slice = DOMAIN NoSlice /\ ~slice.recode
      /\ CodedMbs = {m \in Mbs(picture) : Past(m)}
      /\ NumberOfCodedMBs = Cardinality(CodedMbs)
      /\ DOMAIN coded = Mbs(picture)
  BY <1>3 DEF ProgressInv, MapInv
<1>5. MapInv' BY <1>3 DEF ProgressInv, MapInv, picture, Mbaff, Top
<1>6. /\ DOMAIN slice' = DOMAIN NoSlice
      /\ slice'.recode => ~NewSlice(mb)
  <2> DEFINE e == EndMacroblock(WriteMacroblock(StartMacroblock(slice, mb), mb, type), mb, tooBig)
  <2>1. DOMAIN e = DOMAIN NoSlice /\ (e.recode => ~NewSlice(mb)) BY <1>4, RecodeOnly
  <2>2. slice' = e BY <1>2
  <2> HIDE DEF e
  <2>3. QED BY <2>1, <2>2
<1>7. CASE slice'.recode
  <2>1. mb' = FmoGetPreviousMBNr(map, mb) /\ mb' # -1
    BY <1>2, <1>6, <1>7 DEF TakenBack, NewSlice
  <2>2. /\ mb' \in Mbs(picture) /\ map[mb'] = map[mb]
        /\ \A m \in Mbs(picture) : map[m] = map[mb] => (m <= mb' <=> m < mb)
    BY <1>1, <1>4, <2>1, PreviousFound
  <2>3. pc' = "end of slice" /\ UNCHANGED <<coded, NumberOfCodedMBs>> BY <1>2, <1>7, <2>1
  <2>4. \A m \in Mbs(picture) : Past(m)' <=> Past(m) BY <1>3, <2>2, <2>3 DEF Past
  <2>5. {m \in Mbs(picture) : Past(m)}' = {m \in Mbs(picture) : Past(m)}
    BY <1>3, <2>4 DEF picture
  <2>6. CodedMbs' = CodedMbs BY <1>3, <2>3 DEF CodedMbs, picture
  <2>7. QED BY <1>3, <1>4, <1>5, <2>2, <2>3, <2>5, <2>6 DEF ProgressInv, picture
<1>8. CASE ~slice'.recode
  <2>1. /\ coded' = [coded EXCEPT ![mb] = type] /\ type # Nothing
        /\ NumberOfCodedMBs' = NumberOfCodedMBs + 1
    BY <1>2, <1>8 DEF Types, Nothing
  <2>2. CodedMbs' = CodedMbs \cup {mb} BY <1>3, <1>4, <2>1 DEF CodedMbs, picture
  <2>3. mb \notin CodedMbs BY <1>1, <1>3, <1>4 DEF Past
  <2>4. NumberOfCodedMBs' = Cardinality(CodedMbs')
    <3>1. IsFiniteSet(CodedMbs)
      <4>1. IsFiniteSet(0 .. k) BY <1>1, FS_Interval
      <4>2. QED BY <1>1, <4>1, FS_Subset DEF CodedMbs
    <3>2. QED BY <1>4, <2>1, <2>2, <2>3, <3>1, FS_AddElement
  <2>5. DOMAIN coded' = Mbs(picture) BY <1>4, <2>1
  <2>6. CASE mb' = mb /\ pc' = "end of slice"
    <3>1. ASSUME NEW m \in Mbs(picture)
          PROVE  Past(m)' <=> Past(m) \/ m = mb
      <4>1. m \in Int /\ mb \in Int BY <1>1, <1>4
      <4>2. CASE map[m] = map[mb]
        <5>1. Past(m) <=> m < mb BY <1>3, <4>2 DEF Past
        <5>2. Past(m)' <=> m <= mb BY <1>3, <2>6, <4>2 DEF Past
        <5>3. QED BY <4>1, <5>1, <5>2
      <4>3. CASE map[m] # map[mb] BY <1>3, <2>6, <4>3 DEF Past
      <4>4. QED BY <4>2, <4>3
    <3>2. {m \in Mbs(picture) : Past(m)}' = {m \in Mbs(picture) : Past(m)} \cup {mb}
      BY <1>3, <1>4, <3>1 DEF picture
    <3>3. QED BY <1>3, <1>4, <1>5, <2>2, <2>4, <2>5, <2>6, <3>2 DEF ProgressInv, picture
  <2>7. CASE mb' = NextMb /\ pc' = pc /\ ~ ((slice'.end \/ NextMb = -1) /\ LooksAtEnd(mb))
    <3>1. Walk(mb, mb') BY <1>1, <1>4, <2>7, NextFound DEF NextMb
    <3>2. mb' # -1
      <4>1. CASE Mbaff /\ Top(mb)
        <5>1. mb + 1 \in DOMAIN map /\ map[mb + 1] = map[mb]
          <6>1. DOMAIN map = Mbs(picture) BY <1>4
          <6>2. mb + 1 \in Mbs(picture) /\ map[mb + 1] = map[mb]
            BY <1>4, <4>1 DEF ProgressInv, MapInv
          <6>3. QED BY <6>1, <6>2
        <5>2. mb' = -1 => mb + 1 <= mb BY <3>1, <5>1 DEF Walk
        <5>3. mb \in Int BY <1>1, <1>4
        <5>4. QED BY <5>2, <5>3
      <4>2. CASE ~ (Mbaff /\ Top(mb)) BY <2>7, <4>2 DEF LooksAtEnd
      <4>3. QED BY <4>1, <4>2
    <3>3. mb' \in Mbs(picture) /\ map[mb'] = map[mb]
          /\ \A m \in Mbs(picture) : map[m] = map[mb] => (m <= mb <=> m < mb')
      BY <1>4, <3>1, <3>2 DEF Walk
    <3>4. \A m \in Mbs(picture) : Past(m)' <=> Past(m) \/ m = mb
      BY <1>1, <1>3, <1>4, <2>7, <3>3 DEF Past
    <3>5. {m \in Mbs(picture) : Past(m)}' = {m \in Mbs(picture) : Past(m)} \cup {mb}
      BY <1>3, <1>4, <3>4 DEF picture
    <3>6. QED
      BY <1>3, <1>4, <1>5, <1>6, <1>8, <2>2, <2>4, <2>5, <2>7, <3>3, <3>5
      DEF ProgressInv, picture
  <2>8. QED BY <1>2, <1>8, <2>6, <2>7
<1>9. QED BY <1>7, <1>8

LEMMA NextKeepsProgress ==
  ASSUME ProgressInv, [Next]_vars
  PROVE  ProgressInv'
<1>1. ASSUME UNCHANGED <<job, map, FirstMBInSlice, NumberOfCodedMBs, mb, slice, coded>>,
             pc' = pc \/ pc' \in {"decode", "done"}
      PROVE  ProgressInv'
  <2>1. MapInv' BY <1>1 DEF ProgressInv, MapInv, picture, Mbaff, Top
  <2>2. CodedMbs' = CodedMbs BY <1>1 DEF CodedMbs, picture
  <2>3. pc' = pc => {m \in Mbs(picture) : Past(m)}' = {m \in Mbs(picture) : Past(m)}
    BY <1>1 DEF Past, picture
  <2>4. QED BY <1>1, <2>1, <2>2, <2>3 DEF ProgressInv, picture
<1>2. CASE StartSlice BY <1>2, StartKeepsProgress
<1>3. CASE NextSliceGroup BY <1>1, <1>3 DEF NextSliceGroup
<1>4. CASE CodeMacroblock BY <1>4, CodeKeepsProgress
<1>5. CASE FinishSlice BY <1>5, FinishKeepsProgress
<1>6. CASE DecodeSlice BY <1>1, <1>6 DEF DecodeSlice, encoder
<1>7. CASE DecodeMacroblock BY <1>1, <1>7 DEF DecodeMacroblock, encoder
<1>8. CASE ExitPicture BY <1>1, <1>8 DEF ExitPicture, encoder
<1>9. CASE UNCHANGED vars BY <1>1, <1>9 DEF vars, encoder
<1>10. QED
  BY <1>2, <1>3, <1>4, <1>5, <1>6, <1>7, <1>8, <1>9 DEF Next, Done

(* Where the map is one into the slice groups, NumberofCodedMacroBlocks is  *)
(* the number of macroblocks before the next slices of all groups, and      *)
(* these are the coded ones: the loops of code_a_plane end when each        *)
(* macroblock was coded, however often one was taken back.                  *)
THEOREM ProgressCounted == Spec /\ []GroupsEvolve => []CountIsProgress
<1>1. Init /\ GroupsEvolve => ProgressInv BY InitProgress
<1>2. ProgressInv /\ [Next]_vars => ProgressInv' BY NextKeepsProgress
<1>3. ProgressInv => CountIsProgress
  <2>1. SUFFICES ASSUME ProgressInv, pc = "slices"
                 PROVE  CodedMbs = BeforeNextSlice
    BY DEF CountIsProgress, ProgressInv, CodedMbs
  <2>2. CodedMbs = {m \in Mbs(picture) : Past(m)} BY <2>1 DEF ProgressInv
  <2>3. QED BY <2>1, <2>2 DEF Past, BeforeNextSlice
<1>4. QED BY <1>1, <1>2, <1>3, PTL DEF Spec

-----------------------------------------------------------------------------
(* Slices of an MBAFF picture are cut between pairs.                        *)
PairInv ==
  Mbaff =>
    /\ \A g \in Groups(job.pps) : FirstMBInSlice[g] # -1 => Top(FirstMBInSlice[g])
    /\ pc = "end of slice" => ~Top(mb)

LEMMA Parity ==
  ASSUME NEW m \in Int
  PROVE  /\ Top(m + 1) <=> ~Top(m)
         /\ Top(m - 1) <=> ~Top(m)
BY DEF Top

LEMMA InitPairs ==
  ASSUME Init, ProgressInv
  PROVE  PairInv
<1>1. PICK k \in Nat : Mbs(picture) = 0 .. k BY MbsAreNumbers DEF ProgressInv, MapInv
<1>2. pc = "slices" /\ CodedMbs = {} BY DEF Init, CodedMbs, picture
<1>3. SUFFICES ASSUME Mbaff, NEW g \in Groups(job.pps), FirstMBInSlice[g] # -1,
                      ~Top(FirstMBInSlice[g])
               PROVE  FALSE
  BY <1>2 DEF PairInv
<1> DEFINE f == FirstMBInSlice[g]
<1>4. f \in Mbs(picture) /\ map[f] = g BY <1>3 DEF ProgressInv
<1>5. f - 1 \in Mbs(picture) /\ map[f - 1] = g BY <1>3, <1>4 DEF ProgressInv, MapInv
<1>6. f - 1 < f BY <1>1, <1>4
<1>7. Past(f - 1) BY <1>2, <1>3, <1>5, <1>6 DEF Past
<1>8. f - 1 \in CodedMbs BY <1>2, <1>5, <1>7 DEF ProgressInv
<1>9. QED BY <1>2, <1>8

LEMMA FinishKeepsPairs ==
  ASSUME ProgressInv, PairInv, FinishSlice
  PROVE  PairInv'
<1>1. PICK k \in Nat : Mbs(picture) = 0 .. k BY MbsAreNumbers DEF ProgressInv, MapInv
<1> DEFINE n == FmoGetNextMBNr(map, mb)
<1>2. /\ UNCHANGED <<job, map>> /\ pc = "end of slice" /\ pc' = "slices"
      /\ FirstMBInSlice' = [FirstMBInSlice EXCEPT ![map[mb]] = n]
  BY DEF FinishSlice
<1>3. mb \in Mbs(picture) /\ DOMAIN map = Mbs(picture) BY <1>2 DEF ProgressInv, MapInv
<1>4. Walk(mb, n) BY <1>1, <1>3, NextFound
<1> HIDE DEF n
<1>5. ASSUME Mbaff, n # -1
      PROVE  Top(n)
  <2>1. SUFFICES ASSUME ~Top(n) PROVE FALSE OBVIOUS
  <2>2. n \in Mbs(picture) /\ map[n] = map[mb] /\ n > mb BY <1>3, <1>4, <1>5 DEF Walk
  <2>3. n - 1 \in Mbs(picture) /\ map[n - 1] = map[n]
    BY <1>5, <2>1, <2>2 DEF ProgressInv, MapInv
  <2>4. n - 1 <= mb
    <3>1. n - 1 < n BY <1>1, <2>2
    <3>2. n - 1 <= mb <=> n - 1 < n BY <1>3, <1>4, <1>5, <2>2, <2>3 DEF Walk
    <3>3. QED BY <3>1, <3>2
  <2>5. n - 1 = mb BY <1>1, <1>3, <2>2, <2>4
  <2>6. ~Top(mb) BY <1>2, <1>5 DEF PairInv
  <2>7. n \in Int BY <1>1, <2>2
  <2>8. QED BY <2>1, <2>5, <2>6, <2>7, Parity
<1>6. ASSUME Mbaff, NEW g \in Groups(job.pps), FirstMBInSlice'[g] # -1
      PROVE  Top(FirstMBInSlice'[g])
  <2>1. DOMAIN FirstMBInSlice = Groups(job.pps) BY DEF ProgressInv
  <2>2. CASE g = map[mb] BY <1>2, <1>5, <1>6, <2>1, <2>2
  <2>3. CASE g # map[mb] BY <1>2, <1>6, <2>1, <2>3 DEF PairInv
  <2>4. QED BY <2>2, <2>3
<1>7. QED BY <1>2, <1>6 DEF PairInv, Mbaff, picture, Top

LEMMA CodeKeepsPairs ==
  ASSUME ProgressInv, PairInv, CodeMacroblock, "bottom" \notin MayOverflow
  PROVE  PairInv'
<1>1. PICK k \in Nat : Mbs(picture) = 0 .. k BY MbsAreNumbers DEF ProgressInv, MapInv
<1>2. UNCHANGED <<job, map, FirstMBInSlice>> /\ pc = "macroblock" BY DEF CodeMacroblock
<1>3. /\ mb \in Mbs(picture) /\ DOMAIN map = Mbs(picture)
      /\ DOMAIN slice = DOMAIN NoSlice /\ ~slice.recode
  BY <1>2 DEF ProgressInv, MapInv
<1>4. SUFFICES ASSUME Mbaff, pc' = "end of slice"
               PROVE  ~Top(mb')
  BY <1>2 DEF PairInv, Mbaff, picture, Top
<1>5. PICK type, tooBig :
        /\ tooBig \in TooBig(mb, type)
        /\ LET s == EndMacroblock(WriteMacroblock(StartMacroblock(slice, mb), mb, type), mb, tooBig)
           IN slice' = s
        /\ slice'.recode => mb' = TakenBack(mb) /\ mb' # -1
        /\ ~slice'.recode => mb' = mb /\ LooksAtEnd(mb)
  BY <1>2, <1>4 DEF CodeMacroblock
<1>6. slice'.recode => tooBig
  <2> DEFINE e == EndMacroblock(WriteMacroblock(StartMacroblock(slice, mb), mb, type), mb, tooBig)
  <2>1. e.recode => tooBig BY <1>3, RecodeOnly
  <2>2. slice' = e BY <1>5
  <2> HIDE DEF e
  <2>3. QED BY <2>1, <2>2
<1>7. CASE ~slice'.recode BY <1>4, <1>5, <1>7 DEF LooksAtEnd
<1>8. CASE slice'.recode
  <2>1. Top(mb)
    <3>1. SUFFICES ASSUME ~Top(mb) PROVE FALSE OBVIOUS
    <3>2. Kind(mb, type) = "bottom" BY <1>4, <3>1 DEF Kind
    <3>3. tooBig = FALSE BY <1>5, <3>2 DEF TooBig
    <3>4. QED BY <1>6, <1>8, <3>3
  <2>2. /\ mb' \in Mbs(picture) /\ map[mb'] = map[mb] /\ mb' < mb
        /\ \A m \in Mbs(picture) : map[m] = map[mb] => (m <= mb' <=> m < mb)
    BY <1>1, <1>3, <1>5, <1>8, PreviousFound DEF TakenBack
  <2>3. SUFFICES ASSUME Top(mb') PROVE FALSE OBVIOUS
  <2>4. mb' + 1 \in Mbs(picture) /\ map[mb' + 1] = map[mb']
    BY <1>4, <2>2, <2>3 DEF ProgressInv, MapInv
  <2>5. mb' + 1 <= mb' <=> mb' + 1 < mb BY <2>2, <2>4
  <2>6. mb' \in Int /\ mb \in Int BY <1>1, <1>3, <2>2
  <2>7. mb' + 1 = mb
    <3>1. \A a, b \in Int : a < b /\ (a + 1 <= a <=> a + 1 < b) => a + 1 = b
      OBVIOUS
    <3>2. QED BY <2>2, <2>5, <2>6, <3>1
  <2>8. QED BY <2>1, <2>3, <2>6, <2>7, Parity
<1>9. QED BY <1>7, <1>8

LEMMA NextKeepsPairs ==
  ASSUME ProgressInv, PairInv, [Next]_vars, "bottom" \notin MayOverflow
  PROVE  PairInv'
<1>1. ASSUME UNCHANGED <<job, FirstMBInSlice>>,
             (pc' = pc /\ mb' = mb) \/ pc' # "end of slice"
      PROVE  PairInv'
  BY <1>1 DEF PairInv, Mbaff, picture, Top
<1>2. CASE StartSlice BY <1>1, <1>2 DEF StartSlice
<1>3. CASE NextSliceGroup BY <1>1, <1>3 DEF NextSliceGroup
<1>4. CASE CodeMacroblock BY <1>4, CodeKeepsPairs
<1>5. CASE FinishSlice BY <1>5, FinishKeepsPairs
<1>6. CASE DecodeSlice BY <1>1, <1>6 DEF DecodeSlice, encoder
<1>7. CASE DecodeMacroblock BY <1>1, <1>7 DEF DecodeMacroblock, encoder
<1>8. CASE ExitPicture BY <1>1, <1>8 DEF ExitPicture, encoder
<1>9. CASE UNCHANGED vars BY <1>1, <1>9 DEF vars, encoder
<1>10. QED
  BY <1>2, <1>3, <1>4, <1>5, <1>6, <1>7, <1>8, <1>9 DEF Next, Done

(* As long as no bottom macroblock is too big for its slice, every slice of *)
(* an MBAFF picture begins with a top one, also when a macroblock is taken  *)
(* back: the walk through a slice group keeps pairs together.               *)
THEOREM PairsBegin ==
  ASSUME "bottom" \notin MayOverflow
  PROVE  Spec /\ []GroupsEvolve => []SlicesBeginWithPairs
<1>1. Init /\ GroupsEvolve => ProgressInv /\ PairInv BY InitProgress, InitPairs
<1>2. ProgressInv /\ PairInv /\ [Next]_vars => ProgressInv' /\ PairInv'
  BY NextKeepsProgress, NextKeepsPairs
<1>3. ProgressInv /\ PairInv => SlicesBeginWithPairs
  <2>1. ASSUME ProgressInv, PairInv, Mbaff, NEW g \in Groups(job.pps), FirstMBInSlice[g] >= 0
        PROVE  Top(FirstMBInSlice[g])
    <3>1. FirstMBInSlice[g] # -1 BY <2>1
    <3>2. QED BY <2>1, <3>1 DEF PairInv
  <2>2. QED BY <2>1 DEF SlicesBeginWithPairs
<1>4. QED BY <1>1, <1>2, <1>3, PTL DEF Spec

-----------------------------------------------------------------------------
(* What one macroblock does to the data of its slice: the four steps of     *)
(* CodeMacroblock, one by one.                                              *)

(* A slice with runs, and what the data of slices are.                      *)
HasRuns(j) == ~j.cabac /\ ~j.intra
Elements == [what : {"run", "coded", "skipped", "end"}, n : Nat]
Slices == [first : Int, data : Seq(Elements), stored : Nat, cod_counter : Nat,
           num_mb : Nat, end : BOOLEAN, recode : BOOLEAN]

(* The data with the run that is still counted.                             *)
Pending(n) == IF n > 0 THEN <<Run(n)>> ELSE <<>>
WithRun(s) == s.data \o Pending(s.cod_counter)

(* The bit before a macroblock.                                             *)
BitBefore(s, m) ==
  IF job.cabac /\ m # s.first /\ (Mbaff => Top(m)) THEN <<EndOfSlice(0)>> ELSE <<>>

(* Where the loop is when it comes to macroblock m.                         *)
InLoop(s, m) ==
  /\ (Mbaff => Top(m)) \/ HasRuns(job) => ~s.end
  /\ ~HasRuns(job) => s.cod_counter = 0
  /\ s.stored <= Len(s.data)
  /\ job.mode = "FIXED_RATE" /\ s.cod_counter > 0 => s.stored = Len(s.data)
  /\ HasRuns(job) /\ Mbaff /\ job.mode \in {"NO_SLICES", "FIXED_MB"} =>
       /\ Top(m) <=> s.num_mb % 2 = 0
       /\ job.mode = "FIXED_MB" => s.num_mb < job.argument

(* The fields of a slice, and the elements of data.                         *)
LEMMA Fields ==
  /\ DOMAIN NoSlice = {"first", "data", "stored", "cod_counter", "num_mb", "end", "recode"}
  /\ \A s \in Slices : DOMAIN s = DOMAIN NoSlice
BY DEF NoSlice, Slices

LEMMA ElementsWritten ==
  /\ \A n \in Nat : Run(n) \in Elements /\ EndOfSlice(n) \in Elements
  /\ \A type \in Types : Mb(type) \in Elements
BY DEF Run, EndOfSlice, Mb, Elements, Types

LEMMA PrefixKept ==
  ASSUME NEW s \in Seq(Elements), NEW t \in Seq(Elements)
  PROVE  SubSeq(s \o t, 1, Len(s)) = s /\ SubSeq(s, 1, Len(s)) = s
<1>1. Len(s \o t) >= Len(s) BY ConcatProperties, LenProperties
<1>2. SubSeq(s \o t, 1, Len(s)) = SubSeq(s, 1, Len(s))
  BY SubSeqOfConcat1, LenProperties
<1>3. SubSeq(s, 1, Len(s)) = s BY SubSeqFull
<1>4. QED BY <1>2, <1>3

(* What start_macroblock, write_macroblock and end_macroblock leave.        *)
LEMMA Started ==
  ASSUME NEW s \in Slices, NEW m
  PROVE  LET a == StartMacroblock(s, m)
         IN /\ a \in Slices
            /\ a = [s EXCEPT !.stored = a.stored]
            /\ a.stored = IF BacksUp /\ (job.MbInterlace => Top(m)) /\ s.cod_counter = 0
                          THEN Len(s.data) ELSE s.stored
<1>1. Len(s.data) \in Nat BY LenProperties DEF Slices
<1>2. s = [s EXCEPT !.stored = s.stored] BY DEF Slices
<1>3. QED BY <1>1, <1>2 DEF StartMacroblock, Slices

(* What write_macroblock leaves.                                            *)
Wrote(a, b, m, type) ==
  /\ b \in Slices
  /\ b.first = a.first /\ b.num_mb = a.num_mb /\ b.end = a.end /\ b.recode = a.recode
  /\ ~HasRuns(job) => /\ b.data = a.data \o (BitBefore(a, m) \o <<Mb(type)>>)
                   /\ b.stored = a.stored /\ b.cod_counter = a.cod_counter
  /\ HasRuns(job) /\ type = "coded" =>
       /\ b.data = a.data \o <<Run(a.cod_counter), Mb(type)>> /\ b.cod_counter = 0
       /\ b.stored = IF a.cod_counter > 0 /\ job.mode = "FIXED_RATE"
                     THEN Len(a.data) + 1 ELSE a.stored
  /\ HasRuns(job) /\ type = "skipped" =>
       /\ b.stored = a.stored
       /\ IF NextMb = -1
          THEN b.data = a.data \o <<Run(a.cod_counter + 1)>> /\ b.cod_counter = 0
          ELSE b.data = a.data /\ b.cod_counter = a.cod_counter + 1

LEMMA Writes ==
  ASSUME NEW a \in Slices, NEW m, NEW type \in Types
  PROVE  Wrote(a, WriteMacroblock(a, m, type), m, type)
<1> DEFINE b == WriteMacroblock(a, m, type)
<1> SUFFICES Wrote(a, b, m, type) OBVIOUS
<1>1. /\ a.data \in Seq(Elements) /\ a.cod_counter \in Nat /\ Len(a.data) \in Nat
      /\ a.cod_counter + 1 \in Nat
  BY LenProperties DEF Slices
<1>2. /\ Mb(type) \in Elements /\ Run(a.cod_counter) \in Elements /\ EndOfSlice(0) \in Elements
      /\ Run(a.cod_counter + 1) \in Elements
  BY <1>1, ElementsWritten
<1>3. BitBefore(a, m) \in Seq(Elements) BY <1>2 DEF BitBefore
<1>4. CASE ~HasRuns(job)
  <2> DEFINE t == BitBefore(a, m) \o <<Mb(type)>>
  <2>1. t \in Seq(Elements) BY <1>2, <1>3
  <2>2. b = [a EXCEPT !.data = a.data \o t]
    <3>1. CASE job.cabac
      <4>1. b = [a EXCEPT !.data = @ \o BitBefore(a, m) \o <<Mb(type)>>]
        BY <3>1 DEF WriteMacroblock, BitBefore
      <4>2. a.data \o BitBefore(a, m) \o <<Mb(type)>> = a.data \o t
        <5>1. <<Mb(type)>> \in Seq(Elements) BY <1>2
        <5> DEFINE bits == BitBefore(a, m)
                   one == <<Mb(type)>>
        <5>2. \A x, y, z \in Seq(Elements) : (x \o y) \o z = x \o (y \o z)
          BY ConcatAssociative
        <5> HIDE DEF bits, one
        <5>3. (a.data \o bits) \o one = a.data \o (bits \o one)
          <6>1. bits \in Seq(Elements) /\ one \in Seq(Elements) BY <1>3, <5>1 DEF bits, one
          <6>2. QED BY <1>1, <5>2, <6>1, Zenon
        <5>4. QED BY <5>3 DEF bits, one
      <4>3. QED BY <4>1, <4>2 DEF Slices
    <3>2. CASE ~job.cabac
      <4>1. b = [a EXCEPT !.data = Append(@, Mb(type))]
        BY <1>4, <3>2 DEF WriteMacroblock, HasRuns
      <4>2. BitBefore(a, m) = <<>> BY <3>2 DEF BitBefore
      <4>3. t = <<Mb(type)>> BY <1>2, <4>2
      <4>4. Append(a.data, Mb(type)) = a.data \o t BY <1>1, <1>2, <4>3, AppendIsConcat
      <4>5. QED BY <4>1, <4>4 DEF Slices
    <3>3. QED BY <3>1, <3>2
  <2>3. a.data \o t \in Seq(Elements) BY <1>1, <2>1, ConcatProperties
  <2> HIDE DEF t
  <2>4. /\ b \in Slices /\ b.first = a.first /\ b.num_mb = a.num_mb /\ b.end = a.end
        /\ b.recode = a.recode /\ b.data = a.data \o t /\ b.stored = a.stored
        /\ b.cod_counter = a.cod_counter
    BY <2>2, <2>3 DEF Slices
  <2> HIDE DEF b
  <2>5. QED BY <1>4, <2>4 DEF Wrote, t
<1>5. CASE HasRuns(job) /\ type = "coded"
  <2> DEFINE t == <<Run(a.cod_counter), Mb(type)>>
             st == IF a.cod_counter > 0 /\ job.mode = "FIXED_RATE"
                   THEN Len(a.data) + 1 ELSE a.stored
  <2>1. t \in Seq(Elements) BY <1>2
  <2>2. a.data \o t \in Seq(Elements) BY <1>1, <2>1, ConcatProperties
  <2>3. st \in Nat BY <1>1 DEF Slices
  <2>4. b = [a EXCEPT !.data = a.data \o t, !.stored = st, !.cod_counter = 0]
    BY <1>5 DEF WriteMacroblock, HasRuns, Slices
  <2> HIDE DEF t, st, b
  <2>5. /\ b \in Slices /\ b.first = a.first /\ b.num_mb = a.num_mb /\ b.end = a.end
        /\ b.recode = a.recode /\ b.data = a.data \o t /\ b.stored = st
        /\ b.cod_counter = 0
    BY <2>2, <2>3, <2>4 DEF Slices
  <2>6. QED BY <1>5, <2>5 DEF Wrote, t, st
<1>6. CASE HasRuns(job) /\ type = "skipped" /\ NextMb = -1
  <2> DEFINE t == <<Run(a.cod_counter + 1)>>
  <2>1. t \in Seq(Elements) BY <1>2
  <2>2. a.data \o t \in Seq(Elements) BY <1>1, <2>1, ConcatProperties
  <2>3. Append(a.data, Run(a.cod_counter + 1)) = a.data \o t BY <1>1, <1>2, AppendIsConcat
  <2>4. b = [a EXCEPT !.data = a.data \o t, !.cod_counter = 0]
    BY <1>6, <2>3 DEF WriteMacroblock, HasRuns, Slices
  <2> HIDE DEF t, b
  <2>5. /\ b \in Slices /\ b.first = a.first /\ b.num_mb = a.num_mb /\ b.end = a.end
        /\ b.recode = a.recode /\ b.data = a.data \o t /\ b.stored = a.stored
        /\ b.cod_counter = 0
    BY <2>2, <2>4 DEF Slices
  <2>6. QED BY <1>6, <2>5 DEF Wrote, t
<1>7. CASE HasRuns(job) /\ type = "skipped" /\ NextMb # -1
  <2>1. b = [a EXCEPT !.cod_counter = a.cod_counter + 1]
    BY <1>7 DEF WriteMacroblock, HasRuns, Slices
  <2>2. /\ b \in Slices /\ b.first = a.first /\ b.num_mb = a.num_mb /\ b.end = a.end
        /\ b.recode = a.recode /\ b.data = a.data /\ b.stored = a.stored
        /\ b.cod_counter = a.cod_counter + 1
    BY <1>1, <2>1 DEF Slices
  <2> HIDE DEF b
  <2>3. QED BY <1>7, <2>2 DEF Wrote
<1>8. type \in {"coded", "skipped"} BY DEF Types
<1>9. QED BY <1>4, <1>5, <1>6, <1>7, <1>8

(* What end_macroblock decides.                                             *)
Decided(b, d, m, tooBig) ==
  /\ d \in Slices
  /\ d.first = b.first /\ d.data = b.data /\ d.stored = b.stored
  /\ d.cod_counter = b.cod_counter
  /\ d.recode <=> job.mode = "FIXED_RATE" /\ tooBig /\ ~NewSlice(m)
  /\ job.mode \in {"NO_SLICES", "FIXED_MB"} => d.num_mb = b.num_mb + 1
  /\ d.end => \/ b.end
              \/ LastInGroup(m)
              \/ job.mode = "NO_SLICES" /\ b.num_mb + 1 = PicSizeInMbs(picture)
              \/ job.mode = "FIXED_MB" /\ b.num_mb + 1 >= job.argument
              \/ job.mode = "FIXED_RATE" /\ tooBig
  /\ LastInGroup(m) => d.end
  /\ job.mode = "FIXED_MB" /\ ~d.end => ~ (b.num_mb + 1 >= job.argument)

LEMMA Decides ==
  ASSUME NEW b \in Slices, ~b.recode, NEW m, NEW tooBig \in BOOLEAN
  PROVE  Decided(b, Decide(b, m, tooBig), m, tooBig)
<1> DEFINE d == Decide(b, m, tooBig)
           full == b.num_mb + 1 = PicSizeInMbs(picture)
           enough == b.num_mb + 1 >= job.argument
           last == LastInGroup(m)
           new == NewSlice(m)
<1> SUFFICES Decided(b, d, m, tooBig) OBVIOUS
<1>1. b.num_mb \in Nat /\ b.end \in BOOLEAN /\ b.num_mb + 1 \in Nat BY DEF Slices
<1>2. last \in BOOLEAN /\ new \in BOOLEAN /\ full \in BOOLEAN BY DEF LastInGroup, NewSlice
<1>3. CASE job.mode = "NO_SLICES"
  <2>1. d = [b EXCEPT !.num_mb = b.num_mb + 1, !.end = b.end \/ full \/ last]
    BY <1>3 DEF Decide, Slices
  <2> HIDE DEF last, full, new
  <2>2. /\ d \in Slices /\ d.first = b.first /\ d.data = b.data /\ d.stored = b.stored
        /\ d.cod_counter = b.cod_counter /\ d.recode = b.recode
        /\ d.num_mb = b.num_mb + 1 /\ d.end = (b.end \/ full \/ last)
    BY <1>1, <1>2, <2>1 DEF Slices
  <2> HIDE DEF d
  <2>3. QED BY <1>3, <2>2 DEF Decided, last, full
<1>4. CASE job.mode = "FIXED_MB"
  <2>1. d = [b EXCEPT !.num_mb = b.num_mb + 1, !.end = last \/ enough]
    BY <1>4 DEF Decide, Slices
  <2>2. (last \/ enough) \in BOOLEAN OBVIOUS
  <2> HIDE DEF last, enough, new
  <2>3. /\ d \in Slices /\ d.first = b.first /\ d.data = b.data /\ d.stored = b.stored
        /\ d.cod_counter = b.cod_counter /\ d.recode = b.recode
        /\ d.num_mb = b.num_mb + 1 /\ d.end = (last \/ enough)
    BY <1>1, <1>2, <2>1, <2>2 DEF Slices
  <2> HIDE DEF d
  <2>4. QED BY <1>4, <2>3 DEF Decided, last, enough
<1>5. CASE job.mode = "FIXED_RATE"
  <2> DEFINE re == tooBig /\ ~new
             num == IF re THEN b.num_mb ELSE b.num_mb + 1
  <2>1. d = [b EXCEPT !.recode = re, !.end = b.end \/ tooBig \/ last, !.num_mb = num]
    BY <1>5 DEF Decide, Slices
  <2>2. num \in Nat /\ re \in BOOLEAN BY <1>1
  <2> HIDE DEF last, new, re, num
  <2>3. /\ d \in Slices /\ d.first = b.first /\ d.data = b.data /\ d.stored = b.stored
        /\ d.cod_counter = b.cod_counter /\ d.recode = re
        /\ d.end = (b.end \/ tooBig \/ last)
    BY <1>1, <1>2, <2>1, <2>2 DEF Slices
  <2> HIDE DEF d
  <2>4. QED BY <1>5, <2>3 DEF Decided, last, re, new
<1>6. CASE job.mode \notin {"NO_SLICES", "FIXED_MB", "FIXED_RATE"}
  <2>1. d = [b EXCEPT !.end = b.end \/ last] BY <1>6 DEF Decide, Slices
  <2> HIDE DEF last, new
  <2>2. /\ d \in Slices /\ d.first = b.first /\ d.data = b.data /\ d.stored = b.stored
        /\ d.cod_counter = b.cod_counter /\ d.recode = b.recode
        /\ d.end = (b.end \/ last)
    BY <1>1, <1>2, <2>1 DEF Slices
  <2> HIDE DEF d
  <2>3. QED BY <1>6, <2>2 DEF Decided, last
<1>7. QED BY <1>3, <1>4, <1>5, <1>6

(* The walk through the group, as the loop over macroblocks knows it.       *)
WalkOn(m) ==
  /\ NextMb = -1 <=> LastInGroup(m)
  /\ Mbaff /\ Top(m) => NextMb # -1
  /\ Mbaff /\ NextMb # -1 => (Top(NextMb) <=> ~Top(m))

(* What is done to the data.                                                *)
Settled(d, e) ==
  /\ e \in Slices
  /\ e.first = d.first /\ e.num_mb = d.num_mb /\ e.end = d.end /\ e.recode = d.recode
  /\ e.stored = d.stored
  /\ job.mode = "FIXED_RATE" /\ d.recode =>
       e.cod_counter = 0
       /\ e.data = SubSeq(d.data, 1, d.stored) \o Pending(d.cod_counter - 1)
  /\ ~d.recode /\ d.cod_counter > 0 /\ d.end /\ job.mode # "CALL_BACK" =>
       e.cod_counter = 0 /\ e.data = WithRun(d)
  /\ ~d.recode /\ d.cod_counter > 0 /\ ~d.end =>
       /\ e.cod_counter = d.cod_counter
       /\ e.data = IF job.mode = "FIXED_RATE" THEN SubSeq(d.data, 1, d.stored) ELSE d.data
  /\ ~d.recode /\ ~ (d.cod_counter > 0) => e.data = d.data /\ e.cod_counter = d.cod_counter

(* The run that is counted is written at the end of the data.               *)
LEMMA PendingIsData ==
  \A n \in Int : Pending(n) \in Seq(Elements) /\ (~ (n > 0) => Pending(n) = <<>>)
BY ElementsWritten DEF Pending

LEMMA Settles ==
  ASSUME NEW d \in Slices, d.stored <= Len(d.data), d.recode => job.mode = "FIXED_RATE"
  PROVE  Settled(d, Settle(d))
<1> DEFINE e == Settle(d)
           kept == SubSeq(d.data, 1, d.stored)
<1> SUFFICES Settled(d, e) OBVIOUS
<1>1. /\ d.data \in Seq(Elements) /\ d.cod_counter \in Nat /\ Len(d.data) \in Nat
      /\ d.stored \in Nat /\ d.recode \in BOOLEAN /\ d.end \in BOOLEAN
  BY LenProperties DEF Slices
<1>2. kept \in Seq(Elements)
  <2>1. \A i \in 1 .. d.stored : d.data[i] \in Elements BY <1>1, ElementOfSeq
  <2>2. QED BY <1>1, <2>1, SubSeqProperties
<1>3. /\ WithRun(d) \in Seq(Elements)
      /\ kept \o Pending(d.cod_counter - 1) \in Seq(Elements)
  <2>1. d.cod_counter \in Int /\ d.cod_counter - 1 \in Int BY <1>1
  <2>2. Pending(d.cod_counter) \in Seq(Elements) /\ Pending(d.cod_counter - 1) \in Seq(Elements)
    BY <2>1, PendingIsData
  <2>3. QED BY <1>1, <1>2, <2>2, ConcatProperties DEF WithRun
<1>4. ASSUME NEW x \in Seq(Elements), NEW e2, e2 = [d EXCEPT !.data = x, !.cod_counter = 0]
      PROVE  /\ e2 \in Slices /\ e2.data = x /\ e2.cod_counter = 0
             /\ e2.first = d.first /\ e2.num_mb = d.num_mb /\ e2.end = d.end
             /\ e2.recode = d.recode /\ e2.stored = d.stored
  BY <1>4 DEF Slices
<1>5. \A x \in Seq(Elements) : \A e2 :
        e2 = [d EXCEPT !.data = x] =>
          /\ e2 \in Slices /\ e2.data = x /\ e2.cod_counter = d.cod_counter
          /\ e2.first = d.first /\ e2.num_mb = d.num_mb /\ e2.end = d.end
          /\ e2.recode = d.recode /\ e2.stored = d.stored
  BY DEF Slices
<1>6. CASE d.recode
  <2> DEFINE x == kept \o Pending(d.cod_counter - 1)
  <2> DEFINE run == IF RunBefore(d) > 0 THEN <<Run(RunBefore(d))>> ELSE <<>>
  <2>1. e = [d EXCEPT !.data = x, !.cod_counter = 0]
    <3>1. e = [d EXCEPT !.data = kept \o run, !.cod_counter = 0] BY <1>6 DEF Settle, BacksUp
    <3>2. run = Pending(d.cod_counter - 1) BY DEF RunBefore, Pending
    <3>3. QED BY <3>1, <3>2
  <2>2. /\ e \in Slices /\ e.data = x /\ e.cod_counter = 0
        /\ e.first = d.first /\ e.num_mb = d.num_mb /\ e.end = d.end
        /\ e.recode = d.recode /\ e.stored = d.stored
    <3>1. x \in Seq(Elements) BY <1>3
    <3> HIDE DEF e, x
    <3>2. QED BY <1>4, <2>1, <3>1, Zenon
  <2> HIDE DEF e
  <2>3. QED BY <1>6, <2>2 DEF Settled
<1>7. CASE ~d.recode /\ d.cod_counter > 0 /\ d.end /\ job.mode # "CALL_BACK"
  <2> DEFINE x == WithRun(d)
  <2>1. e = [d EXCEPT !.data = x, !.cod_counter = 0]
    <3>1. job.mode = "FIXED_RATE" \/ ~BacksUp BY <1>7 DEF BacksUp
    <3>2. d.data \o (IF d.cod_counter > 0 THEN <<Run(d.cod_counter)>> ELSE <<>>) = x
      BY DEF WithRun, Pending
    <3>3. e = [d EXCEPT !.data = @ \o (IF d.cod_counter > 0 THEN <<Run(d.cod_counter)>> ELSE <<>>),
                        !.cod_counter = 0]
      BY <1>7, <3>1 DEF Settle, BacksUp
    <3>4. QED BY <3>2, <3>3 DEF Slices
  <2>2. /\ e \in Slices /\ e.data = x /\ e.cod_counter = 0
        /\ e.first = d.first /\ e.num_mb = d.num_mb /\ e.end = d.end
        /\ e.recode = d.recode /\ e.stored = d.stored
    <3>1. x \in Seq(Elements) BY <1>3
    <3> HIDE DEF e, x
    <3>2. QED BY <1>4, <2>1, <3>1, Zenon
  <2> HIDE DEF e
  <2>3. QED BY <1>7, <2>2 DEF Settled
<1>8. CASE ~d.recode /\ d.cod_counter > 0 /\ ~d.end
  <2> DEFINE x == IF job.mode = "FIXED_RATE" THEN kept ELSE d.data
  <2>1. e = [d EXCEPT !.data = x]
    <3>1. CASE job.mode = "FIXED_RATE" BY <1>8, <3>1 DEF Settle
    <3>2. CASE job.mode # "FIXED_RATE"
      <4>1. e = d BY <1>8, <3>2 DEF Settle
      <4>2. QED BY <3>2, <4>1 DEF Slices
    <3>3. QED BY <3>1, <3>2
  <2>2. /\ e \in Slices /\ e.data = x /\ e.cod_counter = d.cod_counter
        /\ e.first = d.first /\ e.num_mb = d.num_mb /\ e.end = d.end
        /\ e.recode = d.recode /\ e.stored = d.stored
    <3>1. x \in Seq(Elements) BY <1>1, <1>2
    <3> HIDE DEF e, x
    <3>2. QED BY <1>5, <2>1, <3>1, Zenon
  <2> HIDE DEF e
  <2>3. QED BY <1>8, <2>2 DEF Settled
<1>9. CASE ~d.recode /\ ~ (d.cod_counter > 0)
  <2>1. e = d BY <1>9 DEF Settle
  <2> HIDE DEF e
  <2>2. QED BY <1>9, <2>1 DEF Settled
<1>10. CASE ~d.recode /\ d.cod_counter > 0 /\ d.end /\ job.mode = "CALL_BACK"
  <2>1. e = d BY <1>10 DEF Settle, BacksUp
  <2> HIDE DEF e
  <2>2. QED BY <1>10, <2>1 DEF Settled
<1>11. QED BY <1>6, <1>7, <1>8, <1>9, <1>10

(* One macroblock, coded or taken back.                                     *)
Over(e, m) == (e.end \/ NextMb = -1) /\ LooksAtEnd(m)

Coded(s, e, m, type) ==
  /\ e \in Slices /\ e.first = s.first
  /\ e.recode => e.data = WithRun(s) /\ ~NewSlice(m) /\ (Mbaff => Top(m))
  /\ ~e.recode =>
       /\ ~HasRuns(job) => /\ e.data = s.data \o (BitBefore(s, m) \o <<Mb(type)>>)
                        /\ e.cod_counter = 0
       /\ HasRuns(job) /\ type = "coded" =>
            e.data = s.data \o <<Run(s.cod_counter), Mb(type)>> /\ e.cod_counter = 0
       /\ HasRuns(job) /\ type = "skipped" =>
            IF Over(e, m)
            THEN e.data = s.data \o <<Run(s.cod_counter + 1)>> /\ e.cod_counter = 0
            ELSE e.data = s.data /\ e.cod_counter = s.cod_counter + 1
       /\ ~Over(e, m) => InLoop(e, NextMb)

(* A macroblock that is coded is added to the data; one that is taken back  *)
(* leaves the data with the run before it.                                  *)
LEMMA MacroblockCoded ==
  ASSUME job \in Jobs, RunsWithPairs, PlacesKept, MayOverflow \subseteq {"other"},
         NEW s \in Slices, ~s.recode, NEW m, WalkOn(m), InLoop(s, m),
         NEW type \in Types, NEW tooBig \in TooBig(m, type)
  PROVE  Coded(s, EndMacroblock(WriteMacroblock(StartMacroblock(s, m), m, type), m, tooBig),
               m, type)
<1> DEFINE a == StartMacroblock(s, m)
           b == WriteMacroblock(a, m, type)
           d == Decide(b, m, tooBig)
           e == Settle(d)
           c == s.cod_counter
<1>1. SUFFICES Coded(s, e, m, type) BY DEF EndMacroblock
<1>2. /\ s.data \in Seq(Elements) /\ c \in Nat /\ Len(s.data) \in Nat /\ s.num_mb \in Nat
      /\ s.stored \in Nat
  BY LenProperties DEF Slices
<1>3. tooBig \in BOOLEAN BY DEF TooBig
<1>4. /\ a \in Slices /\ a.data = s.data /\ a.cod_counter = c /\ a.first = s.first
      /\ a.num_mb = s.num_mb /\ a.end = s.end /\ a.recode = s.recode
      /\ a.stored = IF BacksUp /\ (job.MbInterlace => Top(m)) /\ c = 0 THEN Len(s.data) ELSE s.stored
  <2>1. /\ a \in Slices /\ a = [s EXCEPT !.stored = a.stored]
        /\ a.stored = IF BacksUp /\ (job.MbInterlace => Top(m)) /\ c = 0 THEN Len(s.data) ELSE s.stored
    BY Started
  <2> HIDE DEF a
  <2>2. QED BY <2>1 DEF Slices
<1> HIDE DEF a
<1>5. Wrote(a, b, m, type) BY <1>4, Writes
<1>6. BitBefore(a, m) = BitBefore(s, m) BY <1>4 DEF BitBefore
<1> HIDE DEF b
<1>7. b \in Slices /\ ~b.recode BY <1>4, <1>5 DEF Wrote
<1>8. Decided(b, d, m, tooBig) BY <1>3, <1>7, Decides
<1> HIDE DEF d
<1>9. /\ d.first = s.first
      /\ ~HasRuns(job) => /\ d.data = s.data \o (BitBefore(s, m) \o <<Mb(type)>>)
                       /\ d.stored = a.stored /\ d.cod_counter = 0
      /\ HasRuns(job) /\ type = "coded" =>
           /\ d.data = s.data \o <<Run(c), Mb(type)>> /\ d.cod_counter = 0
           /\ d.stored = IF c > 0 /\ job.mode = "FIXED_RATE"
                         THEN Len(s.data) + 1 ELSE a.stored
      /\ HasRuns(job) /\ type = "skipped" =>
           /\ d.stored = a.stored
           /\ IF NextMb = -1
              THEN d.data = s.data \o <<Run(c + 1)>> /\ d.cod_counter = 0
              ELSE d.data = s.data /\ d.cod_counter = c + 1
  <2>1. ~HasRuns(job) => c = 0 BY DEF InLoop
  <2>2. QED BY <1>4, <1>5, <1>6, <1>8, <2>1 DEF Wrote, Decided
<1>10. type \in {"coded", "skipped"} BY DEF Types
<1>11. /\ Mb(type) \in Elements /\ Run(c) \in Elements /\ Run(c + 1) \in Elements
       /\ BitBefore(s, m) \in Seq(Elements)
  BY <1>2, ElementsWritten DEF BitBefore
<1>12. d \in Slices /\ (d.recode => job.mode = "FIXED_RATE") BY <1>8 DEF Decided
<1> DEFINE one == <<Run(c + 1)>>
           two == <<Run(c), Mb(type)>>
           others == BitBefore(s, m) \o <<Mb(type)>>
<1>13. /\ one \in Seq(Elements) /\ two \in Seq(Elements) /\ others \in Seq(Elements)
       /\ Len(two) = 2
  <2>1. <<Mb(type)>> \in Seq(Elements) BY <1>11
  <2>2. QED BY <1>11, <2>1, ConcatProperties
<1> HIDE DEF one, two, others
<1>14. \A t \in Seq(Elements) : /\ s.data \o t \in Seq(Elements)
                                /\ Len(s.data \o t) = Len(s.data) + Len(t)
                                /\ Len(t) \in Nat
                                /\ SubSeq(s.data \o t, 1, Len(s.data)) = s.data
  BY <1>2, PrefixKept, ConcatProperties, LenProperties
<1>15. d.stored <= Len(d.data)
  <2>1. a.stored <= Len(s.data) BY <1>2, <1>4 DEF InLoop
  <2>2. a.stored \in Nat BY <1>4 DEF Slices
  <2>3. CASE ~HasRuns(job)
    <3>1. d.data = s.data \o others /\ d.stored = a.stored BY <1>9, <2>3 DEF others
    <3>2. QED BY <1>2, <1>13, <1>14, <2>1, <2>2, <3>1
  <2>4. CASE HasRuns(job) /\ type = "coded"
    <3>1. d.data = s.data \o two BY <1>9, <2>4 DEF two
    <3>2. Len(d.data) = Len(s.data) + 2 BY <1>13, <1>14, <3>1
    <3>3. d.stored = Len(s.data) + 1 \/ d.stored = a.stored BY <1>9, <2>4
    <3>4. QED BY <1>2, <2>1, <2>2, <3>2, <3>3
  <2>5. CASE HasRuns(job) /\ type = "skipped"
    <3>1. d.stored = a.stored BY <1>9, <2>5
    <3>2. d.data = s.data \/ d.data = s.data \o one BY <1>9, <2>5 DEF one
    <3>3. QED BY <1>2, <1>13, <1>14, <2>1, <2>2, <3>1, <3>2
  <2>6. QED BY <1>10, <2>3, <2>4, <2>5
<1>16. Settled(d, e) BY <1>12, <1>15, Settles
<1> HIDE DEF e
<1>17. /\ e \in Slices /\ e.first = s.first /\ e.recode = d.recode /\ e.end = d.end
  BY <1>9, <1>16 DEF Settled
<1>18. CASE d.recode
  <2>1. job.mode = "FIXED_RATE" /\ tooBig /\ ~NewSlice(m) BY <1>8, <1>18 DEF Decided
  <2>2. Kind(m, type) = "other" BY <2>1 DEF TooBig
  <2>3. Mbaff => Top(m) BY <2>2 DEF Kind
  <2>4. ~ (~job.cabac /\ type = "skipped" /\ LastInGroup(m)) BY <2>2, <2>3 DEF Kind
  <2>5. a.stored = Len(s.data)
    <3>1. job.MbInterlace => Mbaff BY <2>1 DEF PlacesKept, Mbaff, picture
    <3>2. job.MbInterlace => Top(m) BY <2>3, <3>1
    <3>3. QED BY <1>2, <1>4, <2>1, <3>2 DEF BacksUp, InLoop
  <2>6. e.data = SubSeq(d.data, 1, d.stored) \o Pending(d.cod_counter - 1)
    BY <1>16, <1>18, <2>1 DEF Settled
  <2>7. e.data = WithRun(s)
    <3>1. CASE ~HasRuns(job)
      <4>1. SubSeq(d.data, 1, d.stored) = s.data BY <1>9, <1>13, <1>14, <2>5, <3>1 DEF others
      <4>2. Pending(d.cod_counter - 1) = Pending(c) BY <1>9, <3>1 DEF Pending, InLoop
      <4>3. QED BY <2>6, <4>1, <4>2 DEF WithRun
    <3>2. CASE HasRuns(job) /\ type = "coded"
      <4>1. d.data = s.data \o two /\ Pending(d.cod_counter - 1) = <<>>
        <5>1. d.data = s.data \o two BY <1>9, <3>2 DEF two
        <5>2. d.cod_counter = 0 BY <1>9, <3>2
        <5>3. Pending(d.cod_counter - 1) = <<>> BY <5>2 DEF Pending
        <5>4. QED BY <5>1, <5>3
      <4>2. CASE c > 0
        <5> DEFINE run == <<Run(c)>>
                   cmb == <<Mb(type)>>
        <5>1. run \in Seq(Elements) /\ cmb \in Seq(Elements) /\ Len(run) = 1 BY <1>11
        <5>2. two = run \o cmb BY <1>11 DEF two
        <5> HIDE DEF run, cmb
        <5>3. d.data = (s.data \o run) \o cmb
          <6>1. \A x, y, z \in Seq(Elements) : (x \o y) \o z = x \o (y \o z)
            BY ConcatAssociative
          <6>2. QED BY <1>2, <4>1, <5>1, <5>2, <6>1, Zenon
        <5>4. s.data \o run \in Seq(Elements) /\ Len(s.data \o run) = Len(s.data) + 1
          BY <1>14, <5>1
        <5>5. d.stored = Len(s.data \o run) BY <1>9, <2>1, <3>2, <4>2, <5>4
        <5>6. SubSeq(d.data, 1, d.stored) = s.data \o run
          BY <5>1, <5>3, <5>4, <5>5, PrefixKept
        <5>7. e.data = s.data \o run
          BY <2>6, <4>1, <5>4, <5>6, ConcatEmptySeq
        <5>8. QED BY <4>2, <5>7 DEF WithRun, Pending, run
      <4>3. CASE ~ (c > 0)
        <5>1. d.stored = Len(s.data) BY <1>9, <2>5, <3>2, <4>3
        <5>2. SubSeq(d.data, 1, d.stored) = s.data BY <1>13, <1>14, <4>1, <5>1
        <5>3. Pending(c) = <<>> BY <4>3 DEF Pending
        <5>4. QED BY <2>6, <4>1, <5>2, <5>3 DEF WithRun
      <4>4. QED BY <4>2, <4>3
    <3>3. CASE HasRuns(job) /\ type = "skipped"
      <4>1. NextMb # -1 BY <2>4, <3>3 DEF WalkOn, HasRuns
      <4>2. d.data = s.data /\ d.cod_counter = c + 1 /\ d.stored = Len(s.data)
        BY <1>9, <2>5, <3>3, <4>1
      <4>3. SubSeq(d.data, 1, d.stored) = s.data BY <1>2, <4>2, SubSeqFull
      <4>4. d.cod_counter - 1 = c BY <1>2, <4>2
      <4>5. QED BY <2>6, <4>3, <4>4 DEF WithRun
    <3>4. QED BY <1>10, <3>1, <3>2, <3>3
  <2>8. QED BY <1>17, <1>18, <2>1, <2>3, <2>7 DEF Coded
(* A slice with runs does not end after a top macroblock.                   *)
<1>19. ASSUME HasRuns(job), Mbaff, Top(m), ~d.recode
       PROVE  ~d.end
  <2>1. SUFFICES ASSUME d.end PROVE FALSE OBVIOUS
  <2>2. ~s.end BY <1>19 DEF InLoop
  <2>3. ~LastInGroup(m) BY <1>19 DEF WalkOn
  <2>4. /\ job.mode # "FIXED_RATE"
        /\ job.mode = "FIXED_MB" => job.argument \in Nat \ {0} /\ job.argument % 2 = 0
    BY <1>19 DEF RunsWithPairs, HasRuns, Mbaff, picture
  <2>5. b.end = s.end /\ b.num_mb = s.num_mb BY <1>4, <1>5 DEF Wrote
  <2>6. CASE job.mode = "NO_SLICES" /\ s.num_mb + 1 = PicSizeInMbs(picture)
    <3>1. s.num_mb % 2 = 0 BY <1>19, <2>6 DEF InLoop
    <3>2. PICK u \in Nat : PicSizeInMbs(picture) = 2 * u
      <4>1. PicSizeInMbs(picture) = 2 * PicSizeInMapUnits(picture)
            /\ PicSizeInMapUnits(picture) \in Nat
        BY <1>19, SizesAreNatural, JobsAssumption DEF picture, Mbaff
      <4>2. QED BY <4>1
    <3>3. QED BY <1>2, <2>6, <3>1, <3>2
  <2>7. CASE job.mode = "FIXED_MB" /\ s.num_mb + 1 >= job.argument
    <3>1. s.num_mb % 2 = 0 /\ s.num_mb < job.argument BY <1>19, <2>7 DEF InLoop
    <3>2. QED BY <1>2, <2>4, <2>7, <3>1
  <2>8. QED BY <1>8, <2>1, <2>2, <2>3, <2>4, <2>5, <2>6, <2>7 DEF Decided
(* Where the loop goes on, a slice with runs, or at a pair, does not end.   *)
<1>20. ASSUME ~d.recode, ~Over(e, m)
       PROVE  /\ NextMb # -1
              /\ (Mbaff => Top(NextMb)) \/ HasRuns(job) => ~e.end
              /\ HasRuns(job) /\ Mbaff /\ job.mode \in {"NO_SLICES", "FIXED_MB"} =>
                   /\ Top(NextMb) <=> e.num_mb % 2 = 0
                   /\ job.mode = "FIXED_MB" => e.num_mb < job.argument
  <2>1. NextMb # -1
    <3>1. CASE Mbaff /\ Top(m) BY <3>1 DEF WalkOn
    <3>2. CASE ~ (Mbaff /\ Top(m)) BY <1>20, <3>2 DEF Over, LooksAtEnd
    <3>3. QED BY <3>1, <3>2
  <2>2. (Mbaff => Top(NextMb)) \/ HasRuns(job) => ~e.end
    <3>1. CASE ~ (Mbaff /\ Top(m)) BY <1>20, <3>1 DEF Over, LooksAtEnd
    <3>2. CASE Mbaff /\ Top(m)
      <4>1. ~Top(NextMb) BY <2>1, <3>2 DEF WalkOn
      <4>2. QED BY <1>17, <1>19, <1>20, <3>2, <4>1
    <3>3. QED BY <3>1, <3>2
  <2>3. ASSUME HasRuns(job), Mbaff, job.mode \in {"NO_SLICES", "FIXED_MB"}
        PROVE  /\ Top(NextMb) <=> e.num_mb % 2 = 0
               /\ job.mode = "FIXED_MB" => e.num_mb < job.argument
    <3>1. e.num_mb = s.num_mb + 1
      BY <1>4, <1>5, <1>8, <1>16, <2>3 DEF Wrote, Decided, Settled
    <3>2. Top(m) <=> s.num_mb % 2 = 0 BY <2>3 DEF InLoop
    <3>3. Top(NextMb) <=> ~Top(m) BY <2>1, <2>3 DEF WalkOn
    <3>4. (s.num_mb + 1) % 2 = 0 <=> ~ (s.num_mb % 2 = 0) BY <1>2
    <3>5. ASSUME job.mode = "FIXED_MB" PROVE e.num_mb < job.argument
      <4>1. job.argument \in Nat BY <2>3, <3>5 DEF RunsWithPairs, HasRuns, Mbaff, picture
      <4>2. ~d.end BY <1>17, <2>2, <2>3
      <4>3. ~ (s.num_mb + 1 >= job.argument)
        BY <1>4, <1>5, <1>8, <3>5, <4>2 DEF Wrote, Decided
      <4>4. QED BY <1>2, <3>1, <4>1, <4>3
    <3>6. QED BY <3>1, <3>2, <3>3, <3>4, <3>5
  <2>4. QED BY <2>1, <2>2, <2>3
<1>21. CASE ~d.recode /\ ~ (HasRuns(job) /\ type = "skipped" /\ NextMb # -1)
  <2>1. d.cod_counter = 0 BY <1>9, <1>10, <1>21
  <2>2. e.data = d.data /\ e.cod_counter = 0 BY <1>16, <1>21, <2>1 DEF Settled
  <2>3. ~Over(e, m) => InLoop(e, NextMb)
    <3>1. e.stored <= Len(e.data) BY <1>15, <1>16, <2>2 DEF Settled
    <3>2. QED BY <1>20, <1>21, <2>2, <3>1 DEF InLoop
  <2>4. HasRuns(job) /\ type = "skipped" => Over(e, m)
    <3>1. HasRuns(job) /\ type = "skipped" => NextMb = -1 BY <1>21
    <3>2. QED BY <1>20, <1>21, <3>1
  <2>5. QED BY <1>9, <1>17, <1>21, <2>2, <2>3, <2>4 DEF Coded
<1>22. CASE ~d.recode /\ HasRuns(job) /\ type = "skipped" /\ NextMb # -1
  <2>1. d.data = s.data /\ d.cod_counter = c + 1 /\ d.cod_counter > 0 /\ d.stored = a.stored
    BY <1>2, <1>9, <1>22
  <2>2. CASE d.end
    <3>1. job.mode # "CALL_BACK"
      <4>1. ~s.end /\ ~LastInGroup(m) BY <1>22 DEF InLoop, WalkOn
      <4>2. b.end = s.end BY <1>4, <1>5 DEF Wrote
      <4>3. QED BY <1>8, <2>2, <4>1, <4>2 DEF Decided
    <3>2. e.cod_counter = 0 /\ e.data = s.data \o <<Run(c + 1)>>
      <4>1. e.cod_counter = 0 /\ e.data = WithRun(d)
        BY <1>16, <1>22, <2>1, <2>2, <3>1 DEF Settled
      <4>2. QED BY <2>1, <4>1 DEF WithRun, Pending
    <3>3. Over(e, m)
      <4>1. LooksAtEnd(m) BY <1>19, <1>22, <2>2 DEF LooksAtEnd
      <4>2. QED BY <1>17, <2>2, <4>1 DEF Over
    <3>4. QED BY <1>17, <1>22, <3>2, <3>3 DEF Coded
  <2>3. CASE ~d.end
    <3>1. ~Over(e, m) BY <1>17, <1>22, <2>3 DEF Over
    <3>2. job.mode = "FIXED_RATE" => d.stored = Len(s.data)
      <4>1. job.mode = "FIXED_RATE" => ~job.MbInterlace
        BY <1>22 DEF RunsWithPairs, PlacesKept, HasRuns
      <4>2. job.mode = "FIXED_RATE" /\ c > 0 => s.stored = Len(s.data) BY DEF InLoop
      <4>3. c = 0 \/ c > 0 BY <1>2
      <4>4. QED BY <1>4, <2>1, <4>1, <4>2, <4>3 DEF BacksUp
    <3>3. e.data = s.data /\ e.cod_counter = c + 1
      <4>1. SubSeq(s.data, 1, Len(s.data)) = s.data BY <1>2, SubSeqFull
      <4>2. QED BY <1>16, <1>22, <2>1, <2>3, <3>2, <4>1 DEF Settled
    <3>4. InLoop(e, NextMb)
      <4>1. e.stored = d.stored /\ d.stored <= Len(e.data)
        BY <1>15, <1>16, <2>1, <3>3 DEF Settled
      <4>2. QED BY <1>20, <1>22, <3>1, <3>2, <3>3, <4>1 DEF InLoop
    <3>5. QED BY <1>17, <1>22, <3>1, <3>3, <3>4 DEF Coded
  <2>4. QED BY <1>12, <2>2, <2>3
<1>23. QED BY <1>18, <1>21, <1>22

-----------------------------------------------------------------------------
(* What the data of a slice say: the place of every macroblock.  These and  *)
(* the lemmas about them take the job and the map as parameters.            *)

InPairs(j) == j.picture.coding = "mbaff"
ReadsBit(j, m) == j.cabac /\ (InPairs(j) => ~Top(m))

(* Where a macroblock is in the data d of a slice, up to element len: at    *)
(* element a[1], or in a slice with runs at number a[2] of the run there,   *)
(* a coded macroblock behind its last.                                      *)
Stands(j, d, len, type, a) ==
  IF HasRuns(j)
  THEN /\ a[1] \in 1 .. len /\ d[a[1]] = Run(d[a[1]].n) /\ a[2] \in 0 .. d[a[1]].n
       /\ IF a[2] < d[a[1]].n THEN type = "skipped"
          ELSE type = "coded" /\ a[1] + 1 \in 1 .. len /\ d[a[1] + 1] = Mb("coded")
  ELSE /\ a[1] \in 1 .. len /\ a[2] = 0
       /\ type \in {"coded", "skipped"} /\ d[a[1]] = Mb(type)

(* Where the next one is, and the bit between the two.                      *)
After(j, d, m, a) ==
  IF HasRuns(j) THEN IF a[2] < d[a[1]].n THEN <<a[1], a[2] + 1>> ELSE <<a[1] + 2, 0>>
  ELSE <<a[1] + (IF ReadsBit(j, m) THEN 2 ELSE 1), 0>>

BitFollows(j, d, len, m, a) ==
  ReadsBit(j, m) => a[1] + 1 \in 1 .. len /\ d[a[1] + 1] = EndOfSlice(0)

Ends(j, d, len, a) ==
  IF HasRuns(j) THEN IF a[2] < d[a[1]].n THEN a[1] = len /\ a[2] + 1 = d[a[1]].n
                     ELSE a[1] + 1 = len
  ELSE a[1] = len

(* A complete slice: the macroblocks M of a slice group, coded as types, at *)
(* the places at.                                                           *)
Laid(j, mp, M, types, at, first, d, len) ==
  /\ first \in M /\ at[first] = <<1, 0>> /\ (InPairs(j) => Top(first))
  /\ \A m \in M :
       LET n == FmoGetNextMBNr(mp, m)
       IN /\ first <= m /\ mp[m] = mp[first]
          /\ Stands(j, d, len, types[m], at[m])
          /\ IF n \in M
             THEN at[n] = After(j, d, m, at[m]) /\ BitFollows(j, d, len, m, at[m])
             ELSE /\ Ends(j, d, len, at[m]) /\ (InPairs(j) => ~Top(m))
                  /\ \A o \in M : o <= m

(* Where macroblock m will be, and a slice that has come to it.             *)
NextPlace(j, s, m) ==
  IF s.cod_counter > 0 THEN <<Len(s.data) + 1, s.cod_counter>>
  ELSE <<Len(s.data) + 1 + (IF j.cabac /\ m # s.first /\ (InPairs(j) => Top(m)) THEN 1 ELSE 0), 0>>

Reached(mp, s, m) == {o \in DOMAIN mp : mp[o] = mp[m] /\ s.first <= o /\ o < m}

Open(j, mp, types, at, s, m) ==
  /\ s.first \in DOMAIN mp /\ mp[s.first] = mp[m] /\ s.first <= m
  /\ InPairs(j) => Top(s.first)
  /\ at[s.first] = <<1, 0>> /\ at[m] = NextPlace(j, s, m)
  /\ \A o \in Reached(mp, s, m) :
       LET n == FmoGetNextMBNr(mp, o)
       IN /\ Stands(j, WithRun(s), Len(WithRun(s)), types[o], at[o])
          /\ at[n] = After(j, WithRun(s), o, at[o])
          /\ n # m => BitFollows(j, WithRun(s), Len(WithRun(s)), o, at[o])

(* The walk through the map.                                                *)
Walks(j, mp) ==
  \A m \in DOMAIN mp :
    LET n == FmoGetNextMBNr(mp, m)
    IN /\ n = -1 \/ (n \in DOMAIN mp /\ mp[n] = mp[m] /\ n > m)
       /\ \A o \in DOMAIN mp : mp[o] = mp[m] => (o <= m <=> (n = -1 \/ o < n))
       /\ InPairs(j) /\ n # -1 => (Top(n) <=> ~Top(m))
       /\ InPairs(j) /\ Top(m) => n # -1

(* What one macroblock adds.                                                *)
Adds(j, s, d, m, type) ==
  /\ ~HasRuns(j) =>
       /\ s.cod_counter = 0
       /\ d = s.data \o ((IF j.cabac /\ m # s.first /\ (InPairs(j) => Top(m))
                          THEN <<EndOfSlice(0)>> ELSE <<>>) \o <<Mb(type)>>)
  /\ HasRuns(j) /\ type = "coded" => d = s.data \o <<Run(s.cod_counter), Mb(type)>>
  /\ HasRuns(j) /\ type = "skipped" => d = s.data \o <<Run(s.cod_counter + 1)>>

(* The elements of a slice with a pending run.                              *)
LEMMA RunElements ==
  ASSUME NEW s \in Slices
  PROVE  /\ WithRun(s) \in Seq(Elements)
         /\ Len(s.data) \in Nat
         /\ ~ (s.cod_counter > 0) => WithRun(s) = s.data
         /\ s.cod_counter > 0 => /\ Len(WithRun(s)) = Len(s.data) + 1
                                 /\ WithRun(s)[Len(s.data) + 1] = Run(s.cod_counter)
         /\ \A p \in 1 .. Len(s.data) : WithRun(s)[p] = s.data[p]
<1>1. s.data \in Seq(Elements) /\ s.cod_counter \in Nat /\ Len(s.data) \in Nat
  BY LenProperties DEF Slices
<1>2. Run(s.cod_counter) \in Elements BY <1>1, ElementsWritten
<1>3. CASE s.cod_counter > 0
  <2>1. WithRun(s) = s.data \o <<Run(s.cod_counter)>> BY <1>3 DEF WithRun, Pending
  <2>2. <<Run(s.cod_counter)>> \in Seq(Elements) BY <1>2
  <2>3. QED BY <1>1, <1>2, <1>3, <2>1, <2>2
<1>4. CASE ~ (s.cod_counter > 0)
  <2>1. WithRun(s) = s.data \o <<>> BY <1>4 DEF WithRun, Pending
  <2>2. WithRun(s) = s.data BY <1>1, <2>1, ConcatEmptySeq
  <2>3. QED BY <1>1, <1>4, <2>2
<1>5. QED BY <1>3, <1>4

LEMMA AddedElements ==
  ASSUME NEW j, NEW s \in Slices, NEW d, NEW m, NEW type \in {"coded", "skipped"},
         Adds(j, s, d, m, type)
  PROVE  LET L == Len(s.data)
             bit == j.cabac /\ m # s.first /\ (InPairs(j) => Top(m))
         IN /\ d \in Seq(Elements) /\ L \in Nat
            /\ \A p \in 1 .. L : d[p] = s.data[p]
            /\ HasRuns(j) /\ type = "coded" =>
                 Len(d) = L + 2 /\ d[L + 1] = Run(s.cod_counter) /\ d[L + 2] = Mb(type)
            /\ HasRuns(j) /\ type = "skipped" =>
                 Len(d) = L + 1 /\ d[L + 1] = Run(s.cod_counter + 1)
            /\ ~HasRuns(j) =>
                 /\ Len(d) = L + (IF bit THEN 2 ELSE 1) /\ d[Len(d)] = Mb(type)
                 /\ bit => d[L + 1] = EndOfSlice(0)
<1> DEFINE L == Len(s.data)
           bit == j.cabac /\ m # s.first /\ (InPairs(j) => Top(m))
<1>1. s.data \in Seq(Elements) /\ s.cod_counter \in Nat /\ L \in Nat
      /\ s.cod_counter + 1 \in Nat
  BY LenProperties DEF Slices
<1>2. /\ Run(s.cod_counter) \in Elements /\ Run(s.cod_counter + 1) \in Elements
      /\ EndOfSlice(0) \in Elements
  BY <1>1, ElementsWritten
<1>3. Mb(type) \in Elements BY DEF Mb, Elements
<1>4. ASSUME NEW t \in Seq(Elements)
      PROVE  /\ s.data \o t \in Seq(Elements) /\ Len(s.data \o t) = L + Len(t)
             /\ \A p \in 1 .. L : (s.data \o t)[p] = s.data[p]
             /\ \A i \in 1 .. Len(t) : (s.data \o t)[L + i] = t[i]
  <2>1. Len(t) \in Nat BY LenProperties
  <2>2. \A i \in 1 .. Len(t) : L + i \in 1 .. L + Len(t) /\ L + i > L /\ L + i - L = i
    BY <1>1, <2>1
  <2>3. QED BY <1>1, <2>1, <2>2, ConcatProperties
<1>5. CASE HasRuns(j) /\ type = "coded"
  <2> DEFINE t == <<Run(s.cod_counter), Mb(type)>>
  <2>1. t \in Seq(Elements) /\ Len(t) = 2 /\ t[1] = Run(s.cod_counter) /\ t[2] = Mb(type)
    BY <1>2, <1>3
  <2>2. d = s.data \o t BY <1>5 DEF Adds
  <2> HIDE DEF t
  <2>3. 1 \in 1 .. Len(t) /\ 2 \in 1 .. Len(t) BY <2>1
  <2>4. QED BY <1>1, <1>4, <1>5, <2>1, <2>2, <2>3
<1>6. CASE HasRuns(j) /\ type = "skipped"
  <2> DEFINE t == <<Run(s.cod_counter + 1)>>
  <2>1. t \in Seq(Elements) /\ Len(t) = 1 /\ t[1] = Run(s.cod_counter + 1)
    BY <1>2, <1>3
  <2>2. d = s.data \o t BY <1>6 DEF Adds
  <2> HIDE DEF t
  <2>3. 1 \in 1 .. Len(t) BY <2>1
  <2>4. QED BY <1>1, <1>4, <1>6, <2>1, <2>2, <2>3
<1>7. CASE ~HasRuns(j)
  <2> DEFINE t == (IF bit THEN <<EndOfSlice(0)>> ELSE <<>>) \o <<Mb(type)>>
  <2>1. /\ t \in Seq(Elements) /\ Len(t) = (IF bit THEN 2 ELSE 1) /\ t[Len(t)] = Mb(type)
        /\ bit => t[1] = EndOfSlice(0)
    <3>1. CASE bit
      <4> DEFINE u == <<EndOfSlice(0)>>
                 v == <<Mb(type)>>
      <4>1. t = u \o v BY <3>1
      <4>2. /\ u \in Seq(Elements) /\ Len(u) = 1 /\ u[1] = EndOfSlice(0)
            /\ v \in Seq(Elements) /\ Len(v) = 1 /\ v[1] = Mb(type)
        BY <1>2, <1>3
      <4> HIDE DEF t, u, v
      <4>3. t \in Seq(Elements) /\ Len(t) = 2 /\ t[1] = u[1] /\ t[2] = v[1]
        <5>1. /\ t \in Seq(Elements) /\ Len(t) = Len(u) + Len(v)
              /\ \A i \in 1 .. Len(u) + Len(v) :
                   t[i] = IF i <= Len(u) THEN u[i] ELSE v[i - Len(u)]
          BY <4>1, <4>2, ConcatProperties
        <5>2. Len(u) + Len(v) = 2 /\ 1 \in 1 .. 2 /\ 2 \in 1 .. 2 BY <4>2
        <5>3. QED BY <4>2, <5>1, <5>2
      <4>4. QED BY <3>1, <4>2, <4>3
    <3>2. CASE ~bit
      <4>1. t = <<Mb(type)>>
        <5>1. t = <<>> \o <<Mb(type)>> BY <3>2
        <5>2. <<Mb(type)>> \in Seq(Elements) BY <1>3
        <5>3. QED BY <5>1, <5>2, ConcatEmptySeq
      <4>2. QED BY <1>2, <1>3, <3>2, <4>1
    <3>3. QED BY <3>1, <3>2
  <2>2. d = s.data \o t BY <1>7 DEF Adds
  <2> HIDE DEF t
  <2>3. 1 \in 1 .. Len(t) /\ Len(t) \in 1 .. Len(t) BY <2>1
  <2>4. /\ d \in Seq(Elements) /\ \A p \in 1 .. L : d[p] = s.data[p]
        /\ Len(d) = L + Len(t) /\ d[L + Len(t)] = t[Len(t)] /\ d[L + 1] = t[1]
    BY <1>4, <2>1, <2>2, <2>3
  <2>5. /\ Len(d) = L + (IF bit THEN 2 ELSE 1) /\ d[Len(d)] = Mb(type)
        /\ bit => d[L + 1] = EndOfSlice(0)
    BY <2>1, <2>4
  <2> HIDE DEF bit
  <2>6. QED BY <1>1, <1>7, <2>4, <2>5 DEF bit
<1>8. QED BY <1>5, <1>6, <1>7

LEMMA DifferentElements ==
  /\ \A n : Run(n).n = n /\ Run(n) # Mb("coded") /\ Run(n) # Mb("skipped")
            /\ \A o : Run(n) = Run(o) => n = o
  /\ Mb("coded") # Mb("skipped")
  /\ \A n : EndOfSlice(n).n = n
BY DEF Run, Mb, EndOfSlice

(* The macroblocks before m are in the data d, and m at their end.          *)
Behind(j, mp, types, at, s, m, type, d) ==
  /\ \A o \in Reached(mp, s, m) :
       /\ Stands(j, d, Len(d), types[o], at[o])
       /\ at[FmoGetNextMBNr(mp, o)] = After(j, d, o, at[o])
       /\ BitFollows(j, d, Len(d), o, at[o])
  /\ Stands(j, d, Len(d), type, at[m])
  /\ Ends(j, d, Len(d), at[m])
  /\ After(j, d, m, at[m]) =
       IF HasRuns(j) /\ type = "skipped" THEN <<Len(s.data) + 1, s.cod_counter + 1>>
       ELSE <<Len(d) + (IF ReadsBit(j, m) THEN 2 ELSE 1), 0>>

(* A macroblock is written behind all before it, which stay where they are. *)
LEMMA Joined ==
  ASSUME NEW j, NEW mp, NEW k \in Nat, DOMAIN mp = 0 .. k, Walks(j, mp), NEW types, NEW at,
         NEW s \in Slices, NEW m \in 0 .. k, Open(j, mp, types, at, s, m),
         NEW type \in {"coded", "skipped"}, NEW d, Adds(j, s, d, m, type)
  PROVE  Behind(j, mp, types, at, s, m, type, d)
<1> DEFINE L == Len(s.data)
           c == s.cod_counter
           V == WithRun(s)
           bit == j.cabac /\ m # s.first /\ (InPairs(j) => Top(m))
<1>1. c \in Nat /\ L \in Nat BY LenProperties DEF Slices
<1>2. /\ d \in Seq(Elements) /\ Len(d) \in Nat
      /\ \A p \in 1 .. L : d[p] = s.data[p]
      /\ HasRuns(j) /\ type = "coded" =>
           Len(d) = L + 2 /\ d[L + 1] = Run(c) /\ d[L + 2] = Mb(type)
      /\ HasRuns(j) /\ type = "skipped" => Len(d) = L + 1 /\ d[L + 1] = Run(c + 1)
      /\ ~HasRuns(j) =>
           /\ Len(d) = L + (IF bit THEN 2 ELSE 1) /\ d[Len(d)] = Mb(type)
           /\ bit => d[L + 1] = EndOfSlice(0)
  BY AddedElements, LenProperties
<1>3. /\ Len(V) \in Nat
      /\ ~ (c > 0) => V = s.data /\ Len(V) = L
      /\ c > 0 => Len(V) = L + 1 /\ V[L + 1] = Run(c)
      /\ \A p \in 1 .. L : V[p] = s.data[p]
  BY RunElements, LenProperties
<1>4. ~HasRuns(j) => c = 0 BY DEF Adds
<1>5. at[m] = IF HasRuns(j) THEN <<L + 1, c>> ELSE <<Len(d), 0>>
  <2>1. at[m] = NextPlace(j, s, m) BY DEF Open
  <2>2. CASE HasRuns(j)
    <3>1. ~bit BY <2>2 DEF HasRuns
    <3>2. CASE c > 0 BY <2>1, <2>2, <3>2 DEF NextPlace
    <3>3. CASE ~ (c > 0)
      <4>1. at[m] = <<L + 1 + 0, 0>> BY <2>1, <3>1, <3>3 DEF NextPlace
      <4>2. c = 0 BY <1>1, <3>3
      <4>3. QED BY <1>1, <2>2, <4>1, <4>2
    <3>4. QED BY <3>2, <3>3
  <2>3. CASE ~HasRuns(j)
    <3>1. at[m] = <<L + 1 + (IF bit THEN 1 ELSE 0), 0>> BY <1>4, <2>1, <2>3 DEF NextPlace
    <3>2. L + 1 + (IF bit THEN 1 ELSE 0) = Len(d)
      <4>1. Len(d) = L + (IF bit THEN 2 ELSE 1) BY <1>2, <2>3
      <4> HIDE DEF bit
      <4>2. CASE bit BY <1>1, <4>1, <4>2
      <4>3. CASE ~bit BY <1>1, <4>1, <4>3
      <4>4. QED BY <4>2, <4>3
    <3>3. QED BY <2>3, <3>1, <3>2
  <2>4. QED BY <2>2, <2>3
<1> HIDE DEF V, L, c
<1>6. ASSUME NEW o \in Reached(mp, s, m)
      PROVE  /\ Stands(j, d, Len(d), types[o], at[o])
             /\ at[FmoGetNextMBNr(mp, o)] = After(j, d, o, at[o])
             /\ BitFollows(j, d, Len(d), o, at[o])
  <2> DEFINE n == FmoGetNextMBNr(mp, o)
             p == at[o][1]
             i == at[o][2]
  <2>1. /\ Stands(j, V, Len(V), types[o], at[o])
        /\ at[n] = After(j, V, o, at[o])
        /\ n # m => BitFollows(j, V, Len(V), o, at[o])
    BY DEF Open, V
  <2>2. o \in 0 .. k /\ mp[o] = mp[m] /\ s.first <= o /\ o < m
        /\ s.first \in 0 .. k
    BY DEF Reached, Open
  <2>3. CASE HasRuns(j)
    <3>1. ~ReadsBit(j, o) BY <2>3 DEF HasRuns, ReadsBit
    <3>2. /\ p \in 1 .. Len(V) /\ V[p] = Run(V[p].n) /\ i \in 0 .. V[p].n
          /\ IF i < V[p].n THEN types[o] = "skipped"
             ELSE types[o] = "coded" /\ p + 1 \in 1 .. Len(V) /\ V[p + 1] = Mb("coded")
      BY <2>1, <2>3 DEF Stands
    <3>3. CASE p \in 1 .. L
      <4>1. d[p] = V[p] /\ p \in 1 .. Len(d) BY <1>1, <1>2, <1>3, <2>3, <3>3
      <4>2. p + 1 \in 1 .. Len(V) /\ V[p + 1] = Mb("coded") =>
              p + 1 \in 1 .. Len(d) /\ d[p + 1] = Mb("coded")
        <5>0. CASE p # L
          <6>1. p + 1 \in 1 .. L BY <1>1, <3>3, <5>0
          <6>2. L <= Len(d) BY <1>1, <1>2, <2>3
          <6>3. p + 1 \in 1 .. Len(d) BY <1>1, <1>2, <6>1, <6>2
          <6>4. d[p + 1] = V[p + 1] BY <1>2, <1>3, <6>1
          <6>5. QED BY <6>3, <6>4
        <5>1. SUFFICES ASSUME p + 1 \in 1 .. Len(V), V[p + 1] = Mb("coded"), p = L
                       PROVE  FALSE
          BY <5>0
        <5>2. c > 0 /\ V[L + 1] = Run(c) BY <1>1, <1>3, <5>1
        <5>3. QED BY <5>1, <5>2, DifferentElements
      <4>3. Stands(j, d, Len(d), types[o], at[o]) BY <2>3, <3>2, <4>1, <4>2 DEF Stands
      <4>4. After(j, d, o, at[o]) = After(j, V, o, at[o]) BY <2>3, <4>1 DEF After
      <4>5. QED BY <2>1, <3>1, <4>3, <4>4 DEF BitFollows
    <3>4. CASE p \notin 1 .. L
      <4>1. c > 0 /\ p = L + 1 /\ Len(V) = L + 1 BY <1>1, <1>3, <3>2, <3>4
      <4>2. V[p] = Run(c) /\ V[p].n = c BY <1>3, <4>1, DifferentElements
      <4>3. i < c BY <1>1, <3>2, <4>1, <4>2
      <4>4. types[o] = "skipped" /\ i \in 0 .. c BY <3>2, <4>2, <4>3
      <4>5. at[n] = <<p, i + 1>> BY <2>1, <2>3, <4>2, <4>3 DEF After
      <4>6. /\ p \in 1 .. Len(d) /\ d[p] = Run(d[p].n)
            /\ d[p].n \in Nat /\ i \in 0 .. d[p].n /\ i < d[p].n
        <5>1. CASE type = "coded"
          <6>1. d[p] = Run(c) /\ d[p].n = c /\ p \in 1 .. Len(d)
            BY <1>1, <1>2, <2>3, <4>1, <5>1, DifferentElements
          <6>2. QED BY <1>1, <4>3, <4>4, <6>1
        <5>2. CASE type = "skipped"
          <6>1. d[p] = Run(c + 1) /\ d[p].n = c + 1 /\ p \in 1 .. Len(d)
            BY <1>1, <1>2, <2>3, <4>1, <5>2, DifferentElements
          <6>2. QED BY <1>1, <4>3, <4>4, <6>1
        <5>3. QED BY <5>1, <5>2
      <4>7. Stands(j, d, Len(d), types[o], at[o]) BY <2>3, <4>4, <4>6 DEF Stands
      <4>8. After(j, d, o, at[o]) = <<p, i + 1>> BY <2>3, <4>6 DEF After
      <4>9. QED BY <3>1, <4>5, <4>7, <4>8 DEF BitFollows
    <3>5. QED BY <3>3, <3>4
  <2>4. CASE ~HasRuns(j)
    <3>1. V = s.data /\ Len(V) = L BY <1>1, <1>3, <1>4, <2>4 DEF L
    <3>2. L <= Len(d) BY <1>1, <1>2, <2>4
    <3>3. p \in 1 .. L /\ i = 0 /\ types[o] \in {"coded", "skipped"} /\ V[p] = Mb(types[o])
      BY <2>1, <2>4, <3>1 DEF Stands
    <3>4. Stands(j, d, Len(d), types[o], at[o])
      BY <1>1, <1>2, <1>3, <2>4, <3>2, <3>3 DEF Stands
    <3>5. After(j, d, o, at[o]) = After(j, V, o, at[o]) BY <2>4 DEF After
    <3>6. CASE n # m
      <4>1. BitFollows(j, V, Len(V), o, at[o]) BY <2>1, <3>6
      <4>2. BitFollows(j, d, Len(d), o, at[o])
        BY <1>1, <1>2, <1>3, <3>1, <3>2, <4>1 DEF BitFollows
      <4>3. QED BY <2>1, <3>4, <3>5, <4>2
    <3>7. CASE n = m
      <4>1. ASSUME ReadsBit(j, o)
            PROVE  p + 1 \in 1 .. Len(d) /\ d[p + 1] = EndOfSlice(0)
        <5>1. m # -1 /\ m # s.first BY <2>2
        <5>2. InPairs(j) => Top(m)
          <6>1. InPairs(j) => (Top(m) <=> ~Top(o)) BY <2>2, <3>7, <5>1 DEF Walks
          <6>2. QED BY <4>1, <6>1 DEF ReadsBit
        <5>3. bit BY <4>1, <5>1, <5>2 DEF ReadsBit
        <5>4. at[m] = <<p + 2, 0>> BY <2>1, <2>4, <3>7, <4>1 DEF After
        <5>5. at[m] = <<L + 2, 0>> /\ Len(d) = L + 2 BY <1>2, <1>5, <2>4, <5>3
        <5>6. at[m][1] = p + 2 /\ at[m][1] = L + 2 BY <5>4, <5>5
        <5>7. p = L BY <1>1, <3>3, <5>6
        <5>8. QED BY <1>1, <1>2, <2>4, <5>3, <5>5, <5>7
      <4>2. QED BY <2>1, <3>4, <3>5, <4>1 DEF BitFollows
    <3>8. QED BY <3>6, <3>7
  <2>5. QED BY <2>3, <2>4
<1>7. /\ Stands(j, d, Len(d), type, at[m])
      /\ Ends(j, d, Len(d), at[m])
      /\ After(j, d, m, at[m]) =
           IF HasRuns(j) /\ type = "skipped" THEN <<L + 1, c + 1>>
           ELSE <<Len(d) + (IF ReadsBit(j, m) THEN 2 ELSE 1), 0>>
  <2>1. CASE HasRuns(j) /\ type = "coded"
    <3>1. at[m][1] = L + 1 /\ at[m][2] = c /\ d[L + 1].n = c /\ ~ReadsBit(j, m)
      BY <1>2, <1>5, <2>1, DifferentElements DEF HasRuns, ReadsBit
    <3>2. L + 1 \in 1 .. Len(d) /\ L + 1 + 1 \in 1 .. Len(d) /\ L + 1 + 1 = L + 2
          /\ Len(d) = L + 2 /\ c \in 0 .. c /\ ~ (c < c)
      BY <1>1, <1>2, <2>1
    <3>3. Stands(j, d, Len(d), type, at[m]) BY <1>2, <2>1, <3>1, <3>2 DEF Stands
    <3>4. Ends(j, d, Len(d), at[m]) BY <2>1, <3>1, <3>2 DEF Ends
    <3>5. After(j, d, m, at[m]) = <<L + 1 + 2, 0>> BY <2>1, <3>1, <3>2 DEF After
    <3>6. L + 1 + 2 = Len(d) + 1 BY <1>1, <3>2
    <3>7. QED BY <2>1, <3>1, <3>3, <3>4, <3>5, <3>6
  <2>2. CASE HasRuns(j) /\ type = "skipped"
    <3>1. at[m][1] = L + 1 /\ at[m][2] = c /\ d[L + 1].n = c + 1
      BY <1>2, <1>5, <2>2, DifferentElements
    <3>2. L + 1 \in 1 .. Len(d) /\ Len(d) = L + 1 /\ c \in 0 .. c + 1 /\ c < c + 1
      BY <1>1, <1>2, <2>2
    <3>3. Stands(j, d, Len(d), type, at[m]) BY <1>2, <2>2, <3>1, <3>2 DEF Stands
    <3>4. Ends(j, d, Len(d), at[m]) BY <2>2, <3>1, <3>2 DEF Ends
    <3>5. After(j, d, m, at[m]) = <<L + 1, c + 1>> BY <2>2, <3>1, <3>2 DEF After
    <3>6. QED BY <2>2, <3>3, <3>4, <3>5
  <2>3. CASE ~HasRuns(j)
    <3>1. at[m][1] = Len(d) /\ at[m][2] = 0 /\ Len(d) \in 1 .. Len(d)
      BY <1>1, <1>2, <1>5, <2>3
    <3>2. Stands(j, d, Len(d), type, at[m]) BY <1>2, <2>3, <3>1 DEF Stands
    <3>3. Ends(j, d, Len(d), at[m]) BY <2>3, <3>1 DEF Ends
    <3>4. After(j, d, m, at[m]) = <<Len(d) + (IF ReadsBit(j, m) THEN 2 ELSE 1), 0>>
      BY <2>3, <3>1 DEF After
    <3>5. QED BY <2>3, <3>2, <3>3, <3>4
  <2>4. QED BY <2>1, <2>2, <2>3
<1>8. QED BY <1>6, <1>7 DEF Behind, L, c

(* What is written behind a slice does not change what it says.             *)
LEMMA LaidKept ==
  ASSUME NEW j, NEW mp, NEW M, NEW types, NEW at, NEW first, NEW d, NEW len,
         Laid(j, mp, M, types, at, first, d, len),
         NEW d2, \A p \in 1 .. len : d2[p] = d[p],
         NEW at2, NEW types2, \A m \in M : at2[m] = at[m] /\ types2[m] = types[m]
  PROVE  Laid(j, mp, M, types2, at2, first, d2, len)
<1>1. first \in M /\ at[first] = <<1, 0>> /\ (InPairs(j) => Top(first)) BY DEF Laid
<1>2. ASSUME NEW m \in M
      PROVE  LET n == FmoGetNextMBNr(mp, m)
             IN /\ first <= m /\ mp[m] = mp[first]
                /\ Stands(j, d2, len, types2[m], at2[m])
                /\ IF n \in M
                   THEN at2[n] = After(j, d2, m, at2[m]) /\ BitFollows(j, d2, len, m, at2[m])
                   ELSE /\ Ends(j, d2, len, at2[m]) /\ (InPairs(j) => ~Top(m))
                        /\ \A o \in M : o <= m
  <2> DEFINE n == FmoGetNextMBNr(mp, m)
             a == at[m]
  <2>1. /\ first <= m /\ mp[m] = mp[first]
        /\ Stands(j, d, len, types[m], a)
        /\ n \in M => at[n] = After(j, d, m, a) /\ BitFollows(j, d, len, m, a)
        /\ n \notin M => /\ Ends(j, d, len, a) /\ (InPairs(j) => ~Top(m))
                         /\ \A o \in M : o <= m
    BY DEF Laid
  <2>2. at2[m] = a /\ types2[m] = types[m] /\ (n \in M => at2[n] = at[n]) OBVIOUS
  <2> HIDE DEF n, a
  <2>3. a[1] \in 1 .. len BY <2>1 DEF Stands
  <2>4. d2[a[1]] = d[a[1]] BY <2>3
  <2>5. a[1] + 1 \in 1 .. len => d2[a[1] + 1] = d[a[1] + 1] OBVIOUS
  <2>6. Stands(j, d2, len, types[m], a) BY <2>1, <2>4, <2>5 DEF Stands
  <2>7. After(j, d2, m, a) = After(j, d, m, a) BY <2>4 DEF After
  <2>8. BitFollows(j, d, len, m, a) => BitFollows(j, d2, len, m, a)
    BY <2>5 DEF BitFollows
  <2>9. Ends(j, d, len, a) => Ends(j, d2, len, a) BY <2>4 DEF Ends
  <2>10. QED BY <2>1, <2>2, <2>6, <2>7, <2>8, <2>9 DEF n
<1>3. at2[first] = at[first] BY <1>1
<1>4. QED BY <1>1, <1>2, <1>3 DEF Laid

(* A new slice.                                                             *)
LEMMA Opens ==
  ASSUME NEW j, NEW mp, NEW k \in Nat, DOMAIN mp = 0 .. k, NEW types, NEW at,
         NEW s, s.data = <<>>, s.cod_counter = 0, NEW m \in 0 .. k, s.first = m,
         InPairs(j) => Top(m), at[m] = NextPlace(j, s, m)
  PROVE  Open(j, mp, types, at, s, m) /\ Reached(mp, s, m) = {}
<1>1. Reached(mp, s, m) = {}
  <2>1. SUFFICES ASSUME NEW o \in 0 .. k, m <= o, o < m PROVE FALSE BY DEF Reached
  <2>2. QED BY <2>1
<1>2. at[m] = <<1, 0>>
  <2>1. at[m] = <<Len(s.data) + 1 + 0, 0>> BY DEF NextPlace
  <2>2. Len(s.data) + 1 + 0 = 1 OBVIOUS
  <2>3. QED BY <2>1, <2>2
<1>3. QED BY <1>1, <1>2 DEF Open

(* The macroblocks of the slice so far and the next ones.                   *)
LEMMA ReachedOnes ==
  ASSUME NEW j, NEW mp, NEW k \in Nat, DOMAIN mp = 0 .. k, Walks(j, mp),
         NEW s, NEW m \in 0 .. k, s.first \in 0 .. k, s.first <= m, mp[s.first] = mp[m]
  PROVE  /\ m \notin Reached(mp, s, m)
         /\ s.first \in Reached(mp, s, m) \cup {m}
         /\ \A o \in Reached(mp, s, m) :
              LET n == FmoGetNextMBNr(mp, o)
              IN /\ o \in 0 .. k /\ o < m /\ s.first <= o /\ mp[o] = mp[m]
                 /\ n # -1 /\ n \in Reached(mp, s, m) \cup {m} /\ n <= m
                 /\ n = m => \A x \in Reached(mp, s, m) : x <= o
<1>1. m \notin Reached(mp, s, m) /\ s.first \in Reached(mp, s, m) \cup {m}
  BY DEF Reached
<1>2. ASSUME NEW o \in Reached(mp, s, m)
      PROVE  LET n == FmoGetNextMBNr(mp, o)
             IN /\ o \in 0 .. k /\ o < m /\ s.first <= o /\ mp[o] = mp[m]
                /\ n # -1 /\ n \in Reached(mp, s, m) \cup {m} /\ n <= m
                /\ n = m => \A x \in Reached(mp, s, m) : x <= o
  <2> DEFINE n == FmoGetNextMBNr(mp, o)
  <2>1. o \in 0 .. k /\ mp[o] = mp[m] /\ s.first <= o /\ o < m BY DEF Reached
  <2>2. /\ n = -1 \/ (n \in 0 .. k /\ mp[n] = mp[o] /\ n > o)
        /\ \A x \in 0 .. k : mp[x] = mp[o] => (x <= o <=> (n = -1 \/ x < n))
    BY <2>1 DEF Walks
  <2> HIDE DEF n
  <2>3. ~ (m <= o) BY <2>1
  <2>4. n # -1 /\ ~ (m < n) BY <2>1, <2>2, <2>3
  <2>5. n \in 0 .. k /\ mp[n] = mp[m] /\ n <= m /\ s.first <= n BY <2>1, <2>2, <2>4
  <2>6. n \in Reached(mp, s, m) \cup {m} BY <2>5 DEF Reached
  <2>7. ASSUME n = m, NEW x \in Reached(mp, s, m) PROVE x <= o
    <3>1. x \in 0 .. k /\ mp[x] = mp[m] /\ x < m BY DEF Reached
    <3>2. QED BY <2>1, <2>2, <2>7, <3>1
  <2>8. QED BY <2>1, <2>4, <2>5, <2>6, <2>7 DEF n
<1>3. QED BY <1>1, <1>2

(* A slice that goes on behind a macroblock.                                *)
LEMMA GoesOn ==
  ASSUME NEW j, NEW mp, NEW k \in Nat, DOMAIN mp = 0 .. k, Walks(j, mp), NEW types, NEW at,
         NEW s \in Slices, NEW m \in 0 .. k, Open(j, mp, types, at, s, m),
         NEW type \in {"coded", "skipped"}, NEW e \in Slices, e.first = s.first,
         Adds(j, s, WithRun(e), m, type),
         IF HasRuns(j) /\ type = "skipped"
         THEN e.data = s.data /\ e.cod_counter = s.cod_counter + 1
         ELSE e.cod_counter = 0,
         FmoGetNextMBNr(mp, m) # -1,
         NEW types2, types2[m] = type,
         \A o \in Reached(mp, s, m) : types2[o] = types[o],
         NEW at2, at2[FmoGetNextMBNr(mp, m)] = NextPlace(j, e, FmoGetNextMBNr(mp, m)),
         \A o \in Reached(mp, s, m) \cup {m} : at2[o] = at[o]
  PROVE  /\ Open(j, mp, types2, at2, e, FmoGetNextMBNr(mp, m))
         /\ Reached(mp, e, FmoGetNextMBNr(mp, m)) = Reached(mp, s, m) \cup {m}
<1> DEFINE n == FmoGetNextMBNr(mp, m)
           d == WithRun(e)
           M == Reached(mp, s, m)
<1>1. /\ \A o \in M :
           /\ Stands(j, d, Len(d), types[o], at[o])
           /\ at[FmoGetNextMBNr(mp, o)] = After(j, d, o, at[o])
           /\ BitFollows(j, d, Len(d), o, at[o])
      /\ Stands(j, d, Len(d), type, at[m])
      /\ After(j, d, m, at[m]) =
           IF HasRuns(j) /\ type = "skipped" THEN <<Len(s.data) + 1, s.cod_counter + 1>>
           ELSE <<Len(d) + (IF ReadsBit(j, m) THEN 2 ELSE 1), 0>>
  <2>1. Adds(j, s, d, m, type) OBVIOUS
  <2> HIDE DEF d, M
  <2>2. Behind(j, mp, types, at, s, m, type, d) BY <2>1, Joined
  <2>3. QED BY <2>2 DEF Behind, M
<1>2. /\ s.first \in 0 .. k /\ mp[s.first] = mp[m] /\ s.first <= m
      /\ InPairs(j) => Top(s.first)
      /\ at[s.first] = <<1, 0>>
  BY DEF Open
<1>3. /\ m \notin M /\ s.first \in M \cup {m}
      /\ \A o \in M : LET x == FmoGetNextMBNr(mp, o)
                      IN /\ o \in 0 .. k /\ o < m /\ s.first <= o /\ mp[o] = mp[m]
                         /\ x # -1 /\ x \in M \cup {m} /\ x <= m
                         /\ x = m => \A y \in M : y <= o
  <2> HIDE DEF M
  <2>1. QED BY <1>2, ReachedOnes DEF M
<1>4. /\ n \in 0 .. k /\ mp[n] = mp[m] /\ n > m
      /\ \A o \in 0 .. k : mp[o] = mp[m] => (o <= m <=> o < n)
      /\ InPairs(j) => (Top(n) <=> ~Top(m))
  BY DEF Walks
<1> HIDE DEF n, M
<1>5. Reached(mp, e, n) = M \cup {m}
  <2>1. \A o \in 0 .. k : (mp[o] = mp[n] /\ e.first <= o /\ o < n)
                            <=> o = m \/ (mp[o] = mp[m] /\ s.first <= o /\ o < m)
    <3>1. ASSUME NEW o \in 0 .. k
          PROVE  (mp[o] = mp[n] /\ e.first <= o /\ o < n)
                   <=> o = m \/ (mp[o] = mp[m] /\ s.first <= o /\ o < m)
      <4>1. mp[o] = mp[m] => (o < n <=> o < m \/ o = m) BY <1>4
      <4>2. QED BY <1>2, <1>4, <4>1
    <3>2. QED BY <3>1
  <2>2. QED BY <2>1 DEF Reached, M
<1>6. at2[n] = After(j, d, m, at[m])
  <2>1. at2[n] = NextPlace(j, e, n) BY DEF n
  <2>2. CASE HasRuns(j) /\ type = "skipped"
    <3>1. s.cod_counter \in Nat BY DEF Slices
    <3>2. e.cod_counter > 0 BY <2>2, <3>1
    <3>3. NextPlace(j, e, n) = <<Len(s.data) + 1, s.cod_counter + 1>>
      BY <2>2, <3>2 DEF NextPlace
    <3>4. QED BY <1>1, <2>1, <2>2, <3>3
  <2>3. CASE ~ (HasRuns(j) /\ type = "skipped")
    <3>1. e.cod_counter = 0 /\ d = e.data /\ Len(d) \in Nat BY <2>3, RunElements
    <3>2. NextPlace(j, e, n) = <<Len(d) + 1 + (IF ReadsBit(j, m) THEN 1 ELSE 0), 0>>
      <4>1. n # e.first BY <1>2, <1>4
      <4>2. j.cabac /\ n # e.first /\ (InPairs(j) => Top(n)) <=> ReadsBit(j, m)
        BY <1>4, <4>1 DEF ReadsBit
      <4> DEFINE bit == j.cabac /\ n # e.first /\ (InPairs(j) => Top(n))
      <4> HIDE DEF d
      <4>3. NextPlace(j, e, n) = <<Len(d) + 1 + (IF bit THEN 1 ELSE 0), 0>>
        BY <3>1 DEF NextPlace
      <4>4. bit <=> ReadsBit(j, m) BY <4>2
      <4> HIDE DEF bit
      <4>5. CASE bit BY <4>3, <4>4, <4>5, Zenon
      <4>6. CASE ~bit BY <4>3, <4>4, <4>6, Zenon
      <4>7. QED BY <4>5, <4>6
    <3>3. After(j, d, m, at[m]) = <<Len(d) + (IF ReadsBit(j, m) THEN 2 ELSE 1), 0>>
      BY <1>1, <2>3
    <3> HIDE DEF d
    <3>4. CASE ReadsBit(j, m)
      <4>1. Len(d) + 1 + 1 = Len(d) + 2 BY <3>1
      <4>2. QED BY <2>1, <3>2, <3>3, <3>4, <4>1
    <3>5. CASE ~ReadsBit(j, m)
      <4>1. Len(d) + 1 + 0 = Len(d) + 1 BY <3>1
      <4>2. QED BY <2>1, <3>2, <3>3, <3>5, <4>1
    <3>6. QED BY <3>4, <3>5
  <2>4. QED BY <2>2, <2>3
<1>7. ASSUME NEW o \in M \cup {m}
      PROVE  LET x == FmoGetNextMBNr(mp, o)
             IN /\ Stands(j, d, Len(d), types2[o], at2[o])
                /\ at2[x] = After(j, d, o, at2[o])
                /\ x # n => BitFollows(j, d, Len(d), o, at2[o])
  <2> HIDE DEF d
  <2>1. CASE o \in M
    <3>1. at2[o] = at[o] /\ types2[o] = types[o] BY <2>1 DEF M
    <3>2. FmoGetNextMBNr(mp, o) \in M \cup {m} BY <1>3, <2>1
    <3>3. at2[FmoGetNextMBNr(mp, o)] = at[FmoGetNextMBNr(mp, o)] BY <3>2 DEF M
    <3>4. QED BY <1>1, <2>1, <3>1, <3>3
  <2>2. CASE o = m
    <3>1. at2[m] = at[m] /\ types2[m] = type OBVIOUS
    <3>2. QED BY <1>1, <1>6, <2>2, <3>1 DEF n
  <2>3. QED BY <2>1, <2>2
<1>8. at2[e.first] = <<1, 0>>
  <2>1. e.first \in M \cup {m} BY <1>3
  <2>2. at2[e.first] = at[e.first] BY <2>1 DEF M
  <2>3. QED BY <1>2, <2>2
<1>9. e.first <= n /\ mp[e.first] = mp[n] BY <1>2, <1>4
<1>10. at2[n] = NextPlace(j, e, n) BY DEF n
<1>11. Open(j, mp, types2, at2, e, n) BY <1>2, <1>5, <1>7, <1>8, <1>9, <1>10 DEF Open
<1>12. QED BY <1>5, <1>11 DEF n, M

(* A slice that ends with a macroblock.                                     *)
LEMMA Closes ==
  ASSUME NEW j, NEW mp, NEW k \in Nat, DOMAIN mp = 0 .. k, Walks(j, mp), NEW types, NEW at,
         NEW s \in Slices, NEW m \in 0 .. k, Open(j, mp, types, at, s, m),
         NEW type \in {"coded", "skipped"}, NEW d, Adds(j, s, d, m, type),
         InPairs(j) => ~Top(m),
         NEW types2, types2[m] = type,
         \A o \in Reached(mp, s, m) : types2[o] = types[o]
  PROVE  Laid(j, mp, Reached(mp, s, m) \cup {m}, types2, at, s.first, d, Len(d))
<1> DEFINE M == Reached(mp, s, m)
           n == FmoGetNextMBNr(mp, m)
<1>1. Behind(j, mp, types, at, s, m, type, d) BY Joined
<1>2. /\ s.first \in 0 .. k /\ mp[s.first] = mp[m] /\ s.first <= m
      /\ InPairs(j) => Top(s.first)
      /\ at[s.first] = <<1, 0>>
  BY DEF Open
<1>3. /\ m \notin M /\ s.first \in M \cup {m}
      /\ \A o \in M : LET x == FmoGetNextMBNr(mp, o)
                      IN /\ o \in 0 .. k /\ o < m /\ s.first <= o /\ mp[o] = mp[m]
                         /\ x # -1 /\ x \in M \cup {m} /\ x <= m
  <2> HIDE DEF M
  <2>1. QED BY <1>2, ReachedOnes DEF M
<1>3a. \A o \in M \cup {m} : o \in 0 .. k /\ o <= m
  <2> HIDE DEF M
  <2>1. \A o \in M : o \in 0 .. k /\ o < m BY <1>3
  <2>2. \A o \in M : o <= m BY <2>1
  <2>3. m \in 0 .. k /\ m <= m OBVIOUS
  <2>4. QED BY <2>1, <2>2, <2>3
<1>4. n \notin M \cup {m}
  <2>1. n = -1 \/ (n \in 0 .. k /\ n > m) BY DEF Walks
  <2> HIDE DEF n, M
  <2>2. QED BY <1>3a, <2>1
<1>5. ASSUME NEW o \in M \cup {m}
      PROVE  LET x == FmoGetNextMBNr(mp, o)
             IN /\ s.first <= o /\ mp[o] = mp[s.first]
                /\ Stands(j, d, Len(d), types2[o], at[o])
                /\ IF x \in M \cup {m}
                   THEN at[x] = After(j, d, o, at[o]) /\ BitFollows(j, d, Len(d), o, at[o])
                   ELSE /\ Ends(j, d, Len(d), at[o]) /\ (InPairs(j) => ~Top(o))
                        /\ \A y \in M \cup {m} : y <= o
  <2>1. CASE o \in M
    <3>1. /\ Stands(j, d, Len(d), types[o], at[o])
          /\ at[FmoGetNextMBNr(mp, o)] = After(j, d, o, at[o])
          /\ BitFollows(j, d, Len(d), o, at[o])
      BY <1>1, <2>1 DEF Behind
    <3>2. types2[o] = types[o] BY <2>1
    <3> HIDE DEF M
    <3>3. FmoGetNextMBNr(mp, o) \in M \cup {m} /\ s.first <= o /\ mp[o] = mp[m]
      BY <1>3, <2>1
    <3>4. QED BY <1>2, <3>1, <3>2, <3>3
  <2>2. CASE o = m
    <3>1. Stands(j, d, Len(d), type, at[m]) /\ Ends(j, d, Len(d), at[m])
      BY <1>1 DEF Behind
    <3> HIDE DEF M
    <3>2. \A y \in M \cup {m} : y <= m BY <1>3a
    <3>3. QED BY <1>2, <1>4, <2>2, <3>1, <3>2
  <2>3. QED BY <2>1, <2>2
<1> HIDE DEF M
<1>6. Laid(j, mp, M \cup {m}, types2, at, s.first, d, Len(d))
  BY <1>2, <1>3, <1>5 DEF Laid
<1>7. QED BY <1>6 DEF M

(* A slice that ends before a macroblock, which is taken back.              *)
LEMMA TakesBack ==
  ASSUME NEW j, NEW mp, NEW k \in Nat, DOMAIN mp = 0 .. k, Walks(j, mp), NEW types, NEW at,
         NEW s \in Slices, NEW m \in 0 .. k, Open(j, mp, types, at, s, m),
         Reached(mp, s, m) # {}, InPairs(j) => Top(m), ~HasRuns(j) => s.cod_counter = 0
  PROVE  Laid(j, mp, Reached(mp, s, m), types, at, s.first, WithRun(s), Len(WithRun(s)))
<1> DEFINE M == Reached(mp, s, m)
           V == WithRun(s)
           L == Len(s.data)
           c == s.cod_counter
<1>1. c \in Nat BY DEF Slices
<1>2. /\ V \in Seq(Elements) /\ L \in Nat
      /\ ~ (c > 0) => V = s.data
      /\ c > 0 => Len(V) = L + 1 /\ V[L + 1] = Run(c)
  BY RunElements
<1>3. /\ s.first \in 0 .. k /\ mp[s.first] = mp[m] /\ s.first <= m
      /\ InPairs(j) => Top(s.first)
      /\ at[s.first] = <<1, 0>> /\ at[m] = NextPlace(j, s, m)
  BY DEF Open
<1>4. /\ m \notin M /\ s.first \in M \cup {m}
      /\ \A o \in M : LET x == FmoGetNextMBNr(mp, o)
                      IN /\ o \in 0 .. k /\ o < m /\ s.first <= o /\ mp[o] = mp[m]
                         /\ x # -1 /\ x \in M \cup {m} /\ x <= m
                         /\ x = m => \A y \in M : y <= o
  <2> HIDE DEF M
  <2>1. QED BY <1>3, ReachedOnes DEF M
<1>5. \A o \in M :
        LET n == FmoGetNextMBNr(mp, o)
        IN /\ Stands(j, V, Len(V), types[o], at[o])
           /\ at[n] = After(j, V, o, at[o])
           /\ n # m => BitFollows(j, V, Len(V), o, at[o])
  BY DEF Open
<1>6. \A o \in M : FmoGetNextMBNr(mp, o) = m /\ InPairs(j) => (Top(m) <=> ~Top(o))
  <2>1. SUFFICES ASSUME NEW o \in M, FmoGetNextMBNr(mp, o) = m, InPairs(j)
                 PROVE  Top(m) <=> ~Top(o)
    OBVIOUS
  <2>2. o \in 0 .. k /\ m # -1 BY <1>4
  <2>3. QED BY <2>1, <2>2 DEF Walks
<1> HIDE DEF M, V, L, c
<1>7. s.first \in M
  <2>1. PICK o \in M : TRUE BY DEF M
  <2>2. s.first # m BY <1>3, <1>4, <2>1
  <2>3. QED BY <1>4, <2>2
<1>8. ASSUME NEW o \in M, FmoGetNextMBNr(mp, o) = m
      PROVE  Ends(j, V, Len(V), at[o])
  <2> DEFINE p == at[o][1]
             i == at[o][2]
  <2>1. Stands(j, V, Len(V), types[o], at[o]) /\ After(j, V, o, at[o]) = NextPlace(j, s, m)
    BY <1>3, <1>5, <1>8
  <2>2. CASE HasRuns(j)
    <3>1. ~j.cabac BY <2>2 DEF HasRuns
    <3>2. NextPlace(j, s, m) = IF c > 0 THEN <<L + 1, c>> ELSE <<L + 1 + 0, 0>>
      BY <3>1 DEF NextPlace, L, c
    <3>3. p \in 1 .. Len(V) /\ i \in 0 .. V[p].n BY <2>1, <2>2 DEF Stands
    <3>4. CASE i < V[p].n
      <4>1. NextPlace(j, s, m) = <<p, i + 1>> BY <2>1, <2>2, <3>4 DEF After
      <4>2. CASE c > 0
        <5>1. <<p, i + 1>> = <<L + 1, c>> BY <3>2, <4>1, <4>2
        <5>2. p = L + 1 /\ i + 1 = c BY <5>1
        <5>3. V[p].n = c BY <1>2, <4>2, <5>2, DifferentElements
        <5>4. QED BY <1>2, <2>2, <3>4, <4>2, <5>2, <5>3 DEF Ends
      <4>3. CASE ~ (c > 0)
        <5>1. <<p, i + 1>> = <<L + 1 + 0, 0>> BY <3>2, <4>1, <4>3
        <5>2. i + 1 = 0 BY <5>1
        <5>3. QED BY <3>3, <5>2
      <4>4. QED BY <4>2, <4>3
    <3>5. CASE ~ (i < V[p].n)
      <4>1. NextPlace(j, s, m) = <<p + 2, 0>> BY <2>1, <2>2, <3>5 DEF After
      <4>2. CASE c > 0
        <5>1. <<p + 2, 0>> = <<L + 1, c>> BY <3>2, <4>1, <4>2
        <5>2. c = 0 BY <5>1
        <5>3. QED BY <4>2, <5>2
      <4>3. CASE ~ (c > 0)
        <5>1. <<p + 2, 0>> = <<L + 1 + 0, 0>> BY <3>2, <4>1, <4>3
        <5>2. p + 2 = L + 1 + 0 BY <5>1
        <5>3. p + 1 = Len(V) BY <1>2, <3>3, <4>3, <5>2 DEF L
        <5>4. QED BY <2>2, <3>5, <5>3 DEF Ends
      <4>4. QED BY <4>2, <4>3
    <3>6. QED BY <3>4, <3>5
  <2>3. CASE ~HasRuns(j)
    <3> DEFINE bit == j.cabac /\ m # s.first /\ (InPairs(j) => Top(m))
    <3>1. c = 0 /\ V = s.data /\ L = Len(V) BY <1>1, <1>2, <2>3 DEF c, L
    <3>2. NextPlace(j, s, m) = <<L + 1 + (IF bit THEN 1 ELSE 0), 0>>
      BY <3>1 DEF NextPlace, L, c
    <3>3. After(j, V, o, at[o]) = <<p + (IF ReadsBit(j, o) THEN 2 ELSE 1), 0>>
      BY <2>3 DEF After
    <3>4. bit <=> ReadsBit(j, o)
      <4>1. m # s.first /\ (InPairs(j) => (Top(m) <=> ~Top(o))) BY <1>4, <1>6, <1>7, <1>8
      <4>2. QED BY <4>1 DEF ReadsBit
    <3>5. p \in 1 .. Len(V) BY <2>1, <2>3 DEF Stands
    <3> HIDE DEF bit
    <3>6. CASE bit
      <4>1. <<L + 1 + 1, 0>> = <<p + 2, 0>> BY <2>1, <3>2, <3>3, <3>4, <3>6, Zenon
      <4>2. L + 1 + 1 = p + 2 BY <4>1
      <4>3. QED BY <1>2, <2>3, <3>1, <3>5, <4>2 DEF Ends
    <3>7. CASE ~bit
      <4>1. <<L + 1 + 0, 0>> = <<p + 1, 0>> BY <2>1, <3>2, <3>3, <3>4, <3>7, Zenon
      <4>2. L + 1 + 0 = p + 1 BY <4>1
      <4>3. QED BY <1>2, <2>3, <3>1, <3>5, <4>2 DEF Ends
    <3>8. QED BY <3>6, <3>7
  <2>4. QED BY <2>2, <2>3
<1>9. ASSUME NEW o \in M
      PROVE  LET x == FmoGetNextMBNr(mp, o)
             IN /\ s.first <= o /\ mp[o] = mp[s.first]
                /\ Stands(j, V, Len(V), types[o], at[o])
                /\ IF x \in M
                   THEN at[x] = After(j, V, o, at[o]) /\ BitFollows(j, V, Len(V), o, at[o])
                   ELSE /\ Ends(j, V, Len(V), at[o]) /\ (InPairs(j) => ~Top(o))
                        /\ \A y \in M : y <= o
  <2>1. CASE FmoGetNextMBNr(mp, o) \in M
    <3>1. FmoGetNextMBNr(mp, o) # m BY <1>4, <2>1
    <3>2. QED BY <1>3, <1>4, <1>5, <2>1, <3>1
  <2>2. CASE FmoGetNextMBNr(mp, o) \notin M
    <3>1. FmoGetNextMBNr(mp, o) = m BY <1>4, <2>2
    <3>2. InPairs(j) => ~Top(o) BY <1>6, <3>1
    <3>3. \A y \in M : y <= o BY <1>4, <3>1
    <3>4. QED BY <1>3, <1>4, <1>5, <1>8, <2>2, <3>1, <3>2, <3>3
  <2>3. QED BY <2>1, <2>2
<1>10. Laid(j, mp, M, types, at, s.first, V, Len(V)) BY <1>3, <1>7, <1>9 DEF Laid
<1>11. QED BY <1>10 DEF M, V

-----------------------------------------------------------------------------
(* What the encoder has written is an invariant of its steps.  at is the    *)
(* place in its slice of every macroblock, which no variable keeps.         *)

(* The walk through the map of the picture, and the end of a group.         *)
LEMMA MapWalks ==
  ASSUME MapInv
  PROVE  Walks(job, map)
<1>1. PICK k \in Nat : Mbs(picture) = 0 .. k BY MbsAreNumbers DEF MapInv
<1>2. DOMAIN map = 0 .. k BY <1>1 DEF MapInv
<1>3. SUFFICES ASSUME NEW m \in 0 .. k
               PROVE  LET n == FmoGetNextMBNr(map, m)
                      IN /\ n = -1 \/ (n \in DOMAIN map /\ map[n] = map[m] /\ n > m)
                         /\ \A o \in DOMAIN map : map[o] = map[m] => (o <= m <=> (n = -1 \/ o < n))
                         /\ InPairs(job) /\ n # -1 => (Top(n) <=> ~Top(m))
                         /\ InPairs(job) /\ Top(m) => n # -1
  BY <1>2 DEF Walks
<1> DEFINE n == FmoGetNextMBNr(map, m)
<1>4. Walk(m, n) BY <1>2, NextFound
<1> HIDE DEF n
<1>5. /\ n = -1 \/ (n \in 0 .. k /\ map[n] = map[m] /\ n > m)
      /\ \A o \in 0 .. k : map[o] = map[m] => (o <= m <=> (n = -1 \/ o < n))
  BY <1>2, <1>4 DEF Walk
<1>6. ASSUME InPairs(job)
      PROVE  /\ n # -1 => (Top(n) <=> ~Top(m))
             /\ Top(m) => n # -1
  <2>1. \A o \in 0 .. k :
          /\ Top(o)  => o + 1 \in 0 .. k /\ map[o + 1] = map[o]
          /\ ~Top(o) => o - 1 \in 0 .. k /\ map[o - 1] = map[o]
    BY <1>1, <1>6 DEF MapInv, Mbaff, InPairs, picture
  <2>2. CASE Top(m)
    <3>1. m + 1 \in 0 .. k /\ map[m + 1] = map[m] BY <2>1, <2>2
    <3>2. n # -1 /\ ~ (m + 1 < n) => n = m + 1 BY <1>5
    <3>3. n # -1 /\ ~ (n = -1 \/ m + 1 < n) BY <1>5, <3>1
    <3>4. n = m + 1 BY <3>2, <3>3
    <3>5. QED BY <2>2, <3>3, <3>4, Parity
  <2>3. CASE ~Top(m)
    <3>1. SUFFICES ASSUME n # -1, ~Top(n) PROVE FALSE BY <2>3
    <3>2. n \in 0 .. k /\ map[n] = map[m] /\ n > m BY <1>5, <3>1
    <3>3. n - 1 \in 0 .. k /\ map[n - 1] = map[m] BY <2>1, <3>1, <3>2
    <3>4. n - 1 <= m BY <1>5, <3>2, <3>3
    <3>5. n - 1 = m BY <3>2, <3>4
    <3>6. QED BY <2>3, <3>1, <3>2, <3>5, Parity
  <2>4. QED BY <2>2, <2>3
<1>7. QED BY <1>2, <1>5, <1>6 DEF n

LEMMA LoopWalks ==
  ASSUME MapInv, mb \in Mbs(picture)
  PROVE  WalkOn(mb)
<1>1. PICK k \in Nat : Mbs(picture) = 0 .. k BY MbsAreNumbers DEF MapInv
<1>2. DOMAIN map = 0 .. k /\ mb \in 0 .. k BY <1>1 DEF MapInv
<1>3. /\ NextMb = -1 \/ (NextMb \in 0 .. k /\ map[NextMb] = map[mb] /\ NextMb > mb)
      /\ \A o \in 0 .. k : map[o] = map[mb] => (o <= mb <=> (NextMb = -1 \/ o < NextMb))
      /\ InPairs(job) /\ NextMb # -1 => (Top(NextMb) <=> ~Top(mb))
      /\ InPairs(job) /\ Top(mb) => NextMb # -1
  BY <1>2, MapWalks DEF Walks, NextMb
<1>4. NextMb = -1 <=> LastInGroup(mb)
  <2> DEFINE S == GroupMbs(map, map[mb])
             h == Highest(S)
  <2>1. mb \in S /\ S \in SUBSET (0 .. k) /\ \A o \in 0 .. k : o \in S <=> map[o] = map[mb]
    BY <1>2 DEF GroupMbs
  <2>2. h \in S /\ \A o \in S : h >= o
    <3> HIDE DEF S
    <3>1. S # {} BY <2>1
    <3>2. QED BY <2>1, <3>1, HighestFound
  <2>3. LastInGroup(mb) <=> mb = h BY DEF LastInGroup, FmoGetLastCodedMBOfSliceGroup
  <2> HIDE DEF S, h
  <2>4. CASE NextMb = -1
    <3>1. h <= mb /\ mb <= h BY <1>2, <1>3, <2>1, <2>2, <2>4
    <3>2. QED BY <1>2, <2>1, <2>2, <2>3, <2>4, <3>1
  <2>5. CASE NextMb # -1
    <3>1. NextMb \in S /\ NextMb > mb BY <1>3, <2>1, <2>5
    <3>2. h >= NextMb BY <2>2, <3>1
    <3>3. h # mb BY <1>2, <2>1, <2>2, <3>1, <3>2
    <3>4. QED BY <2>3, <2>5, <3>3
  <2>6. QED BY <2>4, <2>5
<1>5. QED BY <1>3, <1>4 DEF WalkOn, InPairs, Mbaff, picture

(* The macroblocks of slice number i.                                       *)
MbsOf(types, nr, i) == {m \in DOMAIN types : types[m] # Nothing /\ nr[m] = i}

FirstOf(j, x) == IF InPairs(j) THEN 2 * x.first_mb_in_slice ELSE x.first_mb_in_slice
Content(j, x) == IF j.cabac THEN Len(x.data) - 1 ELSE Len(x.data)

(* Every slice that is sent is complete, and so is, up to here, the one     *)
(* that is being written.                                                   *)
WrittenInv(at) ==
  /\ DOMAIN at = DOMAIN map /\ DOMAIN slice_nr = DOMAIN map
  /\ sent \in Seq([first_mb_in_slice : Int, data : Seq(Elements)])
  /\ \A m \in DOMAIN map :
       /\ slice_nr[m] \in Int /\ slice_nr[m] <= Len(sent)
       /\ coded[m] # Nothing => slice_nr[m] >= 0
       /\ pc \notin {"macroblock", "end of slice"} => slice_nr[m] < Len(sent)
       /\ pc = "macroblock" /\ slice_nr[m] = Len(sent) => coded[m] # Nothing
  /\ \A i \in 1 .. Len(sent) :
       /\ Laid(job, map, MbsOf(coded, slice_nr, i - 1), coded, at,
               FirstOf(job, sent[i]), sent[i].data, Content(job, sent[i]))
       /\ job.cabac => sent[i].data[Len(sent[i].data)] = EndOfSlice(1)
  /\ pc = "macroblock" =>
       /\ slice \in Slices /\ InLoop(slice, mb)
       /\ Open(job, map, coded, at, slice, mb)
       /\ MbsOf(coded, slice_nr, Len(sent)) = Reached(map, slice, mb)
  /\ pc = "end of slice" =>
       /\ slice \in Slices /\ mb \in MbsOf(coded, slice_nr, Len(sent))
       /\ Laid(job, map, MbsOf(coded, slice_nr, Len(sent)), coded, at,
               slice.first, slice.data, Len(slice.data))

(* The invariant of the encoder, step by step.                              *)
LEMMA InitWritten ==
  ASSUME Init, ProgressInv
  PROVE  \E at : WrittenInv(at)
<1> DEFINE at == [m \in DOMAIN map |-> <<1, 0>>]
<1>1. DOMAIN map = Mbs(picture) BY DEF ProgressInv, MapInv
<1>2. /\ pc = "slices" /\ sent = <<>>
      /\ slice_nr = [m \in Mbs(picture) |-> -1]
      /\ coded = [m \in Mbs(picture) |-> Nothing]
  BY DEF Init, picture
<1>3. sent \in Seq([first_mb_in_slice : Int, data : Seq(Elements)]) /\ Len(sent) = 0
  BY <1>2
<1>4. DOMAIN at = DOMAIN map /\ DOMAIN slice_nr = DOMAIN map BY <1>1, <1>2
<1>5. \A m \in DOMAIN map : slice_nr[m] = -1 /\ coded[m] = Nothing BY <1>1, <1>2
<1> HIDE DEF at
<1>6. WrittenInv(at) BY <1>2, <1>3, <1>4, <1>5 DEF WrittenInv
<1>7. QED BY <1>6

LEMMA StartKeepsWritten ==
  ASSUME RunsWithPairs, ProgressInv, PairInv, NEW at, WrittenInv(at), StartSlice
  PROVE  \E at2 : WrittenInv(at2)'
<1>1. PICK k \in Nat : Mbs(picture) = 0 .. k BY MbsAreNumbers DEF ProgressInv, MapInv
<1>2. /\ UNCHANGED <<job, map, slice_nr, coded, sent>>
      /\ pc = "slices" /\ pc' = "macroblock"
      /\ mb' = FirstMBInSlice[SliceGroup] /\ slice' = [NoSlice EXCEPT !.first = mb']
      /\ SliceGroup \in Groups(job.pps)
  BY DEF StartSlice
<1>3. mb' # -1 /\ mb' \in 0 .. k /\ map[mb'] = SliceGroup
  BY <1>1, <1>2 DEF StartSlice, FmoSliceGroupCompletelyCoded, ProgressInv
<1>4. DOMAIN map = 0 .. k /\ DOMAIN coded = 0 .. k BY <1>1 DEF ProgressInv, MapInv
<1>5. InPairs(job) => Top(mb')
  BY <1>2, <1>3 DEF PairInv, InPairs, Mbaff, picture
<1>6. coded[mb'] = Nothing
  <2>1. mb' \notin CodedMbs BY <1>1, <1>2, <1>3 DEF ProgressInv, Past
  <2>2. QED BY <1>1, <1>3, <2>1 DEF CodedMbs
<1>7. PICK s : s = slice' OBVIOUS
<1>8. PICK f : f = mb' OBVIOUS
<1>9. /\ s \in Slices /\ s.first = f /\ s.data = <<>> /\ s.cod_counter = 0 /\ s.end = FALSE
      /\ s.stored = 0 /\ s.num_mb = 0
  <2>1. s = [first |-> f, data |-> <<>>, stored |-> 0, cod_counter |-> 0, num_mb |-> 0,
             end |-> FALSE, recode |-> FALSE]
    BY <1>2, <1>7, <1>8 DEF NoSlice
  <2>2. f \in Int /\ <<>> \in Seq(Elements) BY <1>3, <1>8
  <2> HIDE DEF Elements
  <2>3. QED BY <2>1, <2>2 DEF Slices
<1>9a. PICK at2 : at2 = [at EXCEPT ![f] = NextPlace(job, s, f)] OBVIOUS
<1>10. /\ DOMAIN at2 = DOMAIN map /\ at2[f] = NextPlace(job, s, f)
       /\ \A m \in DOMAIN map : m # f => at2[m] = at[m]
  BY <1>3, <1>4, <1>8, <1>9a DEF WrittenInv
<1>11. Open(job, map, coded, at2, s, f) /\ Reached(map, s, f) = {}
  BY <1>3, <1>4, <1>5, <1>8, <1>9, <1>10, Opens
<1>12. MbsOf(coded, slice_nr, Len(sent)) = {}
  BY <1>2, <1>4 DEF WrittenInv, MbsOf
<1>13. InLoop(slice, mb)'
  <2>1. Len(s.data) = 0 BY <1>9
  <2>3. HasRuns(job) /\ Mbaff /\ job.mode = "FIXED_MB" => 0 < job.argument
    <3>1. SUFFICES ASSUME HasRuns(job), Mbaff, job.mode = "FIXED_MB" PROVE 0 < job.argument
      OBVIOUS
    <3>2. job.argument \in Nat \ {0}
      BY <3>1 DEF RunsWithPairs, HasRuns, ProgressInv, MapInv, Mbaff, picture
    <3>3. QED BY <3>2
  <2>4. InLoop(s, f)
    <3>1. Mbaff => Top(f) BY <1>5, <1>8 DEF Mbaff, InPairs, picture
    <3>2. QED BY <1>9, <2>1, <2>3, <3>1 DEF InLoop
  <2>5. QED BY <1>2, <1>7, <1>8, <2>4 DEF InLoop, Mbaff, picture
<1>14. \A i \in 1 .. Len(sent) :
         Laid(job, map, MbsOf(coded, slice_nr, i - 1), coded, at2,
              FirstOf(job, sent[i]), sent[i].data, Content(job, sent[i]))
  <2>1. SUFFICES ASSUME NEW i \in 1 .. Len(sent)
                 PROVE  Laid(job, map, MbsOf(coded, slice_nr, i - 1), coded, at2,
                             FirstOf(job, sent[i]), sent[i].data, Content(job, sent[i]))
    OBVIOUS
  <2>2. \A m \in MbsOf(coded, slice_nr, i - 1) : at2[m] = at[m] /\ coded[m] = coded[m]
    BY <1>4, <1>6, <1>8, <1>10 DEF MbsOf
  <2>3. QED BY <2>2, LaidKept DEF WrittenInv
<1>15. WrittenInv(at2)'
  <2>1. slice' \in Slices BY <1>7, <1>9
  <2>2. Open(job, map, coded, at2, slice', mb') /\ Reached(map, slice', mb') = {}
    BY <1>7, <1>8, <1>11
  <2>3. /\ DOMAIN slice_nr = DOMAIN map
        /\ sent \in Seq([first_mb_in_slice : Int, data : Seq(Elements)])
        /\ \A m \in DOMAIN map :
             /\ slice_nr[m] \in Int /\ slice_nr[m] <= Len(sent)
             /\ coded[m] # Nothing => slice_nr[m] >= 0
             /\ slice_nr[m] < Len(sent)
        /\ \A i \in 1 .. Len(sent) :
             job.cabac => sent[i].data[Len(sent[i].data)] = EndOfSlice(1)
    BY <1>2 DEF WrittenInv
  <2>4. \A m \in DOMAIN map : slice_nr[m] # Len(sent)
    <3>1. Len(sent) \in Nat BY <2>3, LenProperties
    <3>2. QED BY <2>3, <3>1
  <2>5. /\ (DOMAIN at2 = DOMAIN map /\ DOMAIN slice_nr = DOMAIN map)'
        /\ (sent \in Seq([first_mb_in_slice : Int, data : Seq(Elements)]))'
    BY <1>2, <1>10, <2>3
  <2>6. (\A m \in DOMAIN map :
       /\ slice_nr[m] \in Int /\ slice_nr[m] <= Len(sent)
       /\ coded[m] # Nothing => slice_nr[m] >= 0
       /\ pc \notin {"macroblock", "end of slice"} => slice_nr[m] < Len(sent)
       /\ pc = "macroblock" /\ slice_nr[m] = Len(sent) => coded[m] # Nothing)'
    BY <1>2, <2>3, <2>4
  <2>7. (\A i \in 1 .. Len(sent) :
       /\ Laid(job, map, MbsOf(coded, slice_nr, i - 1), coded, at2,
               FirstOf(job, sent[i]), sent[i].data, Content(job, sent[i]))
       /\ job.cabac => sent[i].data[Len(sent[i].data)] = EndOfSlice(1))'
    BY <1>2, <1>14, <2>3
  <2>8. MbsOf(coded, slice_nr, Len(sent))' = Reached(map, slice, mb)'
    BY <1>2, <1>12, <2>2
  <2>9. Open(job, map, coded, at2, slice, mb)' BY <1>2, <2>2
  <2>10. pc' = "macroblock" BY <1>2
  <2>11. QED BY <1>13, <2>1, <2>5, <2>6, <2>7, <2>8, <2>9, <2>10 DEF WrittenInv
<1>16. QED BY <1>15

SentSlices == [first_mb_in_slice : Int, data : Seq(Elements)]

(* A slice is complete when it is sent.                                     *)
LEMMA FinishKeepsWritten ==
  ASSUME ProgressInv, NEW at, WrittenInv(at), FinishSlice
  PROVE  WrittenInv(at)'
<1> DEFINE S == SentSlices
<1>1. PICK x : x = [first_mb_in_slice |-> IF Mbaff THEN slice.first \div 2 ELSE slice.first,
                    data |-> slice.data \o IF job.cabac THEN <<EndOfSlice(1)>> ELSE <<>>]
  OBVIOUS
<1>2. /\ UNCHANGED <<job, map, slice_nr, coded>> /\ sent' = Append(sent, x)
      /\ pc = "end of slice" /\ pc' = "slices"
  BY <1>1 DEF FinishSlice
<1>3. slice \in Slices /\ slice.first \in Int /\ slice.data \in Seq(Elements)
      /\ Len(slice.data) \in Nat
  BY <1>2, LenProperties DEF WrittenInv, Slices
<1>4. Laid(job, map, MbsOf(coded, slice_nr, Len(sent)), coded, at,
           slice.first, slice.data, Len(slice.data))
  BY <1>2 DEF WrittenInv
<1>5. EndOfSlice(1) \in Elements BY ElementsWritten
<1>6. /\ x.data \in Seq(Elements)
      /\ Len(x.data) = Len(slice.data) + (IF job.cabac THEN 1 ELSE 0)
      /\ \A p \in 1 .. Len(slice.data) : x.data[p] = slice.data[p]
      /\ job.cabac => x.data[Len(x.data)] = EndOfSlice(1)
  <2>1. CASE job.cabac
    <3>1. x.data = slice.data \o <<EndOfSlice(1)>> BY <1>1, <2>1
    <3>2. QED BY <1>3, <1>5, <2>1, <3>1
  <2>2. CASE ~job.cabac
    <3>1. x.data = slice.data \o <<>> BY <1>1, <2>2
    <3>2. x.data = slice.data BY <1>3, <3>1, ConcatEmptySeq
    <3>3. QED BY <1>3, <2>2, <3>2
  <2>3. QED BY <2>1, <2>2
<1>7. Content(job, x) = Len(slice.data)
  <2>1. CASE job.cabac BY <1>3, <1>6, <2>1 DEF Content
  <2>2. CASE ~job.cabac BY <1>3, <1>6, <2>2 DEF Content
  <2>3. QED BY <2>1, <2>2
<1>8. FirstOf(job, x) = slice.first /\ x.first_mb_in_slice \in Int
  <2>1. InPairs(job) => Top(slice.first) BY <1>4 DEF Laid
  <2>2. \A f \in Int : f \div 2 \in Int /\ (f % 2 = 0 => 2 * (f \div 2) = f) OBVIOUS
  <2>3. Mbaff <=> InPairs(job) BY DEF Mbaff, InPairs, picture
  <2>4. x.first_mb_in_slice = IF Mbaff THEN slice.first \div 2 ELSE slice.first BY <1>1
  <2>5. QED BY <1>3, <2>1, <2>2, <2>3, <2>4 DEF FirstOf, Top
<1>9. x \in S BY <1>1, <1>6, <1>8 DEF SentSlices
<1>10. sent \in Seq(S) /\ Len(sent) \in Nat BY LenProperties DEF WrittenInv, SentSlices
<1> HIDE DEF S
<1>11. /\ sent' \in Seq(S) /\ Len(sent') = Len(sent) + 1
       /\ \A i \in 1 .. Len(sent) : sent'[i] = sent[i]
       /\ sent'[Len(sent) + 1] = x
  <2>1. sent' = Append(sent, x) BY <1>2
  <2>2. QED BY <1>9, <1>10, <2>1, AppendProperties
<1>12. Laid(job, map, MbsOf(coded, slice_nr, Len(sent)), coded, at,
            FirstOf(job, x), x.data, Content(job, x))
  <2>1. Laid(job, map, MbsOf(coded, slice_nr, Len(sent)), coded, at,
             slice.first, x.data, Len(slice.data))
    BY <1>4, <1>6, LaidKept
  <2>2. QED BY <1>7, <1>8, <2>1
<1>13. \A i \in 1 .. Len(sent') :
         /\ Laid(job, map, MbsOf(coded, slice_nr, i - 1), coded, at,
                 FirstOf(job, sent'[i]), sent'[i].data, Content(job, sent'[i]))
         /\ job.cabac => sent'[i].data[Len(sent'[i].data)] = EndOfSlice(1)
  <2>1. SUFFICES ASSUME NEW i \in 1 .. Len(sent')
                 PROVE  /\ Laid(job, map, MbsOf(coded, slice_nr, i - 1), coded, at,
                                FirstOf(job, sent'[i]), sent'[i].data, Content(job, sent'[i]))
                        /\ job.cabac => sent'[i].data[Len(sent'[i].data)] = EndOfSlice(1)
    OBVIOUS
  <2>2. CASE i \in 1 .. Len(sent) BY <1>11, <2>2 DEF WrittenInv
  <2>3. CASE i = Len(sent) + 1
    <3>1. i - 1 = Len(sent) /\ sent'[i] = x BY <1>10, <1>11, <2>3
    <3>2. QED BY <1>6, <1>12, <3>1
  <2>4. QED BY <1>10, <1>11, <2>1, <2>2, <2>3
<1>14. \A m \in DOMAIN map :
         /\ slice_nr[m] \in Int /\ slice_nr[m] < Len(sent')
         /\ coded[m] # Nothing => slice_nr[m] >= 0
  <2>1. \A m \in DOMAIN map : /\ slice_nr[m] \in Int /\ slice_nr[m] <= Len(sent)
                              /\ coded[m] # Nothing => slice_nr[m] >= 0
    BY DEF WrittenInv
  <2>2. QED BY <1>10, <1>11, <2>1
<1>15. (DOMAIN at = DOMAIN map /\ DOMAIN slice_nr = DOMAIN map)' BY <1>2 DEF WrittenInv
<1>16. (\A m \in DOMAIN map :
       /\ slice_nr[m] \in Int /\ slice_nr[m] <= Len(sent)
       /\ coded[m] # Nothing => slice_nr[m] >= 0
       /\ pc \notin {"macroblock", "end of slice"} => slice_nr[m] < Len(sent)
       /\ pc = "macroblock" /\ slice_nr[m] = Len(sent) => coded[m] # Nothing)'
  <2>1. map' = map /\ slice_nr' = slice_nr /\ coded' = coded /\ pc' = "slices" BY <1>2
  <2>2. \A i \in Int : i < Len(sent') => i <= Len(sent') BY <1>10, <1>11
  <2>3. QED BY <1>14, <2>1, <2>2
<1>17. (\A i \in 1 .. Len(sent) :
       /\ Laid(job, map, MbsOf(coded, slice_nr, i - 1), coded, at,
               FirstOf(job, sent[i]), sent[i].data, Content(job, sent[i]))
       /\ job.cabac => sent[i].data[Len(sent[i].data)] = EndOfSlice(1))'
  BY <1>2, <1>13
<1>18. QED BY <1>2, <1>11, <1>15, <1>16, <1>17 DEF WrittenInv, S, SentSlices

(* One macroblock is coded or taken back; the slices before stay.           *)
LEMMA CodeKeepsWritten ==
  ASSUME RunsWithPairs, PlacesKept, MayOverflow \subseteq {"other"}, ProgressInv,
         NEW at, WrittenInv(at), CodeMacroblock
  PROVE  \E at2 : WrittenInv(at2)'
<1>1. PICK k \in Nat : Mbs(picture) = 0 .. k BY MbsAreNumbers DEF ProgressInv, MapInv
<1>2. /\ UNCHANGED <<job, map, sent>> /\ pc = "macroblock" /\ mb \in 0 .. k
      /\ DOMAIN map = 0 .. k /\ DOMAIN coded = 0 .. k
      /\ DOMAIN at = 0 .. k /\ DOMAIN slice_nr = 0 .. k
      /\ slice \in Slices /\ ~slice.recode /\ InLoop(slice, mb)
      /\ Open(job, map, coded, at, slice, mb)
      /\ MbsOf(coded, slice_nr, Len(sent)) = Reached(map, slice, mb)
      /\ Len(sent) \in Nat /\ job \in Jobs
  BY <1>1, LenProperties DEF CodeMacroblock, ProgressInv, MapInv, WrittenInv
<1>3. Walks(job, map) /\ WalkOn(mb)
  BY <1>1, <1>2, MapWalks, LoopWalks DEF ProgressInv
<1>4a. PICK type \in Types : \E tooBig \in TooBig(mb, type) :
        LET e == EndMacroblock(WriteMacroblock(StartMacroblock(slice, mb), mb, type), mb, tooBig)
        IN /\ slice' = e
           /\ slice_nr' = [slice_nr EXCEPT ![mb] = Len(sent)]
           /\ IF e.recode
              THEN /\ mb' = TakenBack(mb)
                   /\ UNCHANGED coded
                   /\ pc' = IF mb' = -1 THEN "error 300" ELSE "end of slice"
              ELSE /\ coded' = [coded EXCEPT ![mb] = type]
                   /\ IF Over(e, mb)
                      THEN mb' = mb /\ pc' = "end of slice"
                      ELSE mb' = NextMb /\ UNCHANGED pc
  BY DEF CodeMacroblock, Over
<1>4b. PICK tooBig \in TooBig(mb, type) :
        LET e == EndMacroblock(WriteMacroblock(StartMacroblock(slice, mb), mb, type), mb, tooBig)
        IN /\ slice' = e
           /\ slice_nr' = [slice_nr EXCEPT ![mb] = Len(sent)]
           /\ IF e.recode
              THEN /\ mb' = TakenBack(mb)
                   /\ UNCHANGED coded
                   /\ pc' = IF mb' = -1 THEN "error 300" ELSE "end of slice"
              ELSE /\ coded' = [coded EXCEPT ![mb] = type]
                   /\ IF Over(e, mb)
                      THEN mb' = mb /\ pc' = "end of slice"
                      ELSE mb' = NextMb /\ UNCHANGED pc
  BY <1>4a
<1>4c. PICK e : e = EndMacroblock(WriteMacroblock(StartMacroblock(slice, mb), mb, type), mb, tooBig)
  OBVIOUS
<1>4. /\ slice' = e
      /\ slice_nr' = [slice_nr EXCEPT ![mb] = Len(sent)]
      /\ IF e.recode
         THEN /\ mb' = TakenBack(mb)
              /\ UNCHANGED coded
              /\ pc' = IF mb' = -1 THEN "error 300" ELSE "end of slice"
         ELSE /\ coded' = [coded EXCEPT ![mb] = type]
              /\ IF Over(e, mb)
                 THEN mb' = mb /\ pc' = "end of slice"
                 ELSE mb' = NextMb /\ UNCHANGED pc
  BY <1>4b, <1>4c
<1>5. Coded(slice, e, mb, type)
  BY <1>2, <1>3, <1>4c, MacroblockCoded
<1>6. \A m \in 0 .. k : coded[m] # Nothing <=> Past(m)
  BY <1>1, <1>2 DEF ProgressInv, CodedMbs
<1>7. coded[mb] = Nothing BY <1>2, <1>6 DEF Past
<1>8. type \in {"coded", "skipped"} /\ type # Nothing BY DEF Types, Nothing
<1> DEFINE M == Reached(map, slice, mb)
<1>9. mb \notin M /\ \A m \in M : m \in 0 .. k BY <1>2 DEF Reached
<1>10. \A m \in 0 .. k :
         /\ slice_nr[m] \in Int /\ slice_nr[m] <= Len(sent)
         /\ coded[m] # Nothing => slice_nr[m] >= 0
         /\ slice_nr[m] = Len(sent) => coded[m] # Nothing
  BY <1>2 DEF WrittenInv
<1>11. \A m \in 0 .. k : slice_nr'[m] = IF m = mb THEN Len(sent) ELSE slice_nr[m]
  BY <1>2, <1>4
<1>12. /\ sent' \in Seq(SentSlices) /\ DOMAIN slice_nr' = 0 .. k
       /\ \A m \in 0 .. k : slice_nr'[m] \in Int /\ slice_nr'[m] <= Len(sent)
  <2>1. sent' \in Seq(SentSlices) BY <1>2 DEF WrittenInv, SentSlices
  <2>2. \A m \in 0 .. k : slice_nr'[m] \in Int /\ slice_nr'[m] <= Len(sent)
    BY <1>2, <1>10, <1>11
  <2>3. QED BY <1>2, <1>4, <2>1, <2>2
<1>13. \A i \in 1 .. Len(sent) : job.cabac => sent[i].data[Len(sent[i].data)] = EndOfSlice(1)
  BY DEF WrittenInv
(* The slices before this one stay as they are.                             *)
<1>14. ASSUME NEW at2, DOMAIN coded' = 0 .. k,
              \A m \in 0 .. k : m # mb => coded'[m] = coded[m],
              \A m \in 0 .. k : coded[m] # Nothing => at2[m] = at[m]
       PROVE  \A i \in 1 .. Len(sent) :
                Laid(job, map, MbsOf(coded', slice_nr', i - 1), coded', at2,
                     FirstOf(job, sent[i]), sent[i].data, Content(job, sent[i]))
  <2>1. SUFFICES ASSUME NEW i \in 1 .. Len(sent)
                 PROVE  Laid(job, map, MbsOf(coded', slice_nr', i - 1), coded', at2,
                             FirstOf(job, sent[i]), sent[i].data, Content(job, sent[i]))
    OBVIOUS
  <2>2. \A m \in MbsOf(coded, slice_nr, i - 1) :
          m \in 0 .. k /\ coded[m] # Nothing /\ m # mb
    BY <1>2, <1>7 DEF MbsOf
  <2>3. MbsOf(coded', slice_nr', i - 1) = MbsOf(coded, slice_nr, i - 1)
    <3>1. \A m \in 0 .. k : coded'[m] # Nothing /\ slice_nr'[m] = i - 1
                              <=> coded[m] # Nothing /\ slice_nr[m] = i - 1
      <4>1. Len(sent) # i - 1 BY <1>2
      <4>2. QED BY <1>7, <1>11, <1>14, <4>1
    <3>2. QED BY <1>2, <1>14, <3>1 DEF MbsOf
  <2>4. Laid(job, map, MbsOf(coded, slice_nr, i - 1), coded, at,
             FirstOf(job, sent[i]), sent[i].data, Content(job, sent[i]))
    BY DEF WrittenInv
  <2>5. \A m \in MbsOf(coded, slice_nr, i - 1) : at2[m] = at[m] /\ coded'[m] = coded[m]
    BY <1>14, <2>2
  <2>6. Laid(job, map, MbsOf(coded, slice_nr, i - 1), coded', at2,
             FirstOf(job, sent[i]), sent[i].data, Content(job, sent[i]))
    BY <2>4, <2>5, LaidKept
  <2>7. QED BY <2>3, <2>6
<1>15. CASE e.recode
  <2>1. e.data = WithRun(slice) /\ e.first = slice.first /\ e \in Slices
        /\ ~NewSlice(mb) /\ (Mbaff => Top(mb))
    BY <1>5, <1>15 DEF Coded
  <2>2. mb' = FmoGetPreviousMBNr(map, mb) /\ mb' # -1 /\ slice_nr[mb'] = Len(sent)
    BY <1>4, <1>15, <2>1 DEF NewSlice, TakenBack
  <2>3. mb' \in 0 .. k BY <1>2, <2>2, PreviousFound
  <2>4. pc' = "end of slice" /\ coded' = coded BY <1>4, <1>15, <2>2
  <2>5. mb' \in M
    <3>1. mb' \in MbsOf(coded, slice_nr, Len(sent)) BY <1>2, <1>10, <2>2, <2>3 DEF MbsOf
    <3>2. QED BY <1>2, <3>1
  <2>6. MbsOf(coded', slice_nr', Len(sent)) = M
    <3>1. \A m \in 0 .. k : coded[m] # Nothing =>
                              (slice_nr'[m] = Len(sent) <=> slice_nr[m] = Len(sent))
      BY <1>7, <1>11
    <3>2. MbsOf(coded, slice_nr', Len(sent)) = MbsOf(coded, slice_nr, Len(sent))
      BY <1>2, <3>1 DEF MbsOf
    <3>3. QED BY <1>2, <2>4, <3>2
  <2>7. Laid(job, map, M, coded, at, slice.first, WithRun(slice), Len(WithRun(slice)))
    <3>1. M # {} BY <2>5
    <3>2. InPairs(job) => Top(mb) BY <2>1 DEF InPairs, Mbaff, picture
    <3>3. ~HasRuns(job) => slice.cod_counter = 0 BY <1>2 DEF InLoop
    <3>4. QED BY <1>2, <1>3, <3>1, <3>2, <3>3, TakesBack
  <2>8. Laid(job, map, MbsOf(coded', slice_nr', Len(sent)), coded', at, e.first, e.data, Len(e.data))
    BY <2>1, <2>4, <2>6, <2>7
  <2>9. \A i \in 1 .. Len(sent) :
          Laid(job, map, MbsOf(coded', slice_nr', i - 1), coded', at,
               FirstOf(job, sent[i]), sent[i].data, Content(job, sent[i]))
    BY <1>2, <1>14, <2>4
  <2>10. \A m \in 0 .. k : coded[m] # Nothing => slice_nr'[m] >= 0
    BY <1>2, <1>10, <1>11
  <2>11. (\A m \in DOMAIN map :
       /\ slice_nr[m] \in Int /\ slice_nr[m] <= Len(sent)
       /\ coded[m] # Nothing => slice_nr[m] >= 0
       /\ pc \notin {"macroblock", "end of slice"} => slice_nr[m] < Len(sent)
       /\ pc = "macroblock" /\ slice_nr[m] = Len(sent) => coded[m] # Nothing)'
    BY <1>2, <1>12, <2>4, <2>10
  <2>12. (\A i \in 1 .. Len(sent) :
       /\ Laid(job, map, MbsOf(coded, slice_nr, i - 1), coded, at,
               FirstOf(job, sent[i]), sent[i].data, Content(job, sent[i]))
       /\ job.cabac => sent[i].data[Len(sent[i].data)] = EndOfSlice(1))'
    BY <1>2, <1>13, <2>9
  <2>13. (/\ slice \in Slices /\ mb \in MbsOf(coded, slice_nr, Len(sent))
          /\ Laid(job, map, MbsOf(coded, slice_nr, Len(sent)), coded, at,
                  slice.first, slice.data, Len(slice.data)))'
    BY <1>2, <1>4, <2>1, <2>5, <2>6, <2>8
  <2>14. (DOMAIN at = DOMAIN map /\ DOMAIN slice_nr = DOMAIN map)' BY <1>2, <1>12
  <2>15. WrittenInv(at)'
    BY <1>12, <2>4, <2>11, <2>12, <2>13, <2>14 DEF WrittenInv, SentSlices
  <2>16. QED BY <2>15
<1>16. CASE ~e.recode
  <2>1. /\ coded' = [coded EXCEPT ![mb] = type] /\ DOMAIN coded' = 0 .. k
        /\ coded'[mb] = type /\ \A m \in 0 .. k : m # mb => coded'[m] = coded[m]
    BY <1>2, <1>4, <1>16
  <2>2. e \in Slices /\ e.first = slice.first BY <1>5 DEF Coded
  <2>3. MbsOf(coded', slice_nr', Len(sent)) = M \cup {mb}
    <3>1. \A m \in 0 .. k : coded'[m] # Nothing /\ slice_nr'[m] = Len(sent)
                              <=> m = mb \/ (coded[m] # Nothing /\ slice_nr[m] = Len(sent))
      BY <1>8, <1>11, <2>1
    <3>2. MbsOf(coded', slice_nr', Len(sent)) = MbsOf(coded, slice_nr, Len(sent)) \cup {mb}
      BY <1>2, <2>1, <3>1 DEF MbsOf
    <3>3. QED BY <1>2, <3>2
  <2>4. \A o \in M : coded'[o] = coded[o] BY <1>9, <2>1
  <2>5. \A m \in 0 .. k : coded'[m] # Nothing => slice_nr'[m] >= 0
    BY <1>2, <1>10, <1>11, <2>1
  <2>6. \A m \in 0 .. k : slice_nr'[m] = Len(sent) => coded'[m] # Nothing
    BY <1>8, <1>10, <1>11, <2>1
  <2>7. InPairs(job) <=> Mbaff BY DEF InPairs, Mbaff, picture
  <2>8. BitBefore(slice, mb) = IF job.cabac /\ mb # slice.first /\ (InPairs(job) => Top(mb))
                               THEN <<EndOfSlice(0)>> ELSE <<>>
    BY <2>7 DEF BitBefore
  <2>9. CASE Over(e, mb)
    <3>1. mb' = mb /\ pc' = "end of slice" BY <1>4, <1>16, <2>9
    <3>2. Adds(job, slice, e.data, mb, type)
      <4>1. ~HasRuns(job) => slice.cod_counter = 0 BY <1>2 DEF InLoop
      <4>2. QED BY <1>5, <1>16, <2>8, <2>9, <4>1 DEF Coded, Adds
    <3>3. InPairs(job) => ~Top(mb) BY <2>7, <2>9 DEF Over, LooksAtEnd
    <3>4. Laid(job, map, M \cup {mb}, coded', at, slice.first, e.data, Len(e.data))
      <4>1. PICK types2 : types2 = coded' OBVIOUS
      <4>2. types2[mb] = type /\ \A o \in Reached(map, slice, mb) : types2[o] = coded[o]
        BY <2>1, <2>4, <4>1
      <4>3. /\ DOMAIN map = 0 .. k /\ Walks(job, map) /\ slice \in Slices /\ mb \in 0 .. k
            /\ Open(job, map, coded, at, slice, mb)
        BY <1>2, <1>3
      <4>4. Laid(job, map, Reached(map, slice, mb) \cup {mb}, types2, at, slice.first, e.data,
                 Len(e.data))
        BY <1>8, <3>2, <3>3, <4>2, <4>3, Closes
      <4>5. QED BY <4>1, <4>4
    <3>5. \A i \in 1 .. Len(sent) :
            Laid(job, map, MbsOf(coded', slice_nr', i - 1), coded', at,
                 FirstOf(job, sent[i]), sent[i].data, Content(job, sent[i]))
      BY <1>14, <2>1
    <3>6. (\A m \in DOMAIN map :
         /\ slice_nr[m] \in Int /\ slice_nr[m] <= Len(sent)
         /\ coded[m] # Nothing => slice_nr[m] >= 0
         /\ pc \notin {"macroblock", "end of slice"} => slice_nr[m] < Len(sent)
         /\ pc = "macroblock" /\ slice_nr[m] = Len(sent) => coded[m] # Nothing)'
      BY <1>2, <1>12, <2>5, <3>1
    <3>7. (\A i \in 1 .. Len(sent) :
         /\ Laid(job, map, MbsOf(coded, slice_nr, i - 1), coded, at,
                 FirstOf(job, sent[i]), sent[i].data, Content(job, sent[i]))
         /\ job.cabac => sent[i].data[Len(sent[i].data)] = EndOfSlice(1))'
      BY <1>2, <1>13, <3>5
    <3>8. (/\ slice \in Slices /\ mb \in MbsOf(coded, slice_nr, Len(sent))
           /\ Laid(job, map, MbsOf(coded, slice_nr, Len(sent)), coded, at,
                   slice.first, slice.data, Len(slice.data)))'
      BY <1>2, <1>4, <2>2, <2>3, <3>1, <3>4
    <3>9. (DOMAIN at = DOMAIN map /\ DOMAIN slice_nr = DOMAIN map)' BY <1>2, <1>12
    <3>10. WrittenInv(at)'
      BY <1>12, <3>1, <3>6, <3>7, <3>8, <3>9 DEF WrittenInv, SentSlices
    <3>11. QED BY <3>10
  <2>10. CASE ~Over(e, mb)
    <3> DEFINE n == FmoGetNextMBNr(map, mb)
    <3>1. mb' = n /\ pc' = "macroblock" BY <1>2, <1>4, <1>16, <2>10 DEF NextMb
    <3>2. InLoop(e, n) BY <1>5, <1>16, <2>10 DEF Coded, NextMb
    <3>3. n # -1
      <4>1. CASE Mbaff /\ Top(mb) BY <1>3, <4>1 DEF WalkOn, NextMb
      <4>2. CASE ~ (Mbaff /\ Top(mb)) BY <2>10, <4>2 DEF Over, LooksAtEnd, NextMb
      <4>3. QED BY <4>1, <4>2
    <3>4. n \in 0 .. k /\ map[n] = map[mb] /\ n > mb BY <1>2, <1>3, <3>3 DEF Walks
    <3>5. coded[n] = Nothing BY <1>2, <1>6, <3>4 DEF Past
    <3>6. PICK at2 : at2 = [at EXCEPT ![n] = NextPlace(job, e, n)] OBVIOUS
    <3>7. /\ DOMAIN at2 = 0 .. k /\ at2[n] = NextPlace(job, e, n)
          /\ \A m \in 0 .. k : m # n => at2[m] = at[m]
      BY <1>2, <3>4, <3>6
    <3>8. \A o \in M \cup {mb} : at2[o] = at[o]
      <4>1. \A o \in M : o < mb BY DEF Reached
      <4>2. \A o \in M \cup {mb} : o \in 0 .. k /\ o # n BY <1>2, <1>9, <3>4, <4>1
      <4>3. QED BY <3>7, <4>2
    <3>9. /\ Adds(job, slice, WithRun(e), mb, type)
          /\ IF HasRuns(job) /\ type = "skipped"
             THEN e.data = slice.data /\ e.cod_counter = slice.cod_counter + 1
             ELSE e.cod_counter = 0
      <4>1. ~HasRuns(job) => slice.cod_counter = 0 BY <1>2 DEF InLoop
      <4>2. slice.cod_counter \in Nat BY <1>2 DEF Slices
      <4>3. CASE HasRuns(job) /\ type = "skipped"
        <5>1. e.data = slice.data /\ e.cod_counter = slice.cod_counter + 1
          BY <1>5, <1>16, <2>10, <4>3 DEF Coded
        <5>2. WithRun(e) = slice.data \o <<Run(slice.cod_counter + 1)>>
          <6>1. e.cod_counter > 0 BY <4>2, <5>1
          <6>2. QED BY <5>1, <6>1 DEF WithRun, Pending
        <5>3. QED BY <4>3, <5>1, <5>2 DEF Adds
      <4>4. CASE ~ (HasRuns(job) /\ type = "skipped")
        <5>1. e.cod_counter = 0 BY <1>5, <1>8, <1>16, <4>4 DEF Coded
        <5>2. WithRun(e) = e.data BY <2>2, <5>1, RunElements
        <5>3. Adds(job, slice, e.data, mb, type)
          BY <1>5, <1>8, <1>16, <2>8, <4>1, <4>4 DEF Coded, Adds
        <5>4. QED BY <4>4, <5>1, <5>2, <5>3
      <4>5. QED BY <4>3, <4>4
    <3> HIDE DEF n
    <3>10. Open(job, map, coded', at2, e, n) /\ Reached(map, e, n) = M \cup {mb}
      <4>1. PICK types2 : types2 = coded' OBVIOUS
      <4>2. types2[mb] = type /\ \A o \in Reached(map, slice, mb) : types2[o] = coded[o]
        BY <2>1, <2>4, <4>1
      <4>3. /\ DOMAIN map = 0 .. k /\ Walks(job, map) /\ slice \in Slices /\ mb \in 0 .. k
            /\ Open(job, map, coded, at, slice, mb)
        BY <1>2, <1>3
      <4>4. /\ at2[FmoGetNextMBNr(map, mb)] = NextPlace(job, e, FmoGetNextMBNr(map, mb))
            /\ FmoGetNextMBNr(map, mb) # -1
            /\ \A o \in Reached(map, slice, mb) \cup {mb} : at2[o] = at[o]
        BY <3>3, <3>7, <3>8 DEF n
      <4>5. /\ Open(job, map, types2, at2, e, FmoGetNextMBNr(map, mb))
            /\ Reached(map, e, FmoGetNextMBNr(map, mb)) = Reached(map, slice, mb) \cup {mb}
        BY <1>8, <2>2, <3>9, <4>2, <4>3, <4>4, GoesOn, SMTT(60)
      <4>6. QED BY <4>1, <4>5 DEF n
    <3>11. \A i \in 1 .. Len(sent) :
             Laid(job, map, MbsOf(coded', slice_nr', i - 1), coded', at2,
                  FirstOf(job, sent[i]), sent[i].data, Content(job, sent[i]))
      <4>1. \A m \in 0 .. k : coded[m] # Nothing => at2[m] = at[m] BY <3>5, <3>7
      <4>2. QED BY <1>14, <2>1, <4>1
    <3>12. (\A m \in DOMAIN map :
         /\ slice_nr[m] \in Int /\ slice_nr[m] <= Len(sent)
         /\ coded[m] # Nothing => slice_nr[m] >= 0
         /\ pc \notin {"macroblock", "end of slice"} => slice_nr[m] < Len(sent)
         /\ pc = "macroblock" /\ slice_nr[m] = Len(sent) => coded[m] # Nothing)'
      BY <1>2, <1>12, <2>5, <2>6, <3>1
    <3>13. (\A i \in 1 .. Len(sent) :
         /\ Laid(job, map, MbsOf(coded, slice_nr, i - 1), coded, at2,
                 FirstOf(job, sent[i]), sent[i].data, Content(job, sent[i]))
         /\ job.cabac => sent[i].data[Len(sent[i].data)] = EndOfSlice(1))'
      BY <1>2, <1>13, <3>11
    <3>14. InLoop(slice, mb)'
      BY <1>2, <1>4, <3>1, <3>2 DEF InLoop, Mbaff, picture
    <3>15. (/\ slice \in Slices /\ Open(job, map, coded, at2, slice, mb)
            /\ MbsOf(coded, slice_nr, Len(sent)) = Reached(map, slice, mb))'
      BY <1>2, <1>4, <2>2, <2>3, <3>1, <3>10
    <3>16. (DOMAIN at2 = DOMAIN map /\ DOMAIN slice_nr = DOMAIN map)'
      BY <1>2, <1>12, <3>7
    <3>17. WrittenInv(at2)'
      BY <1>12, <3>1, <3>12, <3>13, <3>14, <3>15, <3>16 DEF WrittenInv, SentSlices
    <3>18. QED BY <3>17
  <2>11. QED BY <2>9, <2>10
<1>17. QED BY <1>15, <1>16

-----------------------------------------------------------------------------
(* The decoder reads what is there: first one macroblock of a slice, then   *)
(* an invariant of the whole.                                               *)

Readers == [i : Int, mb : Int, pos : Int, cod_counter : Int, num_dec_mb : Int,
            asserts : BOOLEAN, end : BOOLEAN]

(* The decoder before a macroblock that is at a in the data d, and behind.  *)
Before(d, a, r) ==
  IF a[2] = 0 THEN r.pos = a[1] /\ r.cod_counter = -1
  ELSE r.pos = a[1] + 1 /\ r.cod_counter = d[a[1]].n - a[2]

Passed(d, a, r) ==
  IF HasRuns(job) /\ a[2] < d[a[1]].n
  THEN r.pos = a[1] + 1 /\ r.cod_counter = d[a[1]].n - a[2] - 1
  ELSE r.pos = a[1] + (IF HasRuns(job) THEN 2 ELSE 1) /\ r.cod_counter = -1

(* read_one_macroblock reads the macroblock that is at its place.           *)
LEMMA Reads ==
  ASSUME data \in Seq(Elements), NEW len \in Int, len <= Len(data), NEW a, NEW type,
         Stands(job, data, len, type, a), NEW r \in Readers, Before(data, a, r)
  PROVE  LET read == ReadMacroblock(r)
             b == read.reader
         IN /\ read.type = type
            /\ b \in Readers /\ b.i = r.i /\ b.mb = r.mb /\ b.asserts = r.asserts /\ b.end = r.end
            /\ Passed(data, a, b)
<1> DEFINE read == ReadMacroblock(r)
           b == read.reader
<1> SUFFICES /\ read.type = type
             /\ b \in Readers /\ b.i = r.i /\ b.mb = r.mb /\ b.asserts = r.asserts /\ b.end = r.end
             /\ Passed(data, a, b)
  OBVIOUS
<1>1. Len(data) \in Nat /\ DOMAIN data = 1 .. Len(data) BY LenProperties
<1>2. \A p \in 1 .. len : p \in Int /\ Element(p) = data[p] /\ Element(p) \in Elements
  <2>1. SUFFICES ASSUME NEW p \in 1 .. len PROVE p \in 1 .. Len(data) /\ Element(p) = data[p]
    BY ElementOfSeq
  <2>2. p \in 1 .. Len(data) BY <1>1
  <2>3. QED BY <1>1, <2>2 DEF Element
<1>3. \A t \in {"coded", "skipped"} : \A p \in 1 .. len : data[p] = Mb(t) => TypeAt(p) = t
  BY <1>2 DEF TypeAt, Mb
<1>4. CASE ~HasRuns(job)
  <2>1. a[1] \in 1 .. len /\ a[2] = 0 /\ type \in {"coded", "skipped"} /\ data[a[1]] = Mb(type)
    BY <1>4 DEF Stands
  <2>2. r.pos = a[1] /\ r.cod_counter = -1 BY <2>1 DEF Before
  <2>3. read = [type |-> TypeAt(r.pos), reader |-> [r EXCEPT !.pos = r.pos + 1]]
    BY <1>4 DEF ReadMacroblock, HasRuns, Readers
  <2>4. b = [r EXCEPT !.pos = r.pos + 1] /\ read.type = type BY <1>3, <2>1, <2>2, <2>3
  <2> HIDE DEF read, b
  <2>5. /\ b \in Readers /\ b.i = r.i /\ b.mb = r.mb /\ b.asserts = r.asserts /\ b.end = r.end
        /\ b.pos = r.pos + 1 /\ b.cod_counter = r.cod_counter
    BY <2>4 DEF Readers
  <2>6. QED BY <1>4, <2>2, <2>4, <2>5 DEF Passed
<1>5. CASE HasRuns(job)
  <2> DEFINE n == data[a[1]].n
             cc == IF r.cod_counter = -1 THEN n ELSE r.cod_counter
             p == a[1] + 1
  <2>1. /\ a[1] \in 1 .. len /\ data[a[1]] = Run(n) /\ a[2] \in 0 .. n
        /\ IF a[2] < n THEN type = "skipped"
           ELSE type = "coded" /\ a[1] + 1 \in 1 .. len /\ data[a[1] + 1] = Mb("coded")
    BY <1>5 DEF Stands
  <2>2. Element(a[1]) = data[a[1]] /\ Element(a[1]).what = "run" /\ n \in Nat /\ a[1] \in Int
        /\ Element(a[1]).n = n
    BY <1>2, <2>1 DEF Run, Elements
  <2> HIDE DEF n
  <2>3. a[2] \in Nat /\ a[2] <= n BY <2>1, <2>2
  <2>4. /\ r.cod_counter = -1 => r.pos = a[1] /\ cc = n - a[2]
        /\ r.cod_counter # -1 => r.pos = p /\ cc = n - a[2]
    <3>1. CASE a[2] = 0 BY <2>2, <3>1 DEF Before
    <3>2. CASE a[2] # 0
      <4>1. r.pos = p /\ r.cod_counter = n - a[2] BY <3>2 DEF Before, n
      <4>2. QED BY <2>2, <2>3, <3>2, <4>1
    <3>3. QED BY <3>1, <3>2
  <2>5. read = IF cc = 0
               THEN [type |-> TypeAt(p), reader |-> [r EXCEPT !.pos = p + 1, !.cod_counter = -1]]
               ELSE [type |-> "skipped", reader |-> [r EXCEPT !.pos = p, !.cod_counter = cc - 1]]
    <3>1. CASE r.cod_counter = -1
      <4>1. r.pos = a[1] /\ Element(r.pos).what = "run" /\ Element(r.pos).n = n
        BY <2>2, <2>4, <3>1
      <4>2. QED BY <1>5, <3>1, <4>1 DEF ReadMacroblock, HasRuns
    <3>2. CASE r.cod_counter # -1
      <4>1. r.pos = p BY <2>4, <3>2
      <4>2. QED BY <1>5, <3>2, <4>1 DEF ReadMacroblock, HasRuns
    <3>3. QED BY <3>1, <3>2
  <2>6. cc = n - a[2] BY <2>4
  <2> HIDE DEF cc
  <2>7. CASE a[2] < n
    <3>1. cc # 0 /\ cc \in Int BY <2>2, <2>3, <2>6, <2>7
    <3>2. read.type = "skipped" /\ b = [r EXCEPT !.pos = p, !.cod_counter = cc - 1]
      BY <2>5, <3>1
    <3> HIDE DEF read, b
    <3>3. p \in Int /\ cc - 1 \in Int BY <2>2, <3>1
    <3> HIDE DEF p
    <3>3a. PICK c : c = cc - 1 OBVIOUS
    <3>4. /\ b \in Readers /\ b.i = r.i /\ b.mb = r.mb /\ b.asserts = r.asserts /\ b.end = r.end
          /\ b.pos = p /\ b.cod_counter = cc - 1
      <4>1. b = [r EXCEPT !.pos = p, !.cod_counter = c] /\ c \in Int BY <3>2, <3>3, <3>3a
      <4>2. QED BY <3>3, <3>3a, <4>1 DEF Readers
    <3>5. QED BY <1>5, <2>1, <2>6, <2>7, <3>2, <3>4 DEF Passed, n, p
  <2>8. CASE ~ (a[2] < n)
    <3>1. cc = 0 /\ p + 1 \in Int /\ p + 1 = a[1] + 2 BY <2>2, <2>3, <2>6, <2>8
    <3>2. read.type = TypeAt(p) /\ b = [r EXCEPT !.pos = p + 1, !.cod_counter = -1]
      BY <2>5, <3>1
    <3>3. TypeAt(p) = type BY <1>3, <2>1, <2>8
    <3> HIDE DEF read, b
    <3>3a. PICK q : q = p + 1 OBVIOUS
    <3>4. /\ b \in Readers /\ b.i = r.i /\ b.mb = r.mb /\ b.asserts = r.asserts /\ b.end = r.end
          /\ b.pos = p + 1 /\ b.cod_counter = -1
      <4>1. PICK c \in Int : c = -1 OBVIOUS
      <4>2. b = [r EXCEPT !.pos = q, !.cod_counter = c] /\ q \in Int BY <3>1, <3>2, <3>3a, <4>1
      <4>3. /\ b \in Readers /\ b.i = r.i /\ b.mb = r.mb /\ b.asserts = r.asserts /\ b.end = r.end
            /\ b.pos = q /\ b.cod_counter = c
        BY <4>2 DEF Readers
      <4>4. QED BY <3>3a, <4>1, <4>3
    <3>5. QED BY <1>5, <2>8, <3>1, <3>2, <3>3, <3>4 DEF Passed, n
  <2>9. QED BY <2>7, <2>8
<1>6. QED BY <1>4, <1>5

(* exit_macroblock comes to the next macroblock of the slice, or ends it.   *)
LEMMA Exits ==
  ASSUME job \in Jobs, NEW k \in Nat, Mbs(picture) = 0 .. k, DOMAIN map = 0 .. k, Walks(job, map),
         NEW M \in SUBSET (0 .. k), NEW m \in M, NEW at, NEW first, NEW types,
         data \in Seq(Elements), NEW len \in Int,
         len = IF job.cabac THEN Len(data) - 1 ELSE Len(data),
         job.cabac => data[Len(data)] = EndOfSlice(1),
         Laid(job, map, M, types, at, first, data, len),
         NEW r \in Readers, r.mb = m, r.asserts, ~r.end, Passed(data, at[m], r)
  PROVE  LET e == ExitMacroblock(r)
             n == FmoGetNextMBNr(map, m)
         IN /\ e \in Readers /\ e.i = r.i /\ e.asserts
            /\ IF n \in M
               THEN ~e.end /\ e.mb = n /\ Before(data, at[n], e)
               ELSE e.end /\ e.pos \in {len + 1, Len(data) + 1}
<1> DEFINE n == FmoGetNextMBNr(map, m)
           e == ExitMacroblock(r)
           bit == ReadsEndOfSlice(m)
           follows == IF job.cabac THEN bit /\ Element(r.pos).n = 1
                      ELSE r.pos > Len(data)
           p == IF bit THEN r.pos + 1 ELSE r.pos
           last == m = PicSizeInMbs(picture) - 1
           ends == follows /\ (job.intra \/ job.cabac \/ r.cod_counter <= 0)
           num == r.num_dec_mb + 1
           a == at[m]
<1> SUFFICES /\ e \in Readers /\ e.i = r.i /\ e.asserts
             /\ IF n \in M
                THEN ~e.end /\ e.mb = n /\ Before(data, at[n], e)
                ELSE e.end /\ e.pos \in {len + 1, Len(data) + 1}
  OBVIOUS
<1>1. Len(data) \in Int /\ Len(data) >= 0 /\ len <= Len(data)
  <2>1. Len(data) \in Nat BY LenProperties
  <2>2. QED BY <2>1
<1>1e. \A q \in 1 .. Len(data) : Element(q) = data[q]
  BY LenProperties DEF Element
<1>0. \A q \in 1 .. len : q \in 1 .. Len(data) /\ q \in Int
  BY <1>1
<1>2. /\ Stands(job, data, len, types[m], a)
      /\ IF n \in M
         THEN at[n] = After(job, data, m, a) /\ BitFollows(job, data, len, m, a)
         ELSE /\ Ends(job, data, len, a) /\ (InPairs(job) => ~Top(m))
              /\ \A o \in M : o <= m
  BY DEF Laid
<1>3. n \in M => Stands(job, data, len, types[n], at[n]) BY DEF Laid
<1>4. (bit <=> ReadsBit(job, m)) /\ (bit => job.cabac)
  BY DEF ReadsBit, ReadsEndOfSlice, InPairs, Mbaff, picture
<1>5. PicSizeInMbs(picture) - 1 = k
  <2>1. PicSizeInMbs(picture) \in Nat \ {0}
    BY SizesAreNatural, JobsAssumption DEF picture
  <2>2. PICK q \in Nat \ {0} : q = PicSizeInMbs(picture) BY <2>1
  <2>3. 0 .. (q - 1) = 0 .. k BY <2>2 DEF Mbs
  <2>4. q - 1 \in 0 .. k /\ k \in 0 .. (q - 1) BY <2>3
  <2>5. QED BY <2>2, <2>4
<1>6. n = -1 \/ (n \in 0 .. k /\ n > m) BY DEF Walks
<1>7. m \in 0 .. k OBVIOUS
<1>8. a[1] \in 1 .. len /\ (HasRuns(job) => data[a[1]].n \in Nat /\ a[2] \in 0 .. data[a[1]].n)
  <2>1. a[1] \in 1 .. len BY <1>2 DEF Stands
  <2>2. a[1] \in 1 .. Len(data) BY <1>0, <2>1
  <2>3. data[a[1]] \in Elements BY <2>2, ElementOfSeq
  <2>4. QED BY <1>2, <2>1, <2>3 DEF Stands, Elements
<1>9. r.pos \in Int /\ r.cod_counter \in Int /\ num \in Int /\ p \in Int BY DEF Readers
<1>10. e = IF last THEN [r EXCEPT !.num_dec_mb = num, !.end = TRUE]
           ELSE IF n = -1
             THEN [r EXCEPT !.num_dec_mb = num, !.mb = n, !.pos = p, !.asserts = follows,
                            !.end = TRUE]
           ELSE [r EXCEPT !.num_dec_mb = num, !.mb = n, !.pos = p, !.end = ends]
  BY DEF ExitMacroblock, Readers
<1>11. follows \in BOOLEAN /\ ends \in BOOLEAN
  <2>1. bit \in BOOLEAN BY DEF ReadsEndOfSlice
  <2> DEFINE one == Element(r.pos).n = 1
             behind == r.pos > Len(data)
  <2>2. one \in BOOLEAN /\ behind \in BOOLEAN OBVIOUS
  <2>3. follows = IF job.cabac THEN bit /\ one ELSE behind OBVIOUS
  <2> HIDE DEF one, behind, bit, follows
  <2>4. follows \in BOOLEAN BY <2>1, <2>2, <2>3
  <2>5. QED BY <2>4
<1>12. n \in M => ~last /\ n # -1 /\ n \in Int BY <1>5, <1>6, <1>7
<1>13. ASSUME n \in M
       PROVE  ~ends /\ at[n] = After(job, data, m, a) /\ n # -1 /\ ~last
              /\ (at[n][2] = 0 => p = at[n][1] /\ r.cod_counter = -1)
              /\ (at[n][2] # 0 => p = at[n][1] + 1 /\ r.cod_counter = data[at[n][1]].n - at[n][2])
  <2>1. at[n] = After(job, data, m, a) /\ BitFollows(job, data, len, m, a) BY <1>2, <1>13
  <2>2. Stands(job, data, len, types[n], at[n]) BY <1>3, <1>13
  <2>3. n # -1 /\ ~last BY <1>12, <1>13
  <2>4. CASE HasRuns(job) /\ a[2] < data[a[1]].n
    <3>1. ~bit /\ ~job.cabac /\ ~job.intra BY <1>4, <2>4 DEF HasRuns
    <3>2. r.pos = a[1] + 1 /\ r.cod_counter = data[a[1]].n - a[2] - 1
      BY <2>4 DEF Passed
    <3>3. at[n] = <<a[1], a[2] + 1>> BY <2>1, <2>4 DEF After
    <3>4. at[n][1] = a[1] /\ at[n][2] = a[2] + 1 BY <3>3
    <3>5. ~ends
      <4>1. SUFFICES ASSUME r.pos > Len(data), r.cod_counter <= 0 PROVE FALSE
        BY <3>1
      <4>2. a[1] = len /\ at[n][2] = data[at[n][1]].n
        BY <1>1, <1>8, <2>4, <3>1, <3>2, <3>4, <4>1
      <4>3. a[1] + 1 \in 1 .. len BY <2>2, <2>4, <3>4, <4>2 DEF Stands
      <4>4. QED BY <4>2, <4>3
    <3>6. p = at[n][1] + 1 /\ at[n][2] # 0 BY <1>8, <2>4, <3>1, <3>2, <3>4
    <3>7. r.cod_counter = data[at[n][1]].n - at[n][2]
      <4>1. PICK c : c = data[a[1]].n OBVIOUS
      <4>2. c \in Int /\ a[2] \in Int BY <1>8, <2>4, <4>1
      <4>3. r.cod_counter = c - a[2] - 1 BY <3>2, <4>1
      <4>4. r.cod_counter = c - (a[2] + 1) BY <4>2, <4>3
      <4>5. QED BY <3>4, <4>1, <4>4
    <3>8. QED BY <2>1, <2>3, <3>5, <3>6, <3>7
  <2>5. CASE HasRuns(job) /\ ~ (a[2] < data[a[1]].n)
    <3>1. ~bit /\ ~job.cabac BY <1>4, <2>5 DEF HasRuns
    <3>2. r.pos = a[1] + 2 /\ r.cod_counter = -1 BY <2>5 DEF Passed
    <3>3. at[n] = <<a[1] + 2, 0>> BY <2>1, <2>5 DEF After
    <3>4. at[n][1] = a[1] + 2 /\ at[n][2] = 0 BY <3>3
    <3>5. at[n][1] \in 1 .. len BY <2>2, <2>5 DEF Stands
    <3>6. ~ends BY <1>1, <3>1, <3>2, <3>4, <3>5
    <3>7. QED BY <2>1, <2>3, <3>1, <3>2, <3>4, <3>6
  <2>6. CASE ~HasRuns(job)
    <3>1. r.pos = a[1] + 1 /\ r.cod_counter = -1 BY <2>6 DEF Passed
    <3>2. at[n] = <<a[1] + (IF bit THEN 2 ELSE 1), 0>> BY <1>4, <2>1, <2>6 DEF After
    <3>3. at[n][1] = a[1] + (IF bit THEN 2 ELSE 1) /\ at[n][2] = 0 BY <3>2
    <3>4. at[n][1] \in 1 .. len BY <2>2, <2>6 DEF Stands
    <3>5. p = at[n][1]
      <4> HIDE DEF bit
      <4>1. CASE bit BY <1>8, <3>1, <3>3, <4>1
      <4>2. CASE ~bit BY <1>8, <3>1, <3>3, <4>2
      <4>3. QED BY <4>1, <4>2
    <3>6. ~follows
      <4>1. CASE bit
        <5>1. a[1] + 1 \in 1 .. len /\ data[a[1] + 1] = EndOfSlice(0)
          BY <1>4, <2>1, <4>1 DEF BitFollows
        <5>2. Element(r.pos) = EndOfSlice(0) BY <1>0, <1>1e, <3>1, <5>1
        <5>3. Element(r.pos).n = 0 BY <5>2 DEF EndOfSlice
        <5>4. QED BY <1>4, <4>1, <5>3
      <4>2. CASE ~bit
        <5>1. at[n][1] = r.pos BY <3>5, <4>2
        <5>2. r.pos \in 1 .. Len(data) BY <1>0, <3>4, <5>1
        <5>2a. ~ (r.pos > Len(data)) BY <1>1, <5>2
        <5>3. QED BY <4>2, <5>2a
      <4>3. QED BY <4>1, <4>2
    <3>7. QED BY <2>1, <2>3, <3>1, <3>3, <3>5, <3>6
  <2>7. QED BY <2>4, <2>5, <2>6
<1>14. ASSUME n \notin M
       PROVE  /\ r.pos = len + 1 /\ follows /\ ends /\ p \in {len + 1, Len(data) + 1}
  <2>1. Ends(job, data, len, a) /\ (InPairs(job) => ~Top(m)) BY <1>2, <1>14
  <2>2. r.pos = len + 1 /\ (HasRuns(job) => r.cod_counter <= 0)
    <3>1. CASE HasRuns(job) /\ a[2] < data[a[1]].n
      <4>1. PICK c : c = data[a[1]].n OBVIOUS
      <4>2. a[1] = len /\ a[2] + 1 = c /\ r.pos = a[1] + 1 /\ r.cod_counter = c - a[2] - 1
        BY <2>1, <3>1, <4>1 DEF Ends, Passed
      <4>3. a[2] \in Int /\ c \in Int BY <1>8, <3>1, <4>1
      <4>4. QED BY <4>2, <4>3
    <3>2. CASE HasRuns(job) /\ ~ (a[2] < data[a[1]].n)
      <4>1. a[1] + 1 = len /\ r.pos = a[1] + 2 /\ r.cod_counter = -1
        BY <2>1, <3>2 DEF Ends, Passed
      <4>2. QED BY <1>8, <4>1
    <3>3. CASE ~HasRuns(job) BY <1>8, <2>1, <3>3 DEF Ends, Passed
    <3>4. QED BY <3>1, <3>2, <3>3
  <2>3. CASE job.cabac
    <3>1. bit BY <1>4, <2>1, <2>3 DEF ReadsBit
    <3>2. len + 1 = Len(data) /\ Len(data) \in 1 .. Len(data) BY <1>1, <1>8, <2>3
    <3>3. Element(r.pos) = EndOfSlice(1) BY <1>1e, <2>2, <2>3, <3>2
    <3>4. Element(r.pos).n = 1 BY <3>3 DEF EndOfSlice
    <3>5. QED BY <2>2, <2>3, <3>1, <3>2, <3>4
  <2>4. CASE ~job.cabac
    <3>1. ~bit BY <1>4, <2>4
    <3>2. r.pos > Len(data) BY <1>1, <2>2, <2>4
    <3>3. job.intra \/ r.cod_counter <= 0 BY <2>2, <2>4 DEF HasRuns
    <3>4. QED BY <2>2, <2>4, <3>1, <3>2, <3>3
  <2>5. QED BY <2>3, <2>4
<1>15. CASE n \in M
  <2>1. ~ends /\ n # -1 /\ ~last
        /\ (at[n][2] = 0 => p = at[n][1] /\ r.cod_counter = -1)
        /\ (at[n][2] # 0 => p = at[n][1] + 1 /\ r.cod_counter = data[at[n][1]].n - at[n][2])
    BY <1>13, <1>15
  <2>2. e = [r EXCEPT !.num_dec_mb = num, !.mb = n, !.pos = p, !.end = FALSE]
    BY <1>10, <1>11, <2>1
  <2>3. n \in Int BY <1>12, <1>15
  <2> HIDE DEF e, p, num, n, ends, last
  <2>4. /\ e \in Readers /\ e.i = r.i /\ e.asserts = r.asserts /\ e.end = FALSE
        /\ e.mb = n /\ e.pos = p /\ e.cod_counter = r.cod_counter
    BY <1>9, <2>2, <2>3 DEF Readers
  <2>5. Before(data, at[n], e) BY <2>1, <2>4 DEF Before
  <2>6. QED BY <1>15, <2>4, <2>5
<1>16. CASE n \notin M
  <2>1. r.pos = len + 1 /\ follows = TRUE /\ ends = TRUE /\ p \in {len + 1, Len(data) + 1}
    BY <1>11, <1>14, <1>16
  <2>2. n \in Int BY <1>6
  <2>3. \/ e = [r EXCEPT !.num_dec_mb = num, !.end = TRUE]
        \/ e = [r EXCEPT !.num_dec_mb = num, !.mb = n, !.pos = p, !.asserts = TRUE, !.end = TRUE]
        \/ e = [r EXCEPT !.num_dec_mb = num, !.mb = n, !.pos = p, !.end = TRUE]
    BY <1>10, <2>1
  <2> HIDE DEF e, p, num, n, ends, last, follows
  <2>4. r.asserts = TRUE BY DEF Readers
  <2>5. /\ e \in Readers /\ e.i = r.i /\ e.asserts = TRUE /\ e.end = TRUE
        /\ e.pos \in {r.pos, p}
    <3>1. CASE e = [r EXCEPT !.num_dec_mb = num, !.end = TRUE]
      BY <1>9, <2>4, <3>1 DEF Readers
    <3>2. CASE e = [r EXCEPT !.num_dec_mb = num, !.mb = n, !.pos = p, !.asserts = TRUE,
                             !.end = TRUE]
      BY <1>9, <2>2, <3>2 DEF Readers
    <3>3. CASE e = [r EXCEPT !.num_dec_mb = num, !.mb = n, !.pos = p, !.end = TRUE]
      BY <1>9, <2>2, <2>4, <3>3 DEF Readers
    <3>4. QED BY <2>3, <3>1, <3>2, <3>3
  <2>6. QED BY <1>16, <2>1, <2>5
<1>17. QED BY <1>15, <1>16

(* What the decoder has read.                                               *)
Read(m) ==
  \/ slice_nr[m] < reader.i - 1
  \/ slice_nr[m] = reader.i - 1 /\ (reader.end \/ m < reader.mb)

ReaderInv(at) ==
  /\ coded = [m \in DOMAIN map |-> coded[m]]
  /\ decoded = [m \in DOMAIN map |-> decoded[m]]
  /\ pc \notin {"decode", "done"} =>
       reader = NoReader /\ \A m \in DOMAIN map : decoded[m] = Nothing
  /\ pc \in {"decode", "done"} =>
       /\ \A m \in DOMAIN map :
            coded[m] # Nothing /\ decoded[m] = IF Read(m) THEN coded[m] ELSE Nothing
       /\ reader \in Readers /\ reader.asserts /\ reader.i \in 1 .. Len(sent)
       /\ IF reader.end
          THEN reader.pos \in {Content(job, sent[reader.i]) + 1, Len(data) + 1}
          ELSE /\ reader.mb \in MbsOf(coded, slice_nr, reader.i - 1)
               /\ Before(data, at[reader.mb], reader)
  /\ pc = "done" => reader.end /\ reader.i = Len(sent)

LEMMA InitReader ==
  ASSUME Init, MapInv, NEW at
  PROVE  ReaderInv(at)
<1>1. DOMAIN map = Mbs(picture) BY DEF MapInv
<1>2. /\ pc = "slices" /\ reader = NoReader
      /\ coded = [m \in Mbs(picture) |-> Nothing]
      /\ decoded = [m \in Mbs(picture) |-> Nothing]
  BY DEF Init, picture
<1>3. QED BY <1>1, <1>2 DEF ReaderInv

(* The decoder changes nothing the encoder has written, and the encoder     *)
(* nothing the decoder has read.                                            *)
LEMMA WrittenKept ==
  ASSUME NEW at, WrittenInv(at), UNCHANGED <<job, map, slice_nr, coded, sent>>,
         \/ pc' \notin {"macroblock", "end of slice"} /\ pc \notin {"macroblock", "end of slice"}
         \/ UNCHANGED <<pc, slice, mb>>
  PROVE  WrittenInv(at)'
<1>1. /\ (DOMAIN at = DOMAIN map /\ DOMAIN slice_nr = DOMAIN map)'
      /\ (sent \in Seq([first_mb_in_slice : Int, data : Seq(Elements)]))'
  BY DEF WrittenInv
<1>2. (\A m \in DOMAIN map :
       /\ slice_nr[m] \in Int /\ slice_nr[m] <= Len(sent)
       /\ coded[m] # Nothing => slice_nr[m] >= 0
       /\ pc \notin {"macroblock", "end of slice"} => slice_nr[m] < Len(sent)
       /\ pc = "macroblock" /\ slice_nr[m] = Len(sent) => coded[m] # Nothing)'
  BY DEF WrittenInv
<1>3. (\A i \in 1 .. Len(sent) :
       /\ Laid(job, map, MbsOf(coded, slice_nr, i - 1), coded, at,
               FirstOf(job, sent[i]), sent[i].data, Content(job, sent[i]))
       /\ job.cabac => sent[i].data[Len(sent[i].data)] = EndOfSlice(1))'
  BY DEF WrittenInv
<1>4. pc' = "macroblock" =>
       (/\ slice \in Slices /\ InLoop(slice, mb)
        /\ Open(job, map, coded, at, slice, mb)
        /\ MbsOf(coded, slice_nr, Len(sent)) = Reached(map, slice, mb))'
  BY DEF WrittenInv, InLoop, Mbaff, picture
<1>5. pc' = "end of slice" =>
       (/\ slice \in Slices /\ mb \in MbsOf(coded, slice_nr, Len(sent))
        /\ Laid(job, map, MbsOf(coded, slice_nr, Len(sent)), coded, at,
                slice.first, slice.data, Len(slice.data)))'
  BY DEF WrittenInv
<1>6. QED BY <1>1, <1>2, <1>3, <1>4, <1>5 DEF WrittenInv

LEMMA EncoderKeepsReader ==
  ASSUME NEW at, ReaderInv(at), NEW at2, pc \notin {"decode", "done"},
         pc' \notin {"decode", "done"}, UNCHANGED <<map, reader, decoded>>,
         coded' = [m \in DOMAIN map |-> coded'[m]]
  PROVE  ReaderInv(at2)'
BY DEF ReaderInv

(* decode_one_slice begins when all macroblocks are coded, at the first one *)
(* of its slice.                                                            *)
LEMMA DecodeSliceKeepsReader ==
  ASSUME ProgressInv, NEW at, WrittenInv(at), ReaderInv(at), DecodeSlice
  PROVE  ReaderInv(at)'
<1>1. PICK k \in Nat : Mbs(picture) = 0 .. k BY MbsAreNumbers DEF ProgressInv, MapInv
<1>2. /\ UNCHANGED <<job, map, slice_nr, coded, sent, decoded>>
      /\ pc \in {"slices", "decode"} /\ pc' = "decode"
      /\ NumberOfCodedMBs >= PicSizeInMbs(picture)
      /\ DOMAIN map = 0 .. k /\ DOMAIN coded = 0 .. k
  BY <1>1 DEF DecodeSlice, encoder, ProgressInv, MapInv
<1>3. \A m \in 0 .. k : coded[m] # Nothing
  <2>1. CASE pc = "slices"
    <3>1. PicSizeInMbs(picture) = k + 1
      <4>1. PicSizeInMbs(picture) \in Nat \ {0}
        BY SizesAreNatural, JobsAssumption DEF picture, ProgressInv, MapInv
      <4>2. PICK q \in Nat \ {0} : q = PicSizeInMbs(picture) BY <4>1
      <4>3. 0 .. (q - 1) = 0 .. k BY <1>1, <4>2 DEF Mbs
      <4>4. q - 1 \in 0 .. k /\ k \in 0 .. (q - 1) BY <4>3
      <4>5. QED BY <4>2, <4>4
    <3>2. IsFiniteSet(0 .. k) /\ Cardinality(0 .. k) = k + 1 BY FS_Interval
    <3>3. CodedMbs \in SUBSET (0 .. k) BY <1>1 DEF CodedMbs
    <3>4. NumberOfCodedMBs = Cardinality(CodedMbs) BY <2>1 DEF ProgressInv
    <3>5. Cardinality(CodedMbs) <= k + 1 /\ Cardinality(CodedMbs) \in Nat
      BY <3>2, <3>3, FS_Subset, FS_CardinalityType
    <3>6. Cardinality(CodedMbs) = k + 1 BY <1>2, <3>1, <3>4, <3>5
    <3>7. CodedMbs = 0 .. k BY <3>2, <3>3, <3>6, FS_Subset
    <3>8. QED BY <3>7 DEF CodedMbs
  <2>2. CASE pc = "decode" BY <1>2, <2>2 DEF ReaderInv
  <2>3. QED BY <1>2, <2>1, <2>2
<1>4. PICK i : i = reader.i OBVIOUS
<1>5. Len(sent) \in Nat BY LenProperties DEF WrittenInv
<1>6. /\ i \in Nat /\ i < Len(sent) /\ reader \in Readers /\ reader.end /\ reader.asserts
      /\ \A m \in 0 .. k : slice_nr[m] \in Int
      /\ \A m \in 0 .. k : decoded[m] = IF slice_nr[m] < i THEN coded[m] ELSE Nothing
  <2>1. i < Len(sent) /\ reader.end /\ reader.asserts BY <1>4 DEF DecodeSlice
  <2>2. \A m \in 0 .. k : slice_nr[m] \in Int /\ slice_nr[m] >= 0 BY <1>2, <1>3 DEF WrittenInv
  <2>3. CASE pc = "slices"
    <3>1. reader = NoReader /\ \A m \in 0 .. k : decoded[m] = Nothing
      BY <1>2, <2>3 DEF ReaderInv
    <3>2. reader \in Readers /\ i = 0 BY <1>4, <3>1 DEF NoReader, Readers
    <3>3. QED BY <2>1, <2>2, <3>1, <3>2
  <2>4. CASE pc = "decode"
    <3>1. reader \in Readers /\ i \in 1 .. Len(sent) BY <1>4, <2>4 DEF ReaderInv
    <3>2. \A m \in 0 .. k : decoded[m] = IF Read(m) THEN coded[m] ELSE Nothing
      BY <1>2, <2>4 DEF ReaderInv
    <3>3. i \in Int BY <3>1
    <3>4. \A m \in 0 .. k : Read(m) <=> slice_nr[m] < i
      BY <1>4, <2>1, <2>2, <3>3 DEF Read
    <3>5. i \in Nat BY <3>1
    <3>6. QED BY <2>1, <2>2, <3>1, <3>2, <3>4, <3>5
  <2>5. QED BY <1>2, <2>3, <2>4
<1>7. i + 1 \in 1 .. Len(sent) /\ i + 1 \in Int /\ (i + 1) - 1 = i BY <1>5, <1>6
<1>8. PICK x : x = sent[i + 1] OBVIOUS
<1>9. PICK f : f = FirstOf(job, x) OBVIOUS
<1> DEFINE M == MbsOf(coded, slice_nr, i)
<1>10. Laid(job, map, M, coded, at, f, x.data, Content(job, x))
  BY <1>7, <1>8, <1>9 DEF WrittenInv
<1>11. f \in M /\ at[f] = <<1, 0>> /\ \A m \in M : f <= m BY <1>10 DEF Laid
<1>12. \A m \in 0 .. k : m \in M <=> slice_nr[m] = i BY <1>2, <1>3 DEF MbsOf
<1>13. f \in 0 .. k BY <1>2, <1>11 DEF MbsOf
<1>14. PICK r : r = reader' OBVIOUS
<1>15. /\ r \in Readers /\ r.i = i + 1 /\ r.pos = 1 /\ r.cod_counter = -1 /\ r.end = FALSE
       /\ r.mb = f /\ r.asserts
  <2>1. f = IF Mbaff THEN 2 * x.first_mb_in_slice ELSE x.first_mb_in_slice
    BY <1>9 DEF FirstOf, InPairs, Mbaff, picture
  <2>2. PICK c \in Int : c = -1 OBVIOUS
  <2>3. r = [reader EXCEPT !.i = i + 1, !.pos = 1, !.cod_counter = c, !.end = FALSE, !.mb = f]
    BY <1>4, <1>6, <1>8, <1>14, <2>1, <2>2 DEF DecodeSlice, Readers
  <2>4. PICK j \in Int : j = i + 1 BY <1>7
  <2>5. r = [reader EXCEPT !.i = j, !.pos = 1, !.cod_counter = c, !.end = FALSE, !.mb = f]
    BY <2>3, <2>4
  <2>6. /\ r \in Readers /\ r.i = j /\ r.pos = 1 /\ r.cod_counter = c /\ r.end = FALSE
        /\ r.mb = f /\ r.asserts = reader.asserts
    <3>1. f \in Int BY <1>13
    <3>2. ASSUME NEW p \in Int, NEW no \in BOOLEAN,
                 r = [reader EXCEPT !.i = j, !.pos = p, !.cod_counter = c, !.end = no, !.mb = f]
          PROVE  /\ r \in Readers /\ r.i = j /\ r.pos = p /\ r.cod_counter = c /\ r.end = no
                 /\ r.mb = f /\ r.asserts = reader.asserts
      BY <1>6, <3>1, <3>2 DEF Readers
    <3>3. 1 \in Int /\ FALSE \in BOOLEAN OBVIOUS
    <3>4. QED BY <2>5, <3>2, <3>3, Zenon
  <2>7. QED BY <1>6, <2>2, <2>4, <2>6
<1>16. Before(x.data, at[f], r) BY <1>11, <1>15 DEF Before
<1>17. \A m \in 0 .. k :
         decoded[m] = IF \/ slice_nr[m] < r.i - 1
                         \/ slice_nr[m] = r.i - 1 /\ (r.end \/ m < r.mb)
                      THEN coded[m] ELSE Nothing
  <2>1. SUFFICES ASSUME NEW m \in 0 .. k
                 PROVE  slice_nr[m] < i <=>
                          \/ slice_nr[m] < r.i - 1
                          \/ slice_nr[m] = r.i - 1 /\ (r.end \/ m < r.mb)
    BY <1>6
  <2>2. slice_nr[m] = i => ~ (m < f) BY <1>11, <1>12, <1>13
  <2>3. r.i - 1 = i /\ r.end = FALSE /\ r.mb = f BY <1>7, <1>15
  <2>4. QED BY <2>2, <2>3
<1>18. /\ (\A m \in DOMAIN map :
             coded[m] # Nothing /\ decoded[m] = IF Read(m) THEN coded[m] ELSE Nothing)'
       /\ (reader \in Readers /\ reader.asserts /\ reader.i \in 1 .. Len(sent))'
  BY <1>2, <1>3, <1>7, <1>14, <1>15, <1>17 DEF Read
<1>19. /\ ~reader'.end /\ (reader.mb \in MbsOf(coded, slice_nr, reader.i - 1))'
       /\ Before(data, at[reader.mb], reader)'
  <2>1. reader'.i - 1 = i /\ reader'.mb = f /\ reader'.end = FALSE /\ data' = x.data
    BY <1>2, <1>7, <1>8, <1>14, <1>15 DEF data
  <2>2. (reader.mb \in MbsOf(coded, slice_nr, reader.i - 1))' BY <1>2, <1>11, <2>1
  <2>3. Before(data', at[reader'.mb], reader') BY <1>14, <1>16, <2>1
  <2>4. QED BY <2>1, <2>2, <2>3
<1>20. (/\ coded = [m \in DOMAIN map |-> coded[m]]
        /\ decoded = [m \in DOMAIN map |-> decoded[m]])'
  BY <1>2 DEF ReaderInv
<1>21. QED BY <1>2, <1>18, <1>19, <1>20 DEF ReaderInv

(* Each macroblock is decoded once, as it was coded.                        *)
LEMMA DecodeMacroblockKeepsReader ==
  ASSUME ProgressInv, NEW at, WrittenInv(at), ReaderInv(at), DecodeMacroblock
  PROVE  ReaderInv(at)'
<1>1. PICK k \in Nat : Mbs(picture) = 0 .. k BY MbsAreNumbers DEF ProgressInv, MapInv
<1>2. /\ UNCHANGED <<job, map, slice_nr, coded, sent, pc>> /\ pc = "decode" /\ ~reader.end
      /\ DOMAIN map = 0 .. k /\ DOMAIN coded = 0 .. k /\ DOMAIN decoded = 0 .. k
      /\ Walks(job, map)
  <2>1. DOMAIN map = 0 .. k BY <1>1 DEF ProgressInv, MapInv
  <2>2. decoded = [m \in DOMAIN map |-> decoded[m]] BY DEF ReaderInv
  <2>3. QED BY <1>1, <2>1, <2>2, MapWalks DEF DecodeMacroblock, encoder, ProgressInv
<1>3. PICK i : i = reader.i OBVIOUS
<1>4. PICK m : m = reader.mb OBVIOUS
<1> DEFINE M == MbsOf(coded, slice_nr, i - 1)
           len == Content(job, sent[i])
           first == FirstOf(job, sent[i])
           n == FmoGetNextMBNr(map, m)
<1>5. /\ reader \in Readers /\ reader.asserts /\ i \in 1 .. Len(sent)
      /\ m \in M /\ Before(data, at[m], reader)
      /\ \A o \in 0 .. k : coded[o] # Nothing /\ decoded[o] = IF Read(o) THEN coded[o] ELSE Nothing
  BY <1>2, <1>3, <1>4 DEF ReaderInv
<1>6. /\ Laid(job, map, M, coded, at, first, data, len)
      /\ job.cabac => data[Len(data)] = EndOfSlice(1)
      /\ \A o \in 0 .. k : slice_nr[o] \in Int
  BY <1>2, <1>3, <1>5 DEF WrittenInv, data
<1>7. data \in Seq(Elements)
  <2>1. sent \in Seq([first_mb_in_slice : Int, data : Seq(Elements)]) BY DEF WrittenInv
  <2>2. sent[i] \in [first_mb_in_slice : Int, data : Seq(Elements)] BY <1>5, <2>1, ElementOfSeq
  <2>3. QED BY <1>3, <2>2 DEF data
<1>8. len = (IF job.cabac THEN Len(data) - 1 ELSE Len(data)) /\ len \in Int /\ len <= Len(data)
  <2>1. Len(data) \in Nat BY <1>7, LenProperties
  <2>2. len = IF job.cabac THEN Len(data) - 1 ELSE Len(data) BY <1>3 DEF Content, data
  <2>3. QED BY <2>1, <2>2
<1>9. Stands(job, data, len, coded[m], at[m]) BY <1>5, <1>6 DEF Laid
<1>10. M \in SUBSET (0 .. k) /\ \A o \in 0 .. k : o \in M <=> slice_nr[o] = i - 1
  BY <1>2, <1>5 DEF MbsOf
<1>11. PICK read : read = ReadMacroblock(reader) OBVIOUS
<1>12. PICK b : b = read.reader OBVIOUS
<1>13. /\ read.type = coded[m]
       /\ b \in Readers /\ b.i = i /\ b.mb = m /\ b.asserts /\ ~b.end
       /\ Passed(data, at[m], b)
  <2> HIDE DEF len
  <2>1. LET x == ReadMacroblock(reader)
            y == x.reader
        IN /\ x.type = coded[m]
           /\ y \in Readers /\ y.i = reader.i /\ y.mb = reader.mb /\ y.asserts = reader.asserts
           /\ y.end = reader.end /\ Passed(data, at[m], y)
    <3>1. len \in Int /\ len <= Len(data) BY <1>8
    <3>2. PICK a : a = at[m] OBVIOUS
    <3>3. PICK type : type = coded[m] OBVIOUS
    <3>4. Stands(job, data, len, type, a) /\ Before(data, a, reader) BY <1>5, <1>9, <3>2, <3>3
    <3>4a. reader \in Readers /\ data \in Seq(Elements) BY <1>5, <1>7
    <3>4b. PICK l \in Int : l = len BY <3>1
    <3>4c. l <= Len(data) /\ Stands(job, data, l, type, a) /\ Before(data, a, reader)
      BY <3>1, <3>4, <3>4b
    <3>5. LET x == ReadMacroblock(reader)
              y == x.reader
          IN /\ x.type = type
             /\ y \in Readers /\ y.i = reader.i /\ y.mb = reader.mb /\ y.asserts = reader.asserts
             /\ y.end = reader.end /\ Passed(data, a, y)
      BY <3>4a, <3>4c, Reads
    <3>6. QED BY <3>2, <3>3, <3>5
  <2>2. QED BY <1>2, <1>3, <1>4, <1>5, <1>11, <1>12, <2>1
<1>14. PICK e : e = ExitMacroblock(b) OBVIOUS
<1>15. /\ e \in Readers /\ e.i = i /\ e.asserts
       /\ IF n \in M
          THEN ~e.end /\ e.mb = n /\ Before(data, at[n], e)
          ELSE e.end /\ e.pos \in {len + 1, Len(data) + 1}
  <2> HIDE DEF len, first, M
  <2>1. /\ ExitMacroblock(b) \in Readers /\ ExitMacroblock(b).i = b.i /\ ExitMacroblock(b).asserts
        /\ IF FmoGetNextMBNr(map, m) \in M
           THEN /\ ~ExitMacroblock(b).end /\ ExitMacroblock(b).mb = FmoGetNextMBNr(map, m)
                /\ Before(data, at[FmoGetNextMBNr(map, m)], ExitMacroblock(b))
           ELSE /\ ExitMacroblock(b).end
                /\ ExitMacroblock(b).pos \in {len + 1, Len(data) + 1}
    <3>1. m \in M /\ M \in SUBSET (0 .. k) BY <1>5, <1>10
    <3>2. DOMAIN map = 0 .. k /\ Walks(job, map) BY <1>2
    <3>3. job \in Jobs BY DEF ProgressInv, MapInv
    <3>4. QED BY <1>1, <1>6, <1>7, <1>8, <1>13, <3>1, <3>2, <3>3, Exits
  <2>2. QED BY <1>13, <1>14, <2>1
<1>16. /\ reader' = e /\ data' = data
       /\ decoded' = [decoded EXCEPT ![m] = IF @ = Nothing THEN coded[m] ELSE "twice"]
  <2>1. reader' = e /\ decoded' = [decoded EXCEPT ![m] = IF @ = Nothing THEN coded[m] ELSE "twice"]
    BY <1>4, <1>11, <1>12, <1>13, <1>14 DEF DecodeMacroblock
  <2>2. reader'.i = reader.i BY <1>3, <1>15, <2>1
  <2>3. QED BY <1>2, <2>1, <2>2 DEF data
<1>17. m \in 0 .. k /\ slice_nr[m] = i - 1 /\ i \in Int BY <1>5, <1>10
<1>18. decoded[m] = Nothing
  <2>1. ~Read(m) BY <1>2, <1>3, <1>4, <1>17 DEF Read
  <2>2. QED BY <1>5, <1>17, <2>1
<1>19. /\ DOMAIN decoded' = 0 .. k /\ decoded'[m] = coded[m]
       /\ \A o \in 0 .. k : o # m => decoded'[o] = decoded[o]
  BY <1>2, <1>16, <1>17, <1>18
<1>20. \A o \in 0 .. k : slice_nr[o] = i - 1 => (e.end \/ o < e.mb <=> o <= m)
  <2>1. SUFFICES ASSUME NEW o \in 0 .. k, slice_nr[o] = i - 1
                 PROVE  e.end \/ o < e.mb <=> o <= m
    OBVIOUS
  <2>2. o \in M BY <1>10, <2>1
  <2>3. CASE n \in M
    <3>1. map[o] = map[m] BY <1>5, <1>6, <2>2 DEF Laid
    <3>2. n # -1 BY <1>10, <2>3
    <3>3. o <= m <=> n = -1 \/ o < n BY <1>2, <1>17, <2>1, <3>1 DEF Walks
    <3>4. ~e.end /\ e.mb = n BY <1>15, <2>3
    <3>5. QED BY <3>2, <3>3, <3>4
  <2>4. CASE n \notin M
    <3>1. o <= m BY <1>5, <1>6, <2>2, <2>4 DEF Laid
    <3>2. QED BY <1>15, <2>4, <3>1
  <2>5. QED BY <2>3, <2>4
<1>21. \A o \in 0 .. k : decoded'[o] = IF Read(o)' THEN coded[o] ELSE Nothing
  <2>1. SUFFICES ASSUME NEW o \in 0 .. k
                 PROVE  decoded'[o] = IF Read(o)' THEN coded[o] ELSE Nothing
    OBVIOUS
  <2>2. Read(o)' <=> slice_nr[o] < i - 1 \/ (slice_nr[o] = i - 1 /\ o <= m)
    BY <1>2, <1>15, <1>16, <1>20 DEF Read
  <2>3. Read(o) <=> slice_nr[o] < i - 1 \/ (slice_nr[o] = i - 1 /\ o < m)
    BY <1>2, <1>3, <1>4 DEF Read
  <2>4. CASE o = m
    <3>1. Read(o)' BY <1>17, <2>2, <2>4
    <3>2. QED BY <1>19, <2>4, <3>1
  <2>5. CASE o # m
    <3>1. o <= m <=> o < m BY <1>17, <2>5
    <3>2. Read(o)' <=> Read(o) BY <2>2, <2>3, <3>1
    <3>3. QED BY <1>5, <1>19, <2>5, <3>2
  <2>6. QED BY <2>4, <2>5
<1>22. /\ (\A o \in DOMAIN map :
             coded[o] # Nothing /\ decoded[o] = IF Read(o) THEN coded[o] ELSE Nothing)'
       /\ (reader \in Readers /\ reader.asserts /\ reader.i \in 1 .. Len(sent))'
  BY <1>2, <1>5, <1>15, <1>16, <1>21
<1>23. (IF reader.end
        THEN reader.pos \in {Content(job, sent[reader.i]) + 1, Len(data) + 1}
        ELSE /\ reader.mb \in MbsOf(coded, slice_nr, reader.i - 1)
             /\ Before(data, at[reader.mb], reader))'
  <2>1. CASE n \in M
    <3>1. ~e.end /\ e.mb = n /\ Before(data, at[n], e) BY <1>15, <2>1
    <3>2. (reader.mb \in MbsOf(coded, slice_nr, reader.i - 1))'
      BY <1>2, <1>15, <1>16, <2>1, <3>1
    <3>3. Before(data', at[reader'.mb], reader') BY <1>16, <3>1
    <3>4. QED BY <1>16, <3>1, <3>2, <3>3
  <2>2. CASE n \notin M
    <3>1. e.end /\ e.pos \in {len + 1, Len(data) + 1} BY <1>15, <2>2
    <3>2. (reader.pos \in {Content(job, sent[reader.i]) + 1, Len(data) + 1})'
      BY <1>2, <1>15, <1>16, <3>1
    <3>3. QED BY <1>16, <3>1, <3>2
  <2>3. QED BY <2>1, <2>2
<1>24. coded' = [o \in DOMAIN map' |-> coded'[o]] BY <1>2 DEF ReaderInv
<1>25. decoded' = [o \in DOMAIN map' |-> decoded'[o]] BY <1>2, <1>16, <1>19
<1>26. QED BY <1>2, <1>22, <1>23, <1>24, <1>25 DEF ReaderInv

(* The encoder and the decoder together.                                    *)
DataInv == \E at : WrittenInv(at) /\ ReaderInv(at)

LEMMA NextKeepsData ==
  ASSUME RunsWithPairs, PlacesKept, MayOverflow \subseteq {"other"}, ProgressInv, PairInv,
         DataInv, [Next]_vars
  PROVE  DataInv'
<1>1. PICK at : WrittenInv(at) /\ ReaderInv(at) BY DEF DataInv
<1>2. SUFFICES \E at2 : WrittenInv(at2)' /\ ReaderInv(at2)' BY DEF DataInv
<1>3. coded = [m \in DOMAIN map |-> coded[m]] BY <1>1 DEF ReaderInv
<1>4. CASE StartSlice
  <2>1. PICK at2 : WrittenInv(at2)' BY <1>1, <1>4, StartKeepsWritten
  <2>2. /\ pc \notin {"decode", "done"} /\ pc' \notin {"decode", "done"}
        /\ UNCHANGED <<map, reader, decoded, coded>>
    BY <1>4 DEF StartSlice
  <2>3. ReaderInv(at2)' BY <1>1, <1>3, <2>2, EncoderKeepsReader
  <2>4. QED BY <2>1, <2>3
<1>5. CASE NextSliceGroup
  <2>1. /\ UNCHANGED <<job, map, slice_nr, coded, sent, reader, decoded>>
        /\ pc = "slices" /\ pc' = "slices"
    BY <1>5 DEF NextSliceGroup
  <2>2. WrittenInv(at)' BY <1>1, <2>1, WrittenKept
  <2>3. ReaderInv(at)' BY <1>1, <1>3, <2>1, EncoderKeepsReader
  <2>4. QED BY <2>2, <2>3
<1>6. CASE CodeMacroblock
  <2>1. PICK at2 : WrittenInv(at2)' BY <1>1, <1>6, CodeKeepsWritten
  <2>2. /\ pc \notin {"decode", "done"} /\ pc' \notin {"decode", "done"}
        /\ UNCHANGED <<map, reader, decoded>>
        /\ coded' = coded \/ \E type : coded' = [coded EXCEPT ![mb] = type]
    BY <1>6 DEF CodeMacroblock
  <2>3. coded' = [m \in DOMAIN map |-> coded'[m]] BY <1>3, <2>2
  <2>4. ReaderInv(at2)' BY <1>1, <2>2, <2>3, EncoderKeepsReader
  <2>5. QED BY <2>1, <2>4
<1>7. CASE FinishSlice
  <2>1. WrittenInv(at)' BY <1>1, <1>7, FinishKeepsWritten
  <2>2. /\ pc \notin {"decode", "done"} /\ pc' \notin {"decode", "done"}
        /\ UNCHANGED <<map, reader, decoded, coded>>
    BY <1>7 DEF FinishSlice
  <2>3. ReaderInv(at)' BY <1>1, <1>3, <2>2, EncoderKeepsReader
  <2>4. QED BY <2>1, <2>3
<1>8. CASE DecodeSlice
  <2>1. /\ UNCHANGED <<job, map, slice_nr, coded, sent>>
        /\ pc \in {"slices", "decode"} /\ pc' = "decode"
    BY <1>8 DEF DecodeSlice, encoder
  <2>2. WrittenInv(at)' BY <1>1, <2>1, WrittenKept
  <2>3. QED BY <1>1, <1>8, <2>2, DecodeSliceKeepsReader
<1>9. CASE DecodeMacroblock
  <2>1. UNCHANGED <<job, map, slice_nr, coded, sent, pc, slice, mb>>
    BY <1>9 DEF DecodeMacroblock, encoder
  <2>2. WrittenInv(at)' BY <1>1, <2>1, WrittenKept
  <2>3. QED BY <1>1, <1>9, <2>2, DecodeMacroblockKeepsReader
<1>10. CASE ExitPicture
  <2>1. /\ UNCHANGED <<job, map, slice_nr, coded, sent, reader, decoded>>
        /\ pc = "decode" /\ pc' = "done" /\ reader.end /\ reader.i = Len(sent)
    BY <1>10 DEF ExitPicture, encoder
  <2>2. WrittenInv(at)' BY <1>1, <2>1, WrittenKept
  <2>3. ReaderInv(at)' BY <1>1, <2>1 DEF ReaderInv, Read, data
  <2>4. QED BY <2>2, <2>3
<1>11. CASE UNCHANGED vars
  <2>1. UNCHANGED <<job, map, slice_nr, coded, sent, pc, slice, mb, reader, decoded>>
    BY <1>11 DEF vars, encoder
  <2>2. WrittenInv(at)' BY <1>1, <2>1, WrittenKept
  <2>3. ReaderInv(at)' BY <1>1, <2>1 DEF ReaderInv, Read, data
  <2>4. QED BY <2>2, <2>3
<1>12. QED
  BY <1>4, <1>5, <1>6, <1>7, <1>8, <1>9, <1>10, <1>11 DEF Next, Done

(* All slices are read when the picture is complete.                        *)
LEMMA DataRead ==
  ASSUME ProgressInv, DataInv
  PROVE  DecodedAsCoded /\ EndsWithData
<1>1. PICK at : WrittenInv(at) /\ ReaderInv(at) BY DEF DataInv
<1>2. DOMAIN map = Mbs(picture) BY DEF ProgressInv, MapInv
<1>3. \A m \in Mbs(picture) : decoded[m] \in {Nothing, coded[m]} BY <1>1, <1>2 DEF ReaderInv
<1>4. ASSUME pc = "done" PROVE decoded = coded
  <2>1. reader.end /\ reader.i = Len(sent) BY <1>1, <1>4 DEF ReaderInv
  <2>2. Len(sent) \in Nat BY <1>1, LenProperties DEF WrittenInv
  <2>3. \A m \in DOMAIN map : slice_nr[m] \in Int /\ slice_nr[m] < Len(sent)
    BY <1>1, <1>4 DEF WrittenInv
  <2>4. \A m \in DOMAIN map : Read(m) BY <2>1, <2>2, <2>3 DEF Read
  <2>5. \A m \in DOMAIN map : decoded[m] = coded[m] BY <1>1, <1>4, <2>4 DEF ReaderInv
  <2>6. /\ coded = [m \in DOMAIN map |-> coded[m]]
        /\ decoded = [m \in DOMAIN map |-> decoded[m]]
    BY <1>1 DEF ReaderInv
  <2>7. QED BY <2>5, <2>6
<1>5. reader.asserts BY <1>1 DEF ReaderInv, NoReader
<1>6. ASSUME reader.i > 0, reader.end
      PROVE  SubSeq(data, reader.pos, Len(data)) \in {<<>>, <<EndOfSlice(1)>>}
  <2>1. pc \in {"decode", "done"} BY <1>1, <1>6 DEF ReaderInv, NoReader
  <2>2. /\ reader.i \in 1 .. Len(sent)
        /\ reader.pos \in {Content(job, sent[reader.i]) + 1, Len(data) + 1}
    BY <1>1, <1>6, <2>1 DEF ReaderInv
  <2>3. data \in Seq(Elements)
    <3>1. sent \in Seq([first_mb_in_slice : Int, data : Seq(Elements)])
      BY <1>1 DEF WrittenInv
    <3>2. sent[reader.i] \in [first_mb_in_slice : Int, data : Seq(Elements)]
      BY <2>2, <3>1, ElementOfSeq
    <3>3. QED BY <3>2 DEF data
  <2>4. Len(data) \in Nat BY <2>3, LenProperties
  <2>5. CASE reader.pos = Len(data) + 1
    <3>1. SubSeq(data, Len(data) + 1, Len(data)) = <<>> BY <2>3, <2>4
    <3>2. QED BY <2>5, <3>1
  <2>6. CASE reader.pos # Len(data) + 1
    <3>1. job.cabac /\ reader.pos = Len(data)
      <4>1. reader.pos = (IF job.cabac THEN Len(data) - 1 ELSE Len(data)) + 1
        BY <2>2, <2>6 DEF Content, data
      <4>2. QED BY <2>4, <2>6, <4>1
    <3>2. data[Len(data)] = EndOfSlice(1) BY <1>1, <2>2, <3>1 DEF WrittenInv, data
    <3>3. Len(data) # 0
      <4>1. Laid(job, map, MbsOf(coded, slice_nr, reader.i - 1), coded, at,
                 FirstOf(job, sent[reader.i]), data, Content(job, sent[reader.i]))
        BY <1>1, <2>2 DEF WrittenInv, data
      <4>2. Content(job, sent[reader.i]) = Len(data) - 1 BY <3>1 DEF Content, data
      <4>3. at[FirstOf(job, sent[reader.i])][1] \in 1 .. Len(data) - 1
        BY <4>1, <4>2 DEF Laid, Stands
      <4>4. QED BY <2>4, <4>3
    <3>4. SubSeq(data, Len(data), Len(data)) = <<data[Len(data)]>>
      <4>1. PICK n \in Nat : n = Len(data) BY <2>4
      <4>2. n >= 1 /\ 1 .. n - n + 1 = {1} BY <3>3, <4>1
      <4>3. SubSeq(data, n, n) = [i \in 1 .. n - n + 1 |-> data[i + n - 1]] OBVIOUS
      <4>4. \A i \in {1} : data[i + n - 1] = data[n] OBVIOUS
      <4>5. [i \in {1} |-> data[i + n - 1]] = [i \in {1} |-> data[n]] BY <4>4
      <4>6. SubSeq(data, n, n) = [i \in {1} |-> data[n]] BY <4>2, <4>3, <4>5
      <4>7. [i \in {1} |-> data[n]] = <<data[n]>> OBVIOUS
      <4>8. QED BY <4>1, <4>6, <4>7
    <3>5. QED BY <3>1, <3>2, <3>4
  <2>7. QED BY <2>5, <2>6
<1>7. QED BY <1>3, <1>4, <1>5, <1>6 DEF DecodedAsCoded, EndsWithData

(* The invariants together.                                                 *)
LEMMA DataWritten ==
  ASSUME MayOverflow \subseteq {"other"}, RunsWithPairs, PlacesKept
  PROVE  Spec /\ []GroupsEvolve => [](ProgressInv /\ PairInv /\ DataInv)
<1>1. Init /\ GroupsEvolve => ProgressInv /\ PairInv /\ DataInv
  <2>1. ASSUME Init, GroupsEvolve PROVE ProgressInv /\ PairInv /\ DataInv
    <3>1. ProgressInv /\ PairInv BY <2>1, InitProgress, InitPairs
    <3>2. PICK at : WrittenInv(at) BY <2>1, <3>1, InitWritten
    <3>3. ReaderInv(at) BY <2>1, <3>1, InitReader DEF ProgressInv
    <3>4. QED BY <3>1, <3>2, <3>3 DEF DataInv
  <2>2. QED BY <2>1
<1>2. ProgressInv /\ PairInv /\ DataInv /\ [Next]_vars => ProgressInv' /\ PairInv' /\ DataInv'
  <2>1. "bottom" \notin MayOverflow OBVIOUS
  <2>2. QED BY <2>1, NextKeepsProgress, NextKeepsPairs, NextKeepsData
<1>3. QED BY <1>1, <1>2, PTL DEF Spec

(* Where the map is one into the slice groups and only macroblocks of the   *)
(* kind "other" may be too big for their slices, the decoder finds every    *)
(* macroblock once and as it was coded, from the runs and bits of the data  *)
(* alone, also when the encoder has taken macroblocks back.                 *)
THEOREM MacroblocksUnderstood ==
  ASSUME MayOverflow \subseteq {"other"}, RunsWithPairs, PlacesKept
  PROVE  Spec /\ []GroupsEvolve => []DecodedAsCoded
<1>1. ProgressInv /\ PairInv /\ DataInv => DecodedAsCoded BY DataRead
<1>2. QED BY <1>1, DataWritten, PTL

(* And every slice ends for the decoder where its data end: exit_macroblock *)
(* never fails its assertion at the end of a slice group.                   *)
THEOREM SlicesEndWithData ==
  ASSUME MayOverflow \subseteq {"other"}, RunsWithPairs, PlacesKept
  PROVE  Spec /\ []GroupsEvolve => []EndsWithData
<1>1. ProgressInv /\ PairInv /\ DataInv => EndsWithData BY DataRead
<1>2. QED BY <1>1, DataWritten, PTL
=============================================================================
