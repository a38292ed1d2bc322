----------------------------- MODULE SliceData -----------------------------
(***************************************************************************)
(* One picture as slices: code_a_plane of the encoder (lencod/image.c)     *)
(* walks through the slice groups, encode_one_slice and                    *)
(* encode_one_slice_MBAFF (lencod/slice.c) through the macroblocks of a    *)
(* slice, and macroblock.c decides where the slice ends and takes back     *)
(* what did not fit; then decode_one_slice of the decoder (ldecod/image.c) *)
(* reads the slices.  The two must agree, from what is written alone, on   *)
(* where every macroblock is and where the slice ends.                     *)
(*                                                                         *)
(* The data of a slice are the elements that say so: runs of skipped       *)
(* macroblocks and coded macroblocks (CAVLC), skipped and coded            *)
(* macroblocks and the bits end_of_slice (CABAC).                          *)
(***************************************************************************)
EXTENDS SliceGroups

CONSTANTS
  Jobs,          (* pictures to code: records of the picture, its picture   *)
                 (* parameter set and cycle, the slice_mode and its         *)
                 (* argument, cabac, intra (I slices) and MbInterlace: are  *)
                 (* the frames of the sequence, not its fields, in MBAFF?   *)
  MayOverflow    (* macroblocks that may be too big for a slice of limited  *)
                 (* size: "bottom" of an MBAFF pair; "last", skipped at the *)
                 (* end of a group (CAVLC); "other"                         *)

ASSUME JobsAssumption ==
  \A j \in Jobs :
    /\ j.picture.width \in Nat \ {0} /\ j.picture.height \in Nat \ {0}
    /\ j.picture.coding \in {"progressive", "interlaced", "mbaff"}
    /\ j.pps.num_slice_groups \in Nat \ {0}
    /\ j.MbInterlace \in BOOLEAN
    /\ j.picture.coding = "mbaff" => j.MbInterlace
    /\ j.picture.coding = "interlaced" => ~j.MbInterlace

VARIABLES
  job,                (* the member of Jobs                                 *)
  map,                (* MBAmap of the encoder, MbToSliceGroupMap           *)
  FirstMBInSlice,     (* of each group: where its next slice begins, or -1  *)
  SliceGroup,         (* the group that is being coded                      *)
  NumberOfCodedMBs,   (* macroblocks in slices so far                       *)
  mb,                 (* CurrentMbAddr                                      *)
  slice,              (* the slice that is being written                    *)
  slice_nr,           (* of each macroblock: the slice it was last coded in *)
  coded,              (* of each macroblock: what it was coded as           *)
  sent,               (* the slices, in the order they are sent             *)
  reader,             (* decode_one_slice: which slice, and its place in it *)
  decoded,            (* of each macroblock: what it was decoded as         *)
  pc

encoder == <<FirstMBInSlice, SliceGroup, NumberOfCodedMBs, mb, slice, slice_nr, coded, sent>>
vars == <<job, map, encoder, reader, decoded, pc>>

picture == job.picture
Mbaff == picture.coding = "mbaff"
Top(m) == m % 2 = 0
Types == {"coded"} \cup IF job.intra THEN {} ELSE {"skipped"}

Run(n) == [what |-> "run", n |-> n]
Mb(type) == [what |-> type, n |-> 0]
EndOfSlice(bit) == [what |-> "end", n |-> bit]
Nothing == "nothing"

NoSlice == [first |-> -1, data |-> <<>>, stored |-> 0, cod_counter |-> 0, num_mb |-> 0,
            end |-> FALSE, recode |-> FALSE]
NoReader == [i |-> 0, mb |-> -1, pos |-> 1, cod_counter |-> -1, num_dec_mb |-> 0,
             asserts |-> TRUE, end |-> TRUE]

(* FmoInit and FmoStartPicture, with the first slice group.                 *)
Init ==
  /\ job \in Jobs
  /\ map = MbToSliceGroupMap(job.picture, job.pps, job.cycle)
  /\ FirstMBInSlice = [g \in Groups(job.pps) |-> FmoGetFirstMBOfSliceGroup(map, g)]
  /\ SliceGroup = 0 /\ NumberOfCodedMBs = 0
  /\ mb = -1 /\ slice = NoSlice
  /\ slice_nr = [m \in Mbs(job.picture) |-> -1]
  /\ coded = [m \in Mbs(job.picture) |-> Nothing]
  /\ sent = <<>>
  /\ reader = NoReader /\ decoded = [m \in Mbs(job.picture) |-> Nothing]
  /\ pc = "slices"

NextMb == FmoGetNextMBNr(map, mb)

-----------------------------------------------------------------------------
(* The encoder.                                                             *)

CompletelyCodedAtZero(g) ==   (* Mutant of FmoSliceGroupCompletelyCoded. *)
  FirstMBInSlice[g] <= 0

FmoSliceGroupCompletelyCoded(g) == FirstMBInSlice[g] < 0

StartSlice ==
  /\ pc = "slices"
  /\ NumberOfCodedMBs < PicSizeInMbs(picture)
  /\ SliceGroup \in Groups(job.pps) /\ ~FmoSliceGroupCompletelyCoded(SliceGroup)
  /\ mb' = FirstMBInSlice[SliceGroup]
  /\ slice' = [NoSlice EXCEPT !.first = mb']
  /\ pc' = "macroblock"
  /\ UNCHANGED <<job, map, FirstMBInSlice, SliceGroup, NumberOfCodedMBs, slice_nr, coded,
                 sent, reader, decoded>>

NextSliceGroup ==
  /\ pc = "slices"
  /\ NumberOfCodedMBs < PicSizeInMbs(picture)
  /\ SliceGroup \in Groups(job.pps) /\ FmoSliceGroupCompletelyCoded(SliceGroup)
  /\ SliceGroup' = SliceGroup + 1
  /\ UNCHANGED <<job, map, FirstMBInSlice, NumberOfCodedMBs, mb, slice, slice_nr, coded,
                 sent, reader, decoded, pc>>

BacksUp == job.mode \in {"FIXED_RATE", "CALL_BACK"}

(* start_macroblock: keep the place in the stream, but not inside a run,    *)
(* and with MbInterlace only for even macroblocks: in a frame the top ones  *)
(* of the pairs, but in a field every other one.                            *)
StartMacroblock(s, m) ==
  IF BacksUp /\ (job.MbInterlace => Top(m)) /\ s.cod_counter = 0
  THEN [s EXCEPT !.stored = Len(s.data)] ELSE s

(* write_macroblock.  A slice of an intra picture has no runs; the run      *)
(* before a coded macroblock is kept when that is taken back.               *)
WriteMacroblock(s, m, type) ==
  IF job.cabac
    THEN [s EXCEPT !.data = @ \o (IF m # s.first /\ (Mbaff => Top(m))
                                  THEN <<EndOfSlice(0)>> ELSE <<>>) \o <<Mb(type)>>]
  ELSE IF job.intra
    THEN [s EXCEPT !.data = Append(@, Mb(type))]
  ELSE IF type = "coded"
    THEN [s EXCEPT !.data = @ \o <<Run(s.cod_counter), Mb(type)>>,
                   !.stored = IF s.cod_counter > 0 /\ job.mode = "FIXED_RATE"
                              THEN Len(s.data) + 1 ELSE @,
                   !.cod_counter = 0]
  ELSE IF NextMb = -1
    THEN [s EXCEPT !.data = Append(@, Run(s.cod_counter + 1)), !.cod_counter = 0]
  ELSE [s EXCEPT !.cod_counter = @ + 1]

(* end_macroblock: does the slice end, before or after this macroblock?     *)
NewSlice(m) ==
  LET previous == FmoGetPreviousMBNr(map, m)
  IN previous = -1 \/ slice_nr[previous] # Len(sent)

LastInGroup(m) == m = FmoGetLastCodedMBOfSliceGroup(map, map[m])

Decide(s, m, tooBig) ==
  CASE job.mode = "NO_SLICES" ->
         [s EXCEPT !.num_mb = @ + 1,
                   !.end = @ \/ s.num_mb + 1 = PicSizeInMbs(picture) \/ LastInGroup(m)]
    [] job.mode = "FIXED_MB" ->
         [s EXCEPT !.num_mb = @ + 1,
                   !.end = LastInGroup(m) \/ s.num_mb + 1 >= job.argument]
    [] job.mode = "FIXED_RATE" ->
         LET recode == tooBig /\ ~NewSlice(m)
         IN [s EXCEPT !.recode = recode,
                      !.end = @ \/ tooBig \/ LastInGroup(m),
                      !.num_mb = IF recode THEN @ ELSE @ + 1]
    [] OTHER -> [s EXCEPT !.end = @ \/ LastInGroup(m)]

(* The run before a macroblock that did not fit.                            *)
WholeRun(s) ==   (* Mutant of RunBefore. *)
  s.cod_counter

RunBefore(s) == s.cod_counter - 1

(* What is done to the data.  In a slice of limited size a pending run is   *)
(* written to learn its length, and taken back at once; it is written again *)
(* at the end of the slice.                                                 *)
Settle(s) ==
  LET kept == SubSeq(s.data, 1, s.stored)
      pending == s.cod_counter > 0
      runOf(n) == IF n > 0 THEN <<Run(n)>> ELSE <<>>
  IN CASE job.mode = "FIXED_RATE" /\ s.recode ->
            [s EXCEPT !.data = kept \o runOf(RunBefore(s)), !.cod_counter = 0]
       [] job.mode = "FIXED_RATE" /\ ~s.recode /\ pending /\ s.end ->
            [s EXCEPT !.data = @ \o runOf(s.cod_counter), !.cod_counter = 0]
       [] job.mode = "FIXED_RATE" /\ ~s.recode /\ pending /\ ~s.end ->
            [s EXCEPT !.data = kept]
       [] ~BacksUp /\ pending /\ s.end ->
            [s EXCEPT !.data = @ \o runOf(s.cod_counter), !.cod_counter = 0]
       [] OTHER -> s

EndMacroblock(s, m, tooBig) == Settle(Decide(s, m, tooBig))

(* May the macroblock be too big for the slice?                             *)
Kind(m, type) ==
  IF Mbaff /\ ~Top(m) THEN "bottom"
  ELSE IF ~job.cabac /\ type = "skipped" /\ LastInGroup(m) THEN "last" ELSE "other"

TooBig(m, type) ==
  {FALSE} \cup IF job.mode = "FIXED_RATE" /\ Kind(m, type) \in MayOverflow
               THEN {TRUE} ELSE {}

(* When a macroblock is taken back, current_mb_nr goes back.                *)
StaysOn(m) ==   (* Mutant of TakenBack. *)
  m

TakenBack(m) == FmoGetPreviousMBNr(map, m)

(* The loop of an MBAFF picture looks at end_of_slice after both            *)
(* macroblocks of a pair.                                                   *)
LooksAlways(m) ==   (* Mutant of LooksAtEnd. *)
  TRUE

LooksAtEnd(m) == Mbaff => ~Top(m)

(* One turn of the loop over macroblocks, or with MBAFF half a turn.        *)
CodeMacroblock ==
  /\ pc = "macroblock"
  /\ \E type \in Types : \E tooBig \in TooBig(mb, type) :
       LET s == EndMacroblock(WriteMacroblock(StartMacroblock(slice, mb), mb, type),
                              mb, tooBig)
       IN /\ slice' = s
          /\ slice_nr' = [slice_nr EXCEPT ![mb] = Len(sent)]
          /\ IF s.recode
             THEN /\ mb' = TakenBack(mb)
                  /\ UNCHANGED <<coded, NumberOfCodedMBs>>
                  /\ pc' = IF mb' = -1 THEN "error 300" ELSE "end of slice"
             ELSE /\ coded' = [coded EXCEPT ![mb] = type]
                  /\ NumberOfCodedMBs' = NumberOfCodedMBs + 1
                  /\ IF (s.end \/ NextMb = -1) /\ LooksAtEnd(mb)
                     THEN mb' = mb /\ pc' = "end of slice"
                     ELSE mb' = NextMb /\ UNCHANGED pc
  /\ UNCHANGED <<job, map, FirstMBInSlice, SliceGroup, sent, reader, decoded>>

(* terminate_slice, and FmoSetLastMacroblockInSlice with current_mb_nr.     *)
FinishSlice ==
  /\ pc = "end of slice"
  /\ sent' = Append(sent,
       [first_mb_in_slice |-> IF Mbaff THEN slice.first \div 2 ELSE slice.first,
        data |-> slice.data \o IF job.cabac THEN <<EndOfSlice(1)>> ELSE <<>>])
  /\ FirstMBInSlice' = [FirstMBInSlice EXCEPT ![map[mb]] = FmoGetNextMBNr(map, mb)]
  /\ mb' = -1 /\ slice' = NoSlice
  /\ pc' = "slices"
  /\ UNCHANGED <<job, map, SliceGroup, NumberOfCodedMBs, slice_nr, coded, reader, decoded>>

-----------------------------------------------------------------------------
(* The decoder.                                                             *)

data == sent[reader.i].data

(* The next slice, when the picture is coded.                               *)
DecodeSlice ==
  /\ pc \in {"slices", "decode"} /\ NumberOfCodedMBs >= PicSizeInMbs(picture)
  /\ reader.end /\ reader.asserts /\ reader.i < Len(sent)
  /\ reader' = [reader EXCEPT
       !.i = @ + 1, !.pos = 1, !.cod_counter = -1, !.end = FALSE,
       !.mb = LET first == sent[reader.i + 1].first_mb_in_slice
              IN IF Mbaff THEN 2 * first ELSE first]
  /\ pc' = "decode"
  /\ UNCHANGED <<job, map, encoder, decoded>>

(* read_one_macroblock: what it reads may be anything if it is not what was *)
(* written there.                                                           *)
Element(pos) == IF pos \in DOMAIN data THEN data[pos] ELSE [what |-> "garbage", n |-> 0]
TypeAt(pos) == IF Element(pos).what \in {"coded", "skipped"} THEN Element(pos).what
               ELSE "garbage"

ReadMacroblock(r) ==
  IF job.cabac \/ job.intra
    THEN [type |-> TypeAt(r.pos), reader |-> [r EXCEPT !.pos = @ + 1]]
  ELSE
    LET reads == r.cod_counter = -1
        run == IF reads THEN Element(r.pos).n ELSE r.cod_counter
        pos == IF reads THEN r.pos + 1 ELSE r.pos
    IN IF reads /\ Element(r.pos).what # "run"
         THEN [type |-> "garbage", reader |-> [r EXCEPT !.pos = pos]]
       ELSE IF run = 0
         THEN [type |-> TypeAt(pos), reader |-> [r EXCEPT !.pos = pos + 1, !.cod_counter = -1]]
       ELSE [type |-> "skipped", reader |-> [r EXCEPT !.pos = pos, !.cod_counter = run - 1]]

ReadsAlways(m) ==   (* Mutant of ReadsEndOfSlice. *)
  job.cabac

ReadsEndOfSlice(m) == job.cabac /\ (Mbaff => ~Top(m))

(* exit_macroblock.  With CABAC a bit says whether the slice ends, in an    *)
(* MBAFF picture after each pair; without, it ends with the data, but for   *)
(* the rest of a run.                                                       *)
ExitMacroblock(r) ==
  LET next == FmoGetNextMBNr(map, r.mb)
      readsBit == ReadsEndOfSlice(r.mb)
      follows == IF job.cabac THEN readsBit /\ Element(r.pos).n = 1
                 ELSE r.pos > Len(data)
      s == [r EXCEPT !.num_dec_mb = @ + 1, !.mb = next,
                     !.pos = IF readsBit THEN @ + 1 ELSE @]
  IN IF r.mb = PicSizeInMbs(picture) - 1 THEN [r EXCEPT !.num_dec_mb = @ + 1, !.end = TRUE]
     ELSE IF next = -1 THEN [s EXCEPT !.asserts = follows, !.end = TRUE]
     ELSE [s EXCEPT !.end = follows /\ (job.intra \/ job.cabac \/ r.cod_counter <= 0)]

DecodeMacroblock ==
  /\ pc = "decode" /\ ~reader.end
  /\ LET read == ReadMacroblock(reader)
     IN /\ decoded' = [decoded EXCEPT
              ![reader.mb] = IF @ = Nothing THEN read.type ELSE "twice"]
        /\ reader' = ExitMacroblock(read.reader)
  /\ UNCHANGED <<job, map, encoder, pc>>

(* The picture is complete, and is not dropped by exit_picture.             *)
ExitPicture ==
  /\ pc = "decode" /\ reader.end /\ reader.i = Len(sent)
  /\ reader.num_dec_mb = PicSizeInMbs(picture)
  /\ pc' = "done"
  /\ UNCHANGED <<job, map, encoder, reader, decoded>>

Done == pc = "done" /\ UNCHANGED vars

Next ==
  \/ StartSlice \/ NextSliceGroup \/ CodeMacroblock \/ FinishSlice
  \/ DecodeSlice \/ DecodeMacroblock \/ ExitPicture \/ Done

Spec == Init /\ [][Next]_vars
FairSpec == Spec /\ WF_vars(Next)

-----------------------------------------------------------------------------
(* Properties.                                                              *)

(* The jobs the theorems about the decoder are for: with runs an MBAFF      *)
(* picture has no slices of limited size, and an even number of macroblocks *)
(* in each slice, as PatchInp sees to (lencod/configfile.c).                *)
RunsWithPairs ==
  \A j \in Jobs :
    ~j.cabac /\ ~j.intra /\ j.picture.coding = "mbaff" =>
      /\ j.mode # "FIXED_RATE"
      /\ j.mode = "FIXED_MB" => j.argument \in Nat \ {0} /\ j.argument % 2 = 0

(* And of a sequence with MbInterlace only its MBAFF frames are in slices   *)
(* of limited size: in a field an odd macroblock that is too big, or is     *)
(* skipped, would take the data of the even one before it out of the slice. *)
PlacesKept ==
  \A j \in Jobs : j.mode = "FIXED_RATE" /\ j.MbInterlace => j.picture.coding = "mbaff"

(* Every macroblock is in a slice group of the picture parameter set, and   *)
(* in the evolving types group 0 has exactly the map units the cycle gives  *)
(* it and keeps them in the next: the box-out reaches every map unit.       *)
GroupZero(cycle) ==
  LET units == MapUnitToSliceGroupMap(picture, job.pps, cycle)
  IN {i \in DOMAIN units : units[i] = 0}

GroupsEvolve ==
  sent = <<>> =>
    /\ \A m \in Mbs(picture) : map[m] \in Groups(job.pps)
    /\ job.pps.type \in 3 .. 5 /\ job.pps.num_slice_groups = 2 =>
         /\ Cardinality(GroupZero(job.cycle))
              = MapUnitsInGroup0(picture, job.pps, job.cycle)
         /\ GroupZero(job.cycle) \subseteq GroupZero(job.cycle + 1)

(* Between two slices the count that ends the loops of code_a_plane is that *)
(* of the macroblocks before the next slice of each group, however often a  *)
(* macroblock was taken back, and all groups before this one are complete.  *)
BeforeNextSlice ==
  {m \in Mbs(picture) : FirstMBInSlice[map[m]] = -1 \/ m < FirstMBInSlice[map[m]]}

CountIsProgress ==
  /\ pc # "error 300"
  /\ pc = "slices" =>
       /\ NumberOfCodedMBs = Cardinality(BeforeNextSlice)
       /\ {m \in Mbs(picture) : coded[m] # Nothing} = BeforeNextSlice

(* The decoder finds each macroblock once, and as it was coded, although    *)
(* nothing but runs and bits says where it is.                              *)
DecodedAsCoded ==
  /\ \A m \in Mbs(picture) : decoded[m] \in {Nothing, coded[m]}
  /\ pc = "done" => decoded = coded

(* A slice ends for the decoder exactly where its data end: exit_macroblock *)
(* asserts it at the end of a slice group.  Only the bit at the end of the  *)
(* picture may be left unread.                                              *)
EndsWithData ==
  /\ reader.asserts
  /\ reader.i > 0 /\ reader.end =>
       SubSeq(data, reader.pos, Len(data)) \in {<<>>, <<EndOfSlice(1)>>}

(* A slice of an MBAFF picture begins with the top macroblock of a pair.    *)
SlicesBeginWithPairs ==
  Mbaff => \A g \in Groups(job.pps) : FirstMBInSlice[g] >= 0 => Top(FirstMBInSlice[g])

(* Encoder and decoder come to the end of the picture, and it is complete.  *)
PictureEnds == <>(pc = "done")
=============================================================================
