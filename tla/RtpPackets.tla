----------------------------- MODULE RtpPackets -----------------------------
(***************************************************************************)
(* NAL units through a file of RTP packets, of which the tool rtp_loss may *)
(* drop some: the encoder numbers and stamps the packets (lencod/rtp.c),   *)
(* the decoder counts the lost ones from the numbers (ldecod/rtp.c) and    *)
(* puts the data partitions of a slice together again (read_new_slice in   *)
(* ldecod/image.c).  A packet is modelled by what the decoder reads of it. *)
(***************************************************************************)
EXTENDS Integers, Sequences, SequencesExt

CONSTANTS
  SeqModulus,     (* sequence numbers are uint16                           *)
  SliceIds,       (* slice_id of a partition                               *)
  Parts,          (* the partitions that the slices of a file have         *)
  Steps,          (* how far frame_no may move from slice to slice         *)
  KeepLeading,    (* keep_leading_packets of rtp_loss                      *)
  MaxBurst,       (* bound on the packets lost in a row                    *)
  MaxPackets      (* bound on the packets of a file                        *)

(* Fewer packets are lost in a row than there are sequence numbers.         *)
ASSUME BurstAssumption == SeqModulus \in Nat /\ MaxBurst \in 0 .. SeqModulus - 1
(* "It is assumed that B frames are never older than 10 tr ticks."          *)
ASSUME StepAssumption == Steps \subseteq Int /\ \A d \in Steps : d >= -10

(* write_flag tells which of the partitions of a slice have content.        *)
SlicePartitions == {<<"slice">>, <<"A">>, <<"A", "B">>, <<"A", "C">>, <<"A", "B", "C">>}
ASSUME PartsAssumption == Parts \subseteq SlicePartitions

None == 0

VARIABLES
  CurrentRTPSequenceNumber, CurrentRTPTimestamp,
  frame_no,       (* of the slice that was written last, which is oldtr    *)
  sent,           (* the packets written, in order                         *)
  passed,         (* how many of them were read by the decoder or lost     *)
  burst,          (* how many of the last of these were lost               *)
  old_seq,        (* the last sequence number read, None on the first call *)
  nalu,           (* the last unit read                                    *)
  pending,        (* pending_nalu holds it back                            *)
  waiting,        (* the partitions read_new_slice waits for               *)
  slice,          (* the slice it puts together                            *)
  read,           (* which packets were read, in order                     *)
  decoded         (* the slices handed to the decoder, in order            *)

encoder   == <<CurrentRTPSequenceNumber, CurrentRTPTimestamp, frame_no, sent>>
assembler == <<pending, waiting, slice, decoded>>
reader    == <<read, old_seq, nalu>>
vars      == <<encoder, passed, burst, reader, assembler>>

Init ==
  /\ CurrentRTPSequenceNumber = 0 /\ CurrentRTPTimestamp = 0
  /\ frame_no = 0 /\ sent = <<>>
  /\ passed = 0 /\ burst = 0
  /\ read = <<>> /\ old_seq = <<>> /\ nalu = <<>>
  /\ pending = FALSE /\ waiting = {} /\ slice = <<>>
  /\ decoded = <<>>

-----------------------------------------------------------------------------
(* The encoder.                                                             *)

(* RTPUpdateTimestamp: how far the time moves with the frame number.        *)
DeltaFromNine(d) ==   (* Mutant of Delta. *)
  IF d < -9 THEN d + 256 ELSE d
Delta(d) == IF d < -10 THEN d + 256 ELSE d

(* Arithmetic of uint16.                                                    *)
Unwrapped(n) ==   (* Mutant of Wrapped. *)
  n
Wrapped(n) == n % SeqModulus

(* ComposeRTPPacket, for the n-th partition of a slice.                     *)
ComposeRTPPacket(n, type, id) ==
  [seq |-> Wrapped(CurrentRTPSequenceNumber + n - 1), timestamp |-> CurrentRTPTimestamp',
   type |-> type, slice_id |-> id, of |-> Len(sent) + 1, frame |-> frame_no']

(* A slice is written as one packet for each of its partitions.             *)
WriteRTPNALU ==
  \E parts \in Parts, id \in SliceIds, d \in IF sent = <<>> THEN {0} ELSE Steps :
    /\ Len(sent) + Len(parts) <= MaxPackets
    /\ frame_no + d >= 0
    /\ frame_no' = frame_no + d
    /\ CurrentRTPTimestamp' = CurrentRTPTimestamp + 1000 * Delta(d)
    /\ sent' = sent \o [n \in DOMAIN parts |-> ComposeRTPPacket(n, parts[n], id)]
    /\ CurrentRTPSequenceNumber' = Wrapped(CurrentRTPSequenceNumber + Len(parts))
    /\ UNCHANGED <<passed, burst, reader, assembler>>

(* keep_packet of rtp_loss, behind the leading packets.                     *)
LosePacket ==
  /\ passed < Len(sent) /\ passed >= KeepLeading /\ burst < MaxBurst
  /\ passed' = passed + 1 /\ burst' = burst + 1
  /\ UNCHANGED <<encoder, reader, assembler>>

-----------------------------------------------------------------------------
(* The decoder.                                                             *)

(* DecomposeRTPpacket: what is left of a packet in a NAL unit.              *)
DecomposeRTPpacket(p) == [type |-> p.type, slice_id |-> p.slice_id, of |-> p.of]

(* GetRTPNALU: the packets that are missing between two sequence numbers.   *)
MissingUnwrapped(seq) ==   (* Mutant of Missing. *)
  IF old_seq = <<>> THEN 0 ELSE seq - (old_seq[1] + 1)
Missing(seq) == IF old_seq = <<>> THEN 0 ELSE Wrapped(seq - (old_seq[1] + 1))

(* The slice is handed on, and unit n may be kept for the next call.        *)
FinishOnly(s, keep) ==   (* Mutant of Finish. *)
  /\ decoded' = Append(decoded, s) /\ pending' = FALSE
  /\ waiting' = {} /\ slice' = <<>>
Finish(s, keep) ==
  /\ decoded' = Append(decoded, s) /\ pending' = keep
  /\ waiting' = {} /\ slice' = <<>>

(* A unit with which a slice may begin.                                     *)
Begin(n) ==
  CASE n.type = "A" ->
         /\ slice' = [a |-> n.of, slice_id |-> n.slice_id, b |-> None, c |-> None]
         /\ waiting' = {"B", "C"} /\ pending' = FALSE /\ UNCHANGED decoded
    [] n.type = "slice" ->
         Finish([a |-> n.of, slice_id |-> n.slice_id, b |-> None, c |-> None], FALSE)
    [] OTHER ->
         UNCHANGED <<slice, waiting, decoded>> /\ pending' = FALSE

(* Whether partition n belongs to the slice, as far as the decoder can tell.*)
BelongsById(n) ==   (* Mutant of Belongs. *)
  n.slice_id = slice.slice_id
BelongsAfterNoLoss(n) ==   (* Mutant of Belongs. *)
  n.slice_id = slice.slice_id /\ n.lost = 0 /\ nalu.lost = 0
Belongs(n) == n.slice_id = slice.slice_id /\ n.lost = 0

(* A unit that is read behind a partition A, and perhaps a partition B.     *)
Continue(n) ==
  CASE n.type = "B" /\ "B" \in waiting /\ Belongs(n) ->
         /\ slice' = [slice EXCEPT !.b = n.of] /\ waiting' = {"C"}
         /\ UNCHANGED <<pending, decoded>>
    [] n.type = "C" ->
         Finish(IF Belongs(n) THEN [slice EXCEPT !.c = n.of] ELSE slice, FALSE)
    [] OTHER -> Finish(slice, TRUE)

(* read_next_nalu, and what read_new_slice does with the unit.              *)
ReadPacket ==
  /\ passed < Len(sent) /\ ~ pending
  /\ LET p == sent[passed + 1]
         n == [type |-> p.type, slice_id |-> p.slice_id, of |-> p.of, lost |-> Missing(p.seq)]
     IN  /\ nalu' = n
         /\ old_seq' = <<p.seq>>
         /\ IF waiting = {} THEN Begin(n) ELSE Continue(n)
  /\ passed' = passed + 1 /\ burst' = 0 /\ read' = Append(read, passed')
  /\ UNCHANGED encoder

(* The next call of read_new_slice starts with the unit that was held back. *)
ResumePending ==
  /\ pending /\ Begin(nalu)
  /\ UNCHANGED <<encoder, passed, burst, reader>>

(* The file ends while a slice waits for its partitions.                    *)
EndOfFileForC ==   (* Mutant of EndOfFile. *)
  /\ waiting = {"C"} /\ passed = Len(sent) /\ Len(sent) = MaxPackets
  /\ Finish(slice, FALSE)
  /\ UNCHANGED <<encoder, passed, burst, reader>>
EndOfFile ==
  /\ waiting # {} /\ passed = Len(sent) /\ Len(sent) = MaxPackets
  /\ Finish(slice, FALSE)
  /\ UNCHANGED <<encoder, passed, burst, reader>>

Next == WriteRTPNALU \/ LosePacket \/ ReadPacket \/ ResumePending \/ EndOfFile

(* The three programs run to their end.                                     *)
Spec == Init /\ [][Next]_vars /\ WF_vars(Next)

-----------------------------------------------------------------------------
(* Type invariant.                                                          *)
TypeOK ==
  /\ CurrentRTPSequenceNumber \in 0 .. SeqModulus - 1
  /\ CurrentRTPTimestamp \in Int /\ frame_no \in Nat
  /\ passed \in 0 .. Len(sent) /\ burst \in 0 .. MaxBurst
  /\ old_seq = <<>> \/ old_seq[1] \in 0 .. SeqModulus - 1
  /\ pending \in BOOLEAN /\ waiting \in {{}, {"C"}, {"B", "C"}}
  /\ (slice = <<>>) = (waiting = {})

(* The time stamp of a packet is the time of its frame, also of a B frame.  *)
TimestampOfFrame == \A n \in DOMAIN sent : sent[n].timestamp = 1000 * sent[n].frame

(* read_new_slice puts together only partitions of one slice, though a      *)
(* slice_id says little and whole slices may be missing between them.       *)
PartitionsOfOneSlice ==
  \A n \in DOMAIN decoded : decoded[n].b \in {None, decoded[n].a}
                         /\ decoded[n].c \in {None, decoded[n].a}

Begins(p) == p.type \in {"A", "slice"}

(* The slices handed to the decoder, the one put together and the one held  *)
(* back, named by their first packets.                                      *)
Given ==
  [n \in DOMAIN decoded |-> decoded[n].a]
    \o (IF waiting = {} THEN <<>> ELSE <<slice.a>>)
    \o (IF pending /\ Begins(nalu) THEN <<nalu.of>> ELSE <<>>)

(* Each partition A and each slice that is read is handed to the decoder    *)
(* once and in order, also one that was read in place of a partition.       *)
EachSliceOnce ==
  /\ \A i, j \in DOMAIN Given : i < j => Given[i] < Given[j]
  /\ Range(Given) = {k \in Range(read) : Begins(sent[k])}

(* A slice all of whose packets are read is decoded with all partitions.    *)
WholeWhenRead ==
  \A n \in DOMAIN decoded :
    LET mine == {k \in DOMAIN sent : sent[k].of = decoded[n].a}
    IN  (\A k \in mine : \E j \in DOMAIN read : read[j] = k) =>
          \A k \in mine : /\ sent[k].type = "B" => decoded[n].b # None
                         /\ sent[k].type = "C" => decoded[n].c # None

Units == [type : {"A", "B", "C", "slice"}, slice_id : SliceIds, of : Nat]
HasRead == old_seq # <<>>

Delivery == INSTANCE NalDelivery WITH
  Lossy <- TRUE,
  sent <- [n \in DOMAIN sent |-> DecomposeRTPpacket(sent[n])], passed <- passed - burst,
  got <- IF HasRead THEN <<DecomposeRTPpacket(nalu), nalu.lost>> ELSE <<>>

(* Packets arrive in order, none twice, and lost_packets says how many are  *)
(* missing in front of each.                                                *)
ImplementsDelivery == Delivery!InOrder

(* No slice waits forever for partitions that do not come.                  *)
EachSliceEnds == <>[](waiting = {} /\ ~ pending)
=============================================================================
