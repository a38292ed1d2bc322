------------------------------- MODULE AnnexB -------------------------------
(***************************************************************************)
(* NAL units through a file in the byte stream format of Annex B, byte for *)
(* byte: the encoder escapes the payload (lencod/nal.c), adds              *)
(* cabac_zero_words, and writes the unit behind a start code               *)
(* (lencod/annexb.c); the decoder reads the file in chunks, finds the next *)
(* start code, strips trailing zeros (ldecod/annexb.c) and removes the     *)
(* escapes (ldecod/nal.c).  The decoder starts on a finished file.         *)
(***************************************************************************)
EXTENDS Integers, Sequences, FiniteSets

CONSTANTS
  Bytes,          (* the bytes a payload is made of                        *)
  Headers,        (* headers of NAL units: one byte, or four with the      *)
                  (* extension for multiview coding                        *)
  IOBufferSize,   (* IOBUFFERSIZE                                          *)
  MaxUnits,       (* bound on the units of a file                          *)
  MaxBytes,       (* bound on the payload bytes of a file                  *)
  MaxZeroWords,   (* bound on the cabac_zero_words of a unit               *)
  MaxZeroBytes    (* bound on the zero bytes added to a file               *)

ASSUME ByteAssumption == Bytes \subseteq 0 .. 255
(* nal_unit_type is not 0, and reserved_one_bit ends the extension; with    *)
(* non_idr_flag 0, anchor_pic_flag is 1.                                    *)
ASSUME HeaderAssumption ==
  \A h \in Headers :
    /\ h \in Seq(0 .. 255) /\ Len(h) >= 1
    /\ h[1] # 0 /\ h[Len(h)] # 0
    /\ \A n \in 1 .. Len(h) - 2 : ~ (h[n] = 0 /\ h[n + 1] = 0 /\ h[n + 2] <= 3)
ASSUME BufferAssumption == IOBufferSize \in Nat \ {0}

VARIABLES
  pc,        (* what runs: "write" or "payload" in the encoder; "prefix",  *)
             (* "scan" or "unescape" in the decoder; "end" or "error"      *)
  nalu,      (* the unit that is written or read                           *)
  count,     (* zero bytes in a row, in RBSPtoEBSP and EBSPtoRBSP          *)
  file,      (* the bytes of the file                                      *)
  zeros,     (* how many zero bytes were added, for the bound                *)
  sent,      (* the units written: header and payload without escapes      *)
  unread,    (* the bytes of the file not yet read                         *)
  iobuffer,  (* the bytes read into the buffer and not yet used            *)
  Buf,       (* the bytes used by this call of get_annex_b_NALU            *)
  annex_b,   (* is_eof, nextstartcodebytes and IsFirstByteStreamNALU       *)
  arrived,   (* how many units have been read                              *)
  got        (* the last unit read                                         *)

written == <<nalu, count, file, zeros, sent>>
reader  == <<unread, iobuffer, Buf, annex_b, arrived, got>>
vars    == <<pc, written, reader>>

Zeros(n) == [k \in 1 .. n |-> 0]

NoUnit == [header |-> <<>>, startcodeprefix_len |-> 0, rbsp |-> <<>>, buf |-> <<>>]

Init ==
  /\ pc = "write" /\ nalu = NoUnit /\ count = 0
  /\ file = <<>> /\ zeros = 0 /\ sent = <<>>
  /\ unread = <<>> /\ iobuffer = <<>> /\ Buf = <<>>
  /\ annex_b = [is_eof |-> FALSE, nextstartcodebytes |-> 0, IsFirst |-> TRUE]
  /\ arrived = 0 /\ got = <<>>

-----------------------------------------------------------------------------
(* The encoder.                                                             *)

Used == LET f[n \in 0 .. Len(sent)] == IF n = 0 THEN 0 ELSE f[n - 1] + Len(sent[n].rbsp)
        IN  f[Len(sent)] + Len(nalu.rbsp)

(* RBSPtoNALU and terminate_slice start a unit; the first of a file is a    *)
(* sequence parameter set, which has the long start code.                   *)
StartUnit ==
  /\ pc = "write" /\ Len(sent) < MaxUnits /\ Used < MaxBytes
  /\ \E h \in Headers, n \in IF sent = <<>> THEN {4} ELSE {3, 4} :
       nalu' = [NoUnit EXCEPT !.header = h, !.startcodeprefix_len = n]
  /\ pc' = "payload" /\ count' = 0
  /\ UNCHANGED <<file, zeros, sent, reader>>

(* A byte that is escaped, and the zeros in a row behind byte b.            *)
EscapesBelowThree(b) == count = 2 /\ b < 3
EscapesZeroOnly(b) ==   (* Mutant of Escapes. *)
  count = 2 /\ b = 0
Escapes(b) == count = 2 /\ b <= 3
CountOn(b, escape) ==   (* Mutant of Count. *)
  IF b # 0 THEN 0 ELSE count + 1
Count(b, escape) == IF b # 0 THEN 0 ELSE IF escape THEN 1 ELSE count + 1

(* One turn of the loop of RBSPtoEBSP.                                      *)
RBSPtoEBSP ==
  /\ pc = "payload"
  /\ \E b \in Bytes :
       /\ IF b = 0 THEN Used + 1 < MaxBytes ELSE Used < MaxBytes
       /\ nalu' = [nalu EXCEPT !.rbsp = Append(@, b),
                               !.buf = @ \o (IF Escapes(b) THEN <<3, b>> ELSE <<b>>)]
       /\ count' = Count(b, Escapes(b))
  /\ UNCHANGED <<pc, file, zeros, sent, reader>>

(* SODBtoRBSP, and the end of the arithmetic code, leave a last byte that   *)
(* holds a one; a prefix unit is written without a payload.                 *)
HasTrailingBit ==
  IF nalu.rbsp = <<>> THEN Len(nalu.header) = 4 ELSE nalu.rbsp[Len(nalu.rbsp)] # 0

StartCode(n) == Zeros(n - 1) \o <<1>>

(* addCabacZeroWords, for some slices, and WriteAnnexbNALU.                 *)
WriteAnnexbNALU ==
  /\ pc = "payload" /\ HasTrailingBit
  /\ \E words \in 0 .. MaxZeroWords :
       file' = file \o StartCode(nalu.startcodeprefix_len) \o nalu.header \o nalu.buf
                    \o [k \in 1 .. 3 * words |-> IF k % 3 = 0 THEN 3 ELSE 0]
  /\ sent' = Append(sent, [header |-> nalu.header, rbsp |-> nalu.rbsp])
  /\ pc' = "write"
  /\ UNCHANGED <<nalu, count, zeros, reader>>

(* Other writers put leading_zero_8bits and trailing_zero_8bits between the *)
(* units, which the decoder expects.                                        *)
AddZeroByte ==
  /\ pc = "write" /\ zeros < MaxZeroBytes
  /\ file' = Append(file, 0) /\ zeros' = zeros + 1
  /\ UNCHANGED <<pc, nalu, count, sent, reader>>

-----------------------------------------------------------------------------
(* The decoder.                                                             *)

Smaller(m, n) == IF m < n THEN m ELSE n

(* getChunk: what is read, and what is left in the file.                    *)
Chunk(bytes) == SubSeq(bytes, 1, Smaller(IOBufferSize, Len(bytes)))
Rest(bytes)  == SubSeq(bytes, Smaller(IOBufferSize, Len(bytes)) + 1, Len(bytes))

(* The encoder closes the file and open_annex_b of the decoder opens it,    *)
(* with a first call of getChunk.                                           *)
Open ==
  /\ pc = "write" /\ (sent = <<>> => file = <<>>) /\ pc' = "prefix"
  /\ iobuffer' = Chunk(file) /\ unread' = Rest(file)
  /\ annex_b' = [annex_b EXCEPT !.is_eof = file = <<>>]
  /\ nalu' = NoUnit /\ count' = 0
  /\ UNCHANGED <<file, zeros, sent, Buf, arrived, got>>

(* getfbyte appends to Buf the next byte, or 0 at the end of the file.      *)
getfbyte ==
  LET used == iobuffer # <<>>
      from == IF used THEN iobuffer ELSE Chunk(unread)
  IN  IF from = <<>>
      THEN /\ annex_b' = [annex_b EXCEPT !.is_eof = TRUE]
           /\ Buf' = Append(Buf, 0)
           /\ UNCHANGED <<unread, iobuffer>>
      ELSE /\ iobuffer' = Tail(from) /\ Buf' = Append(Buf, Head(from))
           /\ unread' = IF used THEN unread ELSE Rest(unread)
           /\ UNCHANGED annex_b

(* The start code was found in the call before, and is put back.            *)
PutBackStartCode ==
  /\ pc = "prefix" /\ Buf = <<>> /\ annex_b.nextstartcodebytes # 0
  /\ Buf' = StartCode(annex_b.nextstartcodebytes)
  /\ UNCHANGED <<pc, written, unread, iobuffer, annex_b, arrived, got>>

ReadPrefix ==
  /\ pc = "prefix" /\ ~ annex_b.is_eof
  /\ annex_b.nextstartcodebytes = 0
  /\ Buf # <<>> => Buf[Len(Buf)] = 0
  /\ getfbyte
  /\ UNCHANGED <<pc, written, arrived, got>>

(* What get_annex_b_NALU returns when no start code is at the beginning.    *)
EndOfFile ==
  /\ pc = "prefix" /\ annex_b.is_eof
  /\ annex_b.nextstartcodebytes = 0
  /\ pc' = IF Buf = <<>> THEN "end" ELSE "error"
  /\ UNCHANGED <<written, reader>>

(* leading_zero_8bits in front of a start code of four bytes.               *)
LeadingOverThree ==   (* Mutant of LeadingZeros. *)
  IF Len(Buf) > 3 THEN Len(Buf) - 3 ELSE 0
LeadingZeros == IF Len(Buf) > 4 THEN Len(Buf) - 4 ELSE 0

CheckPrefix ==
  /\ pc = "prefix" /\ ~ annex_b.is_eof
  /\ Buf # <<>> /\ Buf[Len(Buf)] # 0
  /\ LET accepted == /\ Buf[Len(Buf)] = 1 /\ Len(Buf) >= 3
                     /\ annex_b.IsFirst \/ LeadingZeros = 0
     IN  /\ pc' = IF accepted THEN "scan" ELSE "error"
         /\ nalu' = [nalu EXCEPT !.startcodeprefix_len = Len(Buf)]
         /\ annex_b' = [annex_b EXCEPT !.IsFirst = @ /\ ~ accepted]
  /\ UNCHANGED <<count, file, zeros, sent, unread, iobuffer, Buf, arrived, got>>

(* FindStartCode, with n zeros, in the last bytes that were read.           *)
FindStartCode(bytes, n) ==
  /\ Len(bytes) > n
  /\ bytes[Len(bytes)] = 1
  /\ \A k \in 1 .. n : bytes[Len(bytes) - k] = 0

(* How much of the first n bytes of Buf is left when the zeros at its end   *)
(* are taken off.                                                           *)
Stripped(n) == CHOOSE m \in 0 .. n :
  (m = 0 \/ Buf[m] # 0) /\ \A k \in m + 1 .. n : Buf[k] = 0

(* The unit, from behind its start code up to byte n, is handed over.       *)
Hand(n, next) ==
  /\ nalu' = [nalu EXCEPT !.buf = SubSeq(Buf, nalu.startcodeprefix_len + 1, n), !.rbsp = <<>>]
  /\ annex_b' = [annex_b EXCEPT !.nextstartcodebytes = next]
  /\ Buf' = <<>> /\ count' = 0
  /\ pc' = "unescape"
  /\ UNCHANGED <<file, zeros, sent, unread, iobuffer, arrived, got>>

ReadByte ==
  /\ pc = "scan" /\ ~ annex_b.is_eof
  /\ FindStartCode(Buf, 2) => Len(Buf) = nalu.startcodeprefix_len
  /\ getfbyte
  /\ UNCHANGED <<pc, written, arrived, got>>

LastUnit ==
  /\ pc = "scan" /\ annex_b.is_eof
  /\ Hand(Stripped(Len(Buf) - 1), 0)

FoundStartCode ==
  /\ pc = "scan" /\ ~ annex_b.is_eof
  /\ Len(Buf) > nalu.startcodeprefix_len /\ FindStartCode(Buf, 2)
  /\ IF FindStartCode(Buf, 3) THEN Hand(Stripped(Len(Buf) - 4), 4) ELSE Hand(Len(Buf) - 3, 3)

(* One turn of the loop of EBSPtoRBSP.  Here nalu.buf is what is still to   *)
(* be read behind the first byte, and nalu.rbsp what is restored of it.     *)
EBSPtoRBSP ==
  /\ pc = "unescape" /\ Len(nalu.buf) > 1
  /\ LET b == nalu.buf[2]
         escape == count = 2 /\ b = 3
         last == Len(nalu.buf) = 2
         bad == count = 2 /\ (b < 3 \/ (escape /\ ~ last /\ nalu.buf[3] > 3))
         kept == IF escape /\ ~ last THEN nalu.buf[3] ELSE b
         used == IF escape /\ ~ last THEN 2 ELSE 1
     IN  /\ pc' = IF bad THEN "error" ELSE pc
         /\ nalu' = [nalu EXCEPT
              !.buf = <<@[1]>> \o SubSeq(@, 2 + used, Len(@)),
              !.rbsp = IF escape /\ last THEN @ ELSE Append(@, kept)]
         /\ count' = IF escape /\ last THEN count ELSE Count(kept, escape)
  /\ UNCHANGED <<file, zeros, sent, reader>>

KeepAll(bytes) ==   (* Mutant of RBSPtoSODB. *)
  bytes
(* RBSPtoSODB drops the bytes behind the last one that is not zero.         *)
RBSPtoSODB(bytes) == SubSeq(bytes, 1, CHOOSE m \in 0 .. Len(bytes) :
  (m = 0 \/ bytes[m] # 0) /\ \A k \in m + 1 .. Len(bytes) : bytes[k] = 0)

(* read_next_nalu returns the unit, and the payload goes to its parser.     *)
ReturnUnit ==
  /\ pc = "unescape" /\ Len(nalu.buf) <= 1
  /\ IF nalu.buf = <<>>
     THEN pc' = "end" /\ UNCHANGED <<arrived, got>>
     ELSE /\ pc' = "prefix" /\ arrived' = arrived + 1
          /\ got' = nalu.buf \o RBSPtoSODB(nalu.rbsp)
  /\ UNCHANGED <<written, unread, iobuffer, Buf, annex_b>>

-----------------------------------------------------------------------------
Next ==
  \/ StartUnit \/ RBSPtoEBSP \/ WriteAnnexbNALU \/ AddZeroByte
  \/ Open \/ PutBackStartCode \/ ReadPrefix \/ EndOfFile \/ CheckPrefix
  \/ ReadByte \/ LastUnit \/ FoundStartCode \/ EBSPtoRBSP \/ ReturnUnit

(* Both programs run to their end.                                          *)
Spec == Init /\ [][Next]_vars /\ WF_vars(Next)

-----------------------------------------------------------------------------
ByteSeqs == Seq(0 .. 255)

(* Type invariant.                                                          *)
TypeOK ==
  /\ pc \in {"write", "payload", "prefix", "scan", "unescape", "end", "error"}
  /\ nalu \in [header : Headers \cup {<<>>}, startcodeprefix_len : Nat,
               rbsp : ByteSeqs, buf : ByteSeqs]
  /\ count \in 0 .. 2 /\ zeros \in Nat /\ arrived \in Nat
  /\ sent \in Seq([header : Headers, rbsp : ByteSeqs])
  /\ annex_b \in [is_eof : BOOLEAN, nextstartcodebytes : {0, 3, 4}, IsFirst : BOOLEAN]
  /\ \A bytes \in {file, unread, iobuffer, Buf, got} : bytes \in ByteSeqs

(* RBSPtoEBSP leaves nothing in a payload that a decoder could take for a   *)
(* start code, or for the zeros in front of one.                            *)
NoStartCodeInPayload ==
  \A n \in 1 .. Len(nalu.buf) - 2 :
    pc = "payload" => ~ (nalu.buf[n] = 0 /\ nalu.buf[n + 1] = 0 /\ nalu.buf[n + 2] < 3)

(* get_annex_b_NALU and EBSPtoRBSP report no error for a written file.      *)
NothingRefused == pc # "error"

Unit(u) == u.header \o u.rbsp

Delivery == INSTANCE NalDelivery WITH
  Units <- Seq(0 .. 255), Lossy <- FALSE,
  sent <- [n \in DOMAIN sent |-> Unit(sent[n])], passed <- arrived,
  got <- IF got = <<>> THEN <<>> ELSE <<got, 0>>

(* The decoder reads the units that the encoder wrote, each once, in order  *)
(* and unchanged, wherever the borders of the chunks are.                   *)
ImplementsDelivery == Delivery!Spec
=============================================================================
