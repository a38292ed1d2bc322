----------------------------- MODULE RtpProofs -----------------------------
(***************************************************************************)
(* Of the numbers and time stamps of RTP packets and of the partitions     *)
(* that read_new_slice puts together, for every number of sequence         *)
(* numbers, every burst shorter than that, and files of every length: a    *)
(* slice has partitions of its own only, all of them if none was lost, and *)
(* each slice that is read is decoded once.                                *)
(***************************************************************************)
EXTENDS RtpPackets, TLAPS

-----------------------------------------------------------------------------
(* Arithmetic of the sequence numbers.                                      *)

LEMMA Division ==
  ASSUME NEW M \in Nat \ {0}, NEW a \in Int
  PROVE  /\ a \div M \in Int /\ a % M \in 0 .. M - 1
         /\ a = (a \div M) * M + (a % M)
<1>1. a = M * (a \div M) + (a % M) /\ a % M \in 0 .. M - 1 /\ a \div M \in Int
  BY SMT
<1>2. M * (a \div M) = (a \div M) * M BY <1>1, SMT
<1>3. QED BY <1>1, <1>2

(* There is one rest.                                                       *)
LEMMA Rest ==
  ASSUME NEW M \in Nat \ {0}, NEW k \in Int, NEW r \in 0 .. M - 1
  PROVE  (k * M + r) % M = r
<1> DEFINE a == k * M + r
           q == a \div M
           s == a % M
<1>1. a \in Int BY SMT
<1>2. q \in Int /\ s \in 0 .. M - 1 /\ a = q * M + s BY <1>1, Division
<1> HIDE DEF q, s
<1>3. (k - q) * M = s - r
  <2>1. k * M + r = q * M + s BY <1>2
  <2>2. (k - q) * M = k * M - q * M BY <1>2, SMT
  <2>3. k * M \in Int /\ q * M \in Int BY <1>2, SMT
  <2>4. QED BY <1>2, <2>1, <2>2, <2>3, SMT
<1>4. k - q < 1
  <2>1. SUFFICES ASSUME k - q >= 1 PROVE FALSE BY <1>2
  <2>2. (k - q) * M >= M BY <1>2, <2>1, SMT
  <2>3. QED BY <1>2, <1>3, <2>2, SMT
<1>5. k - q > -1
  <2>1. SUFFICES ASSUME k - q <= -1 PROVE FALSE BY <1>2
  <2>2. (k - q) * M <= -M BY <1>2, <2>1, SMT
  <2>3. QED BY <1>2, <1>3, <2>2, SMT
<1>6. k - q = 0 BY <1>2, <1>4, <1>5, SMT
<1>7. s = r BY <1>2, <1>3, <1>6, SMT
<1>8. QED BY <1>7 DEF s

(* A number that was wrapped before may be added to.                        *)
LEMMA WrapSum ==
  ASSUME NEW M \in Nat \ {0}, NEW a \in Int, NEW b \in Int
  PROVE  ((a % M) + b) % M = (a + b) % M
<1> DEFINE q == a \div M
           r == a % M
           p == (r + b) \div M
           s == (r + b) % M
<1>1. q \in Int /\ r \in 0 .. M - 1 /\ a = q * M + r BY Division
<1>2. r + b \in Int BY <1>1, SMT
<1>3. p \in Int /\ s \in 0 .. M - 1 /\ r + b = p * M + s BY <1>2, Division
<1> HIDE DEF q, r, p, s
<1>4. a + b = (q + p) * M + s
  <2>1. (q + p) * M = q * M + p * M BY <1>1, <1>3, SMT
  <2>2. q * M \in Int /\ p * M \in Int BY <1>1, <1>3, SMT
  <2>3. QED BY <1>1, <1>3, <2>1, <2>2, SMT
<1>5. ((q + p) * M + s) % M = s BY <1>1, <1>3, Rest
<1>6. QED BY <1>4, <1>5 DEF r, s

(* How many numbers stand between two wrapped ones, when less than M.       *)
LEMMA WrapDistance ==
  ASSUME NEW M \in Nat \ {0}, NEW a \in Int, NEW n \in 0 .. M - 1
  PROVE  (((a + n + 1) % M) - ((a % M) + 1)) % M = n
<1> DEFINE q == a \div M
           r == a % M
           p == (a + n + 1) \div M
           s == (a + n + 1) % M
<1>1. q \in Int /\ r \in 0 .. M - 1 /\ a = q * M + r BY Division
<1>2. a + n + 1 \in Int BY SMT
<1>3. p \in Int /\ s \in 0 .. M - 1 /\ a + n + 1 = p * M + s BY <1>2, Division
<1> HIDE DEF q, r, p, s
<1>4. s - (r + 1) = (q - p) * M + n
  <2>1. (q - p) * M = q * M - p * M BY <1>1, <1>3, SMT
  <2>2. q * M \in Int /\ p * M \in Int BY <1>1, <1>3, SMT
  <2>3. QED BY <1>1, <1>3, <2>1, <2>2, SMT
<1>5. ((q - p) * M + n) % M = n
  <2>1. q - p \in Int BY <1>1, <1>3
  <2>2. QED BY <2>1, Rest, Zenon
<1>6. QED BY <1>4, <1>5 DEF r, s

-----------------------------------------------------------------------------
(* The packets of the encoder.                                              *)

Types == {"A", "B", "C", "slice"}
Numbers == 0 .. SeqModulus - 1
Packets == [seq : Numbers, timestamp : Int, type : Types, slice_id : SliceIds,
            of : Nat \ {0}, frame : Nat]

(* A partition B or C stands behind another one of its slice.               *)
Behind(p, q) ==
  q.type \in {"B", "C"} => p.type \in {"A", "B"} /\ p.of = q.of
Follows(s) ==
  \A k \in 1 .. Len(s) :
    /\ s[k].type \in {"B", "C"} => k > 1
    /\ k > 1 => Behind(s[k - 1], s[k])

EncoderInv ==
  /\ sent \in Seq(Packets)
  /\ CurrentRTPSequenceNumber = Len(sent) % SeqModulus
  /\ \A k \in 1 .. Len(sent) : sent[k].seq = (k - 1) % SeqModulus
  /\ frame_no \in Nat /\ CurrentRTPTimestamp = 1000 * frame_no
  /\ \A k \in 1 .. Len(sent) : sent[k].timestamp = 1000 * sent[k].frame
  /\ Follows(sent)

LEMMA Modulus == SeqModulus \in Nat \ {0} /\ MaxBurst \in Nat /\ MaxBurst < SeqModulus
BY BurstAssumption

LEMMA PartsType ==
  ASSUME NEW parts \in Parts
  PROVE  /\ parts \in Seq(Types) /\ Len(parts) >= 1
         /\ DOMAIN parts = 1 .. Len(parts)
         /\ \A n \in 1 .. Len(parts) : parts[n] \in {"B", "C"} =>
              n > 1 /\ parts[n - 1] \in {"A", "B"}
<1>1. CASE parts = <<"slice">> BY <1>1 DEF Types
<1>2. CASE parts = <<"A">> BY <1>2 DEF Types
<1>3. CASE parts = <<"A", "B">> BY <1>3 DEF Types
<1>4. CASE parts = <<"A", "C">> BY <1>4 DEF Types
<1>5. CASE parts = <<"A", "B", "C">> BY <1>5 DEF Types
<1>6. QED
  BY <1>1, <1>2, <1>3, <1>4, <1>5, PartsAssumption DEF SlicePartitions

LEMMA Joined ==
  ASSUME NEW S, NEW s \in Seq(S), NEW t \in Seq(S)
  PROVE  /\ s \o t \in Seq(S) /\ Len(s \o t) = Len(s) + Len(t)
         /\ \A k \in 1 .. Len(s) : (s \o t)[k] = s[k]
         /\ \A k \in Len(s) + 1 .. Len(s) + Len(t) : (s \o t)[k] = t[k - Len(s)]
OBVIOUS

(* The last packets of one sequence in front of the first of another.       *)
LEMMA FollowsOn ==
  ASSUME NEW s \in Seq(Packets), NEW t \in Seq(Packets), Follows(s), Follows(t),
         Len(t) >= 1
  PROVE  Follows(s \o t)
<1> DEFINE u == s \o t
<1>1. /\ Len(u) = Len(s) + Len(t) /\ Len(s) \in Nat /\ Len(t) \in Nat
      /\ \A k \in 1 .. Len(s) : u[k] = s[k]
      /\ \A k \in Len(s) + 1 .. Len(u) : u[k] = t[k - Len(s)]
  OBVIOUS
<1>2. SUFFICES ASSUME NEW k \in 1 .. Len(u)
               PROVE  /\ u[k].type \in {"B", "C"} => k > 1
                      /\ k > 1 => Behind(u[k - 1], u[k])
  BY DEF Follows
<1>3. CASE k <= Len(s)
  BY <1>1, <1>3 DEF Follows
<1>4. CASE k > Len(s)
  <2>1. k - Len(s) \in 1 .. Len(t) BY <1>1, <1>4
  <2>2. CASE k - Len(s) = 1
    <3>1. u[k].type \notin {"B", "C"} BY <1>1, <1>4, <2>1, <2>2 DEF Follows
    <3>2. QED BY <3>1 DEF Behind
  <2>3. CASE k - Len(s) > 1
    <3>1. u[k] = t[k - Len(s)] /\ u[k - 1] = t[k - Len(s) - 1]
      BY <1>1, <1>4, <2>1, <2>3
    <3>2. QED BY <1>1, <2>1, <2>3, <3>1 DEF Follows
  <2>4. QED BY <2>1, <2>2, <2>3
<1>5. QED BY <1>1, <1>3, <1>4

(* The packets of one slice.                                                *)
LEMMA SlicePackets ==
  ASSUME EncoderInv, NEW parts \in Parts, NEW id \in SliceIds,
         frame_no' \in Nat, CurrentRTPTimestamp' = 1000 * frame_no'
  PROVE  LET add == [n \in DOMAIN parts |-> ComposeRTPPacket(n, parts[n], id)]
         IN  /\ add \in Seq(Packets) /\ Len(add) = Len(parts)
             /\ \A n \in 1 .. Len(add) :
                  /\ add[n].seq = (Len(sent) + n - 1) % SeqModulus
                  /\ add[n].timestamp = 1000 * add[n].frame
             /\ Follows(add)
<1> DEFINE add == [n \in DOMAIN parts |-> ComposeRTPPacket(n, parts[n], id)]
<1>1. /\ parts \in Seq(Types) /\ Len(parts) \in Nat /\ DOMAIN parts = 1 .. Len(parts)
      /\ \A n \in 1 .. Len(parts) : parts[n] \in {"B", "C"} =>
           n > 1 /\ parts[n - 1] \in {"A", "B"}
  BY PartsType
<1>2. Len(sent) \in Nat BY DEF EncoderInv
<1>3. ASSUME NEW n \in 1 .. Len(parts)
      PROVE  /\ add[n] = ComposeRTPPacket(n, parts[n], id)
             /\ add[n].seq = (Len(sent) + n - 1) % SeqModulus
             /\ add[n].timestamp = 1000 * add[n].frame
             /\ add[n].type = parts[n]
             /\ add[n].of = Len(sent) + 1
             /\ add[n] \in Packets
  <2>1. add[n] = ComposeRTPPacket(n, parts[n], id) BY <1>1
  <2>2. (CurrentRTPSequenceNumber + n - 1) % SeqModulus = (Len(sent) + n - 1) % SeqModulus
    <3>1. ((Len(sent) % SeqModulus) + (n - 1)) % SeqModulus = (Len(sent) + (n - 1)) % SeqModulus
      <4>1. Len(sent) \in Int /\ n - 1 \in Int /\ SeqModulus \in Nat \ {0}
        BY <1>2, Modulus
      <4>2. QED BY <4>1, WrapSum, Zenon
    <3>2. Len(sent) % SeqModulus \in Int BY <1>2, Modulus, Division
    <3>3. (Len(sent) % SeqModulus) + (n - 1) = CurrentRTPSequenceNumber + n - 1
      BY <3>2 DEF EncoderInv
    <3>4. Len(sent) + (n - 1) = Len(sent) + n - 1 BY <1>2
    <3>5. QED BY <3>1, <3>3, <3>4
  <2>3. (Len(sent) + n - 1) % SeqModulus \in Numbers
    <3>1. Len(sent) + n - 1 \in Int /\ SeqModulus \in Nat \ {0} BY <1>2, Modulus
    <3>2. QED BY <3>1, Division, Zenon DEF Numbers
  <2>4. parts[n] \in Types BY <1>1
  <2>5. add[n] = [seq |-> (Len(sent) + n - 1) % SeqModulus,
                  timestamp |-> CurrentRTPTimestamp', type |-> parts[n],
                  slice_id |-> id, of |-> Len(sent) + 1, frame |-> frame_no']
    BY <2>1, <2>2 DEF ComposeRTPPacket, Wrapped
  <2>6. CurrentRTPTimestamp' \in Int OBVIOUS
  <2>7. add[n] \in Packets BY <1>2, <2>3, <2>4, <2>5, <2>6 DEF Packets
  <2>8. QED BY <2>1, <2>5, <2>7
<1>4. add \in Seq(Packets) /\ Len(add) = Len(parts)
  <2>1. add \in [1 .. Len(parts) -> Packets] BY <1>1, <1>3
  <2>2. QED BY <1>1, <2>1
<1> HIDE DEF add
<1>5. Follows(add)
  <2>1. SUFFICES ASSUME NEW k \in 1 .. Len(add)
                 PROVE  /\ add[k].type \in {"B", "C"} => k > 1
                        /\ k > 1 => Behind(add[k - 1], add[k])
    BY DEF Follows
  <2>2. add[k].type = parts[k] /\ add[k].of = Len(sent) + 1 BY <1>3, <1>4
  <2>3. CASE k > 1
    <3>1. k - 1 \in 1 .. Len(parts) BY <1>1, <1>4, <2>3
    <3>2. add[k - 1].type = parts[k - 1] /\ add[k - 1].of = Len(sent) + 1
      BY <1>3, <3>1
    <3>3. QED BY <1>1, <1>4, <2>2, <2>3, <3>2 DEF Behind
  <2>4. CASE k = 1 BY <1>1, <1>4, <2>2, <2>4
  <2>5. QED BY <1>1, <1>4, <2>3, <2>4
<1>6. /\ add \in Seq(Packets) /\ Len(add) = Len(parts)
      /\ \A n \in 1 .. Len(add) :
           /\ add[n].seq = (Len(sent) + n - 1) % SeqModulus
           /\ add[n].timestamp = 1000 * add[n].frame
      /\ Follows(add)
  BY <1>3, <1>4, <1>5
<1>7. QED BY <1>6 DEF add

LEMMA EncoderWrites ==
  ASSUME EncoderInv, WriteRTPNALU
  PROVE  /\ EncoderInv'
         /\ Len(sent') > Len(sent)
         /\ \A k \in 1 .. Len(sent) : sent'[k] = sent[k]
<1>1. PICK parts \in Parts, id \in SliceIds, d \in (IF sent = <<>> THEN {0} ELSE Steps) :
        /\ Len(sent) + Len(parts) <= MaxPackets
        /\ frame_no + d >= 0
        /\ frame_no' = frame_no + d
        /\ CurrentRTPTimestamp' = CurrentRTPTimestamp + 1000 * Delta(d)
        /\ sent' = sent \o [n \in DOMAIN parts |-> ComposeRTPPacket(n, parts[n], id)]
        /\ CurrentRTPSequenceNumber' = Wrapped(CurrentRTPSequenceNumber + Len(parts))
        /\ UNCHANGED <<passed, burst, reader, assembler>>
  BY DEF WriteRTPNALU
<1> DEFINE add == [n \in DOMAIN parts |-> ComposeRTPPacket(n, parts[n], id)]
<1>2. d \in Int /\ Delta(d) = d
  BY StepAssumption DEF Delta
<1>3. frame_no \in Nat /\ CurrentRTPTimestamp = 1000 * frame_no
  BY DEF EncoderInv
<1>4. frame_no' \in Nat /\ CurrentRTPTimestamp' = 1000 * frame_no'
  BY <1>1, <1>2, <1>3
<1>5. /\ add \in Seq(Packets) /\ Len(add) = Len(parts)
      /\ \A n \in 1 .. Len(add) :
           /\ add[n].seq = (Len(sent) + n - 1) % SeqModulus
           /\ add[n].timestamp = 1000 * add[n].frame
      /\ Follows(add)
  BY <1>4, SlicePackets
<1>6. Len(parts) \in Nat /\ Len(parts) >= 1 BY PartsType
<1>7. sent \in Seq(Packets) /\ Len(sent) \in Nat BY DEF EncoderInv
<1>8. sent' = sent \o add BY <1>1
<1> HIDE DEF add
<1>9. /\ sent' \in Seq(Packets) /\ Len(sent') = Len(sent) + Len(parts)
      /\ \A k \in 1 .. Len(sent) : sent'[k] = sent[k]
      /\ \A k \in Len(sent) + 1 .. Len(sent') : sent'[k] = add[k - Len(sent)]
  <2>1. /\ sent \o add \in Seq(Packets) /\ Len(sent \o add) = Len(sent) + Len(add)
        /\ \A k \in 1 .. Len(sent) : (sent \o add)[k] = sent[k]
        /\ \A k \in Len(sent) + 1 .. Len(sent) + Len(add) :
             (sent \o add)[k] = add[k - Len(sent)]
    <3>1. add \in Seq(Packets) BY <1>5
    <3>2. QED BY <1>7, <3>1, Joined
  <2>2. QED BY <1>5, <1>8, <2>1
<1>10. CurrentRTPSequenceNumber' = Len(sent') % SeqModulus
  <2>1. ((Len(sent) % SeqModulus) + Len(parts)) % SeqModulus
          = (Len(sent) + Len(parts)) % SeqModulus
    <3>1. Len(sent) \in Int /\ Len(parts) \in Int /\ SeqModulus \in Nat \ {0}
      BY <1>6, <1>7, Modulus
    <3>2. QED BY <3>1, WrapSum, Zenon
  <2>2. QED BY <1>1, <1>9, <2>1 DEF EncoderInv, Wrapped
<1>11. ASSUME NEW k \in 1 .. Len(sent')
       PROVE  /\ sent'[k].seq = (k - 1) % SeqModulus
              /\ sent'[k].timestamp = 1000 * sent'[k].frame
  <2>1. CASE k <= Len(sent) BY <1>7, <1>9, <2>1 DEF EncoderInv
  <2>2. CASE k > Len(sent)
    <3>1. k - Len(sent) \in 1 .. Len(add) BY <1>5, <1>6, <1>7, <1>9, <2>2
    <3>2. sent'[k] = add[k - Len(sent)] BY <1>7, <1>9, <2>2
    <3>3. Len(sent) + (k - Len(sent)) - 1 = k - 1 BY <1>7, <1>9
    <3>4. QED BY <1>5, <3>1, <3>2, <3>3
  <2>3. QED BY <1>7, <1>9, <2>1, <2>2
<1>12. Follows(sent')
  BY <1>5, <1>6, <1>7, <1>8, FollowsOn DEF EncoderInv
<1>13. EncoderInv'
  BY <1>4, <1>9, <1>10, <1>11, <1>12 DEF EncoderInv
<1>14. QED BY <1>6, <1>7, <1>9, <1>13

-----------------------------------------------------------------------------
(* The units that the decoder reads.                                        *)

ReadUnits == [type : Types, slice_id : SliceIds, of : Nat \ {0}, lost : Int]

(* The packet that was read last, 0 when there is none.                     *)
At == passed - burst

ReaderInv ==
  /\ passed \in 0 .. Len(sent) /\ burst \in 0 .. MaxBurst /\ burst <= passed
  /\ At = 0 => old_seq = <<>>
  /\ At > 0 =>
       /\ old_seq = <<sent[At].seq>>
       /\ nalu \in ReadUnits
       /\ nalu.type = sent[At].type /\ nalu.slice_id = sent[At].slice_id
       /\ nalu.of = sent[At].of
  /\ pending \/ waiting # {} => At > 0

(* What read_new_slice puts together: partitions of one slice.              *)
Slices == {s \in [a : Nat \ {0}, slice_id : SliceIds, b : Nat, c : Nat] :
             s.b \in {None, s.a} /\ s.c \in {None, s.a}}

AssemblerInv ==
  /\ pending \in BOOLEAN /\ waiting \in {{}, {"C"}, {"B", "C"}}
  /\ pending => waiting = {}
  /\ waiting = {} => slice = <<>>
  /\ waiting # {} => slice \in Slices /\ slice.c = None /\ slice.a = nalu.of
  /\ decoded \in Seq(Slices)

PacketInv == EncoderInv /\ ReaderInv /\ AssemblerInv

LEMMA PacketInit == Init => PacketInv
<1>1. SUFFICES ASSUME Init PROVE PacketInv OBVIOUS
<1>2. EncoderInv
  <2>1. 0 = Len(sent) % SeqModulus
    <3>1. (0 * SeqModulus + 0) % SeqModulus = 0 BY Modulus, Rest
    <3>2. 0 * SeqModulus + 0 = 0 BY Modulus
    <3>3. QED BY <1>1, <3>1, <3>2 DEF Init
  <2>2. QED BY <1>1, <2>1 DEF Init, EncoderInv, Follows
<1>3. ReaderInv BY <1>1, Modulus DEF Init, ReaderInv, At
<1>4. AssemblerInv
  <2>1. decoded \in Seq(Slices) BY <1>1 DEF Init
  <2>2. QED BY <1>1, <2>1 DEF Init, AssemblerInv
<1>5. QED BY <1>2, <1>3, <1>4 DEF PacketInv

LEMMA FinishKeeps ==
  ASSUME NEW s \in Slices, NEW keep \in BOOLEAN, decoded \in Seq(Slices),
         Finish(s, keep)
  PROVE  AssemblerInv'
BY DEF Finish, AssemblerInv

LEMMA BeginKeeps ==
  ASSUME AssemblerInv, waiting = {}, NEW n \in ReadUnits, Begin(n), nalu'.of = n.of
  PROVE  AssemblerInv'
<1> DEFINE s == [a |-> n.of, slice_id |-> n.slice_id, b |-> None, c |-> None]
<1>1. s \in Slices /\ s.c = None /\ s.a = n.of BY DEF ReadUnits, Slices, None
<1>2. CASE n.type = "A"
  <2>1. slice' = s /\ waiting' = {"B", "C"} /\ pending' = FALSE /\ decoded' = decoded
    BY <1>2 DEF Begin
  <2>2. QED BY <1>1, <2>1 DEF AssemblerInv
<1>3. CASE n.type = "slice"
  <2>1. Finish(s, FALSE) BY <1>3 DEF Begin
  <2>2. QED BY <1>1, <2>1, FinishKeeps DEF AssemblerInv
<1>4. CASE n.type \notin {"A", "slice"}
  <2>1. slice' = slice /\ waiting' = waiting /\ decoded' = decoded /\ pending' = FALSE
    BY <1>4 DEF Begin
  <2>2. QED BY <2>1 DEF AssemblerInv
<1>5. QED BY <1>2, <1>3, <1>4

LEMMA ContinueKeeps ==
  ASSUME AssemblerInv, waiting # {}, NEW n \in ReadUnits, Continue(n), nalu' = n,
         Belongs(n) /\ n.type \in {"B", "C"} => n.of = slice.a
  PROVE  AssemblerInv'
<1>1. slice \in Slices /\ slice.c = None /\ slice.a = nalu.of /\ ~ pending
  BY DEF AssemblerInv
<1>2. CASE n.type = "B" /\ "B" \in waiting /\ Belongs(n)
  <2>1. slice' = [slice EXCEPT !.b = n.of] /\ waiting' = {"C"}
        /\ pending' = pending /\ decoded' = decoded
    BY <1>2 DEF Continue
  <2>2. n.of = slice.a BY <1>2
  <2>3. slice' \in Slices /\ slice'.c = None /\ slice'.a = n.of
    BY <1>1, <2>1, <2>2 DEF Slices, None
  <2>4. QED BY <1>1, <2>1, <2>3 DEF AssemblerInv
<1>3. CASE n.type = "C"
  <2>1. Finish(IF Belongs(n) THEN [slice EXCEPT !.c = n.of] ELSE slice, FALSE)
    BY <1>3 DEF Continue
  <2>2. (IF Belongs(n) THEN [slice EXCEPT !.c = n.of] ELSE slice) \in Slices
    BY <1>1, <1>3 DEF Slices, None
  <2>3. QED BY <2>1, <2>2, FinishKeeps DEF AssemblerInv
<1>4. CASE n.type # "C" /\ ~ (n.type = "B" /\ "B" \in waiting /\ Belongs(n))
  <2>1. Finish(slice, TRUE) BY <1>4 DEF Continue
  <2>2. QED BY <1>1, <2>1, FinishKeeps DEF AssemblerInv
<1>5. QED BY <1>2, <1>3, <1>4

(* The count of the missing packets is exact.                               *)
LEMMA MissingIsBurst ==
  ASSUME EncoderInv, ReaderInv, passed < Len(sent), At > 0
  PROVE  Missing(sent[passed + 1].seq) = burst
<1>1. Len(sent) \in Nat /\ passed \in Nat /\ burst \in 0 .. SeqModulus - 1
  BY Modulus DEF EncoderInv, ReaderInv
<1>2. At \in 1 .. Len(sent) /\ passed + 1 \in 1 .. Len(sent)
  BY <1>1 DEF At
<1>3. sent[passed + 1].seq = passed % SeqModulus
  <2>1. sent[passed + 1].seq = ((passed + 1) - 1) % SeqModulus BY <1>2 DEF EncoderInv
  <2>2. (passed + 1) - 1 = passed BY <1>1
  <2>3. QED BY <2>1, <2>2
<1>4. old_seq # <<>> /\ old_seq[1] = (At - 1) % SeqModulus
  <2>1. sent[At].seq = (At - 1) % SeqModulus BY <1>2 DEF EncoderInv
  <2>2. old_seq = <<sent[At].seq>> BY DEF ReaderInv
  <2>3. QED BY <2>1, <2>2
<1>5. ((((At - 1) + burst + 1) % SeqModulus) - (((At - 1) % SeqModulus) + 1)) % SeqModulus = burst
  <2>1. At - 1 \in Int /\ SeqModulus \in Nat \ {0} BY <1>2, Modulus
  <2>2. QED BY <1>1, <2>1, WrapDistance, Zenon
<1>6. (At - 1) + burst + 1 = passed BY <1>1 DEF At
<1>7. QED BY <1>3, <1>4, <1>5, <1>6 DEF Missing, Wrapped

(* The step of the decoder that reads the next packet.                      *)
LEMMA ReadKeeps ==
  ASSUME PacketInv, ReadPacket
  PROVE  PacketInv'
<1> DEFINE p == sent[passed + 1]
           n == [type |-> p.type, slice_id |-> p.slice_id, of |-> p.of,
                 lost |-> Missing(p.seq)]
<1>1. /\ passed < Len(sent) /\ ~ pending
      /\ nalu' = n /\ old_seq' = <<p.seq>>
      /\ IF waiting = {} THEN Begin(n) ELSE Continue(n)
      /\ passed' = passed + 1 /\ burst' = 0 /\ UNCHANGED encoder
  BY DEF ReadPacket
<1>2. EncoderInv /\ ReaderInv /\ AssemblerInv BY DEF PacketInv
<1>3. Len(sent) \in Nat /\ passed \in Nat /\ passed + 1 \in 1 .. Len(sent)
  BY <1>1, <1>2 DEF EncoderInv, ReaderInv
<1>4. p \in Packets BY <1>2, <1>3 DEF EncoderInv
<1>5. Missing(p.seq) \in Int
  <2>1. CASE At > 0
    BY <1>1, <1>2, <2>1, Modulus, MissingIsBurst DEF ReaderInv
  <2>2. CASE At = 0 BY <1>2, <2>2 DEF ReaderInv, Missing
  <2>3. At \in Nat BY <1>2, Modulus DEF ReaderInv, At
  <2>4. QED BY <2>1, <2>2, <2>3
<1>6. n \in ReadUnits BY <1>4, <1>5 DEF Packets, ReadUnits
<1>7. EncoderInv'
  <2>1. UNCHANGED <<CurrentRTPSequenceNumber, CurrentRTPTimestamp, frame_no, sent>>
    BY <1>1 DEF encoder
  <2>2. QED BY <1>2, <2>1 DEF EncoderInv
<1>8. sent' = sent BY <1>1 DEF encoder
<1>9. ReaderInv'
  <2>1. At' = passed + 1 BY <1>1, <1>3 DEF At
  <2>2. n.type = p.type /\ n.slice_id = p.slice_id /\ n.of = p.of OBVIOUS
  <2>3. QED BY <1>1, <1>3, <1>6, <1>8, <2>1, <2>2, Modulus DEF ReaderInv
<1>10. CASE waiting = {}
  <2>1. AssemblerInv' BY <1>1, <1>2, <1>6, <1>10, BeginKeeps
  <2>2. QED BY <1>7, <1>9, <2>1 DEF PacketInv
<1>11. CASE waiting # {}
  <2>1. At > 0 BY <1>2, <1>11 DEF ReaderInv
  <2>2. ASSUME Belongs(n), n.type \in {"B", "C"} PROVE n.of = slice.a
    <3>1. burst = 0 BY <1>1, <1>2, <2>1, <2>2, MissingIsBurst DEF Belongs
    <3>2. At = passed /\ passed > 0 BY <1>3, <2>1, <3>1 DEF At
    <3>3. slice.a = sent[passed].of BY <1>2, <1>11, <2>1, <3>2 DEF ReaderInv, AssemblerInv
    <3>4. Behind(sent[passed], p) BY <1>2, <1>3, <3>2 DEF EncoderInv, Follows
    <3>5. QED BY <2>2, <3>3, <3>4 DEF Behind
  <2>3. AssemblerInv'
    <3>1. Continue(n) BY <1>1, <1>11
    <3>2. Belongs(n) /\ n.type \in {"B", "C"} => n.of = slice.a BY <2>2
    <3> HIDE DEF n
    <3>3. QED BY <1>1, <1>2, <1>6, <1>11, <3>1, <3>2, ContinueKeeps
  <2>4. QED BY <1>7, <1>9, <2>3 DEF PacketInv
<1>12. QED BY <1>10, <1>11

LEMMA WriteKeeps ==
  ASSUME PacketInv, WriteRTPNALU
  PROVE  PacketInv'
<1>1. EncoderInv /\ ReaderInv /\ AssemblerInv BY DEF PacketInv
<1>2. /\ EncoderInv' /\ Len(sent') > Len(sent)
      /\ \A k \in 1 .. Len(sent) : sent'[k] = sent[k]
  BY <1>1, EncoderWrites
<1>3. UNCHANGED <<passed, burst, read, old_seq, nalu, pending, waiting, slice, decoded>>
  BY DEF WriteRTPNALU, reader, assembler
<1>4. Len(sent) \in Nat /\ Len(sent') \in Nat BY <1>1, <1>2 DEF EncoderInv
<1>5. ReaderInv'
  <2>1. At' = At /\ At \in 0 .. Len(sent) BY <1>1, <1>3, <1>4, Modulus DEF At, ReaderInv
  <2>2. At > 0 => sent'[At] = sent[At] BY <1>2, <2>1
  <2>3. QED BY <1>1, <1>2, <1>3, <1>4, <2>1, <2>2 DEF ReaderInv
<1>6. AssemblerInv' BY <1>1, <1>3 DEF AssemblerInv
<1>7. QED BY <1>2, <1>5, <1>6 DEF PacketInv

LEMMA LoseKeeps ==
  ASSUME PacketInv, LosePacket
  PROVE  PacketInv'
<1>1. EncoderInv /\ ReaderInv /\ AssemblerInv BY DEF PacketInv
<1>2. /\ passed < Len(sent) /\ burst < MaxBurst
      /\ passed' = passed + 1 /\ burst' = burst + 1
      /\ UNCHANGED <<CurrentRTPSequenceNumber, CurrentRTPTimestamp, frame_no, sent,
                     read, old_seq, nalu, pending, waiting, slice, decoded>>
  BY DEF LosePacket, encoder, reader, assembler
<1>3. At' = At BY <1>1, <1>2, Modulus DEF At, ReaderInv
<1>4. Len(sent) \in Nat BY <1>1 DEF EncoderInv
<1>5. EncoderInv' /\ AssemblerInv' BY <1>1, <1>2 DEF EncoderInv, AssemblerInv
<1>6. ReaderInv' BY <1>1, <1>2, <1>3, <1>4, Modulus DEF ReaderInv
<1>7. QED BY <1>5, <1>6 DEF PacketInv

(* The steps of read_new_slice that read no packet.                         *)
LEMMA NoPacketKeeps ==
  ASSUME PacketInv, ResumePending \/ EndOfFile
  PROVE  PacketInv'
<1>1. EncoderInv /\ ReaderInv /\ AssemblerInv BY DEF PacketInv
<1>2. UNCHANGED <<CurrentRTPSequenceNumber, CurrentRTPTimestamp, frame_no, sent,
                  passed, burst, read, old_seq, nalu>>
  BY DEF ResumePending, EndOfFile, encoder, reader
<1>3. EncoderInv' BY <1>1, <1>2 DEF EncoderInv
<1>4. At > 0 BY <1>1 DEF ResumePending, EndOfFile, ReaderInv
<1>5. ReaderInv'
  <2>1. At' = At BY <1>2 DEF At
  <2>2. QED BY <1>1, <1>2, <1>4, <2>1 DEF ReaderInv
<1>6. AssemblerInv'
  <2>1. CASE ResumePending
    <3>1. nalu \in ReadUnits /\ nalu'.of = nalu.of BY <1>1, <1>2, <1>4 DEF ReaderInv
    <3>2. waiting = {} /\ Begin(nalu) BY <1>1, <2>1 DEF AssemblerInv, ResumePending
    <3>3. QED BY <1>1, <3>1, <3>2, BeginKeeps
  <2>2. CASE EndOfFile
    <3>1. slice \in Slices /\ Finish(slice, FALSE)
      BY <1>1, <2>2 DEF AssemblerInv, EndOfFile
    <3>2. QED BY <1>1, <3>1, FinishKeeps DEF AssemblerInv
  <2>3. QED BY <2>1, <2>2
<1>7. QED BY <1>3, <1>5, <1>6 DEF PacketInv

LEMMA PacketStep == PacketInv /\ [Next]_vars => PacketInv'
<1>1. SUFFICES ASSUME PacketInv, [Next]_vars PROVE PacketInv' OBVIOUS
<1>2. CASE WriteRTPNALU BY <1>1, <1>2, WriteKeeps
<1>3. CASE LosePacket BY <1>1, <1>3, LoseKeeps
<1>4. CASE ReadPacket BY <1>1, <1>4, ReadKeeps
<1>5. CASE ResumePending \/ EndOfFile BY <1>1, <1>5, NoPacketKeeps
<1>6. CASE UNCHANGED vars
  <2>1. UNCHANGED <<CurrentRTPSequenceNumber, CurrentRTPTimestamp, frame_no, sent, passed,
                    burst, read, old_seq, nalu, pending, waiting, slice, decoded>>
    BY <1>6 DEF vars, encoder, reader, assembler
  <2>2. QED BY <1>1, <2>1 DEF PacketInv, EncoderInv, ReaderInv, AssemblerInv, At
<1>7. QED BY <1>1, <1>2, <1>3, <1>4, <1>5, <1>6 DEF Next

LEMMA PacketInvariant == Spec => []PacketInv
BY PacketInit, PacketStep, PTL DEF Spec

-----------------------------------------------------------------------------
LEMMA PacketTypes == PacketInv => TypeOK
<1>1. SUFFICES ASSUME PacketInv PROVE TypeOK OBVIOUS
<1>2. EncoderInv /\ ReaderInv /\ AssemblerInv BY <1>1 DEF PacketInv
<1>3. Len(sent) \in Nat BY <1>2 DEF EncoderInv
<1>4. CurrentRTPSequenceNumber \in 0 .. SeqModulus - 1
  <2>1. Len(sent) \in Int /\ SeqModulus \in Nat \ {0} BY <1>3, Modulus
  <2>2. Len(sent) % SeqModulus \in 0 .. SeqModulus - 1 BY <2>1, Division, Zenon
  <2>3. QED BY <1>2, <2>2 DEF EncoderInv
<1>5. frame_no \in Nat /\ CurrentRTPTimestamp \in Int BY <1>2 DEF EncoderInv
<1>6. old_seq = <<>> \/ old_seq[1] \in 0 .. SeqModulus - 1
  <2>1. CASE At = 0 BY <1>2, <2>1 DEF ReaderInv
  <2>2. CASE At > 0
    <3>1. At \in 1 .. Len(sent) BY <1>2, <1>3, <2>2, Modulus DEF ReaderInv, At
    <3>2. sent[At] \in Packets BY <1>2, <3>1 DEF EncoderInv
    <3>3. sent[At].seq \in 0 .. SeqModulus - 1 BY <3>2 DEF Packets, Numbers
    <3>4. old_seq = <<sent[At].seq>> BY <1>2, <2>2 DEF ReaderInv
    <3>5. QED BY <3>3, <3>4
  <2>3. At \in Nat BY <1>2, Modulus DEF ReaderInv, At
  <2>4. QED BY <2>1, <2>2, <2>3
<1>7. (slice = <<>>) = (waiting = {})
  <2>1. CASE waiting = {} BY <1>2, <2>1 DEF AssemblerInv
  <2>2. CASE waiting # {}
    <3>1. slice \in Slices BY <1>2, <2>2 DEF AssemblerInv
    <3>2. DOMAIN slice = {"a", "slice_id", "b", "c"} BY <3>1 DEF Slices
    <3>3. DOMAIN <<>> = {} OBVIOUS
    <3>4. slice # <<>> BY <3>2, <3>3
    <3>5. QED BY <2>2, <3>4
  <2>3. QED BY <2>1, <2>2
<1>8. QED BY <1>2, <1>4, <1>5, <1>6, <1>7 DEF TypeOK, ReaderInv, AssemblerInv

(* Every variable of the model keeps its type.                              *)
THEOREM TypeCorrect == Spec => []TypeOK
BY PacketTypes, PacketInvariant, PTL

(* RTPUpdateTimestamp gives every packet the time of its frame, also when   *)
(* the frame is a B frame that is older than the one before.                *)
THEOREM StampedWithFrame == Spec => []TimestampOfFrame
<1>1. PacketInv => TimestampOfFrame
  <2>1. SUFFICES ASSUME PacketInv PROVE TimestampOfFrame OBVIOUS
  <2>2. DOMAIN sent = 1 .. Len(sent) BY <2>1 DEF PacketInv, EncoderInv
  <2>3. QED BY <2>1, <2>2 DEF PacketInv, EncoderInv, TimestampOfFrame
<1>2. QED BY <1>1, PacketInvariant, PTL

(* read_new_slice never puts partitions of two slices together, as long as  *)
(* fewer packets are lost in a row than there are sequence numbers.         *)
THEOREM OneSlice == Spec => []PartitionsOfOneSlice
<1>1. PacketInv => PartitionsOfOneSlice
  <2>1. SUFFICES ASSUME PacketInv, NEW n \in DOMAIN decoded
                 PROVE  decoded[n] \in Slices
    BY DEF PartitionsOfOneSlice, Slices
  <2>2. decoded \in Seq(Slices) BY <2>1 DEF PacketInv, AssemblerInv
  <2>3. QED BY <2>1, <2>2
<1>2. QED BY <1>1, PacketInvariant, PTL

-----------------------------------------------------------------------------
(* A slice that is read whole is decoded whole.                             *)

(* How the packets of a slice stand in the file.                            *)
Laid(s) ==
  \A k \in 1 .. Len(s) :
    /\ s[k].type \in {"A", "slice"} => s[k].of = k
    /\ s[k].type = "B" => k > 1 /\ s[k - 1].type = "A" /\ s[k].of = k - 1
    /\ s[k].type = "C" => k > 1 /\ \/ s[k - 1].type = "A" /\ s[k].of = k - 1
                                   \/ s[k - 1].type = "B" /\ s[k].of = k - 2
    /\ s[k].type \in {"B", "C"} => s[k].slice_id = s[k - 1].slice_id

(* Of the packets s, of which p were read or lost and r were read: packet k *)
(* was lost; slice d has what was read of it until a loss.                  *)
Gone(k, p, r) == k <= p /\ \A j \in 1 .. Len(r) : r[j] # k
Whole(d, s, p, r) ==
  \A k \in 1 .. Len(s) : s[k].of = d.a =>
    /\ s[k].type = "B" => d.b # None \/ Gone(k, p, r)
    /\ s[k].type = "C" => d.c # None \/ \E m \in 1 .. Len(s) : s[m].of = d.a /\ Gone(m, p, r)
AllWhole(ds, s, p, r) ==
  \A i \in 1 .. Len(ds) : ds[i].a \in 1 .. Len(s) /\ Whole(ds[i], s, p, r)

(* A slice that waits stands at the last packet that was read.              *)
WaitingInv ==
  waiting # {} =>
    /\ slice.a \in 1 .. Len(sent) /\ sent[slice.a].type = "A"
    /\ slice.slice_id = sent[slice.a].slice_id
    /\ waiting = {"B", "C"} => At = slice.a
    /\ waiting = {"C"} => At = slice.a + 1 /\ sent[At].type = "B" /\ slice.b # None

WholeInv ==
  /\ Laid(sent) /\ WaitingInv
  /\ read \in Seq(Nat) /\ \A j \in 1 .. Len(read) : read[j] <= At
  /\ AllWhole(decoded, sent, passed, read)

(* The partitions that a slice may have, one after the other.               *)
LEMMA PartsOrder ==
  ASSUME NEW parts \in Parts, NEW n \in 1 .. Len(parts)
  PROVE  /\ parts[n] \in {"A", "slice"} => n = 1
         /\ parts[n] = "B" => n = 2 /\ parts[n - 1] = "A"
         /\ parts[n] = "C" => (n = 2 /\ parts[n - 1] = "A") \/ (n = 3 /\ parts[n - 1] = "B")
<1>1. CASE parts = <<"slice">> BY <1>1
<1>2. CASE parts = <<"A">> BY <1>2
<1>3. CASE parts = <<"A", "B">> BY <1>3
<1>4. CASE parts = <<"A", "C">> BY <1>4
<1>5. CASE parts = <<"A", "B", "C">> BY <1>5
<1>6. QED
  BY <1>1, <1>2, <1>3, <1>4, <1>5, PartsAssumption DEF SlicePartitions

LEMMA WriteLays ==
  ASSUME PacketInv, Laid(sent), WriteRTPNALU
  PROVE  /\ Laid(sent') /\ \A k \in Len(sent) + 1 .. Len(sent') : sent'[k].of > Len(sent)
         /\ Len(sent') > Len(sent) /\ \A k \in 1 .. Len(sent) : sent'[k] = sent[k]
<1>0. EncoderInv /\ EncoderInv' /\ Len(sent') > Len(sent) /\ \A k \in 1 .. Len(sent) : sent'[k] = sent[k]
  BY EncoderWrites DEF PacketInv
<1>1. PICK parts \in Parts, id \in SliceIds :
        sent' = sent \o [n \in DOMAIN parts |-> ComposeRTPPacket(n, parts[n], id)]
  BY ZenonT(30) DEF WriteRTPNALU
<1> DEFINE add == [n \in DOMAIN parts |-> ComposeRTPPacket(n, parts[n], id)]
           L == Len(sent)
<1>2. L \in Nat /\ sent \in Seq(Packets) /\ Len(sent') \in Nat BY <1>0 DEF EncoderInv
<1>3. Len(parts) \in Nat /\ DOMAIN parts = 1 .. Len(parts) BY PartsType
<1>4. add \in Seq({add[n] : n \in 1 .. Len(parts)}) /\ Len(add) = Len(parts)
      /\ \A n \in 1 .. Len(parts) : /\ add[n].type = parts[n] /\ add[n].slice_id = id
                                     /\ add[n].of = L + 1
  BY <1>3 DEF ComposeRTPPacket
<1> HIDE DEF add
<1>5. sent' = sent \o add BY <1>1 DEF add
<1> DEFINE S == Packets \cup {add[n] : n \in 1 .. Len(parts)}
<1>6. sent \in Seq(S) /\ add \in Seq(S) BY <1>2, <1>4
<1>7. /\ Len(sent') = L + Len(parts)
      /\ \A k \in L + 1 .. L + Len(parts) : sent'[k] = add[k - L]
  <2> HIDE DEF S
  <2>1. /\ Len(sent \o add) = Len(sent) + Len(add)
        /\ \A k \in Len(sent) + 1 .. Len(sent) + Len(add) : (sent \o add)[k] = add[k - Len(sent)]
    BY <1>6, Joined
  <2>2. QED BY <1>4, <1>5, <2>1
<1>8. ASSUME NEW n \in 1 .. Len(parts)
      PROVE  /\ sent'[L + n].type = parts[n] /\ sent'[L + n].slice_id = id /\ sent'[L + n].of = L + 1
  <2>1. L + n \in L + 1 .. L + Len(parts) /\ (L + n) - L = n BY <1>2, <1>3
  <2>2. sent'[L + n] = add[n] BY <1>7, <2>1
  <2>3. QED BY <1>4, <2>2
<1>9. ASSUME NEW k \in 1 .. Len(sent')
      PROVE  /\ sent'[k].type \in {"A", "slice"} => sent'[k].of = k
             /\ sent'[k].type = "B" => k > 1 /\ sent'[k - 1].type = "A" /\ sent'[k].of = k - 1
             /\ sent'[k].type = "C" => k > 1 /\ \/ sent'[k - 1].type = "A" /\ sent'[k].of = k - 1
                                                \/ sent'[k - 1].type = "B" /\ sent'[k].of = k - 2
             /\ sent'[k].type \in {"B", "C"} => sent'[k].slice_id = sent'[k - 1].slice_id
  <2>1. CASE k <= L
    <3>1. k \in 1 .. L /\ (k > 1 => k - 1 \in 1 .. L) BY <1>2, <2>1
    <3>2. sent'[k] = sent[k] /\ (k > 1 => sent'[k - 1] = sent[k - 1]) BY <1>0, <3>1
    <3>3. QED BY <3>1, <3>2 DEF Laid
  <2>2. CASE k > L
    <3> DEFINE n == k - L
    <3>1. n \in 1 .. Len(parts) /\ L + n = k BY <1>2, <1>3, <1>7, <2>2
    <3> HIDE DEF n
    <3>2. sent'[k].type = parts[n] /\ sent'[k].slice_id = id /\ sent'[k].of = L + 1
      BY <1>8, <3>1
    <3>3. ASSUME n > 1
          PROVE  sent'[k - 1].type = parts[n - 1] /\ sent'[k - 1].slice_id = id
      <4>1. n - 1 \in 1 .. Len(parts) /\ L + (n - 1) = k - 1 BY <1>2, <1>3, <3>1, <3>3
      <4>2. QED BY <1>8, <4>1
    <3>4. /\ parts[n] \in {"A", "slice"} => n = 1
          /\ parts[n] = "B" => n = 2 /\ parts[n - 1] = "A"
          /\ parts[n] = "C" => (n = 2 /\ parts[n - 1] = "A") \/ (n = 3 /\ parts[n - 1] = "B")
      BY <3>1, PartsOrder
    <3>5. CASE n = 1 BY <1>2, <3>1, <3>2, <3>4, <3>5
    <3>6. CASE n = 2 BY <1>2, <3>1, <3>2, <3>3, <3>4, <3>6
    <3>7. CASE n = 3 BY <1>2, <3>1, <3>2, <3>3, <3>4, <3>7
    <3>8. n \notin {1, 2, 3} => parts[n] \notin {"A", "slice", "B", "C"} BY <3>4
    <3>9. QED BY <3>2, <3>5, <3>6, <3>7, <3>8
  <2>3. QED BY <1>2, <2>1, <2>2
<1>10. Laid(sent') BY <1>9 DEF Laid
<1>11. ASSUME NEW k \in L + 1 .. Len(sent') PROVE sent'[k].of > L
  <2>1. k - L \in 1 .. Len(parts) /\ L + (k - L) = k BY <1>2, <1>3, <1>7
  <2>2. sent'[k].of = L + 1 BY <1>8, <2>1
  <2>3. QED BY <1>2, <2>2
<1>12. QED BY <1>0, <1>10, <1>11

(* What is behind the first packet of a slice.                              *)
LEMMA Partitions ==
  ASSUME Laid(sent), sent \in Seq(Packets), NEW k \in 1 .. Len(sent), NEW a \in 1 .. Len(sent), sent[k].of = a
  PROVE  /\ sent[k].type = "B" => k = a + 1 /\ sent[a].type = "A" /\ sent[k].slice_id = sent[a].slice_id
         /\ sent[k].type = "C" =>
              /\ sent[a].type = "A" /\ sent[k].slice_id = sent[a].slice_id
              /\ \/ k = a + 1
                 \/ k = a + 2 /\ a + 1 \in 1 .. Len(sent) /\ sent[a + 1].type = "B" /\ sent[a + 1].of = a
<1>1. Len(sent) \in Nat OBVIOUS
<1>2. CASE sent[k].type = "B" BY <1>1, <1>2 DEF Laid
<1>3. CASE sent[k].type = "C"
  <2>1. k > 1 /\ k - 1 \in 1 .. Len(sent) BY <1>1, <1>3 DEF Laid
  <2>2. CASE sent[k - 1].type = "A" /\ sent[k].of = k - 1 BY <1>1, <1>3, <2>1, <2>2 DEF Laid
  <2>3. CASE sent[k - 1].type = "B" /\ sent[k].of = k - 2
    <3>1. k = a + 2 /\ k - 1 = a + 1 BY <1>1, <2>3
    <3>2. sent[a + 1].type = "B" /\ a + 1 \in 1 .. Len(sent) BY <2>1, <2>3, <3>1
    <3>3. (a + 1) - 1 = a BY <1>1
    <3>4. /\ sent[a].type = "A" /\ sent[a + 1].of = a /\ sent[a + 1].slice_id = sent[a].slice_id
      BY <3>2, <3>3 DEF Laid
    <3>5. sent[k].slice_id = sent[a + 1].slice_id BY <1>3, <3>1 DEF Laid
    <3>6. QED BY <1>3, <3>1, <3>2, <3>4, <3>5
  <2>4. QED BY <1>3, <2>2, <2>3 DEF Laid
<1>4. QED BY <1>2, <1>3

(* Decoded slices stay as whole as they are when packets are read, lost or  *)
(* written and when another slice is decoded.                               *)
LEMMA ReadOn ==
  ASSUME NEW s, NEW p \in Nat, NEW q \in Nat, p <= q, NEW r \in Seq(Nat),
         NEW t, t = r \/ (t = Append(r, q) /\ p < q),
         NEW ds, AllWhole(ds, s, p, r)
  PROVE  AllWhole(ds, s, q, t)
<1>1. ASSUME NEW k \in 1 .. Len(s), Gone(k, p, r) PROVE Gone(k, q, t)
  <2>1. k <= p /\ \A j \in 1 .. Len(r) : r[j] # k BY <1>1 DEF Gone
  <2>2. CASE t = r
    <3>1. k <= q
      <4>1. k \in Int OBVIOUS
      <4>2. QED BY <2>1, <4>1
    <3>2. QED BY <2>1, <2>2, <3>1 DEF Gone
  <2>3. CASE t = Append(r, q) /\ p < q
    <3>1. /\ Len(t) = Len(r) + 1 /\ t[Len(r) + 1] = q /\ Len(r) \in Nat
          /\ \A j \in 1 .. Len(r) : t[j] = r[j]
      BY <2>3
    <3>2. k \in Int /\ k <= q /\ k # q BY <2>1, <2>3
    <3>3. \A j \in 1 .. Len(t) : t[j] # k
      <4> TAKE j \in 1 .. Len(t)
      <4>1. CASE j = Len(r) + 1 BY <3>1, <3>2, <4>1
      <4>2. CASE j # Len(r) + 1
        <5>1. j \in 1 .. Len(r) BY <3>1, <4>2
        <5>2. QED BY <2>1, <3>1, <5>1
      <4>3. QED BY <4>1, <4>2
    <3>4. QED BY <3>2, <3>3 DEF Gone
  <2>4. QED BY <2>2, <2>3
<1>2. ASSUME NEW d, Whole(d, s, p, r) PROVE Whole(d, s, q, t)
  BY <1>1, <1>2 DEF Whole
<1>3. QED BY <1>2 DEF AllWhole

LEMMA WrittenOn ==
  ASSUME NEW s \in Seq(Packets), NEW t \in Seq(Packets), Len(t) > Len(s),
         \A k \in 1 .. Len(s) : t[k] = s[k], \A k \in Len(s) + 1 .. Len(t) : t[k].of > Len(s),
         NEW p, NEW r, NEW ds, AllWhole(ds, s, p, r)
  PROVE  AllWhole(ds, t, p, r)
<1>1. Len(s) \in Nat /\ Len(t) \in Nat OBVIOUS
<1>2. ASSUME NEW d, d.a \in 1 .. Len(s), Whole(d, s, p, r) PROVE Whole(d, t, p, r)
  <2>1. ASSUME NEW k \in 1 .. Len(t), t[k].of = d.a PROVE k \in 1 .. Len(s) /\ t[k] = s[k]
    BY <1>1, <1>2, <2>1
  <2>2. \A m \in 1 .. Len(s) : m \in 1 .. Len(t) BY <1>1
  <2>3. QED BY <1>2, <2>1, <2>2 DEF Whole
<1>3. \A x \in 1 .. Len(s) : x \in 1 .. Len(t) BY <1>1
<1>4. QED BY <1>2, <1>3 DEF AllWhole

LEMMA DecodedOn ==
  ASSUME NEW ds \in Seq(Slices), NEW d, NEW s, NEW p, NEW r,
         AllWhole(ds, s, p, r), d.a \in 1 .. Len(s), Whole(d, s, p, r)
  PROVE  AllWhole(Append(ds, d), s, p, r)
<1> DEFINE S == Slices \cup {d}
           e == Append(ds, d)
<1>1. ds \in Seq(S) /\ d \in S OBVIOUS
<1> HIDE DEF S
<1>2. /\ Len(e) = Len(ds) + 1 /\ e[Len(ds) + 1] = d /\ Len(ds) \in Nat
      /\ \A j \in 1 .. Len(ds) : e[j] = ds[j]
  BY <1>1
<1> HIDE DEF e
<1>3. ASSUME NEW i \in 1 .. Len(e) PROVE e[i].a \in 1 .. Len(s) /\ Whole(e[i], s, p, r)
  <2>1. CASE i = Len(ds) + 1 BY <1>2, <2>1
  <2>2. CASE i # Len(ds) + 1
    <3>1. i \in 1 .. Len(ds) BY <1>2, <2>2
    <3>2. QED BY <1>2, <3>1 DEF AllWhole
  <2>3. QED BY <2>1, <2>2
<1>4. AllWhole(e, s, p, r) BY <1>3 DEF AllWhole
<1>5. QED BY <1>4 DEF e

(* A slice that waits is whole when the next packet is not one of its own.  *)
LEMMA WaitedFor ==
  ASSUME PacketInv, WholeInv, waiting # {}, NEW q, NEW t,
         At + 1 \in 1 .. Len(sent) /\ sent[At + 1].of = slice.a /\ sent[At + 1].type \in {"B", "C"} =>
           Gone(At + 1, q, t)
  PROVE  slice.a \in 1 .. Len(sent) /\ Whole(slice, sent, q, t)
<1>1. sent \in Seq(Packets) /\ Len(sent) \in Nat /\ waiting \in {{"C"}, {"B", "C"}}
  BY DEF PacketInv, EncoderInv, AssemblerInv
<1>2. /\ Laid(sent) /\ slice.a \in 1 .. Len(sent)
      /\ waiting = {"B", "C"} => At = slice.a
      /\ waiting = {"C"} => At = slice.a + 1 /\ sent[At].type = "B" /\ slice.b # None
  BY DEF WholeInv, WaitingInv
<1>3. ASSUME NEW k \in 1 .. Len(sent), sent[k].of = slice.a
      PROVE  /\ sent[k].type = "B" => slice.b # None \/ Gone(k, q, t)
             /\ sent[k].type = "C" => slice.c # None
                  \/ \E m \in 1 .. Len(sent) : sent[m].of = slice.a /\ Gone(m, q, t)
  <2>1. /\ sent[k].type = "B" => k = slice.a + 1
        /\ sent[k].type = "C" =>
              \/ k = slice.a + 1
              \/ /\ k = slice.a + 2 /\ slice.a + 1 \in 1 .. Len(sent)
                 /\ sent[slice.a + 1].type = "B" /\ sent[slice.a + 1].of = slice.a
    BY <1>1, <1>2, <1>3, Partitions
  <2>2. CASE waiting = {"B", "C"}
    <3>1. At + 1 = slice.a + 1 BY <1>2, <2>2
    <3>2. CASE sent[k].type = "B" BY <1>3, <2>1, <3>1, <3>2
    <3>3. CASE sent[k].type = "C" BY <1>3, <2>1, <3>1, <3>3
    <3>4. QED BY <3>2, <3>3
  <2>3. CASE waiting = {"C"}
    <3>1. At + 1 = slice.a + 2 /\ slice.b # None /\ sent[slice.a + 1].type = "B" BY <1>2, <2>3
    <3>2. CASE sent[k].type = "C"
      <4>1. k = At + 1 BY <2>1, <3>1, <3>2
      <4>2. QED BY <1>3, <3>2, <4>1
    <3>3. QED BY <3>1, <3>2
  <2>4. QED BY <1>1, <2>2, <2>3
<1>4. QED BY <1>2, <1>3 DEF Whole

(* A slice begins with the packet that was read last.                       *)
LEMMA BeginWhole ==
  ASSUME PacketInv, PacketInv', WholeInv, sent' = sent, waiting = {}, NEW n \in ReadUnits, Begin(n),
         At' \in 1 .. Len(sent), n.type = sent[At'].type, n.slice_id = sent[At'].slice_id, n.of = sent[At'].of,
         AllWhole(decoded, sent, passed', read')
  PROVE  WaitingInv' /\ AllWhole(decoded', sent, passed', read')
<1>1. Laid(sent) /\ Len(sent) \in Nat /\ sent \in Seq(Packets) /\ decoded \in Seq(Slices)
  BY DEF WholeInv, PacketInv, EncoderInv, AssemblerInv
<1> DEFINE d == [a |-> n.of, slice_id |-> n.slice_id, b |-> None, c |-> None]
<1>2. d.a = n.of /\ d.slice_id = n.slice_id OBVIOUS
<1>3. CASE n.type = "A"
  <2>1. n.of = At' BY <1>1, <1>3 DEF Laid
  <2>2. slice' = d /\ waiting' = {"B", "C"} /\ decoded' = decoded BY <1>3 DEF Begin
  <2> HIDE DEF d
  <2>3. {"B", "C"} # {"C"} OBVIOUS
  <2>4. QED BY <1>2, <1>3, <2>1, <2>2, <2>3 DEF WaitingInv
<1>4. CASE n.type = "slice"
  <2>1. n.of = At' BY <1>1, <1>4 DEF Laid
  <2>2. decoded' = Append(decoded, d) /\ waiting' = {} BY <1>4 DEF Begin, Finish
  <2> HIDE DEF d
  <2>3. sent[d.a].type = "slice" /\ d.a \in 1 .. Len(sent) BY <1>2, <1>4, <2>1
  <2>4. \A k \in 1 .. Len(sent) : sent[k].of = d.a => sent[k].type \notin {"B", "C"}
    BY <1>1, <2>3, Partitions
  <2>5. Whole(d, sent, passed', read') BY <2>4 DEF Whole
  <2>6. AllWhole(decoded', sent, passed', read') BY <1>1, <2>2, <2>3, <2>5, DecodedOn
  <2>7. QED BY <2>2, <2>6 DEF WaitingInv
<1>5. CASE n.type \notin {"A", "slice"}
  <2>1. waiting' = waiting /\ decoded' = decoded BY <1>5 DEF Begin
  <2>2. QED BY <2>1 DEF WaitingInv
<1>6. QED BY <1>3, <1>4, <1>5

LEMMA ContinueWhole ==
  ASSUME PacketInv, WholeInv, ReadPacket, waiting # {}, AllWhole(decoded, sent, passed', read'),
         read' = Append(read, passed + 1)
  PROVE  WaitingInv' /\ AllWhole(decoded', sent, passed', read')
<1> DEFINE p == sent[passed + 1]
           n == [type |-> p.type, slice_id |-> p.slice_id, of |-> p.of,
                 lost |-> Missing(p.seq)]
<1>1. /\ passed < Len(sent) /\ Continue(n) /\ passed' = passed + 1 /\ burst' = 0 /\ sent' = sent
  BY DEF ReadPacket, encoder
<1>2. EncoderInv /\ ReaderInv /\ AssemblerInv BY DEF PacketInv
<1>3. /\ Len(sent) \in Nat /\ passed \in Nat /\ passed + 1 \in 1 .. Len(sent) /\ sent \in Seq(Packets)
      /\ burst \in Nat /\ At \in Nat /\ At > 0 /\ At + burst = passed
  <2>1. At > 0 BY <1>2 DEF ReaderInv
  <2>2. Len(sent) \in Nat /\ passed \in 0 .. Len(sent) /\ burst \in 0 .. MaxBurst /\ burst <= passed
        /\ sent \in Seq(Packets)
    BY <1>2 DEF EncoderInv, ReaderInv
  <2>3. QED BY <1>1, <2>1, <2>2, Modulus DEF At
<1>4. Missing(p.seq) = burst BY <1>1, <1>2, <1>3, MissingIsBurst
<1>5. p \in Packets BY <1>3
<1>6. n.type = p.type /\ n.slice_id = p.slice_id /\ n.of = p.of /\ n.lost = burst /\ p.of \in Nat \ {0}
  BY <1>4, <1>5 DEF Packets
<1> HIDE DEF n
<1>7. Belongs(n) => burst = 0 /\ p.slice_id = slice.slice_id BY <1>6 DEF Belongs
<1>8. /\ Laid(sent) /\ slice.a \in 1 .. Len(sent) /\ sent[slice.a].type = "A"
      /\ slice.slice_id = sent[slice.a].slice_id
      /\ waiting = {"B", "C"} => At = slice.a
      /\ waiting = {"C"} => At = slice.a + 1 /\ sent[At].type = "B" /\ slice.b # None
      /\ read \in Seq(Nat) /\ \A j \in 1 .. Len(read) : read[j] <= At
  BY DEF WholeInv, WaitingInv
<1>9. /\ waiting \in {{"C"}, {"B", "C"}} /\ decoded \in Seq(Slices) /\ slice \in Slices
  BY <1>2 DEF AssemblerInv
<1>10. At' = passed + 1 BY <1>1, <1>3 DEF At
<1>11. CASE n.type = "B" /\ "B" \in waiting /\ Belongs(n)
  <2>1. slice' = [slice EXCEPT !.b = n.of] /\ waiting' = {"C"} /\ decoded' = decoded
    BY <1>1, <1>11 DEF Continue
  <2>2. waiting = {"B", "C"} BY <1>9, <1>11
  <2>3. At' = slice.a + 1 /\ sent'[At'].type = "B"
    BY <1>1, <1>3, <1>6, <1>7, <1>8, <1>10, <1>11, <2>2
  <2>4. slice'.a = slice.a /\ slice'.slice_id = slice.slice_id /\ slice'.b = n.of
    BY <1>9, <2>1 DEF Slices
  <2>5. slice'.b # None BY <1>6, <2>4 DEF None
  <2>6. {"B", "C"} # {"C"}
    <3>1. "B" \in {"B", "C"} /\ "B" \notin {"C"} OBVIOUS
    <3>2. QED BY <3>1, Zenon
  <2>7. QED BY <1>1, <1>8, <2>1, <2>3, <2>4, <2>5, <2>6 DEF WaitingInv
<1>12. CASE n.type = "C" /\ Belongs(n)
  <2> DEFINE d == [slice EXCEPT !.c = n.of]
  <2>1. Finish(d, FALSE) BY <1>1, <1>12 DEF Continue
  <2>2. decoded' = Append(decoded, d) /\ waiting' = {} BY <2>1 DEF Finish
  <2>3. d.a = slice.a /\ d.b = slice.b /\ d.c = n.of BY <1>9 DEF Slices
  <2> HIDE DEF d
  <2>4. d.c # None BY <1>6, <2>3 DEF None
  <2>5. ASSUME NEW k \in 1 .. Len(sent), sent[k].of = d.a, sent[k].type = "B" PROVE d.b # None
    <3>1. k = slice.a + 1 BY <1>3, <1>8, <2>3, <2>5, Partitions
    <3>2. CASE waiting = {"C"} BY <1>8, <2>3, <3>2
    <3>3. CASE waiting = {"B", "C"}
      <4>1. k = passed + 1 BY <1>3, <1>7, <1>8, <1>12, <3>1, <3>3
      <4>2. QED BY <1>6, <1>12, <2>5, <4>1
    <3>4. QED BY <1>9, <3>2, <3>3
  <2>6. Whole(d, sent, passed', read') BY <2>4, <2>5 DEF Whole
  <2>7. d.a \in 1 .. Len(sent) BY <1>8, <2>3
  <2>8. AllWhole(decoded', sent, passed', read') BY <1>9, <2>2, <2>6, <2>7, DecodedOn
  <2>9. QED BY <2>2, <2>8 DEF WaitingInv
<1>13. CASE /\ ~ (n.type = "B" /\ "B" \in waiting /\ Belongs(n))
            /\ ~ (n.type = "C" /\ Belongs(n))
  <2>1. \E keep \in BOOLEAN : Finish(slice, keep) BY <1>1, <1>13 DEF Continue
  <2>2. decoded' = Append(decoded, slice) /\ waiting' = {} BY <2>1 DEF Finish
  <2>3. ASSUME At + 1 \in 1 .. Len(sent), sent[At + 1].of = slice.a, sent[At + 1].type \in {"B", "C"}
        PROVE  Gone(At + 1, passed', read')
    <3>1. burst # 0
      <4>1. SUFFICES ASSUME burst = 0 PROVE FALSE OBVIOUS
      <4>2. p = sent[At + 1] /\ At + 1 = passed + 1 BY <1>3, <4>1
      <4>3. p.slice_id = slice.slice_id BY <1>3, <1>8, <2>3, <4>2, Partitions
      <4>4. Belongs(n) BY <1>6, <4>1, <4>3 DEF Belongs
      <4>5. n.type = "B" BY <1>6, <1>13, <2>3, <4>2, <4>4
      <4>6. "B" \notin waiting BY <1>13, <4>4, <4>5
      <4>7. At = slice.a + 1 BY <1>8, <1>9, <4>6
      <4>8. At + 1 = slice.a + 1 BY <1>3, <1>6, <1>8, <2>3, <4>2, <4>5, Partitions
      <4>9. QED BY <1>3, <1>8, <4>7, <4>8
    <3>2. At + 1 <= passed /\ At + 1 # passed + 1 BY <1>3, <3>1
    <3>3. /\ Len(read') = Len(read) + 1 /\ read'[Len(read) + 1] = passed + 1 /\ Len(read) \in Nat
          /\ \A j \in 1 .. Len(read) : read'[j] = read[j] /\ read[j] \in Nat
      BY <1>3, <1>8
    <3>4. \A j \in 1 .. Len(read') : read'[j] # At + 1
      <4> TAKE j \in 1 .. Len(read')
      <4>1. CASE j = Len(read) + 1 BY <3>2, <3>3, <4>1
      <4>2. CASE j # Len(read) + 1
        <5>1. j \in 1 .. Len(read) BY <3>3, <4>2
        <5>2. read[j] <= At /\ read'[j] = read[j] /\ read[j] \in Nat BY <1>8, <3>3, <5>1
        <5>3. QED BY <1>3, <5>2
      <4>3. QED BY <4>1, <4>2
    <3>5. At + 1 <= passed' BY <1>1, <1>3, <3>2
    <3>6. QED BY <3>4, <3>5 DEF Gone
  <2>4. slice.a \in 1 .. Len(sent) /\ Whole(slice, sent, passed', read') BY <2>3, WaitedFor
  <2>5. AllWhole(decoded', sent, passed', read') BY <1>9, <2>2, <2>4, DecodedOn
  <2>6. QED BY <2>2, <2>5 DEF WaitingInv
<1>14. QED BY <1>11, <1>12, <1>13

LEMMA WholeStep == PacketInv /\ PacketInv' /\ WholeInv /\ [Next]_vars => WholeInv'
<1> SUFFICES ASSUME PacketInv, PacketInv', WholeInv, [Next]_vars PROVE WholeInv' OBVIOUS
<1>1. /\ Laid(sent) /\ WaitingInv /\ AllWhole(decoded, sent, passed, read)
      /\ read \in Seq(Nat) /\ \A j \in 1 .. Len(read) : read[j] <= At
  BY DEF WholeInv
<1>2. /\ sent \in Seq(Packets) /\ Len(sent) \in Nat /\ passed \in 0 .. Len(sent) /\ burst \in Nat /\ At \in Nat
      /\ waiting \in {{}, {"C"}, {"B", "C"}} /\ decoded \in Seq(Slices) /\ passed \in Nat /\ At = passed - burst
  BY Modulus, SMTT(30) DEF PacketInv, EncoderInv, ReaderInv, AssemblerInv, At
<1>3. CASE WriteRTPNALU
  <2>1. /\ Laid(sent') /\ \A k \in Len(sent) + 1 .. Len(sent') : sent'[k].of > Len(sent)
        /\ Len(sent') > Len(sent) /\ \A k \in 1 .. Len(sent) : sent'[k] = sent[k]
    BY <1>1, <1>3, WriteLays
  <2>2. UNCHANGED <<passed, burst, read, old_seq, nalu, pending, waiting, slice, decoded>>
    BY <1>3 DEF WriteRTPNALU, reader, assembler
  <2>3. sent' \in Seq(Packets) /\ Len(sent') \in Nat BY DEF PacketInv, EncoderInv
  <2>4. AllWhole(decoded, sent', passed, read) BY <1>1, <1>2, <2>1, <2>3, WrittenOn
  <2>5. At' = At BY <2>2 DEF At
  <2>6. WaitingInv'
    <3> SUFFICES ASSUME waiting # {}
                 PROVE  /\ slice.a \in 1 .. Len(sent') /\ sent'[slice.a].type = "A"
                        /\ slice.slice_id = sent'[slice.a].slice_id
                        /\ waiting = {"B", "C"} => At = slice.a
                        /\ waiting = {"C"} => At = slice.a + 1 /\ sent'[At].type = "B" /\ slice.b # None
      BY <2>2, <2>5 DEF WaitingInv
    <3>1. slice.a \in 1 .. Len(sent) BY <1>1 DEF WaitingInv
    <3>2. slice.a \in 1 .. Len(sent') /\ sent'[slice.a] = sent[slice.a] BY <1>2, <2>1, <2>3, <3>1
    <3>3. At > 0 => At \in 1 .. Len(sent) BY <1>2
    <3>4. At \in 1 .. Len(sent) => sent'[At] = sent[At] BY <2>1
    <3>5. waiting = {"C"} => At > 0 BY <1>1, <3>1 DEF WaitingInv
    <3>6. QED BY <1>1, <3>2, <3>3, <3>4, <3>5 DEF WaitingInv
  <2>7. QED BY <1>1, <2>1, <2>2, <2>4, <2>5, <2>6 DEF WholeInv
<1>4. CASE LosePacket
  <2>1. passed' = passed + 1 /\ burst' = burst + 1
        /\ UNCHANGED <<sent, read, old_seq, nalu, pending, waiting, slice, decoded>>
    BY <1>4 DEF LosePacket, encoder, reader, assembler
  <2>2. At' = At BY <1>2, <2>1 DEF At
  <2>3. passed <= passed + 1 /\ passed + 1 \in Nat BY <1>2
  <2>4. AllWhole(decoded, sent, passed + 1, read) BY <1>1, <1>2, <2>3, ReadOn
  <2>5. QED BY <1>1, <2>1, <2>2, <2>4 DEF WholeInv, WaitingInv
<1>5. CASE ReadPacket
  <2> DEFINE p == sent[passed + 1]
             n == [type |-> p.type, slice_id |-> p.slice_id, of |-> p.of,
                   lost |-> Missing(p.seq)]
  <2>1. /\ passed < Len(sent) /\ nalu' = n
        /\ IF waiting = {} THEN Begin(n) ELSE Continue(n)
        /\ passed' = passed + 1 /\ burst' = 0 /\ read' = Append(read, passed + 1)
        /\ sent' = sent
    BY <1>5 DEF ReadPacket, encoder
  <2>2. passed <= passed + 1 /\ passed < passed + 1 /\ passed + 1 \in Nat /\ passed + 1 \in 1 .. Len(sent)
    BY <1>2, <2>1
  <2>3. AllWhole(decoded, sent, passed + 1, Append(read, passed + 1))
    <3> DEFINE t == Append(read, passed + 1)
    <3>1. t = read \/ (t = Append(read, passed + 1) /\ passed < passed + 1) BY <2>2
    <3> HIDE DEF t
    <3>2. AllWhole(decoded, sent, passed + 1, t) BY <1>1, <1>2, <2>2, <3>1, ReadOn
    <3>3. QED BY <3>2 DEF t
  <2>4. At' = passed + 1 BY <1>2, <2>1 DEF At
  <2>5. WaitingInv' /\ AllWhole(decoded', sent, passed', read')
    <3>1. CASE waiting = {}
      <4>1. nalu' \in ReadUnits BY <2>2, <2>4 DEF PacketInv, ReaderInv
      <4>2. n.type = p.type /\ n.slice_id = p.slice_id /\ n.of = p.of OBVIOUS
      <4>3. Begin(n) /\ n \in ReadUnits BY <2>1, <3>1, <4>1
      <4> HIDE DEF n
      <4>4. /\ At' \in 1 .. Len(sent) /\ n.type = sent[At'].type /\ n.slice_id = sent[At'].slice_id
            /\ n.of = sent[At'].of
        BY <2>2, <2>4, <4>2
      <4>5. AllWhole(decoded, sent, passed', read') BY <2>1, <2>3
      <4>6. sent' = sent BY <2>1
      <4>7. QED BY <3>1, <4>3, <4>4, <4>5, <4>6, BeginWhole
    <3>2. CASE waiting # {}
      <4>1. AllWhole(decoded, sent, passed', read') /\ read' = Append(read, passed + 1) BY <2>1, <2>3
      <4>2. QED BY <1>5, <3>2, <4>1, ContinueWhole
    <3>3. QED BY <3>1, <3>2
  <2>6. /\ Len(read') = Len(read) + 1 /\ read'[Len(read) + 1] = passed + 1 /\ Len(read) \in Nat
        /\ \A j \in 1 .. Len(read) : read'[j] = read[j] /\ read[j] \in Nat
        /\ read' \in Seq(Nat)
    BY <1>1, <2>1, <2>2
  <2>7. \A j \in 1 .. Len(read') : read'[j] <= At'
    <3> TAKE j \in 1 .. Len(read')
    <3>1. CASE j = Len(read) + 1 BY <2>2, <2>4, <2>6, <3>1
    <3>2. CASE j # Len(read) + 1
      <4>1. j \in 1 .. Len(read) BY <2>6, <3>2
      <4>2. read'[j] = read[j] /\ read[j] <= At /\ read[j] \in Nat BY <1>1, <2>6, <4>1
      <4>3. QED BY <1>2, <2>4, <4>2
    <3>3. QED BY <3>1, <3>2
  <2>8. QED BY <1>1, <2>1, <2>5, <2>6, <2>7 DEF WholeInv
<1>6. CASE ResumePending
  <2>1. /\ pending /\ Begin(nalu) /\ UNCHANGED <<sent, passed, burst, read, old_seq, nalu>>
    BY <1>6 DEF ResumePending, encoder, reader
  <2>2. waiting = {} /\ At > 0 BY <2>1 DEF PacketInv, AssemblerInv, ReaderInv
  <2>3. At' = At BY <2>1 DEF At
  <2>4. /\ nalu \in ReadUnits /\ nalu.type = sent[At].type /\ nalu.slice_id = sent[At].slice_id
        /\ nalu.of = sent[At].of
    BY <2>2 DEF PacketInv, ReaderInv
  <2>5. At' \in 1 .. Len(sent) BY <1>2, <2>2, <2>3
  <2>6. AllWhole(decoded, sent, passed', read') BY <1>1, <2>1
  <2>7. WaitingInv' /\ AllWhole(decoded', sent, passed', read')
    <3>1. nalu.type = sent[At'].type /\ nalu.slice_id = sent[At'].slice_id /\ nalu.of = sent[At'].of BY <2>3, <2>4
    <3>2. QED BY <2>1, <2>2, <2>4, <2>5, <2>6, <3>1, BeginWhole
  <2>8. QED BY <1>1, <2>1, <2>3, <2>7 DEF WholeInv
<1>7. CASE EndOfFile
  <2>1. /\ waiting # {} /\ passed = Len(sent) /\ Finish(slice, FALSE)
        /\ UNCHANGED <<sent, passed, burst, read, old_seq, nalu>>
    BY <1>7 DEF EndOfFile, encoder, reader
  <2>2. decoded' = Append(decoded, slice) /\ waiting' = {} BY <2>1 DEF Finish
  <2>3. ASSUME At + 1 \in 1 .. Len(sent) PROVE Gone(At + 1, passed, read)
    <3>1. At + 1 <= passed BY <1>2, <2>1, <2>3
    <3>2. \A j \in 1 .. Len(read) : read[j] \in Nat /\ read[j] <= At BY <1>1
    <3>3. \A j \in 1 .. Len(read) : read[j] # At + 1 BY <1>2, <3>2
    <3>4. QED BY <3>1, <3>3 DEF Gone
  <2>4. slice.a \in 1 .. Len(sent) /\ Whole(slice, sent, passed, read) BY <2>1, <2>3, WaitedFor
  <2>5. AllWhole(decoded', sent, passed, read) BY <1>1, <1>2, <2>2, <2>4, DecodedOn
  <2>6. At' = At BY <2>1 DEF At
  <2>7. QED BY <1>1, <2>1, <2>2, <2>5, <2>6 DEF WholeInv, WaitingInv
<1>8. CASE UNCHANGED vars
  <2>1. UNCHANGED <<sent, passed, burst, read, waiting, slice, decoded>>
    BY <1>8 DEF vars, encoder, reader, assembler
  <2>2. QED BY <1>1, <2>1 DEF WholeInv, WaitingInv, At
<1>9. QED BY <1>3, <1>4, <1>5, <1>6, <1>7, <1>8 DEF Next

LEMMA WholeInit == Init => WholeInv
<1> SUFFICES ASSUME Init PROVE WholeInv OBVIOUS
<1>1. sent = <<>> /\ read = <<>> /\ decoded = <<>> /\ waiting = {} BY DEF Init
<1>2. Len(sent) = 0 /\ Len(read) = 0 /\ Len(decoded) = 0 /\ read \in Seq(Nat) BY <1>1
<1>3. QED BY <1>1, <1>2 DEF WholeInv, Laid, WaitingInv, AllWhole

(* Whatever is lost around it, a slice all of whose packets are read is     *)
(* decoded with all its partitions: read_new_slice hands a slice on without *)
(* a partition only when a packet of that slice was lost.                   *)
THEOREM WholeSlicesStayWhole == Spec => []WholeWhenRead
<1>1. Init => WholeInv BY WholeInit
<1>2. PacketInv /\ WholeInv => WholeWhenRead
  <2> SUFFICES ASSUME PacketInv, WholeInv, NEW i \in DOMAIN decoded,
                      \A k \in {l \in DOMAIN sent : sent[l].of = decoded[i].a} : \E j \in DOMAIN read : read[j] = k,
                      NEW k \in DOMAIN sent, sent[k].of = decoded[i].a
               PROVE  /\ sent[k].type = "B" => decoded[i].b # None
                      /\ sent[k].type = "C" => decoded[i].c # None
    BY DEF WholeWhenRead
  <2>1. DOMAIN sent = 1 .. Len(sent) /\ DOMAIN decoded = 1 .. Len(decoded) /\ DOMAIN read = 1 .. Len(read)
    BY DEF PacketInv, EncoderInv, AssemblerInv, WholeInv
  <2>2. Whole(decoded[i], sent, passed, read) BY <2>1 DEF WholeInv, AllWhole
  <2>3. ASSUME NEW m \in 1 .. Len(sent), sent[m].of = decoded[i].a PROVE ~ Gone(m, passed, read)
    BY <2>1, <2>3 DEF Gone
  <2>4. QED BY <2>1, <2>2, <2>3 DEF Whole
<1>3. QED BY <1>1, <1>2, PacketInvariant, WholeStep, PTL DEF Spec

-----------------------------------------------------------------------------
(* Each slice that is read is decoded once.                                 *)

(* The slice at hand, put together or held back, 0 when there is none.      *)
Hand == IF waiting # {} THEN slice.a ELSE IF pending /\ Begins(nalu) THEN nalu.of ELSE 0

(* Of the packets s those in r were read, the last of them t; they begin    *)
(* the decoded slices ds and the slice h at hand.                           *)
Taken(k, s, r, t) ==
  k \in 1 .. Len(s) /\ k <= t /\ Begins(s[k]) /\ \E j \in 1 .. Len(r) : r[j] = k
Once(ds, h, s, r, t) ==
  /\ \A i \in 1 .. Len(ds) : Taken(ds[i].a, s, r, t)
  /\ \A i, j \in 1 .. Len(ds) : i < j => ds[i].a < ds[j].a
  /\ h # 0 => Taken(h, s, r, t) /\ \A i \in 1 .. Len(ds) : ds[i].a < h
  /\ \A j \in 1 .. Len(r) :
       /\ r[j] \in 1 .. Len(s) /\ r[j] <= t
       /\ Begins(s[r[j]]) => (\E i \in 1 .. Len(ds) : ds[i].a = r[j]) \/ (h # 0 /\ r[j] = h)

LEMMA OnceWritten ==
  ASSUME NEW s \in Seq(Packets), NEW u \in Seq(Packets), Len(u) > Len(s), \A k \in 1 .. Len(s) : u[k] = s[k],
         NEW ds, NEW h, NEW r, NEW t, Once(ds, h, s, r, t)
  PROVE  Once(ds, h, u, r, t)
<1>1. Len(s) \in Nat /\ Len(u) \in Nat OBVIOUS
<1>2. \A k \in 1 .. Len(s) : k \in 1 .. Len(u) /\ u[k] = s[k] BY <1>1
<1>3. \A k : Taken(k, s, r, t) => Taken(k, u, r, t) BY <1>2 DEF Taken
<1>4. QED BY <1>2, <1>3 DEF Once

(* The slice at hand is decoded.                                            *)
LEMMA OnceDecoded ==
  ASSUME NEW ds \in Seq(Slices), NEW d, NEW h, h # 0, d.a = h, NEW s, NEW r, NEW t, Once(ds, h, s, r, t)
  PROVE  Once(Append(ds, d), 0, s, r, t)
<1> DEFINE S == Slices \cup {d}
           e == Append(ds, d)
<1>1. ds \in Seq(S) /\ d \in S OBVIOUS
<1> HIDE DEF S
<1>2. /\ Len(e) = Len(ds) + 1 /\ e[Len(ds) + 1] = d /\ Len(ds) \in Nat
      /\ \A j \in 1 .. Len(ds) : e[j] = ds[j]
  BY <1>1
<1> HIDE DEF e
<1>3. Taken(h, s, r, t) /\ \A i \in 1 .. Len(ds) : ds[i].a < h BY DEF Once
<1>4. \A i \in 1 .. Len(e) : i \in 1 .. Len(ds) \/ i = Len(ds) + 1 BY <1>2
<1>5. ASSUME NEW i \in 1 .. Len(e) PROVE Taken(e[i].a, s, r, t)
  <2>1. CASE i \in 1 .. Len(ds) BY <1>2, <2>1 DEF Once
  <2>2. CASE i = Len(ds) + 1 BY <1>2, <1>3, <2>2
  <2>3. QED BY <1>4, <2>1, <2>2
<1>6. ASSUME NEW i \in 1 .. Len(e), NEW j \in 1 .. Len(e), i < j PROVE e[i].a < e[j].a
  <2>1. i \in 1 .. Len(ds) BY <1>2, <1>6
  <2>2. CASE j \in 1 .. Len(ds) BY <1>2, <1>6, <2>1, <2>2 DEF Once
  <2>3. CASE j = Len(ds) + 1 BY <1>2, <1>3, <2>1, <2>3
  <2>4. QED BY <1>4, <2>2, <2>3
<1>7. ASSUME NEW j \in 1 .. Len(r), Begins(s[r[j]]) PROVE \E i \in 1 .. Len(e) : e[i].a = r[j]
  <2>1. (\E i \in 1 .. Len(ds) : ds[i].a = r[j]) \/ r[j] = h BY <1>7 DEF Once
  <2>2. \A i \in 1 .. Len(ds) : i \in 1 .. Len(e) /\ e[i] = ds[i] BY <1>2
  <2>3. Len(ds) + 1 \in 1 .. Len(e) BY <1>2
  <2>4. QED BY <1>2, <2>1, <2>2, <2>3
<1>8. Once(e, 0, s, r, t) BY <1>5, <1>6, <1>7 DEF Once
<1>9. QED BY <1>8 DEF e

(* Packet e is read; when a slice begins with it, it is the one at hand.    *)
LEMMA OnceRead ==
  ASSUME NEW ds, NEW h, NEW s, NEW r \in Seq(Nat), NEW t \in Nat, NEW e \in 1 .. Len(s), t < e, Len(s) \in Nat,
         Once(ds, h, s, r, t), NEW g,
         IF Begins(s[e]) THEN h = 0 /\ g = e ELSE g = h
  PROVE  Once(ds, g, s, Append(r, e), e)
<1> DEFINE q == Append(r, e)
<1>0. e \in Nat OBVIOUS
<1>1. /\ Len(q) = Len(r) + 1 /\ q[Len(r) + 1] = e /\ Len(r) \in Nat
      /\ \A j \in 1 .. Len(r) : q[j] = r[j] /\ r[j] \in Nat
  BY <1>0
<1> HIDE DEF q
<1>2. \A j \in 1 .. Len(q) : j \in 1 .. Len(r) \/ j = Len(r) + 1 BY <1>1
<1>3. \A j \in 1 .. Len(r) : j \in 1 .. Len(q) /\ q[j] = r[j] BY <1>1
<1>4. Len(r) + 1 \in 1 .. Len(q) BY <1>1
<1>5. ASSUME NEW k, Taken(k, s, r, t) PROVE Taken(k, s, q, e) /\ k < e
  <2>1. k \in 1 .. Len(s) /\ k <= t BY <1>5 DEF Taken
  <2>2. k < e /\ k <= e BY <2>1, <1>0
  <2>3. QED BY <1>3, <1>5, <2>2 DEF Taken
<1>6. Begins(s[e]) => Taken(e, s, q, e) BY <1>0, <1>1, <1>4, SMTT(30) DEF Taken
<1>7. g # 0 => Taken(g, s, q, e) /\ \A i \in 1 .. Len(ds) : ds[i].a < g BY <1>5, <1>6 DEF Once
<1>8. ASSUME NEW j \in 1 .. Len(q)
      PROVE  /\ q[j] \in 1 .. Len(s) /\ q[j] <= e
             /\ Begins(s[q[j]]) => (\E i \in 1 .. Len(ds) : ds[i].a = q[j]) \/ (g # 0 /\ q[j] = g)
  <2>1. CASE j \in 1 .. Len(r)
    <3>1. q[j] = r[j] /\ r[j] \in 1 .. Len(s) /\ r[j] <= t BY <1>3, <2>1 DEF Once
    <3>2. q[j] <= e BY <3>1, <1>0
    <3>3. Begins(s[q[j]]) => (\E i \in 1 .. Len(ds) : ds[i].a = q[j]) \/ (h # 0 /\ q[j] = h)
      BY <2>1, <3>1 DEF Once
    <3>4. QED BY <3>1, <3>2, <3>3
  <2>2. CASE j = Len(r) + 1 BY <1>0, <1>1, <2>2
  <2>3. QED BY <1>2, <2>1, <2>2
<1>9. Once(ds, g, s, q, e) BY <1>5, <1>7, <1>8 DEF Once
<1>10. QED BY <1>9 DEF q

OnceInv == Once(decoded, Hand, sent, read, At)

(* What Begin makes of unit n, with which a slice may begin, at hand.       *)
LEMMA OnceBegins ==
  ASSUME waiting = {}, decoded \in Seq(Slices), NEW n \in ReadUnits, Begin(n), NEW s, NEW r, NEW t,
         Once(decoded, IF Begins(n) THEN n.of ELSE 0, s, r, t)
  PROVE  Once(decoded', Hand', s, r, t)
<1> DEFINE d == [a |-> n.of, slice_id |-> n.slice_id, b |-> None, c |-> None]
<1>1. d.a = n.of OBVIOUS
<1>2. CASE n.type = "A"
  <2>1. slice' = d /\ waiting' = {"B", "C"} /\ decoded' = decoded BY <1>2 DEF Begin
  <2> HIDE DEF d
  <2>2. waiting' # {} BY <2>1
  <2>3. Hand' = n.of BY <1>1, <2>1, <2>2 DEF Hand
  <2>4. QED BY <1>2, <2>1, <2>3 DEF Begins
<1>3. CASE n.type = "slice"
  <2>1. decoded' = Append(decoded, d) /\ waiting' = {} /\ pending' = FALSE BY <1>3 DEF Begin, Finish
  <2> HIDE DEF d
  <2>2. Hand' = 0 BY <2>1 DEF Hand
  <2>3. n.of # 0 BY DEF ReadUnits
  <2>4. Once(decoded, n.of, s, r, t) BY <1>3 DEF Begins
  <2>5. Once(Append(decoded, d), 0, s, r, t) BY <1>1, <2>3, <2>4, OnceDecoded
  <2>6. QED BY <2>1, <2>2, <2>5
<1>4. CASE n.type \notin {"A", "slice"}
  <2>1. waiting' = waiting /\ decoded' = decoded /\ pending' = FALSE BY <1>4 DEF Begin
  <2>2. Hand' = 0 BY <2>1 DEF Hand
  <2>3. QED BY <1>4, <2>1, <2>2 DEF Begins
<1>5. QED BY <1>2, <1>3, <1>4

LEMMA OnceReads ==
  ASSUME PacketInv, WholeInv, OnceInv, ReadPacket
  PROVE  OnceInv'
<1> DEFINE p == sent[passed + 1]
           e == passed + 1
           n == [type |-> p.type, slice_id |-> p.slice_id, of |-> p.of,
                 lost |-> Missing(p.seq)]
           q == Append(read, e)
<1>1. /\ passed < Len(sent) /\ ~ pending /\ nalu' = n
      /\ IF waiting = {} THEN Begin(n) ELSE Continue(n)
      /\ passed' = e /\ burst' = 0 /\ read' = q /\ sent' = sent
  BY DEF ReadPacket, encoder
<1>2. /\ Len(sent) \in Nat /\ passed \in Nat /\ burst \in Nat /\ At \in Nat /\ At = passed - burst
      /\ decoded \in Seq(Slices) /\ read \in Seq(Nat) /\ Laid(sent)
      /\ waiting # {} => slice \in Slices
  BY Modulus DEF PacketInv, EncoderInv, ReaderInv, AssemblerInv, At, WholeInv
<1>3. e \in 1 .. Len(sent) /\ At < e BY <1>1, <1>2
<1>4. At' = e BY <1>1, <1>2 DEF At
<1>5. n.type = p.type /\ n.of = p.of OBVIOUS
<1>6. nalu' \in ReadUnits
  <2>1. PacketInv' BY ReadKeeps
  <2>2. At' > 0 BY <1>2, <1>4
  <2>3. QED BY <2>1, <2>2 DEF PacketInv, ReaderInv
<1>7. Begins(sent[e]) => n.of = e BY <1>2, <1>3, <1>5 DEF Laid, Begins
<1>8. Begins(n) = Begins(sent[e]) BY <1>5 DEF Begins
<1>9. nalu' = n /\ n \in ReadUnits BY <1>1, <1>6
<1> HIDE DEF n, q
<1>10. CASE waiting = {}
  <2>1. Once(decoded, 0, sent, read, At) BY <1>1, <1>10 DEF OnceInv, Hand
  <2> DEFINE g == IF Begins(n) THEN n.of ELSE 0
  <2>2. IF Begins(sent[e]) THEN 0 = 0 /\ g = e ELSE g = 0 BY <1>7, <1>8
  <2> HIDE DEF g
  <2>3. Once(decoded, g, sent, q, e) BY <1>2, <1>3, <2>1, <2>2, OnceRead DEF q
  <2>4. Begin(n) BY <1>1, <1>10
  <2>5. Once(decoded', Hand', sent, q, e) BY <1>2, <1>9, <1>10, <2>3, <2>4, OnceBegins DEF g
  <2>6. QED BY <1>1, <1>4, <2>5 DEF OnceInv
<1>11. CASE waiting # {}
  <2>1. Once(decoded, slice.a, sent, read, At) BY <1>11 DEF OnceInv, Hand
  <2>2. Continue(n) /\ slice.a # 0 BY <1>1, <1>2, <1>11 DEF Slices
  <2>3. CASE n.type = "B" /\ "B" \in waiting /\ Belongs(n)
    <3>1. slice' = [slice EXCEPT !.b = n.of] /\ waiting' = {"C"} /\ decoded' = decoded
      BY <2>2, <2>3 DEF Continue
    <3>2. slice'.a = slice.a /\ waiting' # {} BY <1>2, <1>11, <3>1 DEF Slices
    <3>3. Hand' = slice.a BY <3>2 DEF Hand
    <3>4. ~ Begins(sent[e]) BY <1>8, <2>3 DEF Begins
    <3>5. Once(decoded, slice.a, sent, q, e) BY <1>2, <1>3, <2>1, <3>4, OnceRead DEF q
    <3>6. QED BY <1>1, <1>4, <3>1, <3>3, <3>5 DEF OnceInv
  <2>4. CASE n.type = "C"
    <3> DEFINE d == IF Belongs(n) THEN [slice EXCEPT !.c = n.of] ELSE slice
    <3>1. decoded' = Append(decoded, d) /\ waiting' = {} /\ pending' = FALSE
      BY <2>2, <2>4 DEF Continue, Finish
    <3>2. d.a = slice.a BY <1>2, <1>11 DEF Slices
    <3> HIDE DEF d
    <3>3. Hand' = 0 BY <3>1 DEF Hand
    <3>4. ~ Begins(sent[e]) BY <1>8, <2>4 DEF Begins
    <3>5. Once(decoded, slice.a, sent, q, e) BY <1>2, <1>3, <2>1, <3>4, OnceRead DEF q
    <3>6. Once(decoded', 0, sent, q, e) BY <1>2, <2>2, <3>1, <3>2, <3>5, OnceDecoded
    <3>7. QED BY <1>1, <1>4, <3>3, <3>6 DEF OnceInv
  <2>5. CASE n.type # "C" /\ ~ (n.type = "B" /\ "B" \in waiting /\ Belongs(n))
    <3>1. decoded' = Append(decoded, slice) /\ waiting' = {} /\ pending' = TRUE
      BY <2>2, <2>5 DEF Continue, Finish
    <3> DEFINE ds == Append(decoded, slice)
               g == IF Begins(n) THEN n.of ELSE 0
    <3>2. Once(ds, 0, sent, read, At) BY <1>2, <2>1, <2>2, OnceDecoded
    <3>3. Hand' = g BY <1>9, <3>1 DEF Hand
    <3>4. IF Begins(sent[e]) THEN 0 = 0 /\ g = e ELSE g = 0 BY <1>7, <1>8
    <3> HIDE DEF g, ds
    <3>5. Once(ds, g, sent, q, e) BY <1>2, <1>3, <3>2, <3>4, OnceRead DEF q
    <3>6. QED BY <1>1, <1>4, <3>1, <3>3, <3>5 DEF OnceInv, ds
  <2>6. QED BY <2>3, <2>4, <2>5
<1>12. QED BY <1>10, <1>11

LEMMA OnceStep == PacketInv /\ PacketInv' /\ WholeInv /\ OnceInv /\ [Next]_vars => OnceInv'
<1> SUFFICES ASSUME PacketInv, PacketInv', WholeInv, OnceInv, [Next]_vars PROVE OnceInv' OBVIOUS
<1>1. sent \in Seq(Packets) /\ decoded \in Seq(Slices) /\ passed \in Nat /\ burst \in Nat
  BY Modulus DEF PacketInv, EncoderInv, AssemblerInv, ReaderInv
<1>2. CASE WriteRTPNALU
  <2>1. UNCHANGED <<passed, burst, read, old_seq, nalu, pending, waiting, slice, decoded>>
    BY <1>2 DEF WriteRTPNALU, reader, assembler
  <2>2. sent' \in Seq(Packets) /\ Len(sent') > Len(sent) /\ \A k \in 1 .. Len(sent) : sent'[k] = sent[k]
    BY <1>2, EncoderWrites DEF PacketInv, EncoderInv
  <2>3. Once(decoded, Hand, sent', read, At) BY <1>1, <2>2, OnceWritten DEF OnceInv
  <2>4. Hand' = Hand /\ At' = At BY <2>1 DEF Hand, At
  <2>5. QED BY <2>1, <2>3, <2>4 DEF OnceInv
<1>3. CASE LosePacket \/ UNCHANGED vars
  <2>1. UNCHANGED <<sent, read, nalu, pending, waiting, slice, decoded>>
        /\ \/ passed' = passed + 1 /\ burst' = burst + 1
           \/ passed' = passed /\ burst' = burst
    BY <1>3 DEF LosePacket, vars, encoder, reader, assembler
  <2>2. Hand' = Hand BY <2>1 DEF Hand
  <2>3. At' = At BY <1>1, <2>1 DEF At
  <2>4. QED BY <2>1, <2>2, <2>3 DEF OnceInv
<1>4. CASE ReadPacket BY <1>4, OnceReads
<1>5. CASE ResumePending
  <2>1. /\ pending /\ Begin(nalu) /\ UNCHANGED <<sent, passed, burst, read, old_seq, nalu>>
    BY <1>5 DEF ResumePending, encoder, reader
  <2>2. waiting = {} /\ nalu \in ReadUnits BY <2>1 DEF PacketInv, AssemblerInv, ReaderInv
  <2>3. Once(decoded, IF Begins(nalu) THEN nalu.of ELSE 0, sent, read, At)
    <3>1. Hand = IF Begins(nalu) THEN nalu.of ELSE 0 BY <2>1, <2>2 DEF Hand
    <3>2. QED BY <3>1 DEF OnceInv
  <2>4. Once(decoded', Hand', sent, read, At) BY <1>1, <2>1, <2>2, <2>3, OnceBegins
  <2>5. At' = At BY <2>1 DEF At
  <2>6. QED BY <2>1, <2>4, <2>5 DEF OnceInv
<1>6. CASE EndOfFile
  <2>1. /\ waiting # {} /\ Finish(slice, FALSE) /\ UNCHANGED <<sent, passed, burst, read, old_seq, nalu>>
    BY <1>6 DEF EndOfFile, encoder, reader
  <2>2. decoded' = Append(decoded, slice) /\ waiting' = {} /\ pending' = FALSE BY <2>1 DEF Finish
  <2>3. slice.a # 0 BY <2>1 DEF PacketInv, AssemblerInv, Slices
  <2>4. Once(decoded, slice.a, sent, read, At) BY <2>1 DEF OnceInv, Hand
  <2>5. Once(decoded', 0, sent, read, At) BY <1>1, <2>2, <2>3, <2>4, OnceDecoded
  <2>6. At' = At /\ Hand' = 0 BY <2>1, <2>2 DEF At, Hand
  <2>7. QED BY <2>1, <2>5, <2>6 DEF OnceInv
<1>7. QED BY <1>2, <1>3, <1>4, <1>5, <1>6 DEF Next


(* A sequence with one more element at its end, or none.                    *)
LEMMA AtTheEnd ==
  ASSUME NEW f \in Seq(Nat), NEW h \in Nat, NEW g, g = f \o (IF h = 0 THEN <<>> ELSE <<h>>)
  PROVE  /\ DOMAIN g = IF h = 0 THEN 1 .. Len(f) ELSE 1 .. Len(f) + 1
         /\ Len(f) \in Nat /\ \A i \in 1 .. Len(f) : g[i] = f[i]
         /\ h # 0 => g[Len(f) + 1] = h
<1>1. CASE h = 0
  <2>1. g = f BY <1>1
  <2>2. QED BY <1>1, <2>1
<1>2. CASE h # 0
  <2>1. g = f \o <<h>> /\ <<h>> \in Seq(Nat) /\ Len(<<h>>) = 1 /\ <<h>>[1] = h BY <1>2
  <2>2. g \in Seq(Nat) /\ Len(g) = Len(f) + 1 /\ \A i \in 1 .. Len(f) : g[i] = f[i] BY <2>1
  <2>3. g[Len(f) + 1] = h BY <2>1
  <2>4. QED BY <1>2, <2>2, <2>3
<1>3. QED BY <1>1, <1>2

LEMMA ListOfNumbers ==
  ASSUME NEW n \in Nat, NEW e \in [1 .. n -> Nat]
  PROVE  e \in Seq(Nat) /\ Len(e) = n
<1>1. e \in Seq(Nat) OBVIOUS
<1>2. Len(e) \in Nat /\ DOMAIN e = 1 .. Len(e) BY <1>1
<1>3. DOMAIN e = 1 .. n OBVIOUS
<1>4. QED BY <1>1, <1>2, <1>3

LEMMA OneThenNone ==
  ASSUME NEW f \in Seq(Nat), NEW e \in Nat
  PROVE  (f \o <<e>>) \o <<>> = f \o <<e>>
<1>1. f \o <<e>> \in Seq(Nat)
  <2>1. <<e>> \in Seq(Nat) OBVIOUS
  <2>2. QED BY <2>1, Joined
<1>2. \A z \in Seq(Nat) : z \o <<>> = z OBVIOUS
<1>3. QED BY <1>1, <1>2

LEMMA GivenOnce == PacketInv /\ WholeInv /\ OnceInv => EachSliceOnce
<1> SUFFICES ASSUME PacketInv, WholeInv, OnceInv PROVE EachSliceOnce OBVIOUS
<1> DEFINE f == [i \in DOMAIN decoded |-> decoded[i].a]
           x == IF waiting = {} THEN <<>> ELSE <<slice.a>>
           y == IF pending /\ Begins(nalu) THEN <<nalu.of>> ELSE <<>>
           h == Hand
<1>1. /\ decoded \in Seq(Slices) /\ (pending => waiting = {}) /\ (waiting # {} => slice \in Slices)
      /\ (pending => nalu \in ReadUnits)
  BY DEF PacketInv, AssemblerInv, ReaderInv
<1>2. f \in Seq(Nat) /\ Len(f) = Len(decoded) /\ DOMAIN decoded = 1 .. Len(decoded)
      /\ \A i \in 1 .. Len(decoded) : f[i] = decoded[i].a /\ decoded[i].a \in Nat
  <2>1. DOMAIN decoded = 1 .. Len(decoded) /\ Len(decoded) \in Nat BY <1>1
  <2>2. \A i \in 1 .. Len(decoded) : decoded[i] \in Slices BY <1>1
  <2>3. \A i \in 1 .. Len(decoded) : decoded[i].a \in Nat BY <2>2 DEF Slices
  <2>4. f = [i \in 1 .. Len(decoded) |-> decoded[i].a] BY <2>1
  <2>5. f \in [1 .. Len(decoded) -> Nat] BY <2>3, <2>4
  <2>6. DOMAIN f = 1 .. Len(decoded) BY <2>4
  <2> HIDE DEF f
  <2>7. f \in Seq(Nat) /\ Len(f) = Len(decoded) BY <2>1, <2>5, <2>6, ListOfNumbers
  <2>8. QED BY <2>1, <2>3, <2>4, <2>7
<1>3. Given = (f \o x) \o y BY DEF Given
<1> HIDE DEF f
<1>4. Given = f \o (IF h = 0 THEN <<>> ELSE <<h>>) /\ h \in Nat
  <2>1. CASE waiting # {}
    <3>1. h = slice.a /\ slice.a \in Nat \ {0} /\ ~ pending BY <1>1, <2>1 DEF Hand, Slices
    <3>2. x = <<slice.a>> /\ y = <<>> BY <2>1, <3>1
    <3>3. (f \o <<slice.a>>) \o <<>> = f \o <<slice.a>> BY <1>2, <3>1, OneThenNone
    <3>4. (f \o x) \o y = f \o x BY <3>2, <3>3
    <3>5. QED BY <1>3, <3>1, <3>2, <3>4
  <2>2. CASE waiting = {} /\ pending /\ Begins(nalu)
    <3>1. h = nalu.of /\ nalu.of \in Nat \ {0} BY <1>1, <2>2 DEF Hand, ReadUnits
    <3>2. x = <<>> /\ y = <<nalu.of>> BY <2>2
    <3>3. f \o x = f BY <1>2, <3>2
    <3>4. QED BY <1>3, <3>1, <3>2, <3>3
  <2>3. CASE waiting = {} /\ ~ (pending /\ Begins(nalu))
    <3>1. h = 0 /\ x = <<>> /\ y = <<>> BY <2>3 DEF Hand
    <3>2. f \o x = f BY <1>2, <3>1
    <3>3. f \o y = f BY <1>2, <3>1
    <3>4. QED BY <1>3, <3>1, <3>2, <3>3
  <2>4. QED BY <2>1, <2>2, <2>3
<1> DEFINE g == Given
           L == Len(decoded)
<1>5. /\ DOMAIN g = IF h = 0 THEN 1 .. L ELSE 1 .. L + 1
      /\ L \in Nat /\ (\A i \in 1 .. L : g[i] = decoded[i].a)
      /\ h # 0 => g[L + 1] = h
  BY <1>2, <1>4, AtTheEnd, SMTT(30)
<1>6. Once(decoded, h, sent, read, At) BY DEF OnceInv
<1> DEFINE b == {k \in Range(read) : Begins(sent[k])}
<1>7. DOMAIN read = 1 .. Len(read) BY DEF WholeInv
<1>8. Range(g) = {g[i] : i \in DOMAIN g} /\ Range(read) = {read[i] : i \in DOMAIN read} BY DEF Range
<1>L. L = Len(decoded) OBVIOUS
<1> HIDE DEF g, L, h
<1>9. \A i \in DOMAIN g : i \in 1 .. L \/ (h # 0 /\ i = L + 1) BY <1>5
<1>10. ASSUME NEW i \in DOMAIN g, NEW j \in DOMAIN g, i < j PROVE g[i] < g[j]
  <2>1. i \in 1 .. L
    <3>1. j <= L + 1 /\ j \in Int /\ i \in Int /\ i >= 1 BY <1>5
    <3>2. QED BY <1>5, <1>10, <3>1
  <2>2. CASE j \in 1 .. L BY <1>5, <1>6, <1>10, <1>L, <2>1, <2>2 DEF Once
  <2>3. CASE h # 0 /\ j = L + 1 BY <1>5, <1>6, <1>L, <2>1, <2>3 DEF Once
  <2>4. QED BY <1>9, <2>2, <2>3
<1>11. ASSUME NEW i \in DOMAIN g PROVE g[i] \in b
  <2>1. ASSUME NEW k, Taken(k, sent, read, At) PROVE k \in b BY <1>7, <1>8, <2>1 DEF Taken
  <2>2. CASE i \in 1 .. L
    <3>1. Taken(decoded[i].a, sent, read, At) BY <1>6, <1>L, <2>2 DEF Once
    <3>2. QED BY <1>5, <2>1, <2>2, <3>1
  <2>3. CASE h # 0 /\ i = L + 1
    <3>1. Taken(h, sent, read, At) BY <1>6, <2>3 DEF Once
    <3>2. QED BY <1>5, <2>1, <2>3, <3>1
  <2>4. QED BY <1>9, <2>2, <2>3
<1>12. ASSUME NEW k \in b PROVE \E i \in DOMAIN g : g[i] = k
  <2>1. PICK j \in 1 .. Len(read) : k = read[j] BY <1>7, <1>8
  <2>2. (\E i \in 1 .. L : decoded[i].a = k) \/ (h # 0 /\ k = h) BY <1>6, <1>L, <2>1 DEF Once
  <2>3. CASE \E i \in 1 .. L : decoded[i].a = k
    <3>1. PICK i \in 1 .. L : decoded[i].a = k BY <2>3
    <3>2. i \in DOMAIN g /\ g[i] = k BY <1>5, <3>1
    <3>3. QED BY <3>2
  <2>4. CASE h # 0 /\ k = h
    <3>1. L + 1 \in DOMAIN g /\ g[L + 1] = k BY <1>5, <2>4
    <3>2. QED BY <3>1
  <2>5. QED BY <2>2, <2>3, <2>4
<1> HIDE DEF b
<1>13. Range(g) = b BY <1>8, <1>11, <1>12
<1>14. QED BY <1>10, <1>13 DEF EachSliceOnce, g, b

(* Each slice that is read, or of which partition A is read, is handed to   *)
(* the decoder once and in order, though a unit that ends the search for    *)
(* partitions waits in pending_nalu for the next call.                      *)
THEOREM EveryReadSliceOnce == Spec => []EachSliceOnce
<1>1. Init => OnceInv
  <2> SUFFICES ASSUME Init PROVE OnceInv OBVIOUS
  <2>1. sent = <<>> /\ read = <<>> /\ decoded = <<>> /\ waiting = {} /\ pending = FALSE BY DEF Init
  <2>2. Len(read) = 0 /\ Len(decoded) = 0 /\ Hand = 0 BY <2>1 DEF Hand
  <2>3. QED BY <2>2 DEF OnceInv, Once
<1>2. QED BY <1>1, WholeInit, GivenOnce, PacketInvariant, WholeStep, OnceStep, PTL DEF Spec

-----------------------------------------------------------------------------
(* RtpPackets implements NalDelivery with losses.                           *)

sentBar == [n \in DOMAIN sent |-> DecomposeRTPpacket(sent[n])]
passedBar == passed - burst
gotBar == IF HasRead THEN <<DecomposeRTPpacket(nalu), nalu.lost>> ELSE <<>>

SentAsUnits ==
  /\ sentBar \in Seq(Units) /\ Len(sentBar) = Len(sent)
  /\ \A k \in 1 .. Len(sent) : sentBar[k] = DecomposeRTPpacket(sent[k])

LEMMA SentBar == EncoderInv => SentAsUnits
<1> SUFFICES ASSUME EncoderInv PROVE SentAsUnits OBVIOUS
<1>1. /\ Len(sent) \in Nat /\ DOMAIN sent = 1 .. Len(sent)
      /\ \A k \in 1 .. Len(sent) : sent[k] \in Packets
  BY DEF EncoderInv
<1>2. \A k \in 1 .. Len(sent) : DecomposeRTPpacket(sent[k]) \in Units
  BY <1>1 DEF DecomposeRTPpacket, Units, Packets, Types
<1>3. sentBar \in [1 .. Len(sent) -> Units] BY <1>1, <1>2 DEF sentBar
<1>4. QED BY <1>1, <1>3 DEF sentBar, SentAsUnits

LEMMA DeliveryInit == Init => Delivery!Init
<1>1. SUFFICES ASSUME Init PROVE Delivery!Init OBVIOUS
<1>2. sentBar = <<>>
  <2>1. EncoderInv BY <1>1, PacketInit DEF PacketInv
  <2>2. Len(sentBar) = 0 /\ sentBar \in Seq(Units) BY <1>1, <2>1, SentBar DEF Init, SentAsUnits
  <2>3. QED BY <2>2
<1>3. passed - burst = 0 /\ ~ HasRead BY <1>1 DEF Init, HasRead
<1>4. QED BY <1>2, <1>3 DEF Delivery!Init, sentBar

LEMMA DeliverySend ==
  ASSUME PacketInv, WriteRTPNALU
  PROVE  Delivery!Send
<1>1. EncoderInv /\ EncoderInv' BY EncoderWrites DEF PacketInv
<1>2. Len(sent') > Len(sent) /\ \A k \in 1 .. Len(sent) : sent'[k] = sent[k]
  BY EncoderWrites DEF PacketInv
<1>3. SentAsUnits /\ SentAsUnits'
  <2>1. EncoderInv' => SentAsUnits' BY SentBar, PTL
  <2>2. QED BY <1>1, <2>1, SentBar
<1>4. /\ sentBar \in Seq(Units) /\ Len(sentBar) = Len(sent)
      /\ \A k \in 1 .. Len(sent) : sentBar[k] = DecomposeRTPpacket(sent[k])
      /\ sentBar' \in Seq(Units) /\ Len(sentBar') = Len(sent')
      /\ \A k \in 1 .. Len(sent') : sentBar'[k] = DecomposeRTPpacket(sent'[k])
  BY <1>3 DEF SentAsUnits, DecomposeRTPpacket
<1>5. Len(sent) \in Nat /\ Len(sent') \in Nat BY <1>1 DEF EncoderInv
<1>6. SubSeq(sentBar', 1, Len(sentBar)) = sentBar
  <2>1. \A k \in 1 .. Len(sentBar) : sentBar'[k] = sentBar[k] BY <1>2, <1>4, <1>5
  <2>2. QED BY <1>2, <1>4, <1>5, <2>1
<1>7. \A n \in Len(sentBar) + 1 .. Len(sentBar') : sentBar'[n] \in Units
  BY <1>4, <1>5
<1>8. UNCHANGED <<passedBar, gotBar>>
  BY DEF WriteRTPNALU, reader, passedBar, gotBar, HasRead, DecomposeRTPpacket
<1>9. QED
  BY <1>2, <1>4, <1>6, <1>7, <1>8 DEF Delivery!Send, sentBar, passedBar, gotBar

LEMMA DeliveryRead ==
  ASSUME PacketInv, ReadPacket
  PROVE  Delivery!Deliver
<1>1. EncoderInv /\ ReaderInv BY DEF PacketInv
<1>2. /\ passed < Len(sent) /\ passed' = passed + 1 /\ burst' = 0 /\ sent' = sent
      /\ nalu'.type = sent[passed + 1].type /\ nalu'.slice_id = sent[passed + 1].slice_id
      /\ nalu'.of = sent[passed + 1].of /\ nalu'.lost = Missing(sent[passed + 1].seq)
      /\ old_seq' = <<sent[passed + 1].seq>>
  BY DEF ReadPacket, encoder
<1>3. Len(sent) \in Nat /\ passed \in Nat /\ burst \in Nat /\ burst <= passed
  BY <1>1, Modulus DEF EncoderInv, ReaderInv
<1>4. Len(sentBar) = Len(sent) /\ sentBar[passed + 1] = DecomposeRTPpacket(sent[passed + 1])
  BY <1>1, <1>2, <1>3, SentBar DEF SentAsUnits
<1>5. burst \in 0 .. Len(sentBar) - passedBar - 1
  BY <1>2, <1>3, <1>4 DEF passedBar
<1>6. passedBar' = passedBar + burst + 1 /\ passedBar' = passed + 1
  BY <1>2, <1>3 DEF passedBar
<1>7. gotBar' = <<sentBar[passedBar'], IF gotBar = <<>> THEN 0 ELSE burst>>
  <2>1. DecomposeRTPpacket(nalu') = DecomposeRTPpacket(sent[passed + 1])
    BY <1>2 DEF DecomposeRTPpacket
  <2>2. gotBar' = <<DecomposeRTPpacket(nalu'), nalu'.lost>>
    BY <1>2 DEF gotBar, HasRead, DecomposeRTPpacket
  <2>3. CASE At = 0
    <3>1. old_seq = <<>> /\ gotBar = <<>> BY <1>1, <2>3 DEF ReaderInv, gotBar, HasRead
    <3>2. nalu'.lost = 0 BY <1>2, <3>1 DEF Missing
    <3>3. QED BY <1>4, <1>6, <2>1, <2>2, <3>1, <3>2
  <2>4. CASE At > 0
    <3>1. old_seq # <<>> /\ gotBar # <<>>
      <4>1. old_seq = <<sent[At].seq>> BY <1>1, <2>4 DEF ReaderInv
      <4>2. HasRead BY <4>1 DEF HasRead
      <4>3. gotBar = <<DecomposeRTPpacket(nalu), nalu.lost>> BY <4>2 DEF gotBar
      <4>4. QED BY <4>1, <4>3
    <3>2. nalu'.lost = burst BY <1>1, <1>2, <2>4, MissingIsBurst
    <3>3. QED BY <1>4, <1>6, <2>1, <2>2, <3>1, <3>2
  <2>5. QED BY <1>3, <2>3, <2>4 DEF At
<1>8. UNCHANGED sentBar BY <1>2 DEF sentBar, DecomposeRTPpacket
<1>9. \E lost \in 0 .. Len(sentBar) - passedBar - 1 :
        /\ lost > 0 => TRUE
        /\ passedBar' = passedBar + lost + 1
        /\ gotBar' = <<sentBar[passedBar'], IF gotBar = <<>> THEN 0 ELSE lost>>
        /\ UNCHANGED sentBar
  BY <1>5, <1>6, <1>7, <1>8
<1>10. QED BY <1>9 DEF Delivery!Deliver, sentBar, passedBar, gotBar

LEMMA DeliveryRests ==
  ASSUME PacketInv,
         LosePacket \/ ResumePending \/ EndOfFile \/ UNCHANGED vars
  PROVE  UNCHANGED <<sentBar, passedBar, gotBar>>
<1>1. sent' = sent /\ nalu' = nalu /\ old_seq' = old_seq
  BY DEF LosePacket, ResumePending, EndOfFile, vars, encoder, reader
<1>2. passedBar' = passedBar
  <2>1. passed \in Int /\ burst \in Int BY Modulus DEF PacketInv, ReaderInv
  <2>2. CASE LosePacket
    <3>1. passed' = passed + 1 /\ burst' = burst + 1 BY <2>2 DEF LosePacket
    <3>2. QED BY <2>1, <3>1 DEF passedBar
  <2>3. CASE ResumePending \/ EndOfFile \/ UNCHANGED vars
    <3>1. passed' = passed /\ burst' = burst BY <2>3 DEF ResumePending, EndOfFile, vars
    <3>2. QED BY <3>1 DEF passedBar
  <2>4. QED BY <2>2, <2>3
<1>3. QED BY <1>1, <1>2 DEF sentBar, gotBar, HasRead, DecomposeRTPpacket

LEMMA DeliveryStep == PacketInv /\ [Next]_vars => [Delivery!Next]_(Delivery!vars)
<1>1. SUFFICES ASSUME PacketInv, [Next]_vars PROVE [Delivery!Next]_(Delivery!vars) OBVIOUS
<1>2. CASE WriteRTPNALU BY <1>1, <1>2, DeliverySend DEF Delivery!Next
<1>3. CASE ReadPacket BY <1>1, <1>3, DeliveryRead DEF Delivery!Next
<1>4. CASE LosePacket \/ ResumePending \/ EndOfFile \/ UNCHANGED vars
  <2>1. UNCHANGED <<sentBar, passedBar, gotBar>> BY <1>1, <1>4, DeliveryRests
  <2>2. QED BY <2>1 DEF Delivery!vars, sentBar, passedBar, gotBar
<1>5. QED BY <1>1, <1>2, <1>3, <1>4 DEF Next

(* Packets arrive in order, none twice, and the count of lost packets that  *)
(* GetRTPNALU computes is what is missing in front of each.                 *)
THEOREM Implements == Spec => ImplementsDelivery
<1>1. Init => Delivery!Init BY DeliveryInit
<1>2. PacketInv /\ [Next]_vars => [Delivery!Next]_(Delivery!vars) BY DeliveryStep
<1>3. QED
  BY <1>1, <1>2, PacketInvariant, PTL DEF Spec, ImplementsDelivery, Delivery!InOrder
=============================================================================
