----------------------------- MODULE NalProofs -----------------------------
(***************************************************************************)
(* Of NAL units in a file, for every set of bytes and headers, every size  *)
(* of the chunks and every bound: RBSPtoEBSP leaves none of the patterns   *)
(* that the decoder looks for in a payload, the decoder refuses nothing    *)
(* that was written, and what it reads are the units that were written,    *)
(* in order and unchanged.                                                 *)
(*                                                                         *)
(* The invariant says what the bytes mean: where the units lie in the      *)
(* file (Lay), that a written unit stands for a payload and some zero      *)
(* words (Codes), that buffer and rest of the file hold what is behind the *)
(* bytes used (Ahead), which of the file is in Buf (Scanned), and what of  *)
(* a unit is restored and what is left of it (Restoring).                  *)
(***************************************************************************)
EXTENDS AnnexB, SequenceTheorems, TLAPS

Byte == 0 .. 255

(* No two zeros in a row with a byte below three behind them.               *)
Clean(s) == \A n \in 1 .. Len(s) - 2 : ~ (s[n] = 0 /\ s[n + 1] = 0 /\ s[n + 2] < 3)

(* What count says of the end of the payload: it ends with at most so many  *)
(* zeros (two stand for any number).                                        *)
EndsWith(s, c) ==
  /\ c = 0 => (Len(s) > 0 => s[Len(s)] # 0)
  /\ c = 1 => (Len(s) > 1 => s[Len(s) - 1] # 0)

(* While a payload is written it is a sequence of bytes, count does not     *)
(* understate the zeros at its end, and it is clean so far.                 *)
PayloadInv ==
  pc = "payload" =>
    /\ nalu \in [header : Headers, startcodeprefix_len : {3, 4},
                 rbsp : Seq(Byte), buf : Seq(Byte)]
    /\ count \in 0 .. 2
    /\ EndsWith(nalu.buf, count)
    /\ Clean(nalu.buf)

(* A byte that is appended without an escape.                               *)
LEMMA AppendPlain ==
  ASSUME NEW s \in Seq(Byte), NEW c \in 0 .. 2, NEW b \in Byte,
         EndsWith(s, c), Clean(s), c = 2 => b > 3
  PROVE  /\ s \o <<b>> \in Seq(Byte)
         /\ Clean(s \o <<b>>)
         /\ EndsWith(s \o <<b>>, IF b # 0 THEN 0 ELSE c + 1)
         /\ (IF b # 0 THEN 0 ELSE c + 1) \in 0 .. 2
<1> DEFINE t == s \o <<b>>
<1>1. t \in Seq(Byte) /\ Len(t) = Len(s) + 1 /\ Len(s) \in Nat
  BY DEF Byte
<1>2. \A n \in 1 .. Len(s) : t[n] = s[n]
  OBVIOUS
<1>3. t[Len(s) + 1] = b
  OBVIOUS
<1>4. Clean(t)
  <2>1. SUFFICES ASSUME NEW n \in 1 .. Len(t) - 2, t[n] = 0, t[n + 1] = 0, t[n + 2] < 3
                 PROVE  FALSE
    BY DEF Clean
  <2>2. CASE n + 2 <= Len(s)
    BY <1>1, <1>2, <2>1, <2>2 DEF Clean
  <2>3. CASE n + 2 = Len(s) + 1
    <3>1. s[Len(s)] = 0 /\ s[Len(s) - 1] = 0 /\ Len(s) > 1
      BY <1>1, <1>2, <2>1, <2>3
    <3>2. c = 2
      BY <3>1 DEF EndsWith
    <3>3. b < 3
      BY <1>3, <2>1, <2>3
    <3>4. QED BY <3>2, <3>3 DEF Byte
  <2>4. QED BY <1>1, <2>2, <2>3
<1>5. EndsWith(t, IF b # 0 THEN 0 ELSE c + 1)
  BY <1>1, <1>2, <1>3 DEF EndsWith
<1>6. (IF b # 0 THEN 0 ELSE c + 1) \in 0 .. 2
  BY DEF Byte
<1>7. QED BY <1>1, <1>4, <1>5, <1>6

(* A byte that is appended behind an escape.                                *)
LEMMA AppendEscaped ==
  ASSUME NEW s \in Seq(Byte), NEW b \in Byte, Clean(s)
  PROVE  /\ s \o <<3, b>> \in Seq(Byte)
         /\ Clean(s \o <<3, b>>)
         /\ EndsWith(s \o <<3, b>>, IF b # 0 THEN 0 ELSE 1)
<1> DEFINE t == s \o <<3, b>>
<1>1. t \in Seq(Byte) /\ Len(t) = Len(s) + 2 /\ Len(s) \in Nat
  BY DEF Byte
<1>2. \A n \in 1 .. Len(s) : t[n] = s[n]
  OBVIOUS
<1>3. t[Len(s) + 1] = 3 /\ t[Len(s) + 2] = b
  OBVIOUS
<1>4. Clean(t)
  <2>1. SUFFICES ASSUME NEW n \in 1 .. Len(t) - 2, t[n] = 0, t[n + 1] = 0, t[n + 2] < 3
                 PROVE  FALSE
    BY DEF Clean
  <2>2. CASE n + 2 <= Len(s)
    BY <1>1, <1>2, <2>1, <2>2 DEF Clean
  <2>3. CASE n + 2 = Len(s) + 1
    BY <1>3, <2>1, <2>3
  <2>4. CASE n + 1 = Len(s) + 1
    BY <1>3, <2>1, <2>4
  <2>5. QED BY <1>1, <2>2, <2>3, <2>4
<1>5. EndsWith(t, IF b # 0 THEN 0 ELSE 1)
  BY <1>1, <1>3 DEF EndsWith
<1>6. QED BY <1>1, <1>4, <1>5

LEMMA PayloadInit == Init => PayloadInv
BY DEF Init, PayloadInv

(* RBSPtoNALU starts with an empty payload.                                 *)
LEMMA PayloadStart == StartUnit => PayloadInv'
<1>1. SUFFICES ASSUME StartUnit PROVE PayloadInv'
  OBVIOUS
<1>2. PICK h \in Headers, n \in {3, 4} :
        nalu' = [NoUnit EXCEPT !.header = h, !.startcodeprefix_len = n]
  BY <1>1 DEF StartUnit
<1>3. nalu' = [header |-> h, startcodeprefix_len |-> n, rbsp |-> <<>>, buf |-> <<>>]
  BY <1>2 DEF NoUnit
<1>4. <<>> \in Seq(Byte) /\ Clean(<<>>) /\ EndsWith(<<>>, 0)
  BY DEF Clean, EndsWith
<1>5. count' = 0 BY <1>1 DEF StartUnit
<1>6. QED BY <1>3, <1>4, <1>5 DEF PayloadInv

(* One turn of the loop keeps the payload clean.                            *)
LEMMA PayloadByte == PayloadInv /\ RBSPtoEBSP => PayloadInv'
<1>1. SUFFICES ASSUME PayloadInv, RBSPtoEBSP PROVE PayloadInv'
  OBVIOUS
<1>2. PICK b \in Bytes :
        /\ nalu' = [nalu EXCEPT !.rbsp = Append(@, b),
                      !.buf = @ \o (IF Escapes(b) THEN <<3, b>> ELSE <<b>>)]
        /\ count' = Count(b, Escapes(b))
  BY <1>1 DEF RBSPtoEBSP
<1>3. pc = "payload" /\ pc' = "payload" BY <1>1 DEF RBSPtoEBSP
<1>4. /\ nalu \in [header : Headers, startcodeprefix_len : {3, 4},
                   rbsp : Seq(Byte), buf : Seq(Byte)]
      /\ count \in 0 .. 2 /\ EndsWith(nalu.buf, count) /\ Clean(nalu.buf)
  BY <1>1, <1>3 DEF PayloadInv
<1>5. b \in Byte BY ByteAssumption DEF Byte
<1>6. Append(nalu.rbsp, b) \in Seq(Byte) BY <1>4, <1>5
<1>7. CASE Escapes(b)
  <2>1. /\ nalu.buf \o <<3, b>> \in Seq(Byte) /\ Clean(nalu.buf \o <<3, b>>)
        /\ EndsWith(nalu.buf \o <<3, b>>, IF b # 0 THEN 0 ELSE 1)
    BY <1>4, <1>5, AppendEscaped
  <2>2. nalu' = [nalu EXCEPT !.rbsp = Append(nalu.rbsp, b), !.buf = nalu.buf \o <<3, b>>]
    BY <1>2, <1>7
  <2>3. count' = IF b # 0 THEN 0 ELSE 1
    BY <1>2, <1>7 DEF Count
  <2>4. count' \in 0 .. 2
    BY <2>3
  <2>5. nalu'.buf = nalu.buf \o <<3, b>>
    BY <1>4, <2>2
  <2>6. nalu' \in [header : Headers, startcodeprefix_len : {3, 4},
                  rbsp : Seq(Byte), buf : Seq(Byte)]
    BY <1>4, <1>6, <2>1, <2>2
  <2>7. EndsWith(nalu'.buf, count') /\ Clean(nalu'.buf)
    BY <2>1, <2>3, <2>5
  <2>8. QED BY <2>4, <2>6, <2>7 DEF PayloadInv
<1>8. CASE ~ Escapes(b)
  <2>1. count = 2 => b > 3
    BY <1>5, <1>8 DEF Escapes, Byte
  <2>2. /\ nalu.buf \o <<b>> \in Seq(Byte) /\ Clean(nalu.buf \o <<b>>)
        /\ EndsWith(nalu.buf \o <<b>>, IF b # 0 THEN 0 ELSE count + 1)
        /\ (IF b # 0 THEN 0 ELSE count + 1) \in 0 .. 2
    BY <1>4, <1>5, <2>1, AppendPlain
  <2>3. nalu' = [nalu EXCEPT !.rbsp = Append(nalu.rbsp, b), !.buf = nalu.buf \o <<b>>]
    BY <1>2, <1>8
  <2>4. count' = IF b # 0 THEN 0 ELSE count + 1
    BY <1>2, <1>8 DEF Count
  <2>5. QED BY <1>4, <1>6, <2>2, <2>3, <2>4 DEF PayloadInv
<1>9. QED BY <1>7, <1>8

(* No other step leads into a payload.                                      *)
LEMMA PayloadOther ==
  ASSUME \/ WriteAnnexbNALU \/ Open \/ PutBackStartCode \/ ReadPrefix \/ EndOfFile
         \/ CheckPrefix \/ ReadByte \/ LastUnit \/ FoundStartCode \/ EBSPtoRBSP
         \/ ReturnUnit \/ AddZeroByte
  PROVE  pc' # "payload"
<1>1. CASE WriteAnnexbNALU BY <1>1 DEF WriteAnnexbNALU
<1>2. CASE Open BY <1>2 DEF Open
<1>3. CASE PutBackStartCode BY <1>3 DEF PutBackStartCode
<1>4. CASE ReadPrefix BY <1>4 DEF ReadPrefix
<1>5. CASE EndOfFile BY <1>5 DEF EndOfFile
<1>6. CASE CheckPrefix BY <1>6 DEF CheckPrefix
<1>7. CASE ReadByte BY <1>7 DEF ReadByte
<1>8. CASE LastUnit BY <1>8 DEF LastUnit, Hand
<1>9. CASE FoundStartCode BY <1>9 DEF FoundStartCode, Hand
<1>10. CASE EBSPtoRBSP BY <1>10 DEF EBSPtoRBSP
<1>11. CASE ReturnUnit BY <1>11 DEF ReturnUnit
<1>12. CASE AddZeroByte BY <1>12 DEF AddZeroByte
<1>13. QED BY <1>1, <1>2, <1>3, <1>4, <1>5, <1>6, <1>7, <1>8, <1>9, <1>10, <1>11, <1>12

LEMMA PayloadStep == PayloadInv /\ [Next]_vars => PayloadInv'
<1>1. SUFFICES ASSUME PayloadInv, [Next]_vars PROVE PayloadInv'
  OBVIOUS
<1>2. CASE StartUnit BY <1>2, PayloadStart
<1>3. CASE RBSPtoEBSP BY <1>1, <1>3, PayloadByte
<1>4. CASE pc' # "payload" BY <1>4 DEF PayloadInv
<1>5. CASE UNCHANGED vars
  BY <1>1, <1>5 DEF PayloadInv, vars, written
<1>6. QED BY <1>1, <1>2, <1>3, <1>4, <1>5, PayloadOther DEF Next

(* RBSPtoEBSP leaves nothing in a payload that a decoder could take for a   *)
(* start code, or for the zeros in front of one, whatever is written.       *)
THEOREM PayloadIsClean == Spec => []NoStartCodeInPayload
<1>1. PayloadInv => NoStartCodeInPayload
  BY DEF PayloadInv, Clean, NoStartCodeInPayload
<1>2. Init => PayloadInv BY PayloadInit
<1>3. PayloadInv /\ [Next]_vars => PayloadInv' BY PayloadStep
<1>4. QED BY <1>1, <1>2, <1>3, PTL DEF Spec

-----------------------------------------------------------------------------
(***************************************************************************)
(* What is written and what is meant by it.                                *)
(***************************************************************************)

(* Byte i of a written unit is an escape.                                   *)
IsEscape(w, i) == i >= 3 /\ w[i - 2] = 0 /\ w[i - 1] = 0 /\ w[i] = 3

(* Behind an escape there is nothing, or a byte that needs one.             *)
Sound(w) == Clean(w) /\ \A i \in 1 .. Len(w) - 1 : IsEscape(w, i) => w[i + 1] <= 3

(* Of the first i bytes of w, q[i] are not escapes; they are those of r.    *)
Restores(w, r, q) ==
  /\ q[0] = 0 /\ q[Len(w)] = Len(r)
  /\ \A i \in 1 .. Len(w) :
       IF IsEscape(w, i) THEN q[i] = q[i - 1]
       ELSE q[i] = q[i - 1] + 1 /\ q[i] <= Len(r) /\ w[i] = r[q[i]]

Codes(w, r) == Sound(w) /\ \E q \in [Nat -> Nat] : Restores(w, r, q)

EndsInZeros(w) == Len(w) >= 2 /\ w[Len(w)] = 0 /\ w[Len(w) - 1] = 0

LEMMA OneMore ==
  ASSUME NEW S, NEW s \in Seq(S), NEW b \in S
  PROVE  /\ s \o <<b>> \in Seq(S) /\ Len(s \o <<b>>) = Len(s) + 1 /\ Len(s) \in Nat
         /\ \A i \in 1 .. Len(s) : (s \o <<b>>)[i] = s[i] /\ s[i] \in S
         /\ (s \o <<b>>)[Len(s) + 1] = b
<1>1. Append(s, b) = s \o <<b>> BY AppendIsConcat
<1>2. \A i \in 1 .. Len(s) : s[i] \in S BY ElementOfSeq
<1>3. QED BY <1>1, <1>2, AppendProperties, LenProperties

LEMMA OnePoint ==
  ASSUME NEW q \in [Nat -> Nat], NEW k \in Nat, NEW n \in Nat
  PROVE  /\ [q EXCEPT ![k] = n] \in [Nat -> Nat] /\ [q EXCEPT ![k] = n][k] = n
         /\ \A i \in Nat : i # k => [q EXCEPT ![k] = n][i] = q[i]
         /\ \A i \in Nat : q[i] \in Nat
OBVIOUS

(* One more byte, which is not an escape.                                   *)
LEMMA CodesByte ==
  ASSUME NEW w \in Seq(Byte), NEW r \in Seq(Byte), NEW b \in Byte, Codes(w, r),
         EndsInZeros(w) => b > 3, IsEscape(w, Len(w)) => b <= 3
  PROVE  /\ w \o <<b>> \in Seq(Byte) /\ r \o <<b>> \in Seq(Byte)
         /\ Codes(w \o <<b>>, r \o <<b>>) /\ ~ IsEscape(w \o <<b>>, Len(w) + 1)
<1> DEFINE v == w \o <<b>>
           y == r \o <<b>>
           m == Len(w)
           n == Len(r)
<1>1. /\ v \in Seq(Byte) /\ Len(v) = m + 1 /\ m \in Nat
      /\ \A i \in 1 .. m : v[i] = w[i] /\ w[i] \in Byte
      /\ v[m + 1] = b
  BY OneMore
<1>2. /\ y \in Seq(Byte) /\ Len(y) = n + 1 /\ n \in Nat
      /\ \A i \in 1 .. n : y[i] = r[i]
      /\ y[n + 1] = b
  BY OneMore
<1>a. m = Len(w) /\ n = Len(r) OBVIOUS
<1> HIDE DEF v, y, m, n
<1>3. \A i \in 1 .. m : IsEscape(v, i) = IsEscape(w, i)
  <2> SUFFICES ASSUME NEW i \in 1 .. m PROVE IsEscape(v, i) = IsEscape(w, i) OBVIOUS
  <2>1. CASE i >= 3
    <3>1. v[i] = w[i] /\ v[i - 1] = w[i - 1] /\ v[i - 2] = w[i - 2] BY <1>1, <2>1
    <3>2. QED BY <3>1 DEF IsEscape
  <2>2. CASE ~ (i >= 3) BY <2>2 DEF IsEscape
  <2>3. QED BY <2>1, <2>2
<1>4. ~ IsEscape(v, m + 1)
  <2> SUFFICES ASSUME IsEscape(v, m + 1) PROVE FALSE OBVIOUS
  <2>1. m >= 2 /\ v[m - 1] = 0 /\ v[m] = 0 /\ b = 3 BY <1>1 DEF IsEscape
  <2>2. EndsInZeros(w) BY <1>1, <1>a, <2>1 DEF EndsInZeros
  <2>3. QED BY <2>1, <2>2
<1>5. Sound(v)
  <2>1. Clean(v)
    <3> SUFFICES ASSUME NEW i \in 1 .. Len(v) - 2, v[i] = 0, v[i + 1] = 0, v[i + 2] < 3
                 PROVE  FALSE
      BY DEF Clean
    <3>1. CASE i + 2 <= m
      <4>1. i \in 1 .. Len(w) - 2 /\ w[i] = 0 /\ w[i + 1] = 0 /\ w[i + 2] < 3 BY <1>1, <1>a, <3>1
      <4>2. QED BY <4>1 DEF Codes, Sound, Clean
    <3>2. CASE i + 2 = m + 1
      <4>1. m >= 2 /\ v[m - 1] = 0 /\ v[m] = 0 /\ b < 3 BY <1>1, <3>2
      <4>2. EndsInZeros(w) BY <1>1, <1>a, <4>1, SMTT(30) DEF EndsInZeros
      <4>3. QED BY <4>1, <4>2 DEF Byte
    <3>3. QED BY <1>1, <3>1, <3>2
  <2>2. ASSUME NEW i \in 1 .. Len(v) - 1, IsEscape(v, i) PROVE v[i + 1] <= 3
    <3>1. i \in 1 .. m /\ IsEscape(w, i) BY <1>1, <1>3, <2>2
    <3>2. CASE i = m BY <1>1, <1>a, <3>1, <3>2
    <3>3. CASE i # m
      <4>1. i \in 1 .. Len(w) - 1 /\ i + 1 \in 1 .. m BY <1>1, <1>a, <3>1, <3>3
      <4>2. w[i + 1] <= 3 BY <3>1, <4>1 DEF Codes, Sound
      <4>3. QED BY <1>1, <4>1, <4>2
    <3>4. QED BY <3>2, <3>3
  <2>3. QED BY <2>1, <2>2 DEF Sound
<1>6. PICK q \in [Nat -> Nat] : Restores(w, r, q) BY DEF Codes
<1>7. q[0] = 0 /\ q[m] = n
      /\ \A i \in 1 .. m : IF IsEscape(w, i) THEN q[i] = q[i - 1]
                           ELSE q[i] = q[i - 1] + 1 /\ q[i] <= n /\ w[i] = r[q[i]]
  BY <1>6, <1>a DEF Restores
<1> DEFINE p == [q EXCEPT ![m + 1] = n + 1]
<1>8. p \in [Nat -> Nat] /\ p[m + 1] = n + 1 /\ \A i \in 0 .. m : p[i] = q[i]
  <2>1. m + 1 \in Nat /\ n + 1 \in Nat /\ \A i \in 0 .. m : i \in Nat /\ i # m + 1 BY <1>1, <1>2
  <2>2. QED BY <2>1, OnePoint
<1> HIDE DEF p
<1>9. Restores(v, y, p)
  <2>1. p[0] = 0 /\ p[Len(v)] = Len(y) BY <1>1, <1>2, <1>7, <1>8
  <2>2. ASSUME NEW i \in 1 .. Len(v)
        PROVE  IF IsEscape(v, i) THEN p[i] = p[i - 1]
               ELSE p[i] = p[i - 1] + 1 /\ p[i] <= Len(y) /\ v[i] = y[p[i]]
    <3>1. CASE i = m + 1
      <4>1. p[i - 1] = n /\ p[i] = n + 1 BY <1>1, <1>7, <1>8, <3>1
      <4>2. v[i] = y[n + 1] BY <1>1, <1>2, <3>1
      <4>3. QED BY <1>2, <1>4, <3>1, <4>1, <4>2
    <3>2. CASE i \in 1 .. m
      <4>0. i \in 0 .. m /\ i - 1 \in 0 .. m /\ i \in Nat /\ i - 1 \in Nat BY <1>1, <3>2
      <4>1. p[i] = q[i] /\ p[i - 1] = q[i - 1] /\ q[i] \in Nat /\ q[i - 1] \in Nat BY <1>8, <4>0
      <4>2. CASE IsEscape(w, i) BY <1>3, <1>7, <3>2, <4>1, <4>2
      <4>3. CASE ~ IsEscape(w, i)
        <5>1. q[i] = q[i - 1] + 1 /\ q[i] <= n /\ w[i] = r[q[i]] BY <1>7, <3>2, <4>3
        <5>2. q[i] \in 1 .. n BY <1>2, <4>1, <5>1
        <5>3. y[q[i]] = r[q[i]] BY <1>2, <5>2
        <5>4. v[i] = w[i] BY <1>1, <3>2
        <5>5. QED BY <1>2, <1>3, <3>2, <4>1, <4>3, <5>1, <5>3, <5>4, SMTT(30)
      <4>4. QED BY <4>2, <4>3
    <3>3. QED BY <1>1, <3>1, <3>2
  <2>3. QED BY <2>1, <2>2 DEF Restores
<1>10. Codes(v, y) BY <1>5, <1>8, <1>9 DEF Codes
<1>11. QED BY <1>1, <1>2, <1>4, <1>10, <1>a DEF v, y

(* An escape behind two zeros.                                              *)
LEMMA CodesEscape ==
  ASSUME NEW w \in Seq(Byte), NEW r \in Seq(Byte), Codes(w, r), EndsInZeros(w)
  PROVE  /\ w \o <<3>> \in Seq(Byte) /\ Codes(w \o <<3>>, r)
         /\ ~ EndsInZeros(w \o <<3>>)
<1> DEFINE v == w \o <<3>>
           m == Len(w)
           n == Len(r)
<1>1. /\ v \in Seq(Byte) /\ Len(v) = m + 1 /\ m \in Nat
      /\ \A i \in 1 .. m : v[i] = w[i] /\ w[i] \in Byte
      /\ v[m + 1] = 3
  <2>1. 3 \in Byte BY DEF Byte
  <2>2. QED BY <2>1, OneMore
<1>a. m = Len(w) /\ n = Len(r) /\ n \in Nat OBVIOUS
<1> HIDE DEF v, m, n
<1>2. m >= 2 /\ v[m] = 0 /\ v[m - 1] = 0 BY <1>1, <1>a DEF EndsInZeros
<1>3. \A i \in 1 .. m : IsEscape(v, i) = IsEscape(w, i)
  <2> SUFFICES ASSUME NEW i \in 1 .. m PROVE IsEscape(v, i) = IsEscape(w, i) OBVIOUS
  <2>1. CASE i >= 3
    <3>1. v[i] = w[i] /\ v[i - 1] = w[i - 1] /\ v[i - 2] = w[i - 2] BY <1>1, <2>1
    <3>2. QED BY <3>1 DEF IsEscape
  <2>2. CASE ~ (i >= 3) BY <2>2 DEF IsEscape
  <2>3. QED BY <2>1, <2>2
<1>4. IsEscape(v, m + 1)
  <2>1. m + 1 >= 3 /\ (m + 1) - 2 = m - 1 /\ (m + 1) - 1 = m BY <1>1, <1>2
  <2>2. QED BY <1>1, <1>2, <2>1 DEF IsEscape
<1>5. Sound(v)
  <2>1. Clean(v)
    <3> SUFFICES ASSUME NEW i \in 1 .. Len(v) - 2, v[i] = 0, v[i + 1] = 0, v[i + 2] < 3
                 PROVE  FALSE
      BY DEF Clean
    <3>1. CASE i + 2 <= m
      <4>1. i \in 1 .. Len(w) - 2 /\ w[i] = 0 /\ w[i + 1] = 0 /\ w[i + 2] < 3 BY <1>1, <1>a, <3>1
      <4>2. QED BY <4>1 DEF Codes, Sound, Clean
    <3>2. CASE i + 2 = m + 1 BY <1>1, <3>2
    <3>3. QED BY <1>1, <3>1, <3>2
  <2>2. ASSUME NEW i \in 1 .. Len(v) - 1, IsEscape(v, i) PROVE v[i + 1] <= 3
    <3>1. i \in 1 .. m /\ IsEscape(w, i) BY <1>1, <1>3, <2>2
    <3>2. CASE i = m BY <1>1, <3>2
    <3>3. CASE i # m
      <4>1. i \in 1 .. Len(w) - 1 /\ i + 1 \in 1 .. m BY <1>1, <1>a, <3>1, <3>3
      <4>2. w[i + 1] <= 3 BY <3>1, <4>1 DEF Codes, Sound
      <4>3. QED BY <1>1, <4>1, <4>2
    <3>4. QED BY <3>2, <3>3
  <2>3. QED BY <2>1, <2>2 DEF Sound
<1>6. PICK q \in [Nat -> Nat] : Restores(w, r, q) BY DEF Codes
<1>7. q[0] = 0 /\ q[m] = n
      /\ \A i \in 1 .. m : IF IsEscape(w, i) THEN q[i] = q[i - 1]
                           ELSE q[i] = q[i - 1] + 1 /\ q[i] <= n /\ w[i] = r[q[i]]
  BY <1>6, <1>a DEF Restores
<1> DEFINE p == [q EXCEPT ![m + 1] = n]
<1>8. p \in [Nat -> Nat] /\ p[m + 1] = n /\ \A i \in 0 .. m : p[i] = q[i]
  <2>1. m + 1 \in Nat /\ n \in Nat /\ \A i \in 0 .. m : i \in Nat /\ i # m + 1 BY <1>1, <1>a
  <2>2. QED BY <2>1, OnePoint, ZenonT(30)
<1> HIDE DEF p
<1>9. Restores(v, r, p)
  <2>1. p[0] = 0 /\ p[Len(v)] = Len(r) BY <1>1, <1>a, <1>7, <1>8
  <2>2. ASSUME NEW i \in 1 .. Len(v)
        PROVE  IF IsEscape(v, i) THEN p[i] = p[i - 1]
               ELSE p[i] = p[i - 1] + 1 /\ p[i] <= Len(r) /\ v[i] = r[p[i]]
    <3>1. CASE i = m + 1
      <4>1. p[i - 1] = n /\ p[i] = n BY <1>1, <1>7, <1>8, <3>1
      <4>2. QED BY <1>4, <3>1, <4>1
    <3>2. CASE i \in 1 .. m
      <4>0. i \in 0 .. m /\ i - 1 \in 0 .. m BY <1>1, <3>2
      <4>1. p[i] = q[i] /\ p[i - 1] = q[i - 1] BY <1>8, <4>0
      <4>2. v[i] = w[i] BY <1>1, <3>2
      <4>3. CASE IsEscape(w, i) BY <1>3, <1>7, <3>2, <4>1, <4>3
      <4>4. CASE ~ IsEscape(w, i)
        <5>1. q[i] = q[i - 1] + 1 /\ q[i] <= n /\ w[i] = r[q[i]] BY <1>7, <3>2, <4>4
        <5>2. QED BY <1>3, <1>a, <3>2, <4>1, <4>2, <4>4, <5>1
      <4>5. QED BY <4>3, <4>4
    <3>3. QED BY <1>1, <3>1, <3>2
  <2>3. QED BY <2>1, <2>2 DEF Restores
<1>10. ~ EndsInZeros(v) BY <1>1 DEF EndsInZeros
<1>11. Codes(v, r) BY <1>5, <1>8, <1>9 DEF Codes
<1>12. QED BY <1>1, <1>10, <1>11 DEF v

(* A header needs no escapes.                                               *)
LEMMA CodesHeader ==
  ASSUME NEW h \in Headers
  PROVE  /\ h \in Seq(Byte) /\ Len(h) >= 1 /\ h[1] # 0 /\ h[Len(h)] # 0
         /\ Codes(h, h) /\ ~ IsEscape(h, Len(h))
<1>1. /\ h \in Seq(Byte) /\ Len(h) >= 1 /\ Len(h) \in Nat /\ h[1] # 0 /\ h[Len(h)] # 0
      /\ \A n \in 1 .. Len(h) - 2 : ~ (h[n] = 0 /\ h[n + 1] = 0 /\ h[n + 2] <= 3)
  BY HeaderAssumption DEF Byte
<1>2. \A i \in 1 .. Len(h) : ~ IsEscape(h, i)
  <2> SUFFICES ASSUME NEW i \in 1 .. Len(h), IsEscape(h, i) PROVE FALSE OBVIOUS
  <2> DEFINE k == i - 2
  <2>1. i >= 3 /\ h[i - 2] = 0 /\ h[i - 1] = 0 /\ h[i] = 3 BY DEF IsEscape
  <2>2. k \in 1 .. Len(h) - 2 /\ k + 1 = i - 1 /\ k + 2 = i BY <1>1, <2>1
  <2>3. QED BY <1>1, <2>1, <2>2
<1>3. Sound(h)
  <2>1. \A i \in 1 .. Len(h) : h[i] \in Byte BY <1>1
  <2>2. Clean(h)
    <3> SUFFICES ASSUME NEW n \in 1 .. Len(h) - 2, h[n] = 0, h[n + 1] = 0, h[n + 2] < 3 PROVE FALSE
      BY DEF Clean
    <3>1. n + 2 \in 1 .. Len(h) BY <1>1
    <3>2. h[n + 2] \in 0 .. 255 BY <2>1, <3>1 DEF Byte
    <3>3. \A x \in 0 .. 255 : x < 3 => x <= 3 OBVIOUS
    <3>a. h[n + 2] <= 3 BY <3>2, <3>3, Zenon
    <3>4. QED BY <1>1, <3>a
  <2>3. \A i \in 1 .. Len(h) - 1 : i \in 1 .. Len(h) BY <1>1
  <2>4. QED BY <1>2, <2>2, <2>3 DEF Sound
<1> DEFINE q == [i \in Nat |-> i]
<1>4. q \in [Nat -> Nat] /\ \A i \in Nat : q[i] = i OBVIOUS
<1> HIDE DEF q
<1>5. Restores(h, h, q) BY <1>1, <1>2, <1>4 DEF Restores
<1>6. QED BY <1>1, <1>2, <1>3, <1>4, <1>5 DEF Codes

-----------------------------------------------------------------------------
(* cabac_zero_words behind a unit.                                          *)

ZeroWords(n) == [k \in 1 .. 3 * n |-> IF k % 3 = 0 THEN 3 ELSE 0]

LEMMA Thirds ==
  ASSUME NEW n \in Nat, NEW j \in 1 .. 3 * n
  PROVE  /\ j \div 3 \in Nat /\ (j - 1) \div 3 \in Nat
         /\ j % 3 = 0 => j >= 3 /\ (j - 1) % 3 # 0 /\ (j - 2) % 3 # 0 /\ j \div 3 = (j - 1) \div 3 + 1
         /\ j % 3 # 0 => j \div 3 = (j - 1) \div 3
         /\ j - j \div 3 \in 1 .. 2 * n
         /\ j % 3 # 0 => j = 1 \/ (j - 1) % 3 = 0 \/ j = 2 \/ (j - 2) % 3 = 0
BY SMT

LEMMA ZeroWordsAre ==
  ASSUME NEW n \in Nat
  PROVE  /\ ZeroWords(n) \in Seq(Byte) /\ Len(ZeroWords(n)) = 3 * n /\ 3 * n \in Nat
         /\ \A k \in 1 .. 3 * n : ZeroWords(n)[k] = IF k % 3 = 0 THEN 3 ELSE 0
<1>1. 3 * n \in Nat OBVIOUS
<1>2. \A k \in 1 .. 3 * n : (IF k % 3 = 0 THEN 3 ELSE 0) \in Byte BY DEF Byte
<1>3. ZeroWords(n) \in [1 .. 3 * n -> Byte] BY <1>2 DEF ZeroWords
<1>4. ZeroWords(n) \in Seq(Byte) BY <1>1, <1>3
<1>5. DOMAIN ZeroWords(n) = 1 .. 3 * n BY DEF ZeroWords
<1>6. Len(ZeroWords(n)) = 3 * n
  <2>1. Len(ZeroWords(n)) \in Nat /\ DOMAIN ZeroWords(n) = 1 .. Len(ZeroWords(n)) BY <1>4, LenProperties
  <2>2. QED BY <1>1, <1>5, <2>1
<1>7. QED BY <1>1, <1>4, <1>6 DEF ZeroWords

LEMMA ZerosAre ==
  ASSUME NEW n \in Nat
  PROVE  Zeros(n) \in Seq(Byte) /\ Len(Zeros(n)) = n /\ \A k \in 1 .. n : Zeros(n)[k] = 0
<1>1. Zeros(n) \in [1 .. n -> Byte] BY DEF Zeros, Byte
<1>2. Zeros(n) \in Seq(Byte) BY <1>1
<1>3. DOMAIN Zeros(n) = 1 .. n BY DEF Zeros
<1>4. Len(Zeros(n)) = n
  <2>1. Len(Zeros(n)) \in Nat /\ DOMAIN Zeros(n) = 1 .. Len(Zeros(n)) BY <1>2, LenProperties
  <2>2. QED BY <1>3, <2>1
<1>5. QED BY <1>2, <1>4 DEF Zeros

(* They stand for zeros at the end of the payload.                          *)
LEMMA CodesWords ==
  ASSUME NEW w \in Seq(Byte), NEW r \in Seq(Byte), Codes(w, r), Len(w) >= 1, w[Len(w)] # 0,
         ~ IsEscape(w, Len(w)), NEW n \in Nat
  PROVE  /\ w \o ZeroWords(n) \in Seq(Byte)
         /\ Codes(w \o ZeroWords(n), r \o Zeros(2 * n))
<1> DEFINE z == ZeroWords(n)
           v == w \o z
           x == Zeros(2 * n)
           y == r \o x
           m == Len(w)
           e == Len(r)
<1>1. z \in Seq(Byte) /\ Len(z) = 3 * n /\ 3 * n \in Nat
      /\ \A k \in 1 .. 3 * n : z[k] = IF k % 3 = 0 THEN 3 ELSE 0
  BY ZeroWordsAre
<1> HIDE DEF z
<1>2. /\ v \in Seq(Byte) /\ Len(v) = m + 3 * n /\ m \in Nat
      /\ \A i \in 1 .. m + 3 * n : v[i] = IF i <= m THEN w[i] ELSE z[i - m]
  <2>1. /\ v \in Seq(Byte) /\ Len(v) = Len(w) + Len(z)
        /\ \A i \in 1 .. Len(w) + Len(z) : v[i] = IF i <= Len(w) THEN w[i] ELSE z[i - Len(w)]
    BY <1>1, ConcatProperties
  <2>2. QED BY <1>1, <2>1, LenProperties
<1>3. 2 * n \in Nat OBVIOUS
<1>b. x \in Seq(Byte) /\ Len(x) = 2 * n /\ \A k \in 1 .. 2 * n : x[k] = 0 BY <1>3, ZerosAre
<1> HIDE DEF x
<1>4. /\ y \in Seq(Byte) /\ Len(y) = e + 2 * n /\ e \in Nat
      /\ \A i \in 1 .. e + 2 * n : y[i] = IF i <= e THEN r[i] ELSE x[i - e]
  <2>1. /\ y \in Seq(Byte) /\ Len(y) = Len(r) + Len(x)
        /\ \A i \in 1 .. Len(r) + Len(x) : y[i] = IF i <= Len(r) THEN r[i] ELSE x[i - Len(r)]
    BY <1>b, ConcatProperties
  <2>2. QED BY <1>b, <2>1, LenProperties
<1>a. m = Len(w) /\ e = Len(r) OBVIOUS
<1> HIDE DEF v, y, m, e
<1>n. e \in Nat /\ m \in Nat /\ Len(y) = e + 2 * n BY <1>2, <1>4
<1>5. /\ \A i \in 1 .. m : v[i] = w[i]
      /\ \A j \in 1 .. 3 * n : v[m + j] = IF j % 3 = 0 THEN 3 ELSE 0
  <2>1. ASSUME NEW i \in 1 .. m PROVE v[i] = w[i] BY <1>1, <1>2
  <2>2. ASSUME NEW j \in 1 .. 3 * n PROVE v[m + j] = IF j % 3 = 0 THEN 3 ELSE 0
    <3>1. m + j \in 1 .. m + 3 * n /\ ~ (m + j <= m) /\ (m + j) - m = j BY <1>1, <1>2
    <3>2. QED BY <1>1, <1>2, <3>1
  <2>3. QED BY <2>1, <2>2
<1>6. v[m] # 0 /\ m \in 1 .. m BY <1>2, <1>5, <1>a
<1>7. \A i \in 1 .. m : IsEscape(v, i) <=> IsEscape(w, i)
  <2> SUFFICES ASSUME NEW i \in 1 .. m PROVE IsEscape(v, i) <=> IsEscape(w, i) OBVIOUS
  <2>1. CASE i >= 3
    <3>1. v[i] = w[i] /\ v[i - 1] = w[i - 1] /\ v[i - 2] = w[i - 2] BY <1>2, <1>5, <2>1
    <3>2. QED BY <3>1 DEF IsEscape
  <2>2. CASE ~ (i >= 3) BY <2>2 DEF IsEscape
  <2>3. QED BY <2>1, <2>2
<1>8. ASSUME NEW j \in 1 .. 3 * n PROVE IsEscape(v, m + j) <=> j % 3 = 0
  <2>1. ASSUME j % 3 = 0 PROVE IsEscape(v, m + j)
    <3>1. j >= 3 /\ (j - 1) % 3 # 0 /\ (j - 2) % 3 # 0 BY <2>1, Thirds
    <3>2. j - 1 \in 1 .. 3 * n /\ j - 2 \in 1 .. 3 * n /\ (m + j) - 1 = m + (j - 1)
          /\ (m + j) - 2 = m + (j - 2) /\ m + j >= 3
      BY <1>1, <1>2, <3>1
    <3>3. v[m + j] = 3 /\ v[m + (j - 1)] = 0 /\ v[m + (j - 2)] = 0 BY <1>5, <2>1, <3>1, <3>2
    <3>4. QED BY <3>2, <3>3 DEF IsEscape
  <2>2. ASSUME IsEscape(v, m + j) PROVE j % 3 = 0
    <3>1. v[m + j] = 3 BY <2>2 DEF IsEscape
    <3>2. QED BY <1>5, <3>1
  <2>3. QED BY <2>1, <2>2
<1>9. \A i \in 1 .. Len(v) : i \in 1 .. m \/ (i - m \in 1 .. 3 * n /\ i = m + (i - m))
  BY <1>1, <1>2
<1>10. Clean(v)
  <2> SUFFICES ASSUME NEW i \in 1 .. Len(v) - 2, v[i] = 0, v[i + 1] = 0, v[i + 2] < 3
               PROVE  FALSE
    BY DEF Clean
  <2>1. CASE i + 2 \in 1 .. m
    <3>1. i \in 1 .. Len(w) - 2 /\ w[i] = 0 /\ w[i + 1] = 0 /\ w[i + 2] < 3 BY <1>2, <1>5, <1>a, <2>1
    <3>2. QED BY <3>1 DEF Codes, Sound, Clean
  <2>2. CASE (i + 2) - m \in 1 .. 3 * n
    <3> DEFINE j == (i + 2) - m
    <3>1. j \in 1 .. 3 * n /\ i + 2 = m + j /\ i + 1 = m + (j - 1) /\ i = m + (j - 2) /\ i >= 1
      BY <1>1, <1>2, <2>2
    <3> HIDE DEF j
    <3>2. j % 3 # 0
      <4> SUFFICES ASSUME j % 3 = 0 PROVE FALSE OBVIOUS
      <4>1. v[i + 2] = 3 BY <1>5, <3>1
      <4>2. QED BY <4>1
    <3>3. j = 1 \/ (j - 1) % 3 = 0 \/ j = 2 \/ (j - 2) % 3 = 0 BY <3>1, <3>2, Thirds
    <3>4. CASE j = 1 BY <1>2, <1>6, <3>1, <3>4
    <3>5. CASE j = 2 BY <1>2, <1>6, <3>1, <3>5
    <3>6. CASE j # 1 /\ (j - 1) % 3 = 0
      <4>1. j - 1 \in 1 .. 3 * n BY <1>1, <3>1, <3>6
      <4>2. v[i + 1] = 3 BY <1>5, <3>1, <3>6, <4>1
      <4>3. QED BY <4>2
    <3>7. CASE j # 1 /\ j # 2 /\ (j - 2) % 3 = 0
      <4>1. j - 2 \in 1 .. 3 * n BY <1>1, <3>1, <3>7
      <4>2. v[i] = 3 BY <1>5, <3>1, <3>7, <4>1
      <4>3. QED BY <4>2
    <3>8. QED BY <3>3, <3>4, <3>5, <3>6, <3>7
  <2>3. i + 2 \in 1 .. Len(v) BY <1>1, <1>2
  <2>4. QED BY <1>9, <2>1, <2>2, <2>3
<1>11. ASSUME NEW i \in 1 .. Len(v) - 1, IsEscape(v, i) PROVE v[i + 1] <= 3
  <2>1. i \in 1 .. Len(v) /\ i + 1 \in 1 .. Len(v) BY <1>1, <1>2
  <2>2. CASE i + 1 \in 1 .. m
    <3>1. i \in 1 .. m /\ i \in 1 .. Len(w) - 1 BY <1>2, <1>a, <2>1, <2>2
    <3>2. w[i + 1] <= 3 BY <1>7, <1>11, <3>1 DEF Codes, Sound
    <3>3. QED BY <1>5, <2>2, <3>2
  <2>3. CASE (i + 1) - m \in 1 .. 3 * n
    <3>1. v[i + 1] = IF ((i + 1) - m) % 3 = 0 THEN 3 ELSE 0
      <4>1. i + 1 = m + ((i + 1) - m) BY <1>1, <1>2
      <4>2. QED BY <1>5, <2>3, <4>1
    <3>2. QED BY <3>1
  <2>4. QED BY <1>9, <2>1, <2>2, <2>3
<1>12. PICK q \in [Nat -> Nat] : Restores(w, r, q) BY DEF Codes
<1>13. q[0] = 0 /\ q[m] = e
       /\ \A i \in 1 .. m : IF IsEscape(w, i) THEN q[i] = q[i - 1]
                            ELSE q[i] = q[i - 1] + 1 /\ q[i] <= e /\ w[i] = r[q[i]]
  BY <1>12, <1>a DEF Restores
<1> DEFINE p == [i \in Nat |-> IF i <= m THEN q[i]
                               ELSE IF i <= m + 3 * n THEN e + ((i - m) - (i - m) \div 3) ELSE 0]
<1>14. /\ \A i \in 0 .. m : p[i] = q[i] /\ q[i] \in Nat
       /\ \A j \in 1 .. 3 * n : p[m + j] = e + (j - j \div 3) /\ j - j \div 3 \in 1 .. 2 * n
  <2>1. ASSUME NEW i \in 0 .. m PROVE p[i] = q[i] /\ q[i] \in Nat
    <3>1. i \in Nat /\ i <= m BY <1>2
    <3>2. QED BY <3>1
  <2>2. ASSUME NEW j \in 1 .. 3 * n PROVE p[m + j] = e + (j - j \div 3) /\ j - j \div 3 \in 1 .. 2 * n
    <3>1. m + j \in Nat /\ ~ (m + j <= m) /\ m + j <= m + 3 * n /\ (m + j) - m = j BY <1>1, <1>2
    <3>2. p[m + j] = e + (j - j \div 3) BY <3>1
    <3>3. QED BY <3>2, Thirds
  <2>3. QED BY <2>1, <2>2
<1>15. p \in [Nat -> Nat]
  <2> SUFFICES ASSUME NEW i \in Nat PROVE p[i] \in Nat OBVIOUS
  <2>1. CASE i <= m
    <3>1. i \in 0 .. m BY <1>2, <2>1
    <3>2. QED BY <1>14, <3>1
  <2>2. CASE ~ (i <= m) /\ i <= m + 3 * n
    <3> DEFINE j == i - m
    <3>1. j \in 1 .. 3 * n /\ i = m + j BY <1>1, <1>2, <2>2
    <3> DEFINE f == j - j \div 3
    <3> HIDE DEF j, p
    <3>2. p[m + j] = e + f /\ f \in 1 .. 2 * n BY <1>14, <3>1
    <3> HIDE DEF f
    <3>3. p[m + j] \in Nat BY <1>n, <3>2
    <3>4. QED BY <3>1, <3>3
  <2>3. CASE ~ (i <= m) /\ ~ (i <= m + 3 * n) BY <2>3
  <2>4. QED BY <2>1, <2>2, <2>3
<1> HIDE DEF p
<1>16. p[0] = 0 /\ p[Len(v)] = Len(y)
  <2>1. p[0] = 0
    <3>1. 0 \in 0 .. m BY <1>2
    <3>2. QED BY <1>13, <1>14, <3>1
  <2>2. CASE n = 0 BY <1>2, <1>4, <1>13, <1>14, <2>2, SMTT(30)
  <2>3. CASE n # 0
    <3>1. 3 * n \in 1 .. 3 * n /\ (3 * n) \div 3 = n BY <2>3
    <3>2. p[m + 3 * n] = e + (3 * n - n) BY <1>14, <3>1
    <3>3. QED BY <1>2, <1>4, <2>1, <3>2
  <2>4. QED BY <2>2, <2>3
<1>17. ASSUME NEW i \in 1 .. Len(v)
       PROVE  IF IsEscape(v, i) THEN p[i] = p[i - 1]
              ELSE p[i] = p[i - 1] + 1 /\ p[i] <= Len(y) /\ v[i] = y[p[i]]
  <2>1. CASE i \in 1 .. m
    <3>1. i \in 0 .. m /\ i - 1 \in 0 .. m BY <1>2, <2>1
    <3>2. p[i] = q[i] /\ p[i - 1] = q[i - 1] /\ v[i] = w[i] /\ q[i] \in Nat /\ q[i - 1] \in Nat
      BY <1>5, <1>14, <2>1, <3>1
    <3>3. CASE IsEscape(w, i) BY <1>7, <1>13, <2>1, <3>2, <3>3
    <3>4. CASE ~ IsEscape(w, i)
      <4>1. q[i] = q[i - 1] + 1 /\ q[i] <= e /\ w[i] = r[q[i]] BY <1>13, <2>1, <3>4
      <4>2. q[i] \in 1 .. e + 2 * n /\ q[i] <= Len(y) /\ q[i] <= e
        <5> DEFINE f == q[i - 1]
                   g == q[i]
        <5>1. g = f + 1 /\ g <= e /\ f \in Nat BY <3>2, <4>1
        <5> HIDE DEF f, g
        <5>2. g \in 1 .. e + 2 * n /\ g <= Len(y) /\ g <= e BY <1>n, <5>1
        <5>3. QED BY <5>2 DEF g
      <4>3. y[q[i]] = r[q[i]] BY <1>4, <4>1, <4>2
      <4>4. ~ IsEscape(v, i) BY <1>7, <2>1, <3>4
      <4>5. QED BY <3>2, <4>1, <4>2, <4>3, <4>4
    <3>5. QED BY <3>3, <3>4
  <2>2. CASE i - m \in 1 .. 3 * n
    <3> DEFINE j == i - m
    <3>1. j \in 1 .. 3 * n /\ i = m + j /\ j \in Int BY <1>1, <1>2, <2>2
    <3> HIDE DEF j
    <3>2. p[i] = e + (j - j \div 3) /\ j - j \div 3 \in 1 .. 2 * n BY <1>14, <3>1
    <3>3. p[i - 1] = e + ((j - 1) - (j - 1) \div 3)
      <4>1. CASE j = 1
        <5>1. i - 1 = m /\ (j - 1) \div 3 = 0 /\ m \in 0 .. m BY <1>2, <3>1, <4>1
        <5>2. p[i - 1] = e BY <1>13, <1>14, <5>1
        <5>3. QED BY <1>4, <4>1, <5>1, <5>2
      <4>2. CASE j # 1
        <5>1. j - 1 \in 1 .. 3 * n /\ i - 1 = m + (j - 1) BY <1>1, <1>2, <3>1, <4>2
        <5>2. QED BY <1>14, <5>1
      <4>3. QED BY <4>1, <4>2
    <3>4. j \div 3 \in Nat /\ (j - 1) \div 3 \in Nat BY <3>1, Thirds
    <3>5. CASE j % 3 = 0
      <4>1. j \div 3 = (j - 1) \div 3 + 1 BY <3>1, <3>5, Thirds
      <4>2. p[i] = p[i - 1] BY <1>4, <3>1, <3>2, <3>3, <3>4, <4>1
      <4>3. QED BY <1>8, <3>1, <3>5, <4>2
    <3>6. CASE j % 3 # 0
      <4>1. j \div 3 = (j - 1) \div 3 BY <3>1, <3>6, Thirds
      <4>2. p[i] = p[i - 1] + 1
        <5> DEFINE f == j \div 3
        <5>1. p[i] = e + (j - f) /\ p[i - 1] = e + ((j - 1) - f) /\ f \in Nat BY <3>2, <3>3, <3>4, <4>1
        <5> HIDE DEF f
        <5>2. QED BY <1>n, <3>1, <5>1
      <4>3. p[i] \in 1 .. e + 2 * n /\ ~ (p[i] <= e) /\ p[i] - e \in 1 .. 2 * n
        <5> DEFINE f == j - j \div 3
        <5>1. p[i] = e + f /\ f \in 1 .. 2 * n BY <3>2
        <5> HIDE DEF f
        <5>2. QED BY <1>n, <5>1
      <4>4. y[p[i]] = 0 BY <1>b, <1>4, <4>3
      <4>5. v[i] = 0 BY <1>5, <3>1, <3>6
      <4>6. QED BY <1>4, <1>8, <3>1, <3>6, <4>2, <4>3, <4>4, <4>5
    <3>7. QED BY <3>5, <3>6
  <2>3. QED BY <1>9, <2>1, <2>2
<1>18. Codes(v, y) BY <1>10, <1>11, <1>15, <1>16, <1>17 DEF Codes, Sound, Restores
<1>19. QED BY <1>2, <1>18 DEF v, y, x, z

-----------------------------------------------------------------------------
(* The file.                                                                *)

IsUnit(u) == Unit(u) \in Seq(Byte) /\ Len(Unit(u)) >= 2 /\ Unit(u)[1] # 0 /\ Unit(u)[Len(Unit(u))] # 0

(* W is a unit as it is written, with its escapes and cabac_zero_words.     *)
IsWritten(W, u) == \E n \in Nat : Codes(W, Unit(u) \o Zeros(2 * n))

(* Unit k of S is written in F behind the 1 at s[k], up to t[k]; all else   *)
(* are zeros, two of them at least in front of each 1.                      *)
Lay(F, S, s, t) ==
  /\ t[0] = 0
  /\ \A k \in 1 .. Len(S) :
       /\ t[k - 1] + 3 <= s[k] /\ s[k] < t[k] /\ t[k] <= Len(F)
       /\ \A i \in t[k - 1] + 1 .. s[k] - 1 : F[i] = 0
       /\ F[s[k]] = 1 /\ F[t[k]] # 0
       /\ IsUnit(S[k])
       /\ IsWritten(SubSeq(F, s[k] + 1, t[k]), S[k])
  /\ \A i \in t[Len(S)] + 1 .. Len(F) : F[i] = 0

LEMMA Joins ==
  ASSUME NEW v \in Seq(Byte), NEW w \in Seq(Byte)
  PROVE  /\ v \o w \in Seq(Byte) /\ Len(v \o w) = Len(v) + Len(w) /\ Len(v) \in Nat /\ Len(w) \in Nat
         /\ \A i \in 1 .. Len(v) : (v \o w)[i] = v[i]
         /\ \A i \in 1 .. Len(w) : (v \o w)[Len(v) + i] = w[i]
<1>1. /\ v \o w \in Seq(Byte) /\ Len(v \o w) = Len(v) + Len(w)
      /\ \A i \in 1 .. Len(v) + Len(w) : (v \o w)[i] = IF i <= Len(v) THEN v[i] ELSE w[i - Len(v)]
  BY ConcatProperties
<1> DEFINE x == v \o w
           m == Len(v)
           n == Len(w)
<1>2. m \in Nat /\ n \in Nat BY LenProperties
<1>3. \A i \in 1 .. m + n : x[i] = IF i <= m THEN v[i] ELSE w[i - m] BY <1>1
<1> HIDE DEF x, m, n
<1>4. \A i \in 1 .. m : x[i] = v[i]
  <2>1. \A i \in 1 .. m : i \in 1 .. m + n /\ i <= m BY <1>2
  <2>2. QED BY <1>3, <2>1
<1>5. \A i \in 1 .. n : x[m + i] = w[i]
  <2>1. \A i \in 1 .. n : m + i \in 1 .. m + n /\ ~ (m + i <= m) /\ (m + i) - m = i BY <1>2
  <2>2. QED BY <1>3, <2>1
<1>6. QED BY <1>1, <1>2, <1>4, <1>5 DEF x, m, n

LEMMA SamePart ==
  ASSUME NEW F \in Seq(Byte), NEW G \in Seq(Byte), NEW a \in Nat \ {0}, NEW b \in Nat,
         b <= Len(F), b <= Len(G), \A i \in 1 .. b : G[i] = F[i]
  PROVE  SubSeq(G, a, b) = SubSeq(F, a, b)
<1>1. \A i \in a .. b : i \in 1 .. Len(F) /\ i \in 1 .. Len(G) /\ i \in 1 .. b BY LenProperties
<1>2. \A i \in a .. b : F[i] \in Byte /\ G[i] \in Byte BY <1>1, ElementOfSeq
<1>3. /\ SubSeq(F, a, b) \in Seq(Byte) /\ Len(SubSeq(F, a, b)) = IF a <= b THEN b - a + 1 ELSE 0
      /\ \A i \in 1 .. b - a + 1 : SubSeq(F, a, b)[i] = F[a + i - 1]
  BY <1>2, SubSeqProperties
<1>4. /\ SubSeq(G, a, b) \in Seq(Byte) /\ Len(SubSeq(G, a, b)) = IF a <= b THEN b - a + 1 ELSE 0
      /\ \A i \in 1 .. b - a + 1 : SubSeq(G, a, b)[i] = G[a + i - 1]
  BY <1>2, SubSeqProperties
<1> DEFINE f == SubSeq(F, a, b)
           g == SubSeq(G, a, b)
<1>5. \A i \in 1 .. Len(g) : g[i] = f[i]
  <2> SUFFICES ASSUME NEW i \in 1 .. Len(g) PROVE g[i] = f[i] OBVIOUS
  <2>1. a <= b /\ i \in 1 .. b - a + 1 BY <1>4
  <2>2. a + i - 1 \in a .. b BY <2>1
  <2>3. G[a + i - 1] = F[a + i - 1] BY <1>1, <2>2
  <2>4. QED BY <1>3, <1>4, <2>1, <2>3
<1>6. Len(g) = Len(f) BY <1>3, <1>4
<1>7. g \in Seq(Byte) /\ f \in Seq(Byte) BY <1>3, <1>4
<1> HIDE DEF f, g
<1>8. g = f BY <1>5, <1>6, <1>7, SeqEqual
<1>9. QED BY <1>8 DEF f, g

(* What lies in a file stays there when more is written.                    *)
LEMMA LayKept ==
  ASSUME NEW F \in Seq(Byte), NEW G \in Seq(Byte), NEW S, NEW s \in [Nat -> Nat],
         NEW t \in [Nat -> Nat], Lay(F, S, s, t), NEW k \in 1 .. Len(S), k \in Nat,
         Len(F) <= Len(G), \A i \in 1 .. Len(F) : G[i] = F[i]
  PROVE  /\ t[k - 1] + 3 <= s[k] /\ s[k] < t[k] /\ t[k] <= Len(G)
         /\ \A i \in t[k - 1] + 1 .. s[k] - 1 : G[i] = 0
         /\ G[s[k]] = 1 /\ G[t[k]] # 0
         /\ IsUnit(S[k])
         /\ IsWritten(SubSeq(G, s[k] + 1, t[k]), S[k])
<1>0. k - 1 \in Nat /\ k \in Nat BY LenProperties
<1>1. t[k - 1] \in Nat /\ s[k] \in Nat /\ t[k] \in Nat /\ Len(F) \in Nat /\ Len(G) \in Nat
  BY <1>0, LenProperties
<1>2. /\ t[k - 1] + 3 <= s[k] /\ s[k] < t[k] /\ t[k] <= Len(F)
      /\ \A i \in t[k - 1] + 1 .. s[k] - 1 : F[i] = 0
      /\ F[s[k]] = 1 /\ F[t[k]] # 0
      /\ IsUnit(S[k])
      /\ IsWritten(SubSeq(F, s[k] + 1, t[k]), S[k])
  BY DEF Lay
<1> DEFINE o == t[k - 1]
           a == s[k]
           b == t[k]
           f == Len(F)
           g == Len(G)
<1>d. t[k - 1] + 3 <= s[k] /\ s[k] < t[k] /\ t[k] <= Len(F) BY DEF Lay
<1>b. o \in Nat /\ a \in Nat /\ b \in Nat /\ f \in Nat /\ g \in Nat /\ f <= g
      /\ o + 3 <= a /\ a < b /\ b <= f
  BY <1>1, <1>d
<1> HIDE DEF o, a, b, f, g
<1>c. /\ a + 1 \in Nat \ {0} /\ b <= g /\ \A i \in 1 .. b : i \in 1 .. f
      /\ a \in 1 .. f /\ b \in 1 .. f /\ \A i \in o + 1 .. a - 1 : i \in 1 .. f
  <2>1. a + 1 \in Nat \ {0} /\ b <= g BY <1>b
  <2>2. \A i \in 1 .. b : i \in 1 .. f BY <1>b
  <2>3. a \in 1 .. f /\ b \in 1 .. f BY <1>b
  <2>4. \A i \in o + 1 .. a - 1 : i \in 1 .. f BY <1>b
  <2>5. QED BY <2>1, <2>2, <2>3, <2>4
<1>3. SubSeq(G, s[k] + 1, t[k]) = SubSeq(F, s[k] + 1, t[k])
  <2>1. s[k] + 1 \in Nat \ {0} /\ t[k] <= Len(G) /\ t[k] <= Len(F) BY <1>2, <1>c DEF a, b, g
  <2>2. \A i \in 1 .. t[k] : G[i] = F[i] BY <1>c DEF b, f
  <2>3. QED BY <1>1, <2>1, <2>2, SamePart
<1>4. s[k] \in 1 .. Len(F) /\ t[k] \in 1 .. Len(F) /\ \A i \in t[k - 1] + 1 .. s[k] - 1 : i \in 1 .. Len(F)
  BY <1>c DEF o, a, b, f
<1>5. t[k] <= Len(G) BY <1>c DEF b, g
<1>6. \A i \in t[k - 1] + 1 .. s[k] - 1 : G[i] = 0 BY <1>2, <1>4
<1>7. G[s[k]] = 1 /\ G[t[k]] # 0 BY <1>2, <1>4
<1>8. QED BY <1>2, <1>3, <1>5, <1>6, <1>7

LEMMA Part ==
  ASSUME NEW G \in Seq(Byte), NEW a \in Nat, NEW b \in Nat, 1 <= a, a <= b + 1, b <= Len(G)
  PROVE  /\ SubSeq(G, a, b) \in Seq(Byte) /\ Len(SubSeq(G, a, b)) = b + 1 - a
         /\ \A i \in 1 .. b + 1 - a : SubSeq(G, a, b)[i] = G[a + i - 1]
<1>1. Len(G) \in Nat BY LenProperties
<1>2. \A i \in a .. b : i \in 1 .. Len(G) BY <1>1
<1>3. \A i \in a .. b : G[i] \in Byte BY <1>2, ElementOfSeq
<1>4. a \in Int /\ b \in Int OBVIOUS
<1> DEFINE v == SubSeq(G, a, b)
<1>5. /\ v \in Seq(Byte) /\ Len(v) = IF a <= b THEN b - a + 1 ELSE 0
      /\ \A i \in 1 .. b - a + 1 : v[i] = G[a + i - 1]
  BY <1>3, <1>4, SubSeqProperties
<1> HIDE DEF v
<1>6. Len(v) = b + 1 - a BY <1>5
<1>7. \A i \in 1 .. b + 1 - a : i \in 1 .. b - a + 1 OBVIOUS
<1>8. v \in Seq(Byte) /\ Len(v) = b + 1 - a /\ \A i \in 1 .. b + 1 - a : v[i] = G[a + i - 1]
  BY <1>5, <1>6, <1>7
<1>9. QED BY <1>8 DEF v

(* A zero byte behind the last unit.                                        *)
LEMMA LayZero ==
  ASSUME NEW F \in Seq(Byte), NEW S, Len(S) \in Nat, NEW s \in [Nat -> Nat], NEW t \in [Nat -> Nat],
         Lay(F, S, s, t)
  PROVE  Append(F, 0) \in Seq(Byte) /\ Lay(Append(F, 0), S, s, t)
<1> DEFINE G == Append(F, 0)
<1>1. 0 \in Byte BY DEF Byte
<1>2. G \in Seq(Byte) /\ Len(G) = Len(F) + 1 /\ Len(F) \in Nat /\ G[Len(F) + 1] = 0
      /\ \A i \in 1 .. Len(F) : G[i] = F[i]
  BY <1>1, AppendProperties, LenProperties
<1> HIDE DEF G
<1>3. Len(F) <= Len(G) BY <1>2
<1>4. \A k \in 1 .. Len(S) : k \in Nat OBVIOUS
<1>5. \A i \in t[Len(S)] + 1 .. Len(G) : G[i] = 0
  <2> SUFFICES ASSUME NEW i \in t[Len(S)] + 1 .. Len(G) PROVE G[i] = 0 OBVIOUS
  <2>1. t[Len(S)] \in Nat OBVIOUS
  <2>2. CASE i = Len(F) + 1 BY <1>2, <2>2
  <2>3. CASE i # Len(F) + 1
    <3> DEFINE o == t[Len(S)]
               f == Len(F)
    <3>a. o \in Nat /\ f \in Nat /\ i \in o + 1 .. f + 1 /\ i # f + 1 BY <1>2, <2>1, <2>3
    <3> HIDE DEF o, f
    <3>b. i \in o + 1 .. f /\ i \in 1 .. f BY <3>a
    <3>1. i \in t[Len(S)] + 1 .. Len(F) /\ i \in 1 .. Len(F) BY <3>b DEF o, f
    <3>2. QED BY <1>2, <3>1 DEF Lay
  <2>4. QED BY <2>2, <2>3
<1>6. t[0] = 0 BY DEF Lay
<1>7. \A k \in 1 .. Len(S) :
        /\ t[k - 1] + 3 <= s[k] /\ s[k] < t[k] /\ t[k] <= Len(G)
        /\ \A i \in t[k - 1] + 1 .. s[k] - 1 : G[i] = 0
        /\ G[s[k]] = 1 /\ G[t[k]] # 0
        /\ IsUnit(S[k])
        /\ IsWritten(SubSeq(G, s[k] + 1, t[k]), S[k])
  BY <1>2, <1>3, <1>4, LayKept
<1>8. Lay(G, S, s, t) BY <1>5, <1>6, <1>7 DEF Lay
<1>9. QED BY <1>2, <1>8 DEF G

LEMMA StartCodeIs ==
  ASSUME NEW n \in Nat, n >= 3
  PROVE  /\ StartCode(n) \in Seq(Byte) /\ Len(StartCode(n)) = n /\ StartCode(n)[n] = 1
         /\ \A i \in 1 .. n - 1 : StartCode(n)[i] = 0
<1>1. n - 1 \in Nat /\ 1 \in Byte BY DEF Byte
<1>2. Zeros(n - 1) \in Seq(Byte) /\ Len(Zeros(n - 1)) = n - 1 /\ \A k \in 1 .. n - 1 : Zeros(n - 1)[k] = 0
  BY <1>1, ZerosAre
<1> DEFINE z == Zeros(n - 1)
<1> HIDE DEF z
<1>3. z \o <<1>> \in Seq(Byte) /\ Len(z \o <<1>>) = Len(z) + 1
      /\ (\A i \in 1 .. Len(z) : (z \o <<1>>)[i] = z[i]) /\ (z \o <<1>>)[Len(z) + 1] = 1
  <2>1. z \in Seq(Byte) BY <1>2 DEF z
  <2>2. QED BY <1>1, <2>1, OneMore
<1>4. QED BY <1>2, <1>3 DEF StartCode, z

LEMMA Extended ==
  ASSUME NEW q \in [Nat -> Nat], NEW K \in Nat, NEW a \in Nat
  PROVE  \E x \in [Nat -> Nat] : x[K + 1] = a /\ \A k \in 0 .. K : x[k] = q[k] /\ q[k] \in Nat
<1> DEFINE x == [q EXCEPT ![K + 1] = a]
<1>1. K + 1 \in Nat /\ \A k \in 0 .. K : k \in Nat /\ k # K + 1 OBVIOUS
<1>2. x \in [Nat -> Nat] /\ x[K + 1] = a /\ (\A i \in Nat : i # K + 1 => x[i] = q[i])
      /\ \A i \in Nat : q[i] \in Nat
  BY <1>1, OnePoint
<1> HIDE DEF x
<1>3. QED BY <1>1, <1>2

LEMMA Places ==
  ASSUME NEW o \in Nat, NEW f \in Nat, NEW n \in Nat, NEW g \in Nat, o <= f, n >= 3, g >= 1
  PROVE  o + 3 <= f + n /\ f + n < f + n + g /\ f + n + g <= f + n + g
OBVIOUS

(* One more unit.                                                           *)
LEMMA LayUnit ==
  ASSUME NEW F \in Seq(Byte), NEW T, NEW S \in Seq(T), NEW u \in T,
         NEW s \in [Nat -> Nat], NEW t \in [Nat -> Nat], Lay(F, S, s, t),
         NEW n \in Nat, n >= 3, NEW W \in Seq(Byte), Len(W) >= 1, W[Len(W)] # 0, IsUnit(u),
         IsWritten(W, u)
  PROVE  /\ (F \o StartCode(n)) \o W \in Seq(Byte)
         /\ \E x, y \in [Nat -> Nat] : Lay((F \o StartCode(n)) \o W, Append(S, u), x, y)
<1> DEFINE C == F \o StartCode(n)
           G == C \o W
           K == Len(S)
           R == Append(S, u)
           f == Len(F)
           g == Len(W)
<1>1. K \in Nat /\ f \in Nat /\ g \in Nat /\ n \in Nat BY LenProperties
<1>2. /\ C \in Seq(Byte) /\ Len(C) = f + n /\ C[f + n] = 1
      /\ (\A i \in 1 .. f : C[i] = F[i]) /\ \A i \in f + 1 .. f + n - 1 : C[i] = 0
  <2> DEFINE c == StartCode(n)
  <2>1. c \in Seq(Byte) /\ Len(c) = n /\ c[n] = 1 /\ \A i \in 1 .. n - 1 : c[i] = 0 BY StartCodeIs
  <2> HIDE DEF c
  <2>2. /\ F \o c \in Seq(Byte) /\ Len(F \o c) = Len(F) + Len(c)
        /\ (\A i \in 1 .. Len(F) : (F \o c)[i] = F[i])
        /\ \A i \in 1 .. Len(c) : (F \o c)[Len(F) + i] = c[i]
    BY <2>1, Joins
  <2>3. C = F \o c BY DEF c
  <2> HIDE DEF C
  <2>4. C \in Seq(Byte) /\ Len(C) = f + n /\ (\A i \in 1 .. f : C[i] = F[i])
        /\ \A i \in 1 .. n : C[f + i] = c[i]
    BY <2>1, <2>2, <2>3
  <2> HIDE DEF f
  <2>5. n \in 1 .. n /\ \A i \in f + 1 .. f + n - 1 : i - f \in 1 .. n /\ i - f \in 1 .. n - 1 /\ f + (i - f) = i
    BY <1>1
  <2>6. C[f + n] = 1 BY <2>1, <2>4, <2>5
  <2>7. \A i \in f + 1 .. f + n - 1 : C[i] = 0 BY <2>1, <2>4, <2>5
  <2>8. QED BY <2>4, <2>6, <2>7
<1> HIDE DEF C
<1>3. /\ G \in Seq(Byte) /\ Len(G) = f + n + g
      /\ (\A i \in 1 .. f + n : G[i] = C[i]) /\ \A i \in 1 .. g : G[f + n + i] = W[i]
  <2>1. /\ G \in Seq(Byte) /\ Len(G) = Len(C) + Len(W) /\ (\A i \in 1 .. Len(C) : G[i] = C[i])
        /\ \A i \in 1 .. Len(W) : G[Len(C) + i] = W[i]
    BY <1>2, Joins
  <2>2. QED BY <1>2, <2>1
<1>4. R \in Seq(T) /\ Len(R) = K + 1 /\ R[K + 1] = u /\ \A k \in 1 .. K : R[k] = S[k]
  BY AppendProperties
<1>a. K = Len(S) /\ f = Len(F) /\ g = Len(W) OBVIOUS
<1> HIDE DEF G, K, R, f, g
<1>5. \E x, y \in [Nat -> Nat] :
        /\ x[K + 1] = f + n /\ y[K + 1] = f + n + g
        /\ \A k \in 0 .. K : x[k] = s[k] /\ y[k] = t[k] /\ s[k] \in Nat /\ t[k] \in Nat
  <2> DEFINE a == f + n
             b == f + n + g
  <2>1. a \in Nat /\ b \in Nat BY <1>1
  <2> HIDE DEF a, b
  <2>2. PICK x \in [Nat -> Nat] : x[K + 1] = a /\ \A k \in 0 .. K : x[k] = s[k] /\ s[k] \in Nat
    BY <1>1, <2>1, Extended
  <2>3. PICK y \in [Nat -> Nat] : y[K + 1] = b /\ \A k \in 0 .. K : y[k] = t[k] /\ t[k] \in Nat
    BY <1>1, <2>1, Extended
  <2>4. QED BY <2>2, <2>3 DEF a, b
<1>b. PICK x \in [Nat -> Nat], y \in [Nat -> Nat] :
        /\ x[K + 1] = f + n /\ y[K + 1] = f + n + g
        /\ \A k \in 0 .. K : x[k] = s[k] /\ y[k] = t[k] /\ s[k] \in Nat /\ t[k] \in Nat
  BY <1>5
<1>6. \A i \in 1 .. f : G[i] = F[i]
  <2>1. \A i \in 1 .. f : i \in 1 .. f + n BY <1>1
  <2>2. QED BY <1>2, <1>3, <2>1
<1>7. Len(F) <= Len(G) BY <1>1, <1>3, <1>a
<1>8. t[K] <= f
  <2>1. CASE K = 0 BY <1>1, <2>1 DEF Lay
  <2>2. CASE K # 0
    <3>1. K \in 1 .. Len(S) BY <1>1, <1>a, <2>2
    <3>2. QED BY <1>a, <3>1 DEF Lay
  <2>3. QED BY <2>1, <2>2
<1>9. \A i \in t[K] + 1 .. f + n - 1 : G[i] = 0
  <2> SUFFICES ASSUME NEW i \in t[K] + 1 .. f + n - 1 PROVE G[i] = 0 OBVIOUS
  <2>1. t[K] \in Nat BY <1>1
  <2>2. CASE i <= f
    <3> DEFINE o == t[K]
    <3>a. o \in Nat /\ i \in o + 1 .. f + n - 1 BY <2>1
    <3> HIDE DEF o
    <3>b. i \in o + 1 .. f /\ i \in 1 .. f BY <1>1, <2>2, <3>a
    <3>1. i \in t[Len(S)] + 1 .. Len(F) /\ i \in 1 .. f BY <1>a, <3>b DEF o
    <3>2. F[i] = 0 BY <3>1 DEF Lay
    <3>3. QED BY <1>6, <3>1, <3>2
  <2>3. CASE ~ (i <= f)
    <3>1. i \in f + 1 .. f + n - 1 /\ i \in 1 .. f + n BY <1>1, <2>1, <2>3
    <3>2. QED BY <1>2, <1>3, <3>1
  <2>4. QED BY <2>2, <2>3
<1>10. SubSeq(G, f + n + 1, f + n + g) = W
  <2> DEFINE a == f + n + 1
             b == f + n + g
             v == SubSeq(G, a, b)
  <2>1. a \in Nat /\ b \in Nat /\ 1 <= a /\ a <= b + 1 /\ b <= Len(G) /\ b + 1 - a = g
        /\ \A i \in 1 .. g : a + i - 1 = f + n + i
    BY <1>1, <1>3
  <2> HIDE DEF a, b
  <2>2. v \in Seq(Byte) /\ Len(v) = b + 1 - a /\ \A i \in 1 .. b + 1 - a : v[i] = G[a + i - 1]
    BY <1>3, <2>1, Part, ZenonT(30)
  <2> HIDE DEF v
  <2>3. Len(v) = Len(W) /\ \A i \in 1 .. Len(W) : v[i] = W[i] BY <1>3, <1>a, <2>1, <2>2
  <2>4. v = W BY <2>2, <2>3, SeqEqual
  <2>5. QED BY <2>4 DEF v, a, b
<1>11. \A k \in 1 .. Len(R) :
         /\ y[k - 1] + 3 <= x[k] /\ x[k] < y[k] /\ y[k] <= Len(G)
         /\ \A i \in y[k - 1] + 1 .. x[k] - 1 : G[i] = 0
         /\ G[x[k]] = 1 /\ G[y[k]] # 0
         /\ IsUnit(R[k])
         /\ IsWritten(SubSeq(G, x[k] + 1, y[k]), R[k])
  <2> SUFFICES ASSUME NEW k \in 1 .. Len(R)
               PROVE  /\ y[k - 1] + 3 <= x[k] /\ x[k] < y[k] /\ y[k] <= Len(G)
                      /\ \A i \in y[k - 1] + 1 .. x[k] - 1 : G[i] = 0
                      /\ G[x[k]] = 1 /\ G[y[k]] # 0
                      /\ IsUnit(R[k])
                      /\ IsWritten(SubSeq(G, x[k] + 1, y[k]), R[k])
    OBVIOUS
  <2>1. CASE k = K + 1
    <3>1. y[k - 1] = t[K] /\ x[k] = f + n /\ y[k] = f + n + g /\ t[K] \in Nat
      <4>1. k - 1 = K /\ K \in 0 .. K BY <1>1, <2>1
      <4>2. QED BY <1>b, <2>1, <4>1
    <3>a. g >= 1 BY <1>a
    <3>2. y[k - 1] + 3 <= x[k] /\ x[k] < y[k] /\ y[k] <= Len(G)
      <4>1. t[K] + 3 <= f + n /\ f + n < f + n + g /\ f + n + g <= f + n + g
        BY <1>1, <1>8, <3>1, <3>a, Places
      <4>2. QED BY <1>3, <3>1, <4>1
    <3>3. \A i \in y[k - 1] + 1 .. x[k] - 1 : G[i] = 0
      <4>1. y[k - 1] = t[K] /\ x[k] = f + n BY <3>1
      <4> DEFINE a == y[k - 1]
                 b == x[k]
                 o == t[K]
      <4>2. o \in Nat /\ a = o /\ b = f + n /\ \A i \in o + 1 .. f + n - 1 : G[i] = 0 BY <1>9, <3>1, <4>1
      <4> HIDE DEF a, b, o
      <4>3. \A i \in a + 1 .. b - 1 : G[i] = 0 BY <1>1, <4>2
      <4>4. QED BY <4>3 DEF a, b
    <3>4. G[x[k]] = 1
      <4>1. f + n \in 1 .. f + n BY <1>1
      <4>2. QED BY <1>2, <1>3, <3>1, <4>1
    <3>5. G[y[k]] # 0
      <4>1. g \in 1 .. g BY <1>1, <1>a
      <4>2. QED BY <1>3, <1>a, <3>1, <4>1
    <3>6. IsUnit(R[k]) BY <1>4, <2>1
    <3>7. SubSeq(G, x[k] + 1, y[k]) = W BY <1>10, <3>1
    <3>8. IsWritten(SubSeq(G, x[k] + 1, y[k]), R[k])
      BY <1>4, <2>1, <3>7
    <3>9. QED BY <3>2, <3>3, <3>4, <3>5, <3>6, <3>8
  <2>2. CASE k \in 1 .. K
    <3>1. k \in 0 .. K /\ k - 1 \in 0 .. K /\ k \in Nat /\ k \in 1 .. Len(S) BY <1>1, <1>a, <2>2
    <3>2. y[k - 1] = t[k - 1] /\ x[k] = s[k] /\ y[k] = t[k] /\ R[k] = S[k] BY <1>4, <1>b, <2>2, <3>1
    <3>3. /\ t[k - 1] + 3 <= s[k] /\ s[k] < t[k] /\ t[k] <= Len(G)
          /\ \A i \in t[k - 1] + 1 .. s[k] - 1 : G[i] = 0
          /\ G[s[k]] = 1 /\ G[t[k]] # 0
          /\ IsUnit(S[k])
          /\ IsWritten(SubSeq(G, s[k] + 1, t[k]), S[k])
      BY <1>3, <1>6, <1>7, <1>a, <3>1, LayKept
    <3>4. QED BY <3>2, <3>3
  <2>3. k \in 1 .. K \/ k = K + 1
    <3>1. Len(R) = K + 1 /\ K \in Nat BY <1>1, <1>4
    <3>2. k \in 1 .. K + 1 BY <3>1
    <3>3. QED BY <3>1, <3>2
  <2>4. QED BY <2>1, <2>2, <2>3
<1>12. y[0] = 0
  <2>1. 0 \in 0 .. K BY <1>1
  <2>2. QED BY <1>b, <2>1 DEF Lay
<1>13. \A i \in y[Len(R)] + 1 .. Len(G) : G[i] = 0
  <2>1. y[Len(R)] = Len(G) BY <1>3, <1>4, <1>b
  <2>2. \A i \in Len(G) + 1 .. Len(G) : FALSE BY <1>1, <1>3
  <2>3. QED BY <2>1, <2>2
<1>14. Lay(G, R, x, y) BY <1>11, <1>12, <1>13 DEF Lay
<1>15. QED BY <1>3, <1>b, <1>14 DEF G, R, C

-----------------------------------------------------------------------------
(* The encoder: what is written of a unit, and the file.                    *)

SentUnits == [header : Headers, rbsp : Seq(Byte)]

(* What count says of the end of what is written.                           *)
Ending(w, c) ==
  /\ c = 0 => w[Len(w)] # 0
  /\ c = 1 => Len(w) >= 2 /\ w[Len(w)] = 0 /\ w[Len(w) - 1] # 0
  /\ c = 2 => EndsInZeros(w)

(* While a unit is written, its bytes so far stand for the header and the   *)
(* payload so far.                                                          *)
Codable(w, r, c) ==
  /\ w \in Seq(Byte) /\ r \in Seq(Byte) /\ Len(w) >= 1
  /\ Codes(w, r) /\ ~ IsEscape(w, Len(w)) /\ Ending(w, c)

WrittenInv ==
  pc = "payload" => Codable(nalu.header \o nalu.buf, nalu.header \o nalu.rbsp, count)

(* What has been sent lies in the file.                                     *)
FileInv ==
  /\ file \in Seq(Byte) /\ sent \in Seq(SentUnits)
  /\ \E s, t \in [Nat -> Nat] : Lay(file, sent, s, t)

LEMMA CodablePlain ==
  ASSUME NEW w, NEW r, NEW c \in 0 .. 2, NEW b \in Byte, Codable(w, r, c), c = 2 => b > 3
  PROVE  Codable(w \o <<b>>, r \o <<b>>, IF b # 0 THEN 0 ELSE c + 1)
<1> DEFINE v == w \o <<b>>
           m == Len(w)
<1>1. w \in Seq(Byte) /\ r \in Seq(Byte) /\ m >= 1 /\ Codes(w, r) /\ ~ IsEscape(w, Len(w)) /\ Ending(w, c)
  BY DEF Codable
<1>2. EndsInZeros(w) => b > 3
  <2> SUFFICES ASSUME EndsInZeros(w) PROVE b > 3 OBVIOUS
  <2>1. w[Len(w)] = 0 /\ w[Len(w) - 1] = 0 BY DEF EndsInZeros
  <2>2. c # 0 BY <1>1, <2>1 DEF Ending
  <2>3. c # 1 BY <1>1, <2>1 DEF Ending
  <2>4. c = 2 BY <2>2, <2>3
  <2>5. QED BY <2>4
<1>3. /\ v \in Seq(Byte) /\ r \o <<b>> \in Seq(Byte)
      /\ Codes(v, r \o <<b>>) /\ ~ IsEscape(v, m + 1)
  BY <1>1, <1>2, CodesByte
<1>4. /\ Len(v) = m + 1 /\ m \in Nat /\ v[m + 1] = b /\ \A i \in 1 .. m : v[i] = w[i]
  BY <1>1, OneMore
<1>5. m \in 1 .. m BY <1>1, <1>4
<1>a. m = Len(w) OBVIOUS
<1> HIDE DEF v, m
<1>6. v[Len(v)] = b /\ v[Len(v) - 1] = w[m] /\ Len(v) >= 2 BY <1>1, <1>4, <1>5
<1>7. Ending(v, IF b # 0 THEN 0 ELSE c + 1)
  <2>1. CASE b # 0 BY <1>6, <2>1 DEF Ending
  <2>2. CASE b = 0 /\ c = 0
    <3>1. w[m] # 0 BY <1>1, <1>a, <2>2 DEF Ending
    <3>2. QED BY <1>6, <2>2, <3>1 DEF Ending
  <2>3. CASE b = 0 /\ c = 1
    <3>1. Ending(w, 1) BY <1>1, <2>3
    <3>a. w[m] = 0 BY <1>a, <3>1 DEF Ending
    <3>2. EndsInZeros(v) BY <1>6, <2>3, <3>a DEF EndsInZeros
    <3>3. (IF b # 0 THEN 0 ELSE c + 1) = 2 BY <2>3
    <3>4. Ending(v, 2) BY <3>2 DEF Ending
    <3>5. QED BY <3>3, <3>4
  <2>4. CASE b = 0 /\ c = 2 BY <2>4
  <2>5. QED BY <2>1, <2>2, <2>3, <2>4
<1>8. Len(v) >= 1 /\ ~ IsEscape(v, Len(v)) BY <1>1, <1>3, <1>4
<1>9. QED BY <1>3, <1>7, <1>8 DEF Codable, v

LEMMA CodableEscaped ==
  ASSUME NEW w, NEW r, NEW b \in Byte, Codable(w, r, 2), b <= 3
  PROVE  Codable(w \o <<3, b>>, r \o <<b>>, IF b # 0 THEN 0 ELSE 1)
<1> DEFINE x == w \o <<3>>
           v == x \o <<b>>
           m == Len(w)
<1>1. w \in Seq(Byte) /\ r \in Seq(Byte) /\ m >= 1 /\ Codes(w, r) /\ EndsInZeros(w)
  BY DEF Codable, Ending
<1>2. x \in Seq(Byte) /\ Codes(x, r) /\ ~ EndsInZeros(x) BY <1>1, CodesEscape
<1>3. Len(x) = m + 1 /\ m \in Nat /\ x[m + 1] = 3
  <2>1. 3 \in Byte BY DEF Byte
  <2>2. QED BY <1>1, <2>1, OneMore
<1>4. v = w \o <<3, b>>
  <2>1. <<3>> \in Seq(Byte) /\ <<b>> \in Seq(Byte) BY DEF Byte
  <2>2. <<3>> \o <<b>> = <<3, b>>
    <3> DEFINE y == <<3>> \o <<b>>
    <3>1. /\ y \in Seq(Byte) /\ Len(y) = Len(<<3>>) + 1
          /\ (\A i \in 1 .. Len(<<3>>) : y[i] = <<3>>[i]) /\ y[Len(<<3>>) + 1] = b
      BY <2>1, OneMore
    <3>2. Len(<<3>>) = 1 /\ <<3>>[1] = 3 OBVIOUS
    <3>3. Len(y) = 2 /\ y[1] = 3 /\ y[2] = b BY <3>1, <3>2
    <3>4. <<3, b>> \in Seq(Byte) /\ Len(<<3, b>>) = 2 /\ <<3, b>>[1] = 3 /\ <<3, b>>[2] = b
      BY DEF Byte
    <3> DEFINE z == <<3, b>>
    <3>a. y \in Seq(Byte) /\ z \in Seq(Byte) /\ Len(y) = Len(z) /\ Len(y) = 2 /\ y[1] = z[1] /\ y[2] = z[2]
      BY <3>1, <3>3, <3>4
    <3> HIDE DEF y, z
    <3>5. \A i \in 1 .. Len(y) : y[i] = z[i] BY <3>a
    <3>6. y = z BY <3>a, <3>5, SeqEqual
    <3>7. QED BY <3>6 DEF y, z
  <2>4. (w \o <<3>>) \o <<b>> = w \o (<<3>> \o <<b>>) BY <1>1, <2>1, ConcatAssociative
  <2>5. QED BY <2>2, <2>4
<1> HIDE DEF x
<1>5. v \in Seq(Byte) /\ r \o <<b>> \in Seq(Byte) /\ Codes(v, r \o <<b>>) /\ ~ IsEscape(v, Len(x) + 1)
  BY <1>1, <1>2, CodesByte
<1>6. /\ Len(v) = Len(x) + 1 /\ v[Len(x) + 1] = b /\ \A i \in 1 .. Len(x) : v[i] = x[i]
  BY <1>2, OneMore
<1> HIDE DEF v, m
<1>7. v[Len(v)] = b /\ v[Len(v) - 1] = 3 /\ Len(v) >= 2
  <2>1. Len(x) \in Nat /\ Len(x) \in 1 .. Len(x) /\ Len(x) >= 1 BY <1>3
  <2>2. v[Len(x)] = 3 BY <1>3, <1>6, <2>1
  <2>3. QED BY <1>6, <2>1, <2>2
<1>8. Ending(v, IF b # 0 THEN 0 ELSE 1)
  <2>1. CASE b # 0 BY <1>7, <2>1 DEF Ending
  <2>2. CASE b = 0 BY <1>7, <2>2 DEF Ending
  <2>3. QED BY <2>1, <2>2
<1>9. Len(v) >= 1 /\ ~ IsEscape(v, Len(v)) BY <1>3, <1>5, <1>6
<1>10. Codable(v, r \o <<b>>, IF b # 0 THEN 0 ELSE 1) BY <1>5, <1>8, <1>9 DEF Codable
<1>11. QED BY <1>4, <1>10

(* A unit starts with its header.                                           *)
LEMMA WrittenStart == StartUnit => WrittenInv'
<1> SUFFICES ASSUME StartUnit PROVE WrittenInv' OBVIOUS
<1>1. PICK h \in Headers, n \in {3, 4} :
        nalu' = [NoUnit EXCEPT !.header = h, !.startcodeprefix_len = n]
  BY DEF StartUnit
<1>2. nalu'.header = h /\ nalu'.buf = <<>> /\ nalu'.rbsp = <<>> BY <1>1 DEF NoUnit
<1>3. count' = 0 BY DEF StartUnit
<1>4. /\ h \in Seq(Byte) /\ Len(h) >= 1 /\ h[Len(h)] # 0
      /\ Codes(h, h) /\ ~ IsEscape(h, Len(h))
  BY CodesHeader
<1>5. h \o <<>> = h BY <1>4, ConcatEmptySeq
<1>6. Ending(h, 0) BY <1>4 DEF Ending
<1>7. Codable(h, h, 0) BY <1>4, <1>6 DEF Codable
<1>8. QED BY <1>2, <1>3, <1>5, <1>7 DEF WrittenInv

LEMMA WrittenByte == PayloadInv /\ WrittenInv /\ RBSPtoEBSP => WrittenInv'
<1> SUFFICES ASSUME PayloadInv, WrittenInv, RBSPtoEBSP PROVE WrittenInv' OBVIOUS
<1>1. PICK b \in Bytes :
        /\ nalu' = [nalu EXCEPT !.rbsp = Append(@, b),
                      !.buf = @ \o (IF Escapes(b) THEN <<3, b>> ELSE <<b>>)]
        /\ count' = Count(b, Escapes(b))
  BY DEF RBSPtoEBSP
<1>2. pc = "payload" BY DEF RBSPtoEBSP
<1>3. /\ nalu \in [header : Headers, startcodeprefix_len : {3, 4},
                   rbsp : Seq(Byte), buf : Seq(Byte)]
      /\ count \in 0 .. 2
  BY <1>2 DEF PayloadInv
<1> DEFINE h == nalu.header
           x == nalu.buf
           y == nalu.rbsp
<1>4. b \in Byte BY ByteAssumption DEF Byte
<1>5. h \in Seq(Byte) /\ x \in Seq(Byte) /\ y \in Seq(Byte) /\ <<b>> \in Seq(Byte) /\ <<3, b>> \in Seq(Byte)
  <2>1. h \in Headers /\ x \in Seq(Byte) /\ y \in Seq(Byte) BY <1>3
  <2>2. h \in Seq(Byte) BY <2>1, CodesHeader
  <2>3. QED BY <1>4, <2>1, <2>2 DEF Byte
<1>6. Codable(h \o x, h \o y, count) BY <1>2 DEF WrittenInv
<1>7. /\ nalu'.header = h /\ nalu'.rbsp = Append(y, b)
      /\ nalu'.buf = x \o (IF Escapes(b) THEN <<3, b>> ELSE <<b>>)
  BY <1>1, <1>3
<1> HIDE DEF h, x, y
<1>8. h \o Append(y, b) = (h \o y) \o <<b>>
  <2>1. Append(y, b) = y \o <<b>> BY <1>4, <1>5, AppendIsConcat
  <2>2. h \o (y \o <<b>>) = (h \o y) \o <<b>> BY <1>5, ConcatAssociative
  <2>3. QED BY <2>1, <2>2
<1>9. CASE Escapes(b)
  <2>1. count = 2 /\ b <= 3 BY <1>9 DEF Escapes
  <2>2. count' = IF b # 0 THEN 0 ELSE 1 BY <1>1, <1>9 DEF Count
  <2>3. Codable((h \o x) \o <<3, b>>, (h \o y) \o <<b>>, IF b # 0 THEN 0 ELSE 1)
    BY <1>4, <1>6, <2>1, CodableEscaped
  <2>4. h \o (x \o <<3, b>>) = (h \o x) \o <<3, b>> BY <1>5, ConcatAssociative, SMTT(30)
  <2>5. nalu'.buf = x \o <<3, b>> BY <1>7, <1>9
  <2>6. QED BY <1>7, <1>8, <2>2, <2>3, <2>4, <2>5 DEF WrittenInv
<1>10. CASE ~ Escapes(b)
  <2>1. count = 2 => b > 3 BY <1>4, <1>10 DEF Escapes, Byte
  <2>2. count' = IF b # 0 THEN 0 ELSE count + 1 BY <1>1, <1>10 DEF Count
  <2>3. Codable((h \o x) \o <<b>>, (h \o y) \o <<b>>, IF b # 0 THEN 0 ELSE count + 1)
    BY <1>3, <1>4, <1>6, <2>1, CodablePlain
  <2>4. h \o (x \o <<b>>) = (h \o x) \o <<b>> BY <1>5, ConcatAssociative
  <2>5. nalu'.buf = x \o <<b>> BY <1>7, <1>10
  <2>6. QED BY <1>7, <1>8, <2>2, <2>3, <2>4, <2>5 DEF WrittenInv
<1>11. QED BY <1>9, <1>10

LEMMA WrittenStep == PayloadInv /\ WrittenInv /\ [Next]_vars => WrittenInv'
<1>1. SUFFICES ASSUME PayloadInv, WrittenInv, [Next]_vars PROVE WrittenInv'
  OBVIOUS
<1>2. CASE StartUnit BY <1>2, WrittenStart
<1>3. CASE RBSPtoEBSP BY <1>1, <1>3, WrittenByte
<1>4. CASE pc' # "payload" BY <1>4 DEF WrittenInv
<1>5. CASE UNCHANGED vars
  BY <1>1, <1>5 DEF WrittenInv, vars, written
<1>6. QED BY <1>1, <1>2, <1>3, <1>4, <1>5, PayloadOther DEF Next

(* The last byte that is written is the last that is meant.                 *)
LEMMA LastKept ==
  ASSUME NEW w \in Seq(Byte), NEW r \in Seq(Byte), Codes(w, r), Len(w) >= 1, ~ IsEscape(w, Len(w))
  PROVE  Len(r) >= 1 /\ w[Len(w)] = r[Len(r)]
<1>1. PICK q \in [Nat -> Nat] : Restores(w, r, q) BY DEF Codes
<1>2. q[Len(w)] = Len(r) /\ Len(w) \in Nat /\ Len(w) - 1 \in Nat BY <1>1, LenProperties DEF Restores
<1>3. Len(w) \in 1 .. Len(w) BY <1>2
<1>4. q[Len(w)] = q[Len(w) - 1] + 1 /\ w[Len(w)] = r[q[Len(w)]] BY <1>1, <1>3 DEF Restores
<1>5. q[Len(w) - 1] \in Nat BY <1>2
<1>6. QED BY <1>2, <1>4, <1>5

(* A payload that ends with a one is written as a unit.                     *)
LEMMA WholeUnit ==
  ASSUME NEW h \in Headers, NEW y \in Seq(Byte),
         y = <<>> => Len(h) = 4, y # <<>> => y[Len(y)] # 0
  PROVE  /\ h \o y \in Seq(Byte) /\ Len(h \o y) >= 2 /\ (h \o y)[1] # 0
         /\ (h \o y)[Len(h \o y)] # 0
<1> DEFINE u == h \o y
           m == Len(h)
           n == Len(y)
<1>1. h \in Seq(Byte) /\ m >= 1 /\ h[1] # 0 /\ h[m] # 0 BY CodesHeader
<1>2. /\ u \in Seq(Byte) /\ Len(u) = m + n /\ m \in Nat /\ n \in Nat
      /\ (\A i \in 1 .. m : u[i] = h[i]) /\ \A i \in 1 .. n : u[m + i] = y[i]
  BY <1>1, Joins
<1>3. n = 0 <=> y = <<>> BY EmptySeq
<1>4. (n = 0 => m = 4) /\ (n # 0 => y[n] # 0) BY <1>3
<1> HIDE DEF u, m, n
<1>5. Len(u) >= 2 BY <1>1, <1>2, <1>4
<1>6. u[1] # 0
  <2>1. 1 \in 1 .. m BY <1>1, <1>2
  <2>2. QED BY <1>1, <1>2, <2>1
<1>7. u[Len(u)] # 0
  <2>1. CASE n = 0
    <3>1. m \in 1 .. m /\ Len(u) = m BY <1>1, <1>2, <2>1
    <3>2. QED BY <1>1, <1>2, <3>1
  <2>2. CASE n # 0
    <3>1. n \in 1 .. n BY <1>2, <2>2
    <3>2. QED BY <1>2, <1>4, <2>2, <3>1
  <2>3. QED BY <2>1, <2>2
<1>8. QED BY <1>2, <1>5, <1>6, <1>7 DEF u

(* WriteAnnexbNALU puts the unit behind those that lie in the file.         *)
LEMMA FileWrite == PayloadInv /\ WrittenInv /\ FileInv /\ WriteAnnexbNALU => FileInv'
<1> SUFFICES ASSUME PayloadInv, WrittenInv, FileInv, WriteAnnexbNALU PROVE FileInv' OBVIOUS
<1> DEFINE h == nalu.header
           x == nalu.buf
           y == nalu.rbsp
           n == nalu.startcodeprefix_len
           u == [header |-> h, rbsp |-> y]
           w == h \o x
           c == StartCode(n)
<1>1. pc = "payload" /\ HasTrailingBit BY DEF WriteAnnexbNALU
<1>2. h \in Headers /\ x \in Seq(Byte) /\ y \in Seq(Byte) /\ n \in {3, 4} BY <1>1 DEF PayloadInv
<1>3. sent' = Append(sent, u) BY DEF WriteAnnexbNALU
<1>4. PICK j \in 0 .. MaxZeroWords :
        file' = file \o c \o h \o x \o [k \in 1 .. 3 * j |-> IF k % 3 = 0 THEN 3 ELSE 0]
  BY DEF WriteAnnexbNALU
<1>5. file' = file \o c \o h \o x \o ZeroWords(j) /\ j \in Nat BY <1>4 DEF ZeroWords
<1>6. Codable(w, h \o y, count) BY <1>1 DEF WrittenInv
<1>7. (y = <<>> => Len(h) = 4) /\ (y # <<>> => y[Len(y)] # 0) BY <1>1 DEF HasTrailingBit
<1>8. u \in SentUnits /\ Unit(u) = h \o y BY <1>2 DEF SentUnits, Unit
<1>9. h \in Seq(Byte) /\ n \in Nat /\ n >= 3 BY <1>2, CodesHeader
<1>10. c \in Seq(Byte) BY <1>9, StartCodeIs
<1>11. file \in Seq(Byte) /\ sent \in Seq(SentUnits) BY DEF FileInv
<1>12. ZeroWords(j) \in Seq(Byte) /\ Len(ZeroWords(j)) = 3 * j
       /\ \A k \in 1 .. 3 * j : ZeroWords(j)[k] = IF k % 3 = 0 THEN 3 ELSE 0
  BY <1>5, ZeroWordsAre
<1> HIDE DEF h, x, y, n, u, c
<1> DEFINE W == w \o ZeroWords(j)
<1>13. file' = (file \o c) \o W
  <2> DEFINE z == ZeroWords(j)
             d == file \o c
  <2>1. z \in Seq(Byte) /\ d \in Seq(Byte) /\ x \in Seq(Byte) /\ h \in Seq(Byte)
    BY <1>2, <1>9, <1>10, <1>11, <1>12, Joins
  <2>2. file' = ((d \o h) \o x) \o z BY <1>5
  <2> HIDE DEF z, d
  <2>a. h \o x \in Seq(Byte) BY <2>1, Joins
  <2>b. (d \o h) \o x = d \o (h \o x) BY <2>1, ConcatAssociative, SMTT(30)
  <2>3. (d \o h) \o x = d \o (h \o x) /\ h \o x \in Seq(Byte) BY <2>a, <2>b
  <2>4. (d \o (h \o x)) \o z = d \o ((h \o x) \o z) BY <2>1, <2>3, ConcatAssociative, SMTT(30)
  <2>5. QED BY <2>2, <2>3, <2>4 DEF d, z
<1>14. /\ Unit(u) \in Seq(Byte) /\ Len(Unit(u)) >= 2 /\ Unit(u)[1] # 0
       /\ Unit(u)[Len(Unit(u))] # 0
  <2>1. /\ h \o y \in Seq(Byte) /\ Len(h \o y) >= 2 /\ (h \o y)[1] # 0
        /\ (h \o y)[Len(h \o y)] # 0
    BY <1>2, <1>7, WholeUnit
  <2>2. QED BY <1>8, <2>1
<1>15. w \in Seq(Byte) /\ Len(w) >= 1 /\ Codes(w, Unit(u)) /\ ~ IsEscape(w, Len(w))
  BY <1>6, <1>8 DEF Codable
<1> HIDE DEF w
<1>16. w[Len(w)] # 0 BY <1>14, <1>15, LastKept
<1>17. W \in Seq(Byte) /\ Codes(W, Unit(u) \o Zeros(2 * j)) BY <1>5, <1>14, <1>15, <1>16, CodesWords
<1>18. Len(W) >= 1 /\ W[Len(W)] # 0
  <2> DEFINE z == ZeroWords(j)
             g == 3 * j
  <2>1. /\ Len(W) = Len(w) + Len(z) /\ Len(w) \in Nat /\ (\A i \in 1 .. Len(w) : W[i] = w[i])
        /\ \A i \in 1 .. Len(z) : W[Len(w) + i] = z[i]
    BY <1>12, <1>15, Joins
  <2>2. g \in Nat /\ g % 3 = 0 /\ Len(z) = g BY <1>5, <1>12
  <2>3. g # 0 => z[g] = 3
    <3> SUFFICES ASSUME g # 0 PROVE z[g] = 3 OBVIOUS
    <3>1. g \in 1 .. 3 * j BY <2>2
    <3>2. QED BY <1>12, <2>2, <3>1
  <2> HIDE DEF z, g, W
  <2>4. CASE g = 0
    <3>1. Len(W) = Len(w) /\ Len(w) \in 1 .. Len(w) BY <1>15, <2>1, <2>2, <2>4
    <3>2. QED BY <1>15, <1>16, <2>1, <3>1
  <2>5. CASE g # 0
    <3>1. g \in 1 .. g BY <2>2, <2>5
    <3>2. W[Len(W)] = 3 BY <2>1, <2>2, <2>3, <2>5, <3>1
    <3>3. QED BY <1>15, <2>1, <2>2, <3>2
  <2>6. QED BY <2>4, <2>5
<1>19. IsWritten(W, u) /\ IsUnit(u) BY <1>5, <1>14, <1>17 DEF IsWritten, IsUnit
<1>20. PICK s \in [Nat -> Nat], t \in [Nat -> Nat] : Lay(file, sent, s, t) BY DEF FileInv
<1> HIDE DEF W
<1>21. /\ (file \o c) \o W \in Seq(Byte)
       /\ \E a, b \in [Nat -> Nat] : Lay((file \o c) \o W, Append(sent, u), a, b)
  BY <1>8, <1>9, <1>11, <1>17, <1>18, <1>19, <1>20, LayUnit DEF c
<1>22. sent' \in Seq(SentUnits) BY <1>3, <1>8, <1>11
<1>23. QED BY <1>3, <1>13, <1>21, <1>22 DEF FileInv

LEMMA FileZero == FileInv /\ AddZeroByte => FileInv'
<1> SUFFICES ASSUME FileInv, AddZeroByte PROVE FileInv' OBVIOUS
<1>1. PICK s \in [Nat -> Nat], t \in [Nat -> Nat] : Lay(file, sent, s, t) BY DEF FileInv
<1>2. file \in Seq(Byte) /\ sent \in Seq(SentUnits) /\ Len(sent) \in Nat BY LenProperties DEF FileInv
<1>3. Append(file, 0) \in Seq(Byte) /\ Lay(Append(file, 0), sent, s, t) BY <1>1, <1>2, LayZero
<1>4. file' = Append(file, 0) /\ sent' = sent BY DEF AddZeroByte
<1>5. QED BY <1>2, <1>3, <1>4 DEF FileInv

LEMMA FileInit == Init => FileInv
<1> SUFFICES ASSUME Init PROVE FileInv OBVIOUS
<1>1. file = <<>> /\ sent = <<>> BY DEF Init
<1>2. file \in Seq(Byte) /\ sent \in Seq(SentUnits) BY <1>1
<1> DEFINE s == [i \in Nat |-> 0]
<1>3. s \in [Nat -> Nat] /\ s[0] = 0 OBVIOUS
<1> HIDE DEF s
<1>4. Lay(<<>>, <<>>, s, s)
  <2>1. Len(<<>>) = 0 OBVIOUS
  <2>2. (\A k \in 1 .. 0 : FALSE) /\ \A i \in 0 + 1 .. 0 : FALSE OBVIOUS
  <2>3. QED BY <1>3, <2>1, <2>2 DEF Lay
<1>5. QED BY <1>1, <1>2, <1>3, <1>4 DEF FileInv

(* The other steps write nothing.                                           *)
LEMMA FileOther ==
  ASSUME \/ StartUnit \/ RBSPtoEBSP \/ Open \/ PutBackStartCode \/ ReadPrefix \/ EndOfFile
         \/ CheckPrefix \/ ReadByte \/ LastUnit \/ FoundStartCode \/ EBSPtoRBSP \/ ReturnUnit
         \/ UNCHANGED vars
  PROVE  UNCHANGED <<file, sent>>
<1>1. CASE StartUnit BY <1>1 DEF StartUnit
<1>2. CASE RBSPtoEBSP BY <1>2 DEF RBSPtoEBSP
<1>3. CASE Open BY <1>3 DEF Open
<1>4. CASE PutBackStartCode BY <1>4 DEF PutBackStartCode, written
<1>5. CASE ReadPrefix BY <1>5 DEF ReadPrefix, written
<1>6. CASE EndOfFile BY <1>6 DEF EndOfFile, written
<1>7. CASE CheckPrefix BY <1>7 DEF CheckPrefix
<1>8. CASE ReadByte BY <1>8 DEF ReadByte, written
<1>9. CASE LastUnit BY <1>9 DEF LastUnit, Hand
<1>10. CASE FoundStartCode BY <1>10 DEF FoundStartCode, Hand
<1>11. CASE EBSPtoRBSP BY <1>11 DEF EBSPtoRBSP
<1>12. CASE ReturnUnit BY <1>12 DEF ReturnUnit, written
<1>13. CASE UNCHANGED vars BY <1>13 DEF vars, written
<1>14. QED BY <1>1, <1>2, <1>3, <1>4, <1>5, <1>6, <1>7, <1>8, <1>9, <1>10, <1>11, <1>12, <1>13

LEMMA FileStep == PayloadInv /\ WrittenInv /\ FileInv /\ [Next]_vars => FileInv'
<1> SUFFICES ASSUME PayloadInv, WrittenInv, FileInv, [Next]_vars PROVE FileInv' OBVIOUS
<1>1. CASE WriteAnnexbNALU BY <1>1, FileWrite
<1>2. CASE AddZeroByte BY <1>2, FileZero
<1>3. CASE UNCHANGED <<file, sent>> BY <1>3 DEF FileInv
<1>4. QED BY <1>1, <1>2, <1>3, FileOther DEF Next

-----------------------------------------------------------------------------
(* The decoder reads the file from its beginning.                           *)

(* x and y hold what is behind the first P bytes of F.                      *)
Ahead(F, x, y, P) ==
  /\ x \in Seq(Byte) /\ y \in Seq(Byte) /\ P \in Nat
  /\ P + Len(x) + Len(y) = Len(F)
  /\ \A i \in 1 .. Len(x) : x[i] = F[P + i]
  /\ \A i \in 1 .. Len(y) : y[i] = F[P + Len(x) + i]

LEMMA ChunkAre ==
  ASSUME NEW y \in Seq(Byte)
  PROVE  /\ Chunk(y) \in Seq(Byte) /\ Rest(y) \in Seq(Byte)
         /\ Len(Chunk(y)) + Len(Rest(y)) = Len(y)
         /\ Len(Chunk(y)) \in Nat /\ Len(Rest(y)) \in Nat
         /\ y # <<>> => Chunk(y) # <<>>
         /\ \A i \in 1 .. Len(Chunk(y)) : Chunk(y)[i] = y[i]
         /\ \A i \in 1 .. Len(Rest(y)) : Rest(y)[i] = y[Len(Chunk(y)) + i]
<1> DEFINE n == Smaller(IOBufferSize, Len(y))
           l == Len(y)
           c == Chunk(y)
           d == Rest(y)
<1>1. l \in Nat /\ (y # <<>> => l # 0) BY EmptySeq, LenProperties
<1>2. n \in Nat /\ n <= l /\ (l # 0 => n # 0) BY <1>1, BufferAssumption DEF Smaller
<1>3. l = Len(y) /\ c = SubSeq(y, 1, n) /\ d = SubSeq(y, n + 1, l) BY DEF Chunk, Rest
<1> HIDE DEF n, l, c, d
<1>4. /\ SubSeq(y, 1, n) \in Seq(Byte) /\ Len(SubSeq(y, 1, n)) = n + 1 - 1
      /\ \A i \in 1 .. n + 1 - 1 : SubSeq(y, 1, n)[i] = y[1 + i - 1]
  <2>1. 1 \in Nat /\ 1 <= n + 1 /\ 1 <= 1 BY <1>2
  <2>2. QED BY <1>2, <1>3, <2>1, Part
<1>5. c \in Seq(Byte) /\ Len(c) = n /\ \A i \in 1 .. n : c[i] = y[i]
  <2>1. n + 1 - 1 = n /\ \A i \in 1 .. n : 1 + i - 1 = i BY <1>2
  <2>2. QED BY <1>3, <1>4, <2>1
<1>6. /\ SubSeq(y, n + 1, l) \in Seq(Byte) /\ Len(SubSeq(y, n + 1, l)) = l + 1 - (n + 1)
      /\ \A i \in 1 .. l + 1 - (n + 1) : SubSeq(y, n + 1, l)[i] = y[n + 1 + i - 1]
  <2>1. n + 1 \in Nat /\ 1 <= n + 1 /\ n + 1 <= l + 1 BY <1>1, <1>2
  <2>2. QED BY <1>1, <1>3, <2>1, Part
<1>7. d \in Seq(Byte) /\ Len(d) = l - n /\ \A i \in 1 .. l - n : d[i] = y[n + i]
  <2>1. l + 1 - (n + 1) = l - n /\ \A i \in 1 .. l - n : n + 1 + i - 1 = n + i BY <1>1, <1>2
  <2>2. QED BY <1>3, <1>6, <2>1
<1>8. Len(c) + Len(d) = Len(y)
  <2>1. Len(c) = n /\ Len(d) = l - n /\ l = Len(y) /\ n \in Nat /\ l \in Nat
    BY <1>1, <1>2, <1>3, <1>5, <1>7
  <2>2. n + (l - n) = l BY <2>1
  <2>3. QED BY <2>1, <2>2
<1>9. y # <<>> => c # <<>>
  <2> SUFFICES ASSUME y # <<>>, c = <<>> PROVE FALSE OBVIOUS
  <2>1. Len(c) = 0 BY EmptySeq
  <2>2. QED BY <1>1, <1>2, <1>5, <2>1
<1>10. QED BY <1>1, <1>2, <1>5, <1>7, <1>8, <1>9 DEF c, d

(* getChunk moves bytes of the file into the buffer.                        *)
LEMMA Refilled ==
  ASSUME NEW F \in Seq(Byte), NEW y, NEW P, Ahead(F, <<>>, y, P)
  PROVE  Ahead(F, Chunk(y), Rest(y), P)
<1>1. /\ y \in Seq(Byte) /\ P \in Nat /\ P + 0 + Len(y) = Len(F)
      /\ \A i \in 1 .. Len(y) : y[i] = F[P + 0 + i]
  <2>1. Len(<<>>) = 0 OBVIOUS
  <2>2. QED BY <2>1 DEF Ahead
<1> DEFINE c == Chunk(y)
           d == Rest(y)
           m == Len(c)
           n == Len(d)
           l == Len(y)
<1>2. /\ c \in Seq(Byte) /\ d \in Seq(Byte) /\ m + n = l /\ m \in Nat /\ n \in Nat
      /\ (\A i \in 1 .. m : c[i] = y[i]) /\ \A i \in 1 .. n : d[i] = y[m + i]
  BY <1>1, ChunkAre
<1>3. l \in Nat BY <1>1, LenProperties
<1>4. P \in Nat /\ P + l = Len(F) /\ \A i \in 1 .. l : y[i] = F[P + i]
  <2>1. P + 0 + l = P + l /\ \A i \in 1 .. l : P + 0 + i = P + i BY <1>1, <1>3
  <2>2. QED BY <1>1, <2>1
<1> HIDE DEF l
<1>5. (\A i \in 1 .. m : i \in 1 .. l) /\ (\A i \in 1 .. n : m + i \in 1 .. l /\ P + (m + i) = P + m + i)
      /\ P + m + n = P + l
  <2> HIDE DEF m, n
  <2>1. QED BY <1>2, <1>4
<1>6. \A i \in 1 .. m : c[i] = F[P + i] BY <1>2, <1>4, <1>5
<1>7. \A i \in 1 .. n : d[i] = F[P + m + i] BY <1>2, <1>4, <1>5
<1>8. P + m + n = Len(F) BY <1>4, <1>5
<1> HIDE DEF c, d
<1>9. Ahead(F, c, d, P) BY <1>2, <1>4, <1>6, <1>7, <1>8 DEF Ahead
<1>10. QED BY <1>9 DEF c, d

LEMMA Taken ==
  ASSUME NEW F \in Seq(Byte), NEW x, NEW y, NEW P, Ahead(F, x, y, P), x # <<>>
  PROVE  P < Len(F) /\ Head(x) = F[P + 1] /\ Ahead(F, Tail(x), y, P + 1)
<1>1. x \in Seq(Byte) /\ y \in Seq(Byte) /\ P \in Nat BY DEF Ahead
<1> DEFINE z == Tail(x)
           m == Len(x)
           n == Len(y)
<1>2. /\ z \in Seq(Byte) /\ Len(z) = m - 1 /\ \A i \in 1 .. Len(z) : z[i] = x[i + 1]
  BY <1>1, HeadTailProperties
<1>3. m \in Nat /\ n \in Nat /\ m # 0 BY <1>1, EmptySeq, LenProperties
<1>4. P + m + n = Len(F) /\ (\A i \in 1 .. m : x[i] = F[P + i]) /\ \A i \in 1 .. n : y[i] = F[P + m + i]
  BY DEF Ahead
<1>5. Head(x) = x[1] BY <1>1
<1> HIDE DEF z, m, n
<1>6. P < Len(F) /\ 1 \in 1 .. m /\ P + 1 \in Nat BY <1>1, <1>3, <1>4
<1>7. Head(x) = F[P + 1] BY <1>4, <1>5, <1>6
<1>8. (P + 1) + Len(z) + n = Len(F)
  <2>1. Len(z) = m - 1 /\ P + m + n = Len(F) /\ m \in Nat /\ n \in Nat /\ P \in Nat
    BY <1>1, <1>2, <1>3, <1>4
  <2>2. (P + 1) + (m - 1) + n = P + m + n BY <2>1
  <2>3. QED BY <2>1, <2>2
<1>9. \A i \in 1 .. Len(z) : i + 1 \in 1 .. m /\ P + (i + 1) = (P + 1) + i BY <1>1, <1>2, <1>3
<1>10. \A i \in 1 .. n : P + m + i = (P + 1) + Len(z) + i BY <1>1, <1>2, <1>3
<1>11. \A i \in 1 .. Len(z) : z[i] = F[(P + 1) + i] BY <1>2, <1>4, <1>9
<1>12. \A i \in 1 .. n : y[i] = F[(P + 1) + Len(z) + i] BY <1>4, <1>10
<1>13. Ahead(F, z, y, P + 1) BY <1>1, <1>2, <1>6, <1>8, <1>11, <1>12 DEF Ahead, n
<1>14. QED BY <1>6, <1>7, <1>13 DEF z

(* getfbyte delivers the next byte of the file, or notes that there is none. *)
LEMMA NextByte ==
  ASSUME file \in Seq(Byte), NEW P, Ahead(file, iobuffer, unread, P), getfbyte
  PROVE  \/ /\ P = Len(file)
            /\ annex_b' = [annex_b EXCEPT !.is_eof = TRUE]
            /\ Buf' = Append(Buf, 0) /\ Ahead(file, iobuffer', unread', P)
         \/ /\ P < Len(file) /\ UNCHANGED annex_b
            /\ Buf' = Append(Buf, file[P + 1]) /\ Ahead(file, iobuffer', unread', P + 1)
<1> DEFINE used == iobuffer # <<>>
           from == IF used THEN iobuffer ELSE Chunk(unread)
           left == IF used THEN unread ELSE Rest(unread)
<1>1. Ahead(file, from, left, P)
  <2>1. CASE used BY <2>1
  <2>2. CASE ~ used BY <2>2, Refilled
  <2>3. QED BY <2>1, <2>2
<1>2. CASE from = <<>>
  <2>1. ~ used /\ Chunk(unread) = <<>> BY <1>2
  <2>2. unread \in Seq(Byte) /\ iobuffer = <<>> /\ P \in Nat BY <2>1 DEF Ahead
  <2>3. unread = <<>> BY <2>1, <2>2, ChunkAre
  <2>4. Len(<<>>) = 0 OBVIOUS
  <2>5. P = Len(file)
    <3>1. P + 0 + 0 = Len(file) BY <2>2, <2>3, <2>4 DEF Ahead
    <3>2. QED BY <2>2, <3>1
  <2>6. annex_b' = [annex_b EXCEPT !.is_eof = TRUE] /\ Buf' = Append(Buf, 0)
        /\ iobuffer' = iobuffer /\ unread' = unread
    BY <1>2 DEF getfbyte
  <2>7. QED BY <2>5, <2>6
<1>3. CASE from # <<>>
  <2>1. /\ iobuffer' = Tail(from) /\ Buf' = Append(Buf, Head(from))
        /\ unread' = left /\ annex_b' = annex_b
    BY <1>3 DEF getfbyte
  <2>2. P < Len(file) /\ Head(from) = file[P + 1] /\ Ahead(file, Tail(from), left, P + 1)
    <3> HIDE DEF from, left
    <3>1. QED BY <1>1, <1>3, Taken
  <2>3. QED BY <2>1, <2>2
<1>4. QED BY <1>2, <1>3

-----------------------------------------------------------------------------
(* EBSPtoRBSP takes the escapes out again.                                  *)

(* What count says of the first m bytes of w.                               *)
Follows(w, m, c) ==
  /\ c = 0 => w[m] # 0
  /\ c = 1 => m >= 2 /\ w[m] = 0 /\ w[m - 1] # 0
  /\ c = 2 => m >= 2 /\ w[m] = 0 /\ w[m - 1] = 0

(* The first m bytes of w are read; x holds the first byte and those behind *)
(* byte m, y what the others stand for, without the first, in r.            *)
Read(w, r, q, m, x, y, c) ==
  /\ Restores(w, r, q) /\ q[m] >= 1
  /\ Len(x) = Len(w) - m + 1 /\ x[1] = w[1] /\ \A i \in 1 .. Len(w) - m : x[1 + i] = w[m + i]
  /\ Len(y) = q[m] - 1 /\ \A i \in 1 .. q[m] - 1 : y[i] = r[i + 1]
  /\ m < Len(w) => Follows(w, m, c)

Restoring(w, u, x, y, c) ==
  /\ w \in Seq(Byte) /\ x \in Seq(Byte) /\ y \in Seq(Byte) /\ c \in 0 .. 2 /\ Sound(w)
  /\ \E n \in Nat, q \in [Nat -> Nat], m \in 1 .. Len(w) : Read(w, u \o Zeros(2 * n), q, m, x, y, c)

LEMMA Shift ==
  ASSUME NEW x \in Seq(Byte), NEW a \in Nat, 2 <= a, a <= Len(x) + 1
  PROVE  /\ <<x[1]>> \o SubSeq(x, a, Len(x)) \in Seq(Byte)
         /\ Len(<<x[1]>> \o SubSeq(x, a, Len(x))) = Len(x) - a + 2
         /\ (<<x[1]>> \o SubSeq(x, a, Len(x)))[1] = x[1]
         /\ \A i \in 1 .. Len(x) - a + 1 : (<<x[1]>> \o SubSeq(x, a, Len(x)))[1 + i] = x[a - 1 + i]
<1> DEFINE l == Len(x)
           d == SubSeq(x, a, l)
           c == <<x[1]>>
           v == c \o d
<1>1. l \in Nat /\ l >= 1
  <2>1. l \in Nat /\ a <= l + 1 BY LenProperties
  <2> HIDE DEF l
  <2>2. QED BY <2>1
<1>2. x[1] \in Byte
  <2>1. 1 \in 1 .. l BY <1>1
  <2>2. QED BY <2>1, ElementOfSeq
<1>3. c \in Seq(Byte) /\ Len(c) = 1 /\ c[1] = x[1] BY <1>2
<1>4. d \in Seq(Byte) /\ Len(d) = l + 1 - a /\ \A i \in 1 .. l + 1 - a : d[i] = x[a + i - 1]
  <2>1. l \in Nat /\ 1 <= a /\ a <= l + 1 /\ l <= Len(x) BY <1>1
  <2>2. QED BY <2>1, Part
<1> HIDE DEF c, d
<1>5. /\ v \in Seq(Byte) /\ Len(v) = Len(c) + Len(d)
      /\ (\A i \in 1 .. Len(c) : v[i] = c[i]) /\ \A i \in 1 .. Len(d) : v[Len(c) + i] = d[i]
  BY <1>3, <1>4, Joins
<1>a. a <= l + 1 OBVIOUS
<1> HIDE DEF v, l
<1>6. Len(v) = l - a + 2
  <2>1. Len(v) = 1 + (l + 1 - a) BY <1>3, <1>4, <1>5
  <2>2. QED BY <1>1, <2>1
<1>7. v[1] = x[1]
  <2>1. 1 \in 1 .. 1 OBVIOUS
  <2>2. QED BY <1>3, <1>5, <2>1
<1>8. \A i \in 1 .. l - a + 1 : v[1 + i] = x[a - 1 + i]
  <2>1. \A i \in 1 .. l - a + 1 : i \in 1 .. l + 1 - a /\ a + i - 1 = a - 1 + i BY <1>1
  <2>2. \A i \in 1 .. l + 1 - a : v[1 + i] = d[i] BY <1>3, <1>4, <1>5
  <2>3. QED BY <1>4, <2>1, <2>2
<1>9. v \in Seq(Byte) /\ Len(v) = l - a + 2 /\ v[1] = x[1] /\ \A i \in 1 .. l - a + 1 : v[1 + i] = x[a - 1 + i]
  BY <1>5, <1>6, <1>7, <1>8
<1>10. QED BY <1>9 DEF v, c, d, l

(* At the beginning the first byte is read.                                 *)
LEMMA RestoringStart ==
  ASSUME NEW w \in Seq(Byte), Len(w) >= 1, NEW u, IsWritten(w, u), IsUnit(u)
  PROVE  Restoring(w, Unit(u), w, <<>>, 0)
<1>1. PICK n \in Nat : Codes(w, Unit(u) \o Zeros(2 * n)) BY DEF IsWritten
<1> DEFINE r == Unit(u) \o Zeros(2 * n)
<1>2. PICK q \in [Nat -> Nat] : Restores(w, r, q) BY <1>1 DEF Codes
<1>3. Unit(u) \in Seq(Byte) /\ Len(Unit(u)) >= 2 /\ Unit(u)[1] # 0 /\ Len(Unit(u)) \in Nat
  BY LenProperties DEF IsUnit
<1>4. r[1] # 0
  <2>1. 2 * n \in Nat OBVIOUS
  <2>2. Zeros(2 * n) \in Seq(Byte) BY <2>1, ZerosAre
  <2>3. \A i \in 1 .. Len(Unit(u)) : r[i] = Unit(u)[i] BY <1>3, <2>2, Joins
  <2>4. 1 \in 1 .. Len(Unit(u)) BY <1>3
  <2>5. QED BY <1>3, <2>3, <2>4
<1> HIDE DEF r
<1>5. Len(w) \in Nat /\ 1 \in 1 .. Len(w)
  <2>1. Len(w) \in Nat BY LenProperties
  <2>2. QED BY <2>1
<1>6. ~ IsEscape(w, 1) BY DEF IsEscape
<1>7. q[1] = q[0] + 1 /\ w[1] = r[q[1]] /\ q[0] = 0
  <2>1. 1 - 1 = 0 OBVIOUS
  <2>2. QED BY <1>2, <1>5, <1>6, <2>1 DEF Restores
<1>8. q[1] = 1 /\ w[1] # 0 BY <1>4, <1>7
<1>9. Follows(w, 1, 0) BY <1>8 DEF Follows
<1>10. Len(w) = Len(w) - 1 + 1 /\ Len(<<>>) = q[1] - 1 /\ q[1] >= 1 BY <1>5, <1>8
<1>11. \A i \in 1 .. q[1] - 1 : <<>>[i] = r[i + 1] BY <1>8
<1>12. Read(w, r, q, 1, w, <<>>, 0) BY <1>2, <1>9, <1>10, <1>11 DEF Read
<1>13. Sound(w) /\ <<>> \in Seq(Byte) BY <1>1 DEF Codes
<1>a. Read(w, Unit(u) \o Zeros(2 * n), q, 1, w, <<>>, 0) BY <1>12 DEF r
<1>14. \E e \in Nat, p \in [Nat -> Nat], m \in 1 .. Len(w) :
         Read(w, Unit(u) \o Zeros(2 * e), p, m, w, <<>>, 0)
  BY <1>5, <1>a, Zenon
<1>15. 0 \in 0 .. 2 OBVIOUS
<1>16. QED BY <1>13, <1>14, <1>15, Zenon DEF Restoring

(* v holds the first byte of x and what is behind byte m of w.              *)
Advanced(w, x, v, m) ==
  /\ v \in Seq(Byte) /\ Len(v) = Len(w) - m + 1 /\ v[1] = x[1]
  /\ \A i \in 1 .. Len(w) - m : v[1 + i] = w[m + i]

LEMMA AdvanceX ==
  ASSUME NEW w \in Seq(Byte), NEW x \in Seq(Byte), NEW m \in Nat, NEW j \in Nat, 1 <= m, 1 <= j,
         m + j <= Len(w), Len(x) = Len(w) - m + 1, \A i \in 1 .. Len(w) - m : x[1 + i] = w[m + i]
  PROVE  Advanced(w, x, <<x[1]>> \o SubSeq(x, 2 + j, Len(x)), m + j)
<1> DEFINE a == 2 + j
           v == <<x[1]>> \o SubSeq(x, a, Len(x))
           l == Len(x)
           e == Len(w)
<1>1. l \in Nat /\ e \in Nat BY LenProperties
<1>2. l = e - m + 1 /\ m + j <= e /\ l = Len(x) /\ a = 2 + j
      /\ \A i \in 1 .. e - m : x[1 + i] = w[m + i]
  OBVIOUS
<1> HIDE DEF l, e, a
<1>3. a \in Nat /\ 2 <= a /\ a <= l + 1 BY <1>1, <1>2
<1>4. /\ v \in Seq(Byte) /\ Len(v) = l - a + 2 /\ v[1] = x[1]
      /\ \A i \in 1 .. l - a + 1 : v[1 + i] = x[a - 1 + i]
  <2>1. a <= Len(x) + 1 BY <1>2, <1>3
  <2>2. /\ <<x[1]>> \o SubSeq(x, a, Len(x)) \in Seq(Byte)
        /\ Len(<<x[1]>> \o SubSeq(x, a, Len(x))) = Len(x) - a + 2
        /\ (<<x[1]>> \o SubSeq(x, a, Len(x)))[1] = x[1]
        /\ \A i \in 1 .. Len(x) - a + 1 : (<<x[1]>> \o SubSeq(x, a, Len(x)))[1 + i] = x[a - 1 + i]
    BY <1>3, <2>1, Shift
  <2>3. v = <<x[1]>> \o SubSeq(x, a, Len(x)) OBVIOUS
  <2> HIDE DEF v
  <2>4. /\ v \in Seq(Byte) /\ Len(v) = Len(x) - a + 2 /\ v[1] = x[1]
        /\ \A i \in 1 .. Len(x) - a + 1 : v[1 + i] = x[a - 1 + i]
    BY <2>2, <2>3
  <2>5. QED BY <1>2, <2>4
<1> HIDE DEF v
<1>5. l - a + 2 = e - (m + j) + 1 BY <1>1, <1>2, <1>3
<1>6. Len(v) = e - (m + j) + 1 BY <1>4, <1>5
<1>7. \A i \in 1 .. e - (m + j) : i \in 1 .. l - a + 1 /\ j + i \in 1 .. e - m /\ a - 1 + i = 1 + (j + i)
                                  /\ m + (j + i) = (m + j) + i
  BY <1>1, <1>2, <1>3
<1>8. \A i \in 1 .. e - (m + j) : v[1 + i] = w[(m + j) + i]
  <2> SUFFICES ASSUME NEW i \in 1 .. e - (m + j) PROVE v[1 + i] = w[(m + j) + i] OBVIOUS
  <2>1. v[1 + i] = x[a - 1 + i] BY <1>4, <1>7
  <2>2. x[1 + (j + i)] = w[m + (j + i)] BY <1>2, <1>7
  <2>3. QED BY <1>7, <2>1, <2>2
<1>9. v \in Seq(Byte) /\ Len(v) = e - (m + j) + 1 /\ v[1] = x[1]
      /\ \A i \in 1 .. e - (m + j) : v[1 + i] = w[(m + j) + i]
  BY <1>4, <1>6, <1>8
<1>10. QED BY <1>9 DEF Advanced, v, e, a

LEMMA AdvanceY ==
  ASSUME NEW r, NEW y \in Seq(Byte), NEW g \in Nat, g >= 1, NEW b \in Byte, b = r[g + 1],
         Len(y) = g - 1, \A i \in 1 .. g - 1 : y[i] = r[i + 1]
  PROVE  /\ Append(y, b) \in Seq(Byte) /\ Len(Append(y, b)) = (g + 1) - 1
         /\ \A i \in 1 .. (g + 1) - 1 : Append(y, b)[i] = r[i + 1]
<1> DEFINE z == Append(y, b)
<1>1. /\ z \in Seq(Byte) /\ Len(z) = Len(y) + 1
      /\ (\A i \in 1 .. Len(y) : z[i] = y[i]) /\ z[Len(y) + 1] = b
  BY AppendProperties
<1> HIDE DEF z
<1>2. Len(z) = (g + 1) - 1
  <2>1. Len(z) = (g - 1) + 1 BY <1>1
  <2>2. QED BY <2>1
<1>3. \A i \in 1 .. (g + 1) - 1 : z[i] = r[i + 1]
  <2> SUFFICES ASSUME NEW i \in 1 .. (g + 1) - 1 PROVE z[i] = r[i + 1] OBVIOUS
  <2>1. i \in 1 .. g - 1 \/ i = g OBVIOUS
  <2>2. CASE i \in 1 .. g - 1 BY <1>1, <2>2
  <2>3. CASE i = g
    <3>1. (g - 1) + 1 = g OBVIOUS
    <3>2. z[g] = b BY <1>1, <3>1
    <3>3. QED BY <2>3, <3>2
  <2>4. QED BY <2>1, <2>2, <2>3
<1>4. QED BY <1>1, <1>2, <1>3 DEF z

(* The next byte is the second of x, the one behind it the third.           *)
NextInView(w, q, m, x, c) ==
  /\ m \in Nat /\ m >= 1 /\ m + 1 \in 1 .. Len(w) /\ Len(w) \in Nat /\ q[m] \in Nat
  /\ Follows(w, m, c)
  /\ x[2] = w[m + 1] /\ x[2] \in Byte
  /\ Len(x) = 2 <=> m + 1 = Len(w)
  /\ Len(x) # 2 => m + 2 \in 1 .. Len(w) /\ x[3] = w[m + 2] /\ x[3] \in Byte

LEMMA ReadAhead ==
  ASSUME NEW w \in Seq(Byte), NEW r \in Seq(Byte), NEW q \in [Nat -> Nat], NEW m \in 1 .. Len(w),
         NEW x \in Seq(Byte), NEW y, NEW c, Read(w, r, q, m, x, y, c), Len(x) > 1
  PROVE  NextInView(w, q, m, x, c)
<1> DEFINE l == Len(x)
           e == Len(w)
<1>1. l \in Nat /\ e \in Nat BY LenProperties
<1>2. l = e - m + 1 /\ (\A i \in 1 .. e - m : x[1 + i] = w[m + i]) /\ l > 1 /\ m \in 1 .. e
      /\ (m < e => Follows(w, m, c))
  BY DEF Read
<1>3. \A i \in 1 .. e : w[i] \in Byte BY ElementOfSeq
<1> HIDE DEF l, e
<1>4. m \in Nat /\ m >= 1 /\ m < e /\ m + 1 \in 1 .. e /\ 1 \in 1 .. e - m /\ (l = 2 <=> m + 1 = e)
  BY <1>1, <1>2
<1>5. x[2] = w[m + 1]
  <2>1. 1 + 1 = 2 OBVIOUS
  <2>2. QED BY <1>2, <1>4, <2>1
<1>6. l # 2 => m + 2 \in 1 .. e /\ x[3] = w[m + 2]
  <2> SUFFICES ASSUME l # 2 PROVE m + 2 \in 1 .. e /\ x[3] = w[m + 2] OBVIOUS
  <2>1. m + 2 \in 1 .. e /\ 2 \in 1 .. e - m BY <1>1, <1>2, <1>4
  <2>2. 1 + 2 = 3 OBVIOUS
  <2>3. QED BY <1>2, <2>1, <2>2
<1>7. q[m] \in Nat BY <1>4
<1>8. /\ m \in Nat /\ m >= 1 /\ m + 1 \in 1 .. e /\ e \in Nat /\ q[m] \in Nat /\ Follows(w, m, c)
      /\ x[2] = w[m + 1] /\ x[2] \in Byte
      /\ l = 2 <=> m + 1 = e
      /\ l # 2 => m + 2 \in 1 .. e /\ x[3] = w[m + 2] /\ x[3] \in Byte
  BY <1>1, <1>2, <1>3, <1>4, <1>5, <1>6, <1>7
<1>9. QED BY <1>8 DEF NextInView, l, e

(* A byte behind fewer than two zeros, or above three, stands for itself.   *)
PlainRead(w, r, q, m, x, y, c) ==
  /\ c = 2 => x[2] > 3
  /\ (IF x[2] # 0 THEN 0 ELSE c + 1) \in 0 .. 2
  /\ m + 1 \in 1 .. Len(w)
  /\ <<x[1]>> \o SubSeq(x, 3, Len(x)) \in Seq(Byte) /\ Append(y, x[2]) \in Seq(Byte)
  /\ Read(w, r, q, m + 1, <<x[1]>> \o SubSeq(x, 3, Len(x)), Append(y, x[2]), IF x[2] # 0 THEN 0 ELSE c + 1)

LEMMA ReadPlain ==
  ASSUME NEW w \in Seq(Byte), NEW r \in Seq(Byte), NEW q \in [Nat -> Nat], NEW m \in 1 .. Len(w),
         NEW x \in Seq(Byte), NEW y \in Seq(Byte), NEW c \in 0 .. 2, Read(w, r, q, m, x, y, c),
         Len(x) > 1, Sound(w), ~ (c = 2 /\ x[2] = 3)
  PROVE  PlainRead(w, r, q, m, x, y, c)
<1> DEFINE b == x[2]
           v == <<x[1]>> \o SubSeq(x, 3, Len(x))
           z == Append(y, b)
           g == q[m]
           d == IF b # 0 THEN 0 ELSE c + 1
<1>1. /\ m \in Nat /\ m >= 1 /\ m + 1 \in 1 .. Len(w) /\ Len(w) \in Nat /\ g \in Nat
      /\ Follows(w, m, c) /\ b = w[m + 1] /\ b \in Byte
  <2>1. /\ m \in Nat /\ m >= 1 /\ m + 1 \in 1 .. Len(w) /\ Len(w) \in Nat /\ q[m] \in Nat
        /\ Follows(w, m, c)
        /\ x[2] = w[m + 1] /\ x[2] \in Byte
        /\ Len(x) = 2 <=> m + 1 = Len(w)
        /\ Len(x) # 2 => m + 2 \in 1 .. Len(w) /\ x[3] = w[m + 2] /\ x[3] \in Byte
    <3>1. NextInView(w, q, m, x, c) BY ReadAhead
    <3>2. QED BY <3>1 DEF NextInView
  <2>2. QED BY <2>1
<1>2. /\ Restores(w, r, q) /\ g >= 1 /\ Len(x) = Len(w) - m + 1 /\ x[1] = w[1]
      /\ (\A i \in 1 .. Len(w) - m : x[1 + i] = w[m + i])
      /\ Len(y) = g - 1 /\ \A i \in 1 .. g - 1 : y[i] = r[i + 1]
  BY DEF Read
<1>3. c = 2 => b > 3
  <2> SUFFICES ASSUME c = 2, ~ (b > 3) PROVE FALSE OBVIOUS
  <2>1. m >= 2 /\ w[m] = 0 /\ w[m - 1] = 0 BY <1>1 DEF Follows
  <2>a. b # 3 OBVIOUS
  <2>2. b < 3
    <3>1. b \in Byte /\ b # 3 /\ ~ (b > 3) BY <1>1, <2>a
    <3> HIDE DEF b, v, z, g, d
    <3>2. QED BY <3>1 DEF Byte
  <2>3. m - 1 \in 1 .. Len(w) - 2 /\ (m - 1) + 1 = m /\ (m - 1) + 2 = m + 1 BY <1>1, <2>1
  <2>4. QED BY <1>1, <2>1, <2>2, <2>3 DEF Sound, Clean
<1>4. ~ IsEscape(w, m + 1)
  <2> SUFFICES ASSUME IsEscape(w, m + 1) PROVE FALSE OBVIOUS
  <2>0. (m + 1) - 2 = m - 1 /\ (m + 1) - 1 = m /\ (m + 1 >= 3 => m >= 2) BY <1>1
  <2>1. m >= 2 /\ w[m - 1] = 0 /\ w[m] = 0 /\ b = 3 BY <1>1, <2>0 DEF IsEscape
  <2>2. c # 0 /\ c # 1 BY <1>1, <2>1 DEF Follows
  <2>3. c = 2 BY <2>2
  <2>4. QED BY <2>1, <2>3
<1>5. q[m + 1] = g + 1 /\ b = r[g + 1]
  <2>1. (m + 1) - 1 = m BY <1>1
  <2>2. q[m + 1] = q[(m + 1) - 1] + 1 /\ w[m + 1] = r[q[m + 1]] BY <1>1, <1>2, <1>4 DEF Restores
  <2>3. QED BY <1>1, <2>1, <2>2
<1>6. /\ v \in Seq(Byte) /\ Len(v) = Len(w) - (m + 1) + 1 /\ v[1] = x[1]
      /\ \A i \in 1 .. Len(w) - (m + 1) : v[1 + i] = w[(m + 1) + i]
  <2>1. 2 + 1 = 3 /\ m \in Nat /\ 1 \in Nat /\ 1 <= m /\ 1 <= 1 /\ m + 1 <= Len(w)
        /\ Len(x) = Len(w) - m + 1 /\ \A i \in 1 .. Len(w) - m : x[1 + i] = w[m + i]
    BY <1>1, <1>2
  <2>2. Advanced(w, x, <<x[1]>> \o SubSeq(x, 2 + 1, Len(x)), m + 1) BY <2>1, AdvanceX
  <2>3. v = <<x[1]>> \o SubSeq(x, 2 + 1, Len(x)) BY <2>1
  <2> HIDE DEF v
  <2>4. QED BY <2>2, <2>3 DEF Advanced
<1>7. /\ z \in Seq(Byte) /\ Len(z) = (g + 1) - 1 /\ \A i \in 1 .. (g + 1) - 1 : z[i] = r[i + 1]
  <2> HIDE DEF b, g
  <2>1. QED BY <1>1, <1>2, <1>5, AdvanceY, ZenonT(30)
<1>8. d \in 0 .. 2
  <2>1. CASE b # 0 BY <2>1
  <2>2. CASE b = 0
    <3>1. c # 2 BY <1>3, <2>2
    <3>2. QED BY <2>2, <3>1
  <2>3. QED BY <2>1, <2>2
<1>9. Follows(w, m + 1, d)
  <2> HIDE DEF b
  <2>0. (m + 1) - 1 = m /\ m + 1 >= 2 BY <1>1
  <2>1. CASE b # 0 BY <1>1, <2>1 DEF Follows
  <2>2. CASE b = 0 /\ c = 0
    <3>1. w[m] # 0 /\ w[m + 1] = 0 /\ d = 1 BY <1>1, <2>2 DEF Follows
    <3>2. QED BY <2>0, <3>1 DEF Follows
  <2>3. CASE b = 0 /\ c = 1
    <3>1. w[m] = 0 /\ w[m + 1] = 0 /\ d = 2 BY <1>1, <2>3 DEF Follows
    <3>2. QED BY <2>0, <3>1 DEF Follows
  <2>4. CASE b = 0 /\ c = 2 BY <1>3, <2>4
  <2>5. QED BY <2>1, <2>2, <2>3, <2>4
<1> HIDE DEF b, v, z, g, d
<1>10. q[m + 1] >= 1 BY <1>1, <1>5
<1>11. Read(w, r, q, m + 1, v, z, d)
  BY <1>2, <1>5, <1>6, <1>7, <1>9, <1>10 DEF Read
<1>12. QED BY <1>1, <1>3, <1>6, <1>7, <1>8, <1>11 DEF PlainRead, b, v, z, d

(* A three behind two zeros is an escape: the byte behind it is at most     *)
(* three, and stands for itself.                                            *)
LEMMA EscapeBehind ==
  ASSUME NEW w, NEW r, NEW q, NEW m \in Nat, m + 1 \in 1 .. Len(w), Follows(w, m, 2),
         Restores(w, r, q), w[m + 1] = 3
  PROVE  IsEscape(w, m + 1) /\ q[m + 1] = q[m]
<1>1. m >= 2 /\ w[m] = 0 /\ w[m - 1] = 0 BY DEF Follows
<1>2. m + 1 >= 3 /\ (m + 1) - 2 = m - 1 /\ (m + 1) - 1 = m BY <1>1
<1>3. IsEscape(w, m + 1) BY <1>1, <1>2 DEF IsEscape
<1>4. q[m + 1] = q[(m + 1) - 1] BY <1>3 DEF Restores
<1>5. QED BY <1>2, <1>3, <1>4

LastRead(w, r, q, m, x, y) ==
  /\ m + 1 \in 1 .. Len(w)
  /\ <<x[1]>> \o SubSeq(x, 3, Len(x)) \in Seq(Byte)
  /\ Read(w, r, q, m + 1, <<x[1]>> \o SubSeq(x, 3, Len(x)), y, 2)

LEMMA ReadLast ==
  ASSUME NEW w \in Seq(Byte), NEW r \in Seq(Byte), NEW q \in [Nat -> Nat], NEW m \in 1 .. Len(w),
         NEW x \in Seq(Byte), NEW y \in Seq(Byte), Read(w, r, q, m, x, y, 2),
         Len(x) > 1, ~ (Len(x) > 2), Sound(w), x[2] = 3
  PROVE  LastRead(w, r, q, m, x, y)
<1> DEFINE v == <<x[1]>> \o SubSeq(x, 3, Len(x))
           g == q[m]
<1>0. /\ m \in Nat /\ m >= 1 /\ m + 1 \in 1 .. Len(w) /\ Len(w) \in Nat /\ q[m] \in Nat
      /\ Follows(w, m, 2)
      /\ x[2] = w[m + 1] /\ x[2] \in Byte
      /\ Len(x) = 2 <=> m + 1 = Len(w)
      /\ Len(x) # 2 => m + 2 \in 1 .. Len(w) /\ x[3] = w[m + 2] /\ x[3] \in Byte
  <2>1. NextInView(w, q, m, x, 2) BY ReadAhead
  <2>2. QED BY <2>1 DEF NextInView
<1>1. m + 1 \in 1 .. Len(w) /\ q[m + 1] = q[m]
  <2>1. Restores(w, r, q) /\ w[m + 1] = 3 BY <1>0 DEF Read
  <2>2. m \in Nat /\ m + 1 \in 1 .. Len(w) /\ Follows(w, m, 2) BY <1>0
  <2> HIDE DEF v, g
  <2>3. q[m + 1] = q[m] BY <2>1, <2>2, EscapeBehind, ZenonT(60)
  <2>4. QED BY <2>2, <2>3
<1>2. /\ Restores(w, r, q) /\ g >= 1 /\ Len(x) = Len(w) - m + 1 /\ x[1] = w[1]
      /\ (\A i \in 1 .. Len(w) - m : x[1 + i] = w[m + i])
      /\ Len(y) = g - 1 /\ \A i \in 1 .. g - 1 : y[i] = r[i + 1]
  BY DEF Read
<1>3. /\ v \in Seq(Byte) /\ Len(v) = Len(w) - (m + 1) + 1 /\ v[1] = x[1]
      /\ \A i \in 1 .. Len(w) - (m + 1) : v[1 + i] = w[(m + 1) + i]
  <2>a. Len(w) \in Nat BY LenProperties
  <2>1. 2 + 1 = 3 /\ m \in Nat /\ 1 \in Nat /\ 1 <= m /\ 1 <= 1 /\ m + 1 <= Len(w)
        /\ Len(x) = Len(w) - m + 1 /\ \A i \in 1 .. Len(w) - m : x[1 + i] = w[m + i]
    <3>1. m \in Nat /\ 1 <= m /\ m + 1 <= Len(w) BY <1>1, <2>a
    <3>2. QED BY <1>2, <3>1
  <2>2. Advanced(w, x, <<x[1]>> \o SubSeq(x, 2 + 1, Len(x)), m + 1) BY <2>1, AdvanceX
  <2>3. v = <<x[1]>> \o SubSeq(x, 2 + 1, Len(x)) BY <2>1
  <2> HIDE DEF v
  <2>4. QED BY <2>2, <2>3 DEF Advanced
<1>4. ~ (m + 1 < Len(w))
  <2>1. Len(w) \in Nat /\ Len(x) = Len(w) - m + 1 BY <1>2, LenProperties
  <2>2. QED BY <2>1
<1> HIDE DEF v
<1>5. Read(w, r, q, m + 1, v, y, 2) BY <1>1, <1>2, <1>3, <1>4 DEF Read, g
<1>6. QED BY <1>1, <1>3, <1>5 DEF LastRead, v

EscapedRead(w, r, q, m, x, y) ==
  /\ ~ (x[3] > 3)
  /\ m + 2 \in 1 .. Len(w)
  /\ <<x[1]>> \o SubSeq(x, 4, Len(x)) \in Seq(Byte) /\ Append(y, x[3]) \in Seq(Byte)
  /\ Read(w, r, q, m + 2, <<x[1]>> \o SubSeq(x, 4, Len(x)), Append(y, x[3]), IF x[3] # 0 THEN 0 ELSE 1)

LEMMA ReadEscaped ==
  ASSUME NEW w \in Seq(Byte), NEW r \in Seq(Byte), NEW q \in [Nat -> Nat], NEW m \in 1 .. Len(w),
         NEW x \in Seq(Byte), NEW y \in Seq(Byte), Read(w, r, q, m, x, y, 2),
         Len(x) > 1, Len(x) # 2, Sound(w), x[2] = 3
  PROVE  EscapedRead(w, r, q, m, x, y)
<1> DEFINE b == x[3]
           v == <<x[1]>> \o SubSeq(x, 4, Len(x))
           z == Append(y, b)
           g == q[m]
           d == IF b # 0 THEN 0 ELSE 1
<1>1. /\ m \in Nat /\ m >= 1 /\ m + 1 \in 1 .. Len(w) /\ Len(w) \in Nat /\ q[m] \in Nat
      /\ Follows(w, m, 2)
      /\ x[2] = w[m + 1] /\ x[2] \in Byte
      /\ Len(x) = 2 <=> m + 1 = Len(w)
      /\ Len(x) # 2 => m + 2 \in 1 .. Len(w) /\ x[3] = w[m + 2] /\ x[3] \in Byte
  <2>1. NextInView(w, q, m, x, 2) BY ReadAhead
  <2>2. QED BY <2>1 DEF NextInView
<1>2. /\ Restores(w, r, q) /\ g >= 1 /\ Len(x) = Len(w) - m + 1 /\ x[1] = w[1]
      /\ (\A i \in 1 .. Len(w) - m : x[1 + i] = w[m + i])
      /\ Len(y) = g - 1 /\ \A i \in 1 .. g - 1 : y[i] = r[i + 1]
  BY DEF Read
<1>b. Restores(w, r, q) /\ w[m + 1] = 3 /\ m \in Nat /\ m + 1 \in 1 .. Len(w) /\ Follows(w, m, 2)
  BY <1>1, <1>2
<1>3. IsEscape(w, m + 1) /\ q[m + 1] = q[m] BY <1>b, EscapeBehind, ZenonT(60)
<1>4. m + 2 \in 1 .. Len(w) /\ b = w[m + 2] /\ b \in Byte /\ g \in Nat BY <1>1
<1>5. (m + 2) - 1 = m + 1 /\ (m + 2) - 2 = m /\ (m + 1) + 1 = m + 2 /\ m + 1 \in 1 .. Len(w) - 1
      /\ (m + 1) - 1 = m /\ (m + 1) - 2 = m - 1 /\ m + 2 >= 2
  BY <1>1, <1>4
<1>6. IsEscape(w, m + 1) BY <1>3
<1>7. b <= 3
  <2>1. w[(m + 1) + 1] <= 3 BY <1>5, <1>6 DEF Sound
  <2>2. QED BY <1>4, <1>5, <2>1
<1>a. w[(m + 2) - 1] = 3 BY <1>5, <1>b
<1>8. ~ IsEscape(w, m + 2) BY <1>a DEF IsEscape
<1>9. q[m + 2] = g + 1 /\ b = r[g + 1]
  <2>1. q[m + 2] = q[(m + 2) - 1] + 1 /\ w[m + 2] = r[q[m + 2]] BY <1>2, <1>4, <1>8 DEF Restores
  <2>2. QED BY <1>3, <1>4, <1>5, <2>1
<1>10. /\ v \in Seq(Byte) /\ Len(v) = Len(w) - (m + 2) + 1 /\ v[1] = x[1]
       /\ \A i \in 1 .. Len(w) - (m + 2) : v[1 + i] = w[(m + 2) + i]
  <2>1. 2 + 2 = 4 /\ m \in Nat /\ 2 \in Nat /\ 1 <= m /\ 1 <= 2 /\ m + 2 <= Len(w)
        /\ Len(x) = Len(w) - m + 1 /\ \A i \in 1 .. Len(w) - m : x[1 + i] = w[m + i]
    BY <1>1, <1>2, <1>4
  <2>2. Advanced(w, x, <<x[1]>> \o SubSeq(x, 2 + 2, Len(x)), m + 2) BY <2>1, AdvanceX
  <2>3. v = <<x[1]>> \o SubSeq(x, 2 + 2, Len(x)) BY <2>1
  <2> HIDE DEF v
  <2>4. QED BY <2>2, <2>3 DEF Advanced
<1>11. /\ z \in Seq(Byte) /\ Len(z) = (g + 1) - 1 /\ \A i \in 1 .. (g + 1) - 1 : z[i] = r[i + 1]
  <2> HIDE DEF b, g
  <2>1. QED BY <1>2, <1>4, <1>9, AdvanceY, ZenonT(30)
<1> HIDE DEF b, v, z, g
<1>12. Follows(w, m + 2, d)
  <2>1. CASE b # 0 BY <1>4, <2>1 DEF Follows
  <2>2. CASE b = 0
    <3>1. w[m + 2] = 0 /\ w[(m + 2) - 1] # 0 /\ d = 1 BY <1>4, <1>a, <2>2
    <3>2. QED BY <1>5, <3>1 DEF Follows
  <2>3. QED BY <2>1, <2>2
<1> HIDE DEF d
<1>13. q[m + 2] >= 1 BY <1>4, <1>9
<1>14. Read(w, r, q, m + 2, v, z, d) BY <1>2, <1>9, <1>10, <1>11, <1>12, <1>13 DEF Read
<1>15. ~ (b > 3)
  <2>1. b \in Byte /\ b <= 3 BY <1>4, <1>7
  <2>2. QED BY <2>1 DEF Byte
<1>16. QED BY <1>4, <1>10, <1>11, <1>14, <1>15 DEF EscapedRead, b, v, z, d

(* What is left of v, n bytes long, without the zeros at its end.           *)
LEMMA LastOne ==
  ASSUME NEW v, NEW n \in Nat, NEW m \in 0 .. n, m = 0 \/ v[m] # 0, \A k \in m + 1 .. n : v[k] = 0
  PROVE  (CHOOSE j \in 0 .. n : (j = 0 \/ v[j] # 0) /\ \A k \in j + 1 .. n : v[k] = 0) = m
<1> DEFINE Fits(j) == (j = 0 \/ v[j] # 0) /\ \A k \in j + 1 .. n : v[k] = 0
<1>1. \E j \in 0 .. n : Fits(j) OBVIOUS
<1>2. ASSUME NEW j \in 0 .. n, Fits(j) PROVE j = m
  <2>1. CASE j < m
    <3>1. m \in j + 1 .. n /\ m # 0 BY <2>1
    <3>2. QED BY <1>2, <3>1
  <2>2. CASE m < j
    <3>1. j \in m + 1 .. n /\ j # 0 BY <2>2
    <3>2. QED BY <1>2, <3>1
  <2>3. QED BY <2>1, <2>2
<1> DEFINE c == CHOOSE j \in 0 .. n : Fits(j)
<1>3. c \in 0 .. n /\ Fits(c) BY <1>1
<1>4. c = m BY <1>2, <1>3
<1>5. QED BY <1>4

(* When all is read, the unit is there; RBSPtoSODB drops the zeros that     *)
(* cabac_zero_words stand for.                                              *)
LEMMA RestoringEnd ==
  ASSUME NEW w, NEW u, NEW x, NEW y, NEW c, Restoring(w, Unit(u), x, y, c), IsUnit(u), Len(x) <= 1
  PROVE  x # <<>> /\ x \o RBSPtoSODB(y) = Unit(u)
<1>1. w \in Seq(Byte) /\ x \in Seq(Byte) /\ y \in Seq(Byte) BY DEF Restoring
<1>2. PICK n \in Nat, q \in [Nat -> Nat], m \in 1 .. Len(w) :
        Read(w, Unit(u) \o Zeros(2 * n), q, m, x, y, c)
  BY DEF Restoring
<1> DEFINE U == Unit(u)
           r == U \o Zeros(2 * n)
           e == Len(U)
           z == 2 * n
<1>3. U \in Seq(Byte) /\ e >= 2 /\ e \in Nat /\ U[e] # 0 /\ z \in Nat BY LenProperties DEF IsUnit
<1>4. /\ r \in Seq(Byte) /\ Len(r) = e + z
      /\ (\A i \in 1 .. e : r[i] = U[i]) /\ \A i \in 1 .. z : r[e + i] = 0
  <2>1. Zeros(z) \in Seq(Byte) /\ Len(Zeros(z)) = z /\ \A k \in 1 .. z : Zeros(z)[k] = 0
    BY <1>3, ZerosAre
  <2> DEFINE o == Zeros(z)
  <2> HIDE DEF o
  <2>2. /\ U \o o \in Seq(Byte) /\ Len(U \o o) = Len(U) + Len(o)
        /\ (\A i \in 1 .. Len(U) : (U \o o)[i] = U[i])
        /\ \A i \in 1 .. Len(o) : (U \o o)[Len(U) + i] = o[i]
    <3>1. o \in Seq(Byte) BY <2>1 DEF o
    <3>2. QED BY <1>3, <3>1, Joins
  <2>3. r = U \o o BY DEF o
  <2>4. Len(o) = z /\ \A k \in 1 .. z : o[k] = 0 BY <2>1 DEF o
  <2> HIDE DEF r, U, z
  <2>5. QED BY <2>2, <2>3, <2>4
<1>5. Read(w, r, q, m, x, y, c) BY <1>2
<1>a. e = Len(U) OBVIOUS
<1> HIDE DEF r, U, z, e
<1>6. /\ Restores(w, r, q) /\ Len(x) = Len(w) - m + 1 /\ x[1] = w[1]
      /\ Len(y) = q[m] - 1 /\ \A i \in 1 .. q[m] - 1 : y[i] = r[i + 1]
  BY <1>5 DEF Read
<1>7. m = Len(w) /\ Len(x) = 1 /\ 1 \in 1 .. Len(w)
  <2>1. Len(w) \in Nat /\ Len(x) \in Nat BY <1>1, LenProperties
  <2>2. QED BY <1>6, <2>1
<1>8. q[m] = e + z BY <1>4, <1>6, <1>7 DEF Restores
<1>9. x[1] = U[1]
  <2>1. ~ IsEscape(w, 1) /\ 1 - 1 = 0 BY DEF IsEscape
  <2>2. q[0] = 0 /\ q[1] = q[1 - 1] + 1 /\ w[1] = r[q[1]] BY <1>6, <1>7, <2>1 DEF Restores
  <2>3. q[1] = 1 BY <2>1, <2>2
  <2>4. 1 \in 1 .. e BY <1>3
  <2>5. QED BY <1>4, <1>6, <2>2, <2>3, <2>4
<1> DEFINE l == e + z - 1
           d == e - 1
<1>10. l \in Nat /\ d \in 0 .. l /\ d \in Nat /\ d # 0 /\ d + 1 = e /\ (\A i \in 1 .. d : i \in 1 .. l /\ i + 1 \in 1 .. e)
       /\ \A i \in d + 1 .. l : i \in 1 .. l /\ i + 1 = e + (i - d) /\ i - d \in 1 .. z
  <2>1. e \in Nat /\ z \in Nat /\ e >= 2 BY <1>3
  <2>2. l \in Nat /\ d \in 0 .. l /\ d \in Nat /\ d # 0 /\ d + 1 = e BY <2>1
  <2>3. \A i \in 1 .. d : i \in 1 .. l /\ i + 1 \in 1 .. e BY <2>1
  <2>4. \A i \in d + 1 .. l : i \in 1 .. l /\ i + 1 = e + (i - d) /\ i - d \in 1 .. z BY <2>1
  <2> HIDE DEF l, d
  <2>5. QED BY <2>2, <2>3, <2>4
<1>11. Len(y) = l /\ \A i \in 1 .. l : y[i] = r[i + 1]
  <2> DEFINE a == q[m]
  <2>1. a = e + z /\ Len(y) = a - 1 /\ \A i \in 1 .. a - 1 : y[i] = r[i + 1] BY <1>6, <1>8
  <2> HIDE DEF a
  <2>a. a = e + z BY <2>1
  <2>2. a - 1 = l BY <1>3, <2>a
  <2> HIDE DEF l
  <2>3. QED BY <2>1, <2>2
<1> HIDE DEF l, d
<1>12. \A i \in 1 .. d : y[i] = U[i + 1] BY <1>4, <1>10, <1>11
<1>13. y[d] # 0
  <2>1. d \in 1 .. d BY <1>10
  <2>2. y[d] = U[d + 1] BY <1>12, <2>1
  <2>3. QED BY <1>3, <1>10, <2>2
<1>14. \A i \in d + 1 .. l : y[i] = 0
  <2> SUFFICES ASSUME NEW i \in d + 1 .. l PROVE y[i] = 0 OBVIOUS
  <2>1. y[i] = r[i + 1] BY <1>10, <1>11
  <2>2. r[e + (i - d)] = 0 BY <1>4, <1>10
  <2>3. QED BY <1>10, <2>1, <2>2
<1>15. RBSPtoSODB(y) = SubSeq(y, 1, d)
  <2>1. (CHOOSE j \in 0 .. l : (j = 0 \/ y[j] # 0) /\ \A k \in j + 1 .. l : y[k] = 0) = d
    BY <1>10, <1>13, <1>14, LastOne
  <2>2. QED BY <1>11, <2>1 DEF RBSPtoSODB
<1> DEFINE v == SubSeq(y, 1, d)
<1>16. v \in Seq(Byte) /\ Len(v) = d /\ \A i \in 1 .. d : v[i] = y[i]
  <2>1. 1 \in Nat /\ d \in Nat /\ 1 <= 1 /\ 1 <= d + 1 /\ d <= Len(y) BY <1>10, <1>11
  <2>2. v \in Seq(Byte) /\ Len(v) = d + 1 - 1 /\ \A i \in 1 .. d + 1 - 1 : v[i] = y[1 + i - 1]
    BY <1>1, <2>1, Part
  <2>3. d + 1 - 1 = d /\ \A i \in 1 .. d : 1 + i - 1 = i BY <1>10
  <2> HIDE DEF v
  <2>4. QED BY <2>2, <2>3
<1> HIDE DEF v
<1>17. /\ x \o v \in Seq(Byte) /\ Len(x \o v) = Len(x) + Len(v)
       /\ (\A i \in 1 .. Len(x) : (x \o v)[i] = x[i])
       /\ \A i \in 1 .. Len(v) : (x \o v)[Len(x) + i] = v[i]
  BY <1>1, <1>16, Joins
<1> DEFINE g == x \o v
<1>18. g \in Seq(Byte) /\ Len(g) = 1 + d /\ g[1] = x[1] /\ \A i \in 1 .. d : g[1 + i] = v[i]
  <2>1. 1 \in 1 .. 1 OBVIOUS
  <2>2. QED BY <1>7, <1>16, <1>17, <2>1
<1> HIDE DEF g
<1>19. Len(g) = Len(U) BY <1>10, <1>18, <1>a
<1>20. \A i \in 1 .. Len(g) : g[i] = U[i]
  <2> SUFFICES ASSUME NEW i \in 1 .. Len(g) PROVE g[i] = U[i] OBVIOUS
  <2>1. i = 1 \/ (i - 1 \in 1 .. d /\ i = 1 + (i - 1) /\ i = (i - 1) + 1)
    <3>1. Len(g) = 1 + d /\ d \in Nat BY <1>10, <1>18
    <3>2. i \in 1 .. 1 + d BY <3>1
    <3>3. QED BY <3>1, <3>2
  <2>2. CASE i = 1 BY <1>9, <1>18, <2>2
  <2>3. CASE i # 1
    <3>1. i - 1 \in 1 .. d /\ i = 1 + (i - 1) /\ i = (i - 1) + 1 BY <2>1, <2>3
    <3>2. g[1 + (i - 1)] = v[i - 1] /\ v[i - 1] = y[i - 1] /\ y[i - 1] = U[(i - 1) + 1]
      BY <1>12, <1>16, <1>18, <3>1
    <3>3. QED BY <3>1, <3>2
  <2>4. QED BY <2>2, <2>3
<1>21. g = U BY <1>3, <1>18, <1>19, <1>20, SeqEqual
<1>22. x # <<>>
  <2>1. x = <<>> => Len(x) = 0 OBVIOUS
  <2>2. Len(x) = 1 BY <1>7
  <2>3. QED BY <2>1, <2>2
<1>23. QED BY <1>15, <1>21, <1>22 DEF g, v, U

-----------------------------------------------------------------------------
(* Where the units lie.                                                     *)

UnitLies(F, S, s, t, k) ==
  /\ k \in Nat /\ k - 1 \in Nat /\ s[k] \in Nat /\ t[k] \in Nat /\ t[k - 1] \in Nat
  /\ t[k - 1] + 3 <= s[k] /\ s[k] < t[k] /\ t[k] <= Len(F) /\ s[k] >= 3
  /\ F[s[k]] = 1 /\ F[t[k]] # 0
  /\ \A i \in t[k - 1] + 1 .. s[k] - 1 : F[i] = 0
  /\ IsUnit(S[k]) /\ IsWritten(SubSeq(F, s[k] + 1, t[k]), S[k])

LEMMA Lies ==
  ASSUME NEW F \in Seq(Byte), NEW S, NEW s \in [Nat -> Nat], NEW t \in [Nat -> Nat],
         Lay(F, S, s, t), NEW k \in 1 .. Len(S)
  PROVE  UnitLies(F, S, s, t, k)
<1>1. k \in Nat /\ k - 1 \in Nat OBVIOUS
<1>2. /\ t[k - 1] + 3 <= s[k] /\ s[k] < t[k] /\ t[k] <= Len(F)
      /\ F[s[k]] = 1 /\ F[t[k]] # 0
      /\ \A i \in t[k - 1] + 1 .. s[k] - 1 : F[i] = 0
      /\ IsUnit(S[k]) /\ IsWritten(SubSeq(F, s[k] + 1, t[k]), S[k])
  BY DEF Lay
<1>3. s[k] \in Nat /\ t[k] \in Nat /\ t[k - 1] \in Nat BY <1>1
<1>4. s[k] >= 3
  <2> DEFINE o == t[k - 1]
             a == s[k]
  <2>1. o \in Nat /\ a \in Nat /\ o + 3 <= a BY <1>2, <1>3
  <2> HIDE DEF o, a
  <2>2. a >= 3 BY <2>1
  <2>3. QED BY <2>2 DEF a
<1>5. QED BY <1>1, <1>2, <1>3, <1>4 DEF UnitLies

(* What is between unit k and the one behind it.                            *)
NextLies(F, s, t, k) ==
  /\ s[k + 1] \in Nat /\ t[k] + 3 <= s[k + 1] /\ s[k + 1] < Len(F) /\ F[s[k + 1]] = 1
  /\ \A i \in t[k] + 1 .. s[k + 1] - 1 : F[i] = 0

LEMMA Gap ==
  ASSUME NEW F \in Seq(Byte), NEW S, Len(S) \in Nat, NEW s \in [Nat -> Nat], NEW t \in [Nat -> Nat],
         Lay(F, S, s, t), NEW k \in 1 .. Len(S), k < Len(S)
  PROVE  NextLies(F, s, t, k)
<1> DEFINE j == k + 1
<1>1. j \in 1 .. Len(S) /\ j - 1 = k OBVIOUS
<1> HIDE DEF j
<1>2. /\ j \in Nat /\ j - 1 \in Nat /\ s[j] \in Nat /\ t[j] \in Nat /\ t[j - 1] \in Nat
      /\ t[j - 1] + 3 <= s[j] /\ s[j] < t[j] /\ t[j] <= Len(F) /\ s[j] >= 3
      /\ F[s[j]] = 1 /\ F[t[j]] # 0
      /\ \A i \in t[j - 1] + 1 .. s[j] - 1 : F[i] = 0
      /\ IsUnit(S[j]) /\ IsWritten(SubSeq(F, s[j] + 1, t[j]), S[j])
  BY <1>1, Lies DEF UnitLies
<1>3. s[j] < Len(F)
  <2> DEFINE a == s[j]
             b == t[j]
             f == Len(F)
  <2>1. a \in Nat /\ b \in Nat /\ f \in Nat /\ a < b /\ b <= f BY <1>2, LenProperties
  <2> HIDE DEF a, b, f
  <2>2. a < f BY <2>1
  <2>3. QED BY <2>2 DEF a, f
<1>4. /\ s[j] \in Nat /\ t[k] + 3 <= s[j] /\ s[j] < Len(F) /\ F[s[j]] = 1
      /\ \A i \in t[k] + 1 .. s[j] - 1 : F[i] = 0
  BY <1>1, <1>2, <1>3
<1>5. QED BY <1>4 DEF NextLies, j

LEMMA Within ==
  ASSUME NEW F \in Seq(Byte), NEW a \in Nat, NEW b \in Nat, a < b, b <= Len(F)
  PROVE  /\ SubSeq(F, a + 1, b) \in Seq(Byte) /\ Len(SubSeq(F, a + 1, b)) = b - a
         /\ \A i \in 1 .. b - a : SubSeq(F, a + 1, b)[i] = F[a + i]
<1> DEFINE v == SubSeq(F, a + 1, b)
<1>1. a + 1 \in Nat /\ 1 <= a + 1 /\ a + 1 <= b + 1 OBVIOUS
<1>2. /\ v \in Seq(Byte) /\ Len(v) = b + 1 - (a + 1)
      /\ \A i \in 1 .. b + 1 - (a + 1) : v[i] = F[(a + 1) + i - 1]
  BY <1>1, Part
<1>3. b + 1 - (a + 1) = b - a /\ \A i \in 1 .. b - a : (a + 1) + i - 1 = a + i OBVIOUS
<1> HIDE DEF v
<1>4. v \in Seq(Byte) /\ Len(v) = b - a /\ \A i \in 1 .. b - a : v[i] = F[a + i] BY <1>2, <1>3
<1>5. QED BY <1>4 DEF v

(* A start code that the reader finds is that of the next unit.             *)
LEMMA FoundNext ==
  ASSUME NEW F \in Seq(Byte), NEW S, Len(S) \in Nat, NEW s \in [Nat -> Nat], NEW t \in [Nat -> Nat],
         Lay(F, S, s, t), NEW k \in 1 .. Len(S)
  PROVE  \A P \in Nat :
           /\ s[k] + 3 <= P /\ P <= Len(F) /\ (k < Len(S) => P <= s[k + 1])
           /\ F[P] = 1 /\ F[P - 1] = 0 /\ F[P - 2] = 0
           => k < Len(S) /\ P = s[k + 1]
<1>0. k < Len(S) => NextLies(F, s, t, k) BY Gap
<1> SUFFICES ASSUME NEW P \in Nat, s[k] + 3 <= P, P <= Len(F), k < Len(S) => P <= s[k + 1],
                    F[P] = 1, F[P - 1] = 0, F[P - 2] = 0
             PROVE  k < Len(S) /\ P = s[k + 1]
  OBVIOUS
<1> DEFINE a == s[k]
           b == t[k]
           f == Len(F)
           W == SubSeq(F, a + 1, b)
<1>1. a \in Nat /\ b \in Nat /\ a < b /\ b <= f /\ k \in Nat /\ IsWritten(W, S[k]) BY Lies DEF UnitLies
<1>2. f \in Nat BY LenProperties
<1>3. W \in Seq(Byte) /\ Len(W) = b - a /\ \A i \in 1 .. b - a : W[i] = F[a + i]
  <2> HIDE DEF a, b
  <2>1. b <= Len(F) BY <1>1
  <2>2. QED BY <1>1, <2>1, Within
<1>4. Clean(W) BY <1>1 DEF IsWritten, Codes, Sound
<1>5. a + 3 <= P /\ P <= f OBVIOUS
<1> HIDE DEF a, b, f, W
<1>6. ~ (P <= b)
  <2> SUFFICES ASSUME P <= b PROVE FALSE OBVIOUS
  <2> DEFINE i == P - a - 2
  <2>1. /\ i \in 1 .. (b - a) - 2 /\ i \in 1 .. b - a /\ i + 1 \in 1 .. b - a /\ i + 2 \in 1 .. b - a
        /\ a + i = P - 2 /\ a + (i + 1) = P - 1 /\ a + (i + 2) = P
    BY <1>1, <1>5
  <2> HIDE DEF i
  <2>2. W[i] = 0 /\ W[i + 1] = 0 /\ W[i + 2] = 1 BY <1>3, <2>1
  <2>3. i \in 1 .. Len(W) - 2 BY <1>3, <2>1
  <2>4. ~ (W[i + 2] < 3) BY <1>4, <2>2, <2>3 DEF Clean
  <2>5. 1 < 3 OBVIOUS
  <2>6. QED BY <2>2, <2>4, <2>5, Zenon
<1>7. P \in b + 1 .. f BY <1>1, <1>2, <1>5, <1>6
<1>8. k < Len(S)
  <2> SUFFICES ASSUME ~ (k < Len(S)) PROVE FALSE OBVIOUS
  <2>1. k = Len(S) BY <1>1
  <2>2. \A i \in t[Len(S)] + 1 .. Len(F) : F[i] = 0 BY DEF Lay
  <2>3. P \in t[Len(S)] + 1 .. Len(F) BY <1>7, <2>1 DEF b, f
  <2>4. F[P] = 0 BY <2>2, <2>3
  <2>5. 0 # 1 OBVIOUS
  <2>6. QED BY <2>4, <2>5, Zenon
<1> DEFINE c == s[k + 1]
<1>9. c \in Nat /\ P <= c /\ \A i \in b + 1 .. c - 1 : F[i] = 0
  <2>1. /\ s[k + 1] \in Nat /\ t[k] + 3 <= s[k + 1] /\ s[k + 1] < Len(F) /\ F[s[k + 1]] = 1
        /\ \A i \in t[k] + 1 .. s[k + 1] - 1 : F[i] = 0
    BY <1>0, <1>8 DEF NextLies
  <2>2. QED BY <1>8, <2>1 DEF b
<1> HIDE DEF c
<1>10. ~ (P < c)
  <2> SUFFICES ASSUME P < c PROVE FALSE OBVIOUS
  <2>1. P \in b + 1 .. c - 1 BY <1>1, <1>7, <1>9
  <2>2. F[P] = 0 BY <1>9, <2>1
  <2>3. 0 # 1 OBVIOUS
  <2>4. QED BY <2>2, <2>3, Zenon
<1>11. P = c BY <1>9, <1>10
<1>12. QED BY <1>8, <1>11 DEF c

-----------------------------------------------------------------------------
(* The decoder, while it reads: the first P bytes of the file are used, the *)
(* first arrived units were returned, and the unit behind them is the one   *)
(* that is read.                                                            *)

NotStarted ==
  /\ annex_b = [is_eof |-> FALSE, nextstartcodebytes |-> 0, IsFirst |-> TRUE]
  /\ arrived = 0 /\ got = <<>> /\ Buf = <<>>

(* In front of the first start code.                                        *)
AtStart(s, P) ==
  /\ arrived = 0 /\ annex_b.nextstartcodebytes = 0 /\ ~ annex_b.is_eof /\ annex_b.IsFirst
  /\ Len(sent) >= 1 /\ P <= s[1]
  /\ Buf \in Seq(Byte) /\ Len(Buf) = P /\ \A i \in 1 .. P : Buf[i] = file[i]

AtEnd ==
  /\ arrived = Len(sent) /\ annex_b.nextstartcodebytes = 0 /\ annex_b.is_eof /\ Buf = <<>>

(* Behind a start code that was found with the unit before.                 *)
AtCode(s, P) ==
  /\ arrived \in 0 .. Len(sent) - 1 /\ annex_b.nextstartcodebytes \in {3, 4} /\ ~ annex_b.is_eof
  /\ P = s[arrived + 1] /\ Buf \in {<<>>, StartCode(annex_b.nextstartcodebytes)}

(* B holds a start code of l bytes and n bytes of F behind place a.         *)
Scanned(F, B, l, a, n) ==
  /\ B \in Seq(Byte) /\ l \in Nat /\ l >= 3 /\ n \in Nat /\ Len(B) >= l + n
  /\ B[l] = 1 /\ \A i \in 1 .. n : B[l + i] = F[a + i]

(* In a unit, or behind it, but not behind the next start code.             *)
AtScan(s, P) ==
  /\ arrived \in 0 .. Len(sent) - 1
  /\ \E n \in Nat :
       /\ Scanned(file, Buf, nalu.startcodeprefix_len, s[arrived + 1], n)
       /\ P = s[arrived + 1] + n
       /\ Len(Buf) = IF annex_b.is_eof THEN nalu.startcodeprefix_len + n + 1
                     ELSE nalu.startcodeprefix_len + n
       /\ IF annex_b.is_eof THEN arrived + 1 = Len(sent) /\ P = Len(file)
          ELSE arrived + 1 < Len(sent) => P <= s[arrived + 2]

(* What is known of what is behind the unit that was found.                 *)
Beyond(s, P) ==
  \/ annex_b.nextstartcodebytes = 0 /\ annex_b.is_eof /\ arrived + 1 = Len(sent)
  \/ /\ annex_b.nextstartcodebytes \in {3, 4} /\ ~ annex_b.is_eof
     /\ arrived + 1 < Len(sent) /\ P = s[arrived + 2]

AtUnit(s, t, P) ==
  /\ arrived \in 0 .. Len(sent) - 1 /\ Buf = <<>> /\ Beyond(s, P)
  /\ Restoring(SubSeq(file, s[arrived + 1] + 1, t[arrived + 1]), Unit(sent[arrived + 1]),
               nalu.buf, nalu.rbsp, count)

At(s, t, P) ==
  /\ pc = "prefix" => AtStart(s, P) \/ AtEnd \/ AtCode(s, P)
  /\ pc = "scan" => AtScan(s, P)
  /\ pc = "unescape" => AtUnit(s, t, P)

Reading(s, t, P) == Lay(file, sent, s, t) /\ Ahead(file, iobuffer, unread, P) /\ At(s, t, P)

DecoderInv ==
  /\ pc # "error"
  /\ pc \in {"write", "payload"} => NotStarted
  /\ pc \in {"prefix", "scan", "unescape"} =>
       \E s, t \in [Nat -> Nat] : \E P \in Nat : Reading(s, t, P)

(* The types that the steps of the decoder need.                            *)
DecoderTypes ==
  /\ nalu \in [header : Headers \cup {<<>>}, startcodeprefix_len : Nat,
               rbsp : Seq(Byte), buf : Seq(Byte)]
  /\ annex_b \in [is_eof : BOOLEAN, nextstartcodebytes : {0, 3, 4}, IsFirst : BOOLEAN]

LEMMA OpenStep == FileInv /\ DecoderInv /\ Open => DecoderInv'
<1> SUFFICES ASSUME FileInv, DecoderInv, Open PROVE DecoderInv' OBVIOUS
<1>1. pc = "write" /\ pc' = "prefix" /\ (sent = <<>> => file = <<>>) BY DEF Open
<1>2. NotStarted BY <1>1 DEF DecoderInv
<1>3. file \in Seq(Byte) /\ sent \in Seq(SentUnits) BY DEF FileInv
<1>4. PICK s \in [Nat -> Nat], t \in [Nat -> Nat] : Lay(file, sent, s, t) BY DEF FileInv
<1>5. /\ file' = file /\ sent' = sent /\ Buf' = Buf /\ arrived' = arrived
      /\ iobuffer' = Chunk(file) /\ unread' = Rest(file)
      /\ annex_b' = [annex_b EXCEPT !.is_eof = file = <<>>]
  BY DEF Open
<1>6. /\ annex_b'.is_eof = (file = <<>>) /\ annex_b'.nextstartcodebytes = 0 /\ annex_b'.IsFirst
      /\ arrived' = 0 /\ Buf' = <<>>
  BY <1>2, <1>5 DEF NotStarted
<1>7. Ahead(file, Chunk(file), Rest(file), 0)
  <2>1. Len(<<>>) = 0 /\ <<>> \in Seq(Byte) /\ Len(file) \in Nat BY <1>3, LenProperties
  <2>2. 0 + 0 + Len(file) = Len(file) /\ \A i \in 1 .. Len(file) : 0 + 0 + i = i BY <2>1
  <2>3. Ahead(file, <<>>, file, 0) BY <1>3, <2>1, <2>2 DEF Ahead
  <2>4. QED BY <1>3, <2>3, Refilled
<1>8. AtStart(s, 0)' \/ AtEnd'
  <2>1. CASE sent = <<>>
    <3>1. file = <<>> /\ Len(sent) = 0 BY <1>1, <2>1
    <3>2. QED BY <1>5, <1>6, <3>1 DEF AtEnd
  <2>2. CASE sent # <<>>
    <3>1. Len(sent) \in Nat \ {0} BY <1>3, <2>2, EmptySeq
    <3>2. 1 \in 1 .. Len(sent) /\ Len(sent) >= 1 BY <3>1
    <3>3. s[1] \in Nat /\ t[1] \in Nat /\ s[1] < t[1] /\ t[1] <= Len(file) BY <1>3, <1>4, <3>2, Lies DEF UnitLies
    <3>4. file # <<>>
      <4> DEFINE a == s[1]
                 b == t[1]
      <4>1. a \in Nat /\ b \in Nat /\ a < b /\ b <= Len(file) BY <3>3
      <4> HIDE DEF a, b
      <4>2. Len(file) # 0 BY <4>1
      <4>3. file = <<>> => Len(file) = 0 OBVIOUS
      <4>4. QED BY <4>2, <4>3
    <3>5. 0 <= s[1] BY <3>3
    <3>6. <<>> \in Seq(Byte) /\ Len(<<>>) = 0 /\ \A i \in 1 .. 0 : FALSE OBVIOUS
    <3>7. QED BY <1>5, <1>6, <3>2, <3>4, <3>5, <3>6 DEF AtStart
  <2>3. QED BY <2>1, <2>2
<1>9. Reading(s, t, 0)' BY <1>1, <1>4, <1>5, <1>7, <1>8 DEF Reading, At
<1>10. QED BY <1>1, <1>9 DEF DecoderInv

LEMMA PutBackStep == DecoderInv /\ PutBackStartCode => DecoderInv'
<1> SUFFICES ASSUME DecoderInv, PutBackStartCode PROVE DecoderInv' OBVIOUS
<1>1. /\ pc = "prefix" /\ pc' = "prefix" /\ annex_b.nextstartcodebytes # 0
      /\ Buf' = StartCode(annex_b.nextstartcodebytes) /\ file' = file /\ sent' = sent
      /\ iobuffer' = iobuffer /\ unread' = unread /\ annex_b' = annex_b /\ arrived' = arrived
  BY DEF PutBackStartCode, written
<1>2. PICK s \in [Nat -> Nat], t \in [Nat -> Nat] : \E P \in Nat : Reading(s, t, P)
  BY <1>1 DEF DecoderInv
<1>3. PICK P \in Nat : Reading(s, t, P) BY <1>2
<1>4. AtCode(s, P) BY <1>1, <1>3 DEF Reading, At, AtStart, AtEnd
<1>5. AtCode(s, P)' BY <1>1, <1>4 DEF AtCode
<1>6. Reading(s, t, P)' BY <1>1, <1>3, <1>5 DEF Reading, At
<1>7. QED BY <1>1, <1>6 DEF DecoderInv

LEMMA EndStep == DecoderInv /\ EndOfFile => DecoderInv'
<1> SUFFICES ASSUME DecoderInv, EndOfFile PROVE DecoderInv' OBVIOUS
<1>1. /\ pc = "prefix" /\ annex_b.is_eof /\ annex_b.nextstartcodebytes = 0
      /\ pc' = IF Buf = <<>> THEN "end" ELSE "error"
  BY DEF EndOfFile
<1>2. PICK s \in [Nat -> Nat], t \in [Nat -> Nat] : \E P \in Nat : Reading(s, t, P)
  BY <1>1 DEF DecoderInv
<1>3. PICK P \in Nat : Reading(s, t, P) BY <1>2
<1>4. AtEnd BY <1>1, <1>3 DEF Reading, At, AtStart, AtCode
<1>5. pc' = "end" BY <1>1, <1>4 DEF AtEnd
<1>6. QED BY <1>5 DEF DecoderInv

LEMMA OneByte ==
  ASSUME NEW v \in Seq(Byte), NEW b \in Byte
  PROVE  /\ Append(v, b) \in Seq(Byte) /\ Len(Append(v, b)) = Len(v) + 1 /\ Len(v) \in Nat
         /\ \A i \in 1 .. Len(v) : Append(v, b)[i] = v[i]
         /\ Append(v, b)[Len(v) + 1] = b
BY AppendProperties, LenProperties

LEMMA ReadPrefixStep == FileInv /\ DecoderInv /\ ReadPrefix => DecoderInv'
<1> SUFFICES ASSUME FileInv, DecoderInv, ReadPrefix PROVE DecoderInv' OBVIOUS
<1>1. /\ pc = "prefix" /\ pc' = "prefix" /\ annex_b.nextstartcodebytes = 0 /\ ~ annex_b.is_eof
      /\ (Buf # <<>> => Buf[Len(Buf)] = 0) /\ getfbyte
      /\ file' = file /\ sent' = sent /\ arrived' = arrived
  BY DEF ReadPrefix, written
<1>2. PICK s \in [Nat -> Nat], t \in [Nat -> Nat] : \E P \in Nat : Reading(s, t, P)
  BY <1>1 DEF DecoderInv
<1>3. PICK P \in Nat : Reading(s, t, P) BY <1>2
<1>4. AtStart(s, P)
  <2>1. AtStart(s, P) \/ AtEnd \/ AtCode(s, P) BY <1>1, <1>3 DEF Reading, At
  <2>2. ~ AtEnd BY <1>1 DEF AtEnd
  <2>3. ~ AtCode(s, P) BY <1>1 DEF AtCode
  <2>4. QED BY <2>1, <2>2, <2>3
<1>5. Lay(file, sent, s, t) /\ Ahead(file, iobuffer, unread, P) BY <1>3 DEF Reading
<1>6. file \in Seq(Byte) /\ sent \in Seq(SentUnits) /\ Len(sent) \in Nat /\ Len(file) \in Nat
  BY LenProperties DEF FileInv
<1>7. /\ Len(sent) >= 1 /\ P <= s[1] /\ Buf \in Seq(Byte) /\ Len(Buf) = P
      /\ \A i \in 1 .. P : Buf[i] = file[i]
  BY <1>4 DEF AtStart
<1>8. 1 \in 1 .. Len(sent) BY <1>6, <1>7
<1> DEFINE a == s[1]
           f == Len(file)
<1>9. a \in Nat /\ a >= 3 /\ a < f /\ file[a] = 1
  <2>0. UnitLies(file, sent, s, t, 1) BY <1>5, <1>6, <1>8, Lies
  <2>1. s[1] \in Nat /\ t[1] \in Nat /\ s[1] < t[1] /\ t[1] <= f /\ s[1] >= 3 /\ file[s[1]] = 1
    BY <2>0 DEF UnitLies
  <2> DEFINE b == t[1]
  <2>2. a \in Nat /\ b \in Nat /\ a < b /\ b <= f /\ a >= 3 /\ f \in Nat BY <1>6, <2>1
  <2> HIDE DEF a, b, f
  <2>3. a < f BY <2>2
  <2>4. QED BY <2>1, <2>2, <2>3 DEF a
<1>a. P <= a /\ f \in Nat BY <1>6, <1>7
<1> HIDE DEF a, f
<1>10. P < a
  <2> SUFFICES ASSUME ~ (P < a) PROVE FALSE OBVIOUS
  <2>1. P = a /\ P \in 1 .. P /\ P # 0 BY <1>9, <1>a
  <2>2. Buf[P] = 1 BY <1>7, <1>9, <2>1
  <2>3. Buf # <<>>
    <3>1. Buf = <<>> => Len(Buf) = 0 OBVIOUS
    <3>2. QED BY <1>7, <2>1, <3>1
  <2>4. Buf[P] = 0 BY <1>1, <1>7, <2>3
  <2>5. QED BY <2>2, <2>4
<1>11. P # f /\ P + 1 \in Nat /\ P + 1 <= a /\ P + 1 \in 1 .. f BY <1>9, <1>10, <1>a
<1>12. Buf' = Append(Buf, file[P + 1]) /\ Ahead(file, iobuffer', unread', P + 1) /\ annex_b' = annex_b
  BY <1>1, <1>5, <1>6, <1>11, NextByte DEF f
<1>13. file[P + 1] \in Byte
  <2>1. P + 1 \in 1 .. Len(file) BY <1>11 DEF f
  <2>2. QED BY <1>6, <2>1, ElementOfSeq
<1>14. Buf' \in Seq(Byte) /\ Len(Buf') = P + 1 /\ \A i \in 1 .. P + 1 : Buf'[i] = file[i]
  <2>1. /\ Append(Buf, file[P + 1]) \in Seq(Byte) /\ Len(Append(Buf, file[P + 1])) = Len(Buf) + 1
        /\ (\A i \in 1 .. Len(Buf) : Append(Buf, file[P + 1])[i] = Buf[i])
        /\ Append(Buf, file[P + 1])[Len(Buf) + 1] = file[P + 1]
    BY <1>7, <1>13, OneByte
  <2>2. /\ Buf' \in Seq(Byte) /\ Len(Buf') = P + 1 /\ (\A i \in 1 .. P : Buf'[i] = Buf[i])
        /\ Buf'[P + 1] = file[P + 1]
    BY <1>7, <1>12, <2>1
  <2>3. \A i \in 1 .. P + 1 : i \in 1 .. P \/ i = P + 1 OBVIOUS
  <2>4. QED BY <1>7, <2>2, <2>3
<1>15. AtStart(s, P + 1)' BY <1>1, <1>4, <1>11, <1>12, <1>14 DEF AtStart, a
<1>16. Reading(s, t, P + 1)' BY <1>1, <1>5, <1>12, <1>15 DEF Reading, At
<1>17. QED BY <1>1, <1>11, <1>16 DEF DecoderInv

(* A start code at the beginning is accepted.                               *)
LEMMA Accepted ==
  ASSUME FileInv, DecoderTypes, CheckPrefix, NEW s \in [Nat -> Nat], NEW t \in [Nat -> Nat], NEW P \in Nat,
         Lay(file, sent, s, t), Ahead(file, iobuffer, unread, P), arrived \in 0 .. Len(sent) - 1,
         P = s[arrived + 1], Buf \in Seq(Byte), Len(Buf) >= 3, Buf[Len(Buf)] = 1,
         annex_b.IsFirst \/ LeadingZeros = 0
  PROVE  DecoderInv'
<1>1. /\ ~ annex_b.is_eof /\ pc' = "scan" /\ annex_b'.is_eof = annex_b.is_eof
      /\ nalu'.startcodeprefix_len = Len(Buf) /\ file' = file /\ sent' = sent /\ Buf' = Buf
      /\ arrived' = arrived /\ iobuffer' = iobuffer /\ unread' = unread
  BY DEF CheckPrefix, DecoderTypes
<1>2. file \in Seq(Byte) /\ sent \in Seq(SentUnits) /\ Len(sent) \in Nat /\ Len(Buf) \in Nat
  BY LenProperties DEF FileInv
<1> DEFINE k == arrived + 1
           l == Len(Buf)
<1>3. k \in 1 .. Len(sent) /\ k \in Nat /\ k + 1 = arrived + 2 BY <1>2
<1>4. Scanned(file, Buf, l, s[k], 0)
  <2>1. 0 \in Nat /\ l >= l + 0 /\ \A i \in 1 .. 0 : FALSE BY <1>2
  <2>2. l \in Nat /\ l >= 3 /\ Buf[l] = 1 BY <1>2
  <2>3. QED BY <2>1, <2>2 DEF Scanned
<1>5. k < Len(sent) => P <= s[k + 1]
  <2> SUFFICES ASSUME k < Len(sent) PROVE P <= s[k + 1] OBVIOUS
  <2>0. k + 1 \in Nat BY <1>3
  <2>1. NextLies(file, s, t, k)
    <3> HIDE DEF k
    <3>1. QED BY <1>2, <1>3, Gap
  <2>2. s[k] \in Nat /\ t[k] \in Nat /\ s[k] < t[k]
    <3> HIDE DEF k
    <3>1. QED BY <1>2, <1>3, Lies DEF UnitLies
  <2> DEFINE a == s[k]
             b == t[k]
             c == s[k + 1]
  <2>3. a \in Nat /\ b \in Nat /\ c \in Nat /\ a < b /\ b + 3 <= c /\ P = a BY <2>1, <2>2 DEF NextLies
  <2> HIDE DEF a, b, c
  <2>4. P <= c BY <2>3
  <2>5. QED BY <2>4 DEF c
<1>6. P = s[k] + 0 /\ Len(Buf) = l + 0
  <2>1. P = s[k] /\ l = Len(Buf) OBVIOUS
  <2> HIDE DEF k, l
  <2>2. P + 0 = P /\ Len(Buf) + 0 = Len(Buf) BY <1>2
  <2>3. QED BY <2>1, <2>2
<1>7. AtScan(s, P)'
  <2>1. Len(Buf) = l + 0 /\ (k < Len(sent) => P <= s[arrived + 2]) BY <1>3, <1>5, <1>6
  <2> HIDE DEF l
  <2>2. \E n \in Nat :
          /\ Scanned(file, Buf, l, s[k], n) /\ P = s[k] + n /\ Len(Buf) = l + n
          /\ k < Len(sent) => P <= s[arrived + 2]
    BY <1>4, <1>6, <2>1
  <2>3. QED BY <1>1, <2>2 DEF AtScan, l
<1>8. Reading(s, t, P)' BY <1>1, <1>7 DEF Reading, At
<1>9. QED BY <1>1, <1>8 DEF DecoderInv

LEMMA CheckPrefixStep == FileInv /\ DecoderInv /\ DecoderTypes /\ CheckPrefix => DecoderInv'
<1> SUFFICES ASSUME FileInv, DecoderInv, DecoderTypes, CheckPrefix PROVE DecoderInv' OBVIOUS
<1>1. pc = "prefix" /\ ~ annex_b.is_eof /\ Buf # <<>> /\ Buf[Len(Buf)] # 0 BY DEF CheckPrefix
<1>2. PICK s \in [Nat -> Nat], t \in [Nat -> Nat] : \E P \in Nat : Reading(s, t, P)
  BY <1>1 DEF DecoderInv
<1>3. PICK P \in Nat : Reading(s, t, P) BY <1>2
<1>4. Lay(file, sent, s, t) /\ Ahead(file, iobuffer, unread, P) BY <1>3 DEF Reading
<1>5. AtStart(s, P) \/ AtCode(s, P)
  <2>1. AtStart(s, P) \/ AtEnd \/ AtCode(s, P) BY <1>1, <1>3 DEF Reading, At
  <2>2. ~ AtEnd BY <1>1 DEF AtEnd
  <2>3. QED BY <2>1, <2>2
<1>6. file \in Seq(Byte) /\ Len(sent) \in Nat BY LenProperties DEF FileInv
<1>7. CASE AtStart(s, P)
  <2>1. /\ arrived = 0 /\ annex_b.IsFirst /\ Len(sent) >= 1 /\ P <= s[1] /\ Buf \in Seq(Byte)
        /\ Len(Buf) = P /\ \A i \in 1 .. P : Buf[i] = file[i]
    BY <1>7 DEF AtStart
  <2>2. 1 \in 1 .. Len(sent) BY <1>6, <2>1
  <2>3. UnitLies(file, sent, s, t, 1) BY <1>4, <1>6, <2>2, Lies
  <2>4. /\ s[1] \in Nat /\ s[1] >= 3 /\ file[s[1]] = 1
        /\ \A i \in t[1 - 1] + 1 .. s[1] - 1 : file[i] = 0
    BY <2>3 DEF UnitLies
  <2>5. t[1 - 1] = 0
    <3>1. 1 - 1 = 0 OBVIOUS
    <3>2. QED BY <1>4, <3>1 DEF Lay
  <2> DEFINE a == s[1]
  <2>6. a \in Nat /\ P <= a /\ a >= 3 BY <2>1, <2>4
  <2>7. P \in 1 .. P
    <3>1. P # 0
      <4>1. Len(Buf) # 0 BY <1>1, <2>1, EmptySeq
      <4>2. QED BY <2>1, <4>1
    <3>2. QED BY <3>1
  <2>8. file[P] # 0 BY <1>1, <2>1, <2>7
  <2>9. P = a
    <3> SUFFICES ASSUME P # a PROVE FALSE OBVIOUS
    <3>1. \A i \in 0 + 1 .. a - 1 : file[i] = 0 BY <2>4, <2>5
    <3> HIDE DEF a
    <3>2. P \in 0 + 1 .. a - 1 BY <2>6, <2>7
    <3>3. QED BY <2>8, <3>1, <3>2
  <2>10. Buf[Len(Buf)] = 1 /\ Len(Buf) >= 3
    <3>1. Buf[P] = file[P] /\ file[P] = 1 BY <2>1, <2>4, <2>7, <2>9
    <3>2. P >= 3 BY <2>6, <2>9
    <3>3. QED BY <2>1, <3>1, <3>2
  <2>11. arrived \in 0 .. Len(sent) - 1 /\ P = s[arrived + 1]
    <3>1. arrived + 1 = 1 /\ 0 \in 0 .. Len(sent) - 1 BY <1>6, <2>1
    <3>2. QED BY <2>1, <2>9, <3>1
  <2>12. QED BY <1>4, <2>1, <2>10, <2>11, Accepted
<1>8. CASE AtCode(s, P)
  <2>1. /\ arrived \in 0 .. Len(sent) - 1 /\ P = s[arrived + 1]
        /\ annex_b.nextstartcodebytes \in {3, 4} /\ Buf = StartCode(annex_b.nextstartcodebytes)
    BY <1>1, <1>8 DEF AtCode
  <2> DEFINE n == annex_b.nextstartcodebytes
  <2>2. n \in {3, 4} /\ Buf = StartCode(n) BY <2>1
  <2> HIDE DEF n
  <2>3. n \in Nat /\ n >= 3 /\ ~ (n > 4) BY <2>2
  <2>4. Buf \in Seq(Byte) /\ Len(Buf) = n /\ Buf[n] = 1 BY <2>2, <2>3, StartCodeIs
  <2>5. Len(Buf) >= 3 /\ Buf[Len(Buf)] = 1 /\ LeadingZeros = 0 BY <2>3, <2>4 DEF LeadingZeros
  <2>6. QED BY <1>4, <2>1, <2>4, <2>5, Accepted
<1>9. QED BY <1>5, <1>7, <1>8

-----------------------------------------------------------------------------
(* The bytes of a unit are read until the next start code or the end.       *)

LEMMA ScannedMore ==
  ASSUME NEW F \in Seq(Byte), NEW B, NEW l, NEW a \in Nat, NEW n, Scanned(F, B, l, a, n), NEW b \in Byte
  PROVE  /\ Len(Append(B, b)) = Len(B) + 1 /\ Len(B) \in Nat /\ l \in Nat /\ n \in Nat
         /\ Scanned(F, Append(B, b), l, a, n)
         /\ Len(B) = l + n /\ b = F[a + n + 1] => Scanned(F, Append(B, b), l, a, n + 1)
<1>1. /\ B \in Seq(Byte) /\ l \in Nat /\ l >= 3 /\ n \in Nat /\ Len(B) >= l + n
      /\ B[l] = 1 /\ \A i \in 1 .. n : B[l + i] = F[a + i]
  BY DEF Scanned
<1> DEFINE G == Append(B, b)
           d == Len(B)
<1>2. /\ G \in Seq(Byte) /\ Len(G) = d + 1 /\ d \in Nat
      /\ (\A i \in 1 .. d : G[i] = B[i]) /\ G[d + 1] = b
  BY <1>1, OneByte
<1>3. d >= l + n BY <1>1
<1> HIDE DEF G, d
<1>4. G[l] = 1
  <2>1. l \in 1 .. d BY <1>1, <1>2, <1>3
  <2>2. QED BY <1>1, <1>2, <2>1
<1>5. \A i \in 1 .. n : G[l + i] = F[a + i]
  <2>1. \A i \in 1 .. n : l + i \in 1 .. d BY <1>1, <1>2, <1>3
  <2>2. QED BY <1>1, <1>2, <2>1
<1>6. Scanned(F, G, l, a, n)
  <2>1. Len(G) >= l + n BY <1>1, <1>2, <1>3
  <2>2. QED BY <1>1, <1>2, <1>4, <1>5, <2>1 DEF Scanned
<1>7. ASSUME d = l + n, b = F[a + n + 1] PROVE Scanned(F, G, l, a, n + 1)
  <2>1. Len(G) >= l + (n + 1) /\ n + 1 \in Nat BY <1>1, <1>2, <1>7
  <2>2. G[l + (n + 1)] = F[a + (n + 1)]
    <3>1. l + (n + 1) = d + 1 /\ a + (n + 1) = a + n + 1 BY <1>1, <1>7
    <3>2. QED BY <1>2, <1>7, <3>1
  <2>3. \A i \in 1 .. n + 1 : i \in 1 .. n \/ i = n + 1 BY <1>1
  <2>4. \A i \in 1 .. n + 1 : G[l + i] = F[a + i] BY <1>5, <2>2, <2>3
  <2>5. QED BY <1>1, <1>2, <1>4, <2>1, <2>4 DEF Scanned
<1>8. QED BY <1>1, <1>2, <1>6, <1>7 DEF G, d

(* The last n bytes of B are those of F up to place P.                      *)
SameTail(F, B, P, n) == \A j \in 0 .. n - 1 : B[Len(B) - j] = F[P - j]

LEMMA ScannedTail ==
  ASSUME NEW F, NEW B, NEW l, NEW a \in Nat, NEW n, Scanned(F, B, l, a, n), Len(B) = l + n
  PROVE  SameTail(F, B, a + n, n)
<1> USE DEF SameTail
<1>1. l \in Nat /\ n \in Nat /\ \A i \in 1 .. n : B[l + i] = F[a + i] BY DEF Scanned
<1> SUFFICES ASSUME NEW j \in 0 .. n - 1 PROVE B[Len(B) - j] = F[(a + n) - j] OBVIOUS
<1>2. n - j \in 1 .. n /\ Len(B) - j = l + (n - j) /\ (a + n) - j = a + (n - j) BY <1>1
<1>3. QED BY <1>1, <1>2

(* The reader stops at the next start code.                                 *)
LEMMA ScanStops ==
  ASSUME NEW F, NEW B, NEW s \in [Nat -> Nat], NEW t \in [Nat -> Nat], NEW k \in Nat, NEW l, NEW n,
         Scanned(F, B, l, s[k], n), Len(B) = l + n, NextLies(F, s, t, k), s[k] < t[k], s[k] + n = s[k + 1]
  PROVE  FindStartCode(B, 2) /\ Len(B) # l
<1> DEFINE a == s[k]
           o == t[k]
           c == s[k + 1]
<1>1. /\ a \in Nat /\ o \in Nat /\ c \in Nat /\ a < o /\ o + 3 <= c /\ F[c] = 1
      /\ \A i \in o + 1 .. c - 1 : F[i] = 0
  BY DEF NextLies
<1>2. l \in Nat /\ l >= 3 /\ n \in Nat BY DEF Scanned
<1>3. a + n = c /\ Scanned(F, B, l, a, n) OBVIOUS
<1> HIDE DEF a, o, c
<1>4. n >= 4 /\ Len(B) > 2 /\ Len(B) # l BY <1>1, <1>2, <1>3
<1>5. \A j \in 0 .. n - 1 : B[Len(B) - j] = F[c - j]
  <2>0. a \in Nat /\ Scanned(F, B, l, a, n) /\ Len(B) = l + n BY <1>1, <1>3
  <2>1. SameTail(F, B, a + n, n) BY <2>0, ScannedTail
  <2>2. QED BY <1>3, <2>1 DEF SameTail
<1>6. B[Len(B)] = 1
  <2>1. 0 \in 0 .. n - 1 /\ Len(B) - 0 = Len(B) /\ c - 0 = c BY <1>1, <1>2, <1>4
  <2>2. QED BY <1>1, <1>5, <2>1
<1>7. \A j \in 1 .. 2 : B[Len(B) - j] = 0
  <2>1. 1 \in 0 .. n - 1 /\ 2 \in 0 .. n - 1 /\ c - 1 \in o + 1 .. c - 1 /\ c - 2 \in o + 1 .. c - 1
    <3>1. n \in Nat /\ n >= 4 BY <1>2, <1>4
    <3>2. c \in Nat /\ o \in Nat /\ o + 3 <= c BY <1>1
    <3>3. QED BY <3>1, <3>2
  <2>2. F[c - 1] = 0 /\ F[c - 2] = 0 BY <1>1, <2>1
  <2>3. B[Len(B) - 1] = 0 /\ B[Len(B) - 2] = 0 BY <1>5, <2>1, <2>2
  <2>4. \A j \in 1 .. 2 : j = 1 \/ j = 2 OBVIOUS
  <2>5. QED BY <2>3, <2>4
<1>8. QED BY <1>4, <1>6, <1>7 DEF FindStartCode

LEMMA ReadByteStep == FileInv /\ DecoderInv /\ DecoderTypes /\ ReadByte => DecoderInv'
<1> SUFFICES ASSUME FileInv, DecoderInv, DecoderTypes, ReadByte PROVE DecoderInv' OBVIOUS
<1>1. /\ pc = "scan" /\ pc' = "scan" /\ ~ annex_b.is_eof
      /\ (FindStartCode(Buf, 2) => Len(Buf) = nalu.startcodeprefix_len) /\ getfbyte
      /\ file' = file /\ sent' = sent /\ arrived' = arrived /\ nalu' = nalu
  BY DEF ReadByte, written
<1>2. PICK s \in [Nat -> Nat], t \in [Nat -> Nat] : \E P \in Nat : Reading(s, t, P)
  BY <1>1 DEF DecoderInv
<1>3. PICK P \in Nat : Reading(s, t, P) BY <1>2
<1>4. Lay(file, sent, s, t) /\ Ahead(file, iobuffer, unread, P) /\ AtScan(s, P)
  BY <1>1, <1>3 DEF Reading, At
<1>5. file \in Seq(Byte) /\ Len(sent) \in Nat /\ Len(file) \in Nat BY LenProperties DEF FileInv
<1> DEFINE k == arrived + 1
           l == nalu.startcodeprefix_len
<1>6. PICK n \in Nat : /\ Scanned(file, Buf, l, s[k], n) /\ P = s[k] + n /\ Len(Buf) = l + n
                       /\ k < Len(sent) => P <= s[arrived + 2]
  BY <1>1, <1>4 DEF AtScan
<1>7. arrived \in 0 .. Len(sent) - 1 BY <1>4 DEF AtScan
<1>8. k \in 1 .. Len(sent) /\ k \in Nat /\ k + 1 = arrived + 2 BY <1>5, <1>7
<1> HIDE DEF k, l
<1>9. s[k] \in Nat /\ t[k] \in Nat /\ s[k] < t[k]
  <2>1. UnitLies(file, sent, s, t, k) BY <1>4, <1>5, <1>8, Lies
  <2>2. QED BY <2>1 DEF UnitLies
<1>10. k < Len(sent) => NextLies(file, s, t, k) BY <1>4, <1>5, <1>8, Gap
<1>11. k < Len(sent) => P < s[k + 1] /\ P < Len(file)
  <2> SUFFICES ASSUME k < Len(sent) PROVE P < s[k + 1] /\ P < Len(file) OBVIOUS
  <2>1. P <= s[k + 1] BY <1>6, <1>8
  <2>2. P # s[k + 1]
    <3>1. Len(Buf) = l + n /\ Scanned(file, Buf, l, s[k], n) BY <1>6
    <3>2. s[k] + n = s[k + 1] => FindStartCode(Buf, 2) /\ Len(Buf) # l
      BY <1>8, <1>9, <1>10, <3>1, ScanStops
    <3>3. QED BY <1>1, <1>6, <3>2 DEF l
  <2> DEFINE c == s[k + 1]
  <2>3. c \in Nat /\ c < Len(file) BY <1>10 DEF NextLies
  <2> HIDE DEF c
  <2>4. P <= c /\ P # c BY <2>1, <2>2 DEF c
  <2>5. P < c /\ P < Len(file) BY <1>5, <2>3, <2>4
  <2>6. QED BY <2>5 DEF c
<1>12. \/ /\ P = Len(file) /\ annex_b' = [annex_b EXCEPT !.is_eof = TRUE]
          /\ Buf' = Append(Buf, 0) /\ Ahead(file, iobuffer', unread', P)
       \/ /\ P < Len(file) /\ annex_b' = annex_b
          /\ Buf' = Append(Buf, file[P + 1]) /\ Ahead(file, iobuffer', unread', P + 1)
  BY <1>1, <1>4, <1>5, NextByte
<1>13. CASE /\ P = Len(file) /\ annex_b' = [annex_b EXCEPT !.is_eof = TRUE]
            /\ Buf' = Append(Buf, 0) /\ Ahead(file, iobuffer', unread', P)
  <2>1. annex_b'.is_eof BY <1>13 DEF DecoderTypes
  <2>2. k = Len(sent)
    <3>1. ~ (k < Len(sent)) BY <1>5, <1>11, <1>13
    <3>2. QED BY <1>5, <1>8, <3>1
  <2>3. 0 \in Byte BY DEF Byte
  <2>4. Scanned(file, Buf', l, s[k], n) /\ Len(Buf') = l + n + 1
    <3>1. Len(Append(Buf, 0)) = Len(Buf) + 1 /\ Scanned(file, Append(Buf, 0), l, s[k], n)
      BY <1>5, <1>6, <1>9, <2>3, ScannedMore
    <3>2. QED BY <1>6, <1>13, <3>1
  <2>5. AtScan(s, P)' BY <1>1, <1>6, <1>7, <1>13, <2>1, <2>2, <2>4 DEF AtScan, k, l
  <2>6. Reading(s, t, P)' BY <1>1, <1>4, <1>13, <2>5 DEF Reading, At
  <2>7. QED BY <1>1, <2>6 DEF DecoderInv
<1>14. CASE /\ P < Len(file) /\ annex_b' = annex_b
            /\ Buf' = Append(Buf, file[P + 1]) /\ Ahead(file, iobuffer', unread', P + 1)
  <2>1. file[P + 1] \in Byte
    <3>1. P + 1 \in 1 .. Len(file) BY <1>5, <1>14
    <3>2. QED BY <1>5, <3>1, ElementOfSeq
  <2> DEFINE a == s[k]
             b == file[P + 1]
  <2>2. a \in Nat /\ b \in Byte /\ Scanned(file, Buf, l, a, n) /\ P = a + n /\ b = file[P + 1]
    BY <1>6, <1>9, <2>1
  <2> HIDE DEF a, b
  <2>3. b = file[a + n + 1] BY <2>2
  <2>4. /\ Len(Append(Buf, b)) = Len(Buf) + 1 /\ l \in Nat
        /\ Scanned(file, Append(Buf, b), l, a, n + 1)
    BY <1>5, <1>6, <2>2, <2>3, ScannedMore
  <2>5. Buf' = Append(Buf, b) BY <1>14 DEF b
  <2>6. Len(Buf') = l + (n + 1) /\ Scanned(file, Buf', l, a, n + 1) /\ P + 1 = a + (n + 1)
        /\ n + 1 \in Nat /\ P + 1 \in Nat
    <3>1. Scanned(file, Buf', l, a, n + 1) BY <2>4, <2>5
    <3>2. Len(Buf') = (l + n) + 1 BY <1>6, <2>4, <2>5
    <3>3. (l + n) + 1 = l + (n + 1) BY <2>4
    <3>4. P + 1 = a + (n + 1) BY <2>2
    <3>5. QED BY <3>1, <3>2, <3>3, <3>4
  <2>7. k < Len(sent) => P + 1 <= s[arrived + 2]
    <3> SUFFICES ASSUME k < Len(sent) PROVE P + 1 <= s[arrived + 2] OBVIOUS
    <3> DEFINE c == s[k + 1]
    <3>1. c \in Nat /\ P < c BY <1>8, <1>11
    <3> HIDE DEF c
    <3>2. P + 1 <= c BY <3>1
    <3>3. QED BY <1>8, <3>2 DEF c
  <2>8. \E e \in Nat :
          /\ Scanned(file, Buf', l, s[k], e) /\ P + 1 = s[k] + e /\ Len(Buf') = l + e
          /\ k < Len(sent) => P + 1 <= s[arrived + 2]
    BY <2>6, <2>7 DEF a
  <2>9. AtScan(s, P + 1)' BY <1>1, <1>7, <1>14, <2>8 DEF AtScan, k, l
  <2>10. Reading(s, t, P + 1)' BY <1>1, <1>4, <1>14, <2>9 DEF Reading, At
  <2>11. QED BY <1>1, <2>6, <2>10 DEF DecoderInv
<1>15. QED BY <1>12, <1>13, <1>14

-----------------------------------------------------------------------------
(* The unit is handed over to EBSPtoRBSP.                                   *)

(* Behind place l, B holds what F holds behind place a, up to b.            *)
SamePlaces(F, B, l, a, b) == SubSeq(B, l + 1, l + (b - a)) = SubSeq(F, a + 1, b)

LEMMA SameBytes ==
  ASSUME NEW F \in Seq(Byte), NEW B, NEW l, NEW a \in Nat, NEW b \in Nat, NEW n, Scanned(F, B, l, a, n),
         a < b, b <= a + n, b <= Len(F)
  PROVE  SamePlaces(F, B, l, a, b)
<1>1. /\ B \in Seq(Byte) /\ l \in Nat /\ n \in Nat /\ Len(B) >= l + n
      /\ \A i \in 1 .. n : B[l + i] = F[a + i]
  BY DEF Scanned
<1> DEFINE W == SubSeq(F, a + 1, b)
           d == b - a
           V == SubSeq(B, l + 1, l + d)
<1>2. W \in Seq(Byte) /\ Len(W) = d /\ \A i \in 1 .. d : W[i] = F[a + i] BY Within
<1>3. d \in Nat /\ d >= 1 /\ d <= n BY <1>1
<1> HIDE DEF d, W
<1>4. V \in Seq(Byte) /\ Len(V) = d /\ \A i \in 1 .. d : V[i] = B[l + i]
  <2>1. Len(B) \in Nat BY <1>1, LenProperties
  <2>2. l \in Nat /\ l + d \in Nat /\ l < l + d /\ l + d <= Len(B) /\ (l + d) - l = d BY <1>1, <1>3, <2>1
  <2>3. /\ V \in Seq(Byte) /\ Len(V) = (l + d) - l
        /\ \A i \in 1 .. (l + d) - l : V[i] = B[l + i]
    BY <1>1, <2>2, Within
  <2>4. QED BY <2>2, <2>3
<1> HIDE DEF V
<1>5. \A i \in 1 .. Len(V) : V[i] = W[i]
  <2>1. \A i \in 1 .. d : i \in 1 .. n BY <1>1, <1>3
  <2>2. QED BY <1>1, <1>2, <1>4, <2>1
<1>6. Len(V) = Len(W) BY <1>2, <1>4
<1>7. V = W BY <1>2, <1>4, <1>5, <1>6, SeqEqual
<1>8. QED BY <1>7 DEF SamePlaces, V, W, d

LEMMA Handed ==
  ASSUME FileInv, DecoderTypes, NEW s \in [Nat -> Nat], NEW t \in [Nat -> Nat], NEW P \in Nat, NEW n,
         Lay(file, sent, s, t), Ahead(file, iobuffer, unread, P), arrived \in 0 .. Len(sent) - 1,
         Scanned(file, Buf, nalu.startcodeprefix_len, s[arrived + 1], n), t[arrived + 1] <= s[arrived + 1] + n,
         NEW next, Hand(nalu.startcodeprefix_len + (t[arrived + 1] - s[arrived + 1]), next),
         \/ next = 0 /\ annex_b.is_eof /\ arrived + 1 = Len(sent)
         \/ next \in {3, 4} /\ ~ annex_b.is_eof /\ arrived + 1 < Len(sent) /\ P = s[arrived + 2]
  PROVE  DecoderInv'
<1> DEFINE k == arrived + 1
           l == nalu.startcodeprefix_len
           W == SubSeq(file, s[k] + 1, t[k])
<1>1. file \in Seq(Byte) /\ Len(sent) \in Nat BY LenProperties DEF FileInv
<1>2. k \in 1 .. Len(sent) BY <1>1
<1>3. /\ s[k] \in Nat /\ t[k] \in Nat /\ s[k] < t[k] /\ t[k] <= Len(file)
      /\ IsUnit(sent[k]) /\ IsWritten(W, sent[k])
  <2> HIDE DEF k
  <2>1. UnitLies(file, sent, s, t, k) BY <1>1, <1>2, Lies
  <2>2. QED BY <2>1 DEF UnitLies
<1>4. SubSeq(Buf, l + 1, l + (t[k] - s[k])) = W
  <2>1. Scanned(file, Buf, l, s[k], n) /\ t[k] <= s[k] + n OBVIOUS
  <2>2. file \in Seq(Byte) /\ s[k] \in Nat /\ t[k] \in Nat /\ s[k] < t[k] /\ t[k] <= Len(file)
    BY <1>1, <1>3
  <2> HIDE DEF k, l
  <2>3. SamePlaces(file, Buf, l, s[k], t[k]) BY <2>1, <2>2, SameBytes
  <2>4. QED BY <2>3 DEF SamePlaces
<1>5. W \in Seq(Byte) /\ Len(W) >= 1
  <2> DEFINE a == s[k]
             b == t[k]
  <2>1. a \in Nat /\ b \in Nat /\ a < b /\ b <= Len(file) BY <1>3
  <2> HIDE DEF a, b
  <2>2. SubSeq(file, a + 1, b) \in Seq(Byte) /\ Len(SubSeq(file, a + 1, b)) = b - a BY <1>1, <2>1, Within
  <2>3. b - a >= 1 BY <2>1
  <2>4. QED BY <2>2, <2>3 DEF a, b
<1>6. Restoring(W, Unit(sent[k]), W, <<>>, 0)
  <2> HIDE DEF W, k
  <2>1. QED BY <1>3, <1>5, RestoringStart
<1>7. /\ nalu'.buf = W /\ nalu'.rbsp = <<>> /\ count' = 0 /\ Buf' = <<>> /\ pc' = "unescape"
      /\ annex_b'.nextstartcodebytes = next /\ annex_b'.is_eof = annex_b.is_eof
      /\ file' = file /\ sent' = sent /\ arrived' = arrived /\ iobuffer' = iobuffer /\ unread' = unread
  BY <1>4 DEF Hand, DecoderTypes
<1>8. Beyond(s, P)' BY <1>7 DEF Beyond
<1>9. AtUnit(s, t, P)' BY <1>6, <1>7, <1>8 DEF AtUnit
<1>10. Reading(s, t, P)' BY <1>7, <1>9 DEF Reading, At
<1>11. QED BY <1>7, <1>10 DEF DecoderInv

(* Without the zeros behind it, what is scanned ends with the unit.         *)
EndsAt(l, a, b, e) == Stripped(l + e) = l + (b - a)

LEMMA StrippedIs ==
  ASSUME NEW l \in Nat, NEW a \in Nat, NEW b \in Nat, NEW n, NEW e \in Nat,
         Scanned(file, Buf, l, a, n), a < b, b <= a + e, e <= n, file[b] # 0,
         \A i \in b + 1 .. a + e : file[i] = 0
  PROVE  EndsAt(l, a, b, e)
<1>1. n \in Nat /\ \A i \in 1 .. n : Buf[l + i] = file[a + i] BY DEF Scanned
<1> DEFINE m == l + (b - a)
<1>2. m \in 0 .. l + e /\ l + e \in Nat OBVIOUS
<1>3. Buf[m] # 0
  <2>1. b - a \in 1 .. n /\ a + (b - a) = b BY <1>1
  <2>2. QED BY <1>1, <2>1
<1>4. \A j \in m + 1 .. l + e : Buf[j] = 0
  <2> SUFFICES ASSUME NEW j \in m + 1 .. l + e PROVE Buf[j] = 0 OBVIOUS
  <2>1. j - l \in 1 .. n /\ l + (j - l) = j /\ a + (j - l) \in b + 1 .. a + e BY <1>1
  <2>2. QED BY <1>1, <2>1
<1> HIDE DEF m
<1>5. (CHOOSE j \in 0 .. l + e : (j = 0 \/ Buf[j] # 0) /\ \A i \in j + 1 .. l + e : Buf[i] = 0) = m
  BY <1>2, <1>3, <1>4, LastOne
<1>6. QED BY <1>5 DEF EndsAt, Stripped, m

LEMMA LastUnitStep == FileInv /\ DecoderInv /\ DecoderTypes /\ LastUnit => DecoderInv'
<1> SUFFICES ASSUME FileInv, DecoderInv, DecoderTypes, LastUnit PROVE DecoderInv' OBVIOUS
<1>1. pc = "scan" /\ annex_b.is_eof /\ Hand(Stripped(Len(Buf) - 1), 0) BY DEF LastUnit
<1>2. PICK s \in [Nat -> Nat], t \in [Nat -> Nat] : \E P \in Nat : Reading(s, t, P)
  BY <1>1 DEF DecoderInv
<1>3. PICK P \in Nat : Reading(s, t, P) BY <1>2
<1>4. Lay(file, sent, s, t) /\ Ahead(file, iobuffer, unread, P) /\ AtScan(s, P)
  BY <1>1, <1>3 DEF Reading, At
<1>5. file \in Seq(Byte) /\ Len(sent) \in Nat /\ Len(file) \in Nat BY LenProperties DEF FileInv
<1> DEFINE k == arrived + 1
           l == nalu.startcodeprefix_len
<1>6. PICK n \in Nat : /\ Scanned(file, Buf, l, s[k], n) /\ P = s[k] + n /\ Len(Buf) = l + n + 1
                       /\ k = Len(sent) /\ P = Len(file)
  BY <1>1, <1>4 DEF AtScan
<1>7. arrived \in 0 .. Len(sent) - 1 BY <1>4 DEF AtScan
<1>8. k \in 1 .. Len(sent) BY <1>5, <1>7
<1>9. /\ s[k] \in Nat /\ t[k] \in Nat /\ s[k] < t[k] /\ t[k] <= s[k] + n /\ file[t[k]] # 0
  <2> HIDE DEF k, l
  <2>1. UnitLies(file, sent, s, t, k) BY <1>4, <1>5, <1>8, Lies
  <2>2. t[k] <= Len(file) BY <2>1 DEF UnitLies
  <2>3. t[k] <= s[k] + n BY <1>6, <2>2
  <2>4. QED BY <2>1, <2>3 DEF UnitLies
<1>10. \A i \in t[k] + 1 .. s[k] + n : file[i] = 0
  <2> HIDE DEF k, l
  <2>1. \A i \in t[Len(sent)] + 1 .. Len(file) : file[i] = 0 BY <1>4 DEF Lay
  <2>2. k = Len(sent) /\ s[k] + n = Len(file) BY <1>6
  <2>3. QED BY <2>1, <2>2
<1>11. l \in Nat BY <1>6 DEF Scanned
<1>12. Stripped(Len(Buf) - 1) = l + (t[k] - s[k])
  <2> DEFINE a == s[k]
             b == t[k]
  <2>1. /\ a \in Nat /\ b \in Nat /\ Scanned(file, Buf, l, a, n) /\ a < b /\ b <= a + n
        /\ n \in Nat /\ n <= n
        /\ file[b] # 0 /\ \A i \in b + 1 .. a + n : file[i] = 0
    BY <1>6, <1>9, <1>10
  <2>2. Len(Buf) - 1 = l + n
    <3> HIDE DEF l
    <3>1. QED BY <1>6, <1>11
  <2> HIDE DEF a, b, l
  <2>3. EndsAt(l, a, b, n) BY <1>11, <2>1, StrippedIs
  <2>4. QED BY <2>2, <2>3 DEF EndsAt, a, b
<1>13. Hand(l + (t[k] - s[k]), 0) BY <1>1, <1>12
<1>14. /\ Scanned(file, Buf, l, s[k], n) /\ t[k] <= s[k] + n
       /\ annex_b.is_eof /\ arrived + 1 = Len(sent)
  BY <1>1, <1>6, <1>9
<1>15. QED BY <1>4, <1>7, <1>13, <1>14, Handed

LEMMA Backwards ==
  ASSUME NEW a \in Nat, NEW n \in Nat, NEW P, P = a + n, n >= 3
  PROVE  P \in Nat /\ a + 3 <= P /\ P - 0 = P
OBVIOUS

(* The start code that is found is that of the next unit.                   *)
LEMMA CodeFound ==
  ASSUME NEW F \in Seq(Byte), NEW S, Len(S) \in Nat, NEW s \in [Nat -> Nat], NEW t \in [Nat -> Nat],
         Lay(F, S, s, t), NEW k \in 1 .. Len(S), NEW B, NEW l, NEW n,
         Scanned(F, B, l, s[k], n), Len(B) = l + n, Len(B) > l, s[k] + n <= Len(F),
         k < Len(S) => s[k] + n <= s[k + 1], FindStartCode(B, 2)
  PROVE  k < Len(S) /\ s[k] + n = s[k + 1] /\ n >= 3
<1> DEFINE a == s[k]
           P == a + n
<1>1. l \in Nat /\ l >= 3 /\ n \in Nat /\ B[l] = 1 BY DEF Scanned
<1>2. B[Len(B)] = 1 /\ B[Len(B) - 1] = 0 /\ B[Len(B) - 2] = 0
  <2>1. 1 \in 1 .. 2 /\ 2 \in 1 .. 2 OBVIOUS
  <2>2. QED BY <2>1 DEF FindStartCode
<1>3. a \in Nat
  <2>1. k \in Nat OBVIOUS
  <2>2. QED BY <2>1
<1>b. /\ Len(B) = l + n /\ Len(B) > l /\ P = a + n /\ Scanned(F, B, l, a, n) /\ a = s[k]
      /\ P <= Len(F) /\ (k < Len(S) => P <= s[k + 1])
  OBVIOUS
<1> HIDE DEF a, P
<1>4. n >= 3
  <2>1. n >= 1 BY <1>1
  <2>2. n # 1
    <3> SUFFICES ASSUME n = 1 PROVE FALSE OBVIOUS
    <3>1. Len(B) - 1 = l BY <1>1
    <3>2. QED BY <1>1, <1>2, <3>1
  <2>3. n # 2
    <3> SUFFICES ASSUME n = 2 PROVE FALSE OBVIOUS
    <3>1. Len(B) - 2 = l BY <1>1
    <3>2. QED BY <1>1, <1>2, <3>1
  <2>4. QED BY <1>1, <2>1, <2>2, <2>3
<1>5. SameTail(F, B, P, n)
  <2>1. SameTail(F, B, a + n, n) BY <1>3, <1>b, ScannedTail
  <2>2. QED BY <1>b, <2>1
<1>6. F[P] = 1 /\ F[P - 1] = 0 /\ F[P - 2] = 0
  <2>1. 0 \in 0 .. n - 1 /\ 1 \in 0 .. n - 1 /\ 2 \in 0 .. n - 1 BY <1>1, <1>4
  <2>2. Len(B) \in Nat BY <1>1, <1>b
  <2>a. P - 0 = P BY <1>1, <1>3, <1>4, <1>b, Backwards
  <2>3. P - 0 = P /\ Len(B) - 0 = Len(B) BY <2>2, <2>a
  <2>4. F[P - 0] = B[Len(B) - 0] /\ F[P - 1] = B[Len(B) - 1] /\ F[P - 2] = B[Len(B) - 2]
    BY <1>5, <2>1 DEF SameTail
  <2>5. QED BY <1>2, <2>3, <2>4
<1>7. P \in Nat /\ a + 3 <= P BY <1>1, <1>3, <1>4, <1>b, Backwards
<1>8. s[k] + 3 <= P BY <1>7, <1>b
<1>9. k < Len(S) /\ P = s[k + 1] BY <1>6, <1>7, <1>8, <1>b, FoundNext
<1>10. QED BY <1>4, <1>9, <1>b

(* A fourth byte of the start code is not the last of the unit.             *)
CutsAt(B, n, a, b, c) ==
  /\ FindStartCode(B, 3) => n >= 4 /\ b <= a + (n - 4)
  /\ ~ FindStartCode(B, 3) => b = c - 3

LEMMA CodeLength ==
  ASSUME NEW F, NEW B, NEW l, NEW n \in Nat, NEW a \in Nat, NEW b \in Nat, NEW c \in Nat,
         Scanned(F, B, l, a, n), Len(B) = l + n, a < b, b + 3 <= c, a + n = c, F[b] # 0,
         \A i \in b + 1 .. c - 1 : F[i] = 0, FindStartCode(B, 2)
  PROVE  CutsAt(B, n, a, b, c)
<1>1. l \in Nat /\ l >= 3 /\ n >= 4 BY DEF Scanned
<1>2. B[Len(B) - 3] = F[c - 3]
  <2>1. SameTail(F, B, a + n, n) BY ScannedTail
  <2>2. 3 \in 0 .. n - 1 BY <1>1
  <2>3. B[Len(B) - 3] = F[(a + n) - 3] BY <2>1, <2>2 DEF SameTail
  <2>4. QED BY <2>3
<1>3. ASSUME FindStartCode(B, 3) PROVE b <= a + (n - 4)
  <2>1. 3 \in 1 .. 3 OBVIOUS
  <2>2. B[Len(B) - 3] = 0 BY <1>3, <2>1 DEF FindStartCode
  <2>3. b # c - 3 BY <1>2, <2>2
  <2>4. QED BY <2>3
<1>4. ASSUME ~ FindStartCode(B, 3) PROVE b = c - 3
  <2>1. B[Len(B) - 3] # 0
    <3> SUFFICES ASSUME B[Len(B) - 3] = 0 PROVE FALSE OBVIOUS
    <3>1. B[Len(B)] = 1 /\ \A j \in 1 .. 2 : B[Len(B) - j] = 0 BY DEF FindStartCode
    <3>2. \A j \in 1 .. 3 : j \in 1 .. 2 \/ j = 3 OBVIOUS
    <3>3. \A j \in 1 .. 3 : B[Len(B) - j] = 0 BY <3>1, <3>2
    <3>4. Len(B) > 3 BY <1>1
    <3>5. QED BY <1>4, <3>1, <3>3, <3>4 DEF FindStartCode
  <2>2. F[c - 3] # 0 BY <1>2, <2>1
  <2>3. ~ (c - 3 \in b + 1 .. c - 1) BY <2>2
  <2>4. QED BY <2>3
<1>5. QED BY <1>1, <1>3, <1>4 DEF CutsAt

LEMMA FoundStep == FileInv /\ DecoderInv /\ DecoderTypes /\ FoundStartCode => DecoderInv'
<1> SUFFICES ASSUME FileInv, DecoderInv, DecoderTypes, FoundStartCode PROVE DecoderInv' OBVIOUS
<1>1. /\ pc = "scan" /\ ~ annex_b.is_eof /\ Len(Buf) > nalu.startcodeprefix_len /\ FindStartCode(Buf, 2)
      /\ (FindStartCode(Buf, 3) => Hand(Stripped(Len(Buf) - 4), 4))
      /\ (~ FindStartCode(Buf, 3) => Hand(Len(Buf) - 3, 3))
  BY DEF FoundStartCode
<1>2. PICK s \in [Nat -> Nat], t \in [Nat -> Nat] : \E P \in Nat : Reading(s, t, P)
  BY <1>1 DEF DecoderInv
<1>3. PICK P \in Nat : Reading(s, t, P) BY <1>2
<1>4. Lay(file, sent, s, t) /\ Ahead(file, iobuffer, unread, P) /\ AtScan(s, P)
  BY <1>1, <1>3 DEF Reading, At
<1>5. file \in Seq(Byte) /\ Len(sent) \in Nat /\ Len(file) \in Nat BY LenProperties DEF FileInv
<1> DEFINE k == arrived + 1
           l == nalu.startcodeprefix_len
<1>6. PICK n \in Nat : /\ Scanned(file, Buf, l, s[k], n) /\ P = s[k] + n /\ Len(Buf) = l + n
                       /\ k < Len(sent) => P <= s[arrived + 2]
  BY <1>1, <1>4 DEF AtScan
<1>7. arrived \in 0 .. Len(sent) - 1 BY <1>4 DEF AtScan
<1>8. k \in 1 .. Len(sent) /\ k + 1 = arrived + 2 BY <1>5, <1>7
<1>9. P <= Len(file)
  <2>1. /\ iobuffer \in Seq(Byte) /\ unread \in Seq(Byte)
        /\ P + Len(iobuffer) + Len(unread) = Len(file)
    BY <1>4 DEF Ahead
  <2>2. Len(iobuffer) \in Nat /\ Len(unread) \in Nat BY <2>1, LenProperties
  <2>3. QED BY <1>5, <2>1, <2>2
<1>10. Scanned(file, Buf, l, s[k], n) /\ Len(Buf) = l + n /\ Len(Buf) > l BY <1>1, <1>6
<1>11. s[k] + n <= Len(file) /\ (k < Len(sent) => s[k] + n <= s[k + 1]) /\ FindStartCode(Buf, 2)
  BY <1>1, <1>6, <1>8, <1>9
<1>l. l \in Nat BY <1>6 DEF Scanned
<1> HIDE DEF k, l
<1>12. k < Len(sent) /\ s[k] + n = s[k + 1] /\ n >= 3
  BY <1>4, <1>5, <1>8, <1>10, <1>11, CodeFound
<1>13. UnitLies(file, sent, s, t, k) BY <1>4, <1>5, <1>8, Lies
<1>14. NextLies(file, s, t, k) BY <1>4, <1>5, <1>8, <1>12, Gap
<1> DEFINE a == s[k]
           b == t[k]
           c == s[k + 1]
<1>15. /\ a \in Nat /\ b \in Nat /\ c \in Nat /\ a < b /\ b + 3 <= c /\ file[b] # 0
       /\ \A i \in b + 1 .. c - 1 : file[i] = 0
  BY <1>13, <1>14 DEF UnitLies, NextLies
<1>16. a + n = c /\ Scanned(file, Buf, l, a, n) /\ P = s[arrived + 2] BY <1>6, <1>8, <1>12
<1> HIDE DEF a, b, c
<1>17. /\ FindStartCode(Buf, 3) => n >= 4 /\ b <= a + (n - 4)
       /\ ~ FindStartCode(Buf, 3) => b = c - 3
  <2>1. CutsAt(Buf, n, a, b, c) BY <1>10, <1>11, <1>15, <1>16, CodeLength
  <2>2. QED BY <2>1 DEF CutsAt
<1>18. b <= a + n BY <1>15, <1>16
<1>19. FindStartCode(Buf, 3) => Hand(l + (b - a), 4)
  <2> SUFFICES ASSUME FindStartCode(Buf, 3) PROVE Hand(l + (b - a), 4) OBVIOUS
  <2> DEFINE e == n - 4
  <2>1. n >= 4 /\ b <= a + e BY <1>17
  <2>2. e \in Nat /\ e <= n /\ l + e = (l + n) - 4 BY <1>l, <2>1
  <2>3. \A i \in b + 1 .. a + e : file[i] = 0
    <3>1. \A i \in b + 1 .. a + e : i \in b + 1 .. c - 1 BY <1>15, <1>16, <2>2
    <3>2. QED BY <1>15, <3>1
  <2> HIDE DEF e
  <2>4. EndsAt(l, a, b, e) BY <1>l, <1>15, <1>16, <2>1, <2>2, <2>3, StrippedIs
  <2>5. Stripped(Len(Buf) - 4) = l + (b - a) BY <1>10, <2>2, <2>4 DEF EndsAt
  <2>6. QED BY <1>1, <2>5
<1>20. ~ FindStartCode(Buf, 3) => Hand(l + (b - a), 3)
  <2> SUFFICES ASSUME ~ FindStartCode(Buf, 3) PROVE Hand(l + (b - a), 3) OBVIOUS
  <2>1. b = c - 3 BY <1>17
  <2>2. (l + n) - 3 = l + (b - a) BY <1>l, <1>15, <1>16, <2>1
  <2>3. QED BY <1>1, <1>10, <2>2
<1>21. \E next \in {3, 4} : Hand(l + (b - a), next) BY <1>19, <1>20
<1>22. PICK next \in {3, 4} : Hand(l + (b - a), next) BY <1>21
<1>23. Hand(l + (t[k] - s[k]), next) /\ next \in {3, 4} /\ t[k] <= s[k] + n BY <1>18, <1>22 DEF a, b
<1>24. /\ Scanned(file, Buf, nalu.startcodeprefix_len, s[arrived + 1], n) /\ t[arrived + 1] <= s[arrived + 1] + n
       /\ Hand(nalu.startcodeprefix_len + (t[arrived + 1] - s[arrived + 1]), next)
       /\ ~ annex_b.is_eof /\ arrived + 1 < Len(sent) /\ P = s[arrived + 2] /\ next \in {3, 4}
  BY <1>1, <1>10, <1>12, <1>16, <1>23 DEF k, l
<1>25. QED BY <1>4, <1>7, <1>24, Handed

-----------------------------------------------------------------------------
(* Turns of the loop of EBSPtoRBSP.                                         *)

LEMMA RestoringRead ==
  ASSUME NEW w \in Seq(Byte), NEW u, NEW x \in Seq(Byte), NEW y \in Seq(Byte), NEW c \in 0 .. 2, Sound(w),
         NEW n \in Nat, NEW q \in [Nat -> Nat], NEW m \in 1 .. Len(w), Read(w, u \o Zeros(2 * n), q, m, x, y, c)
  PROVE  Restoring(w, u, x, y, c)
<1>1. \E e \in Nat, p \in [Nat -> Nat], j \in 1 .. Len(w) : Read(w, u \o Zeros(2 * e), p, j, x, y, c)
  BY Zenon
<1>2. QED BY <1>1, Zenon DEF Restoring

LEMMA TurnPlain ==
  ASSUME NEW w, NEW u \in Seq(Byte), NEW x, NEW y, NEW c, Restoring(w, u, x, y, c), Len(x) > 1, ~ (c = 2 /\ x[2] = 3)
  PROVE  /\ c = 2 => x[2] > 3
         /\ Restoring(w, u, <<x[1]>> \o SubSeq(x, 3, Len(x)), Append(y, x[2]), IF x[2] # 0 THEN 0 ELSE c + 1)
<1>1. w \in Seq(Byte) /\ x \in Seq(Byte) /\ y \in Seq(Byte) /\ c \in 0 .. 2 /\ Sound(w) BY DEF Restoring
<1>2. PICK n \in Nat, q \in [Nat -> Nat], m \in 1 .. Len(w) : Read(w, u \o Zeros(2 * n), q, m, x, y, c)
  BY DEF Restoring
<1>3. /\ c = 2 => x[2] > 3
      /\ (IF x[2] # 0 THEN 0 ELSE c + 1) \in 0 .. 2
      /\ m + 1 \in 1 .. Len(w)
      /\ <<x[1]>> \o SubSeq(x, 3, Len(x)) \in Seq(Byte) /\ Append(y, x[2]) \in Seq(Byte)
      /\ Read(w, u \o Zeros(2 * n), q, m + 1, <<x[1]>> \o SubSeq(x, 3, Len(x)), Append(y, x[2]),
              IF x[2] # 0 THEN 0 ELSE c + 1)
  <2> DEFINE r == u \o Zeros(2 * n)
  <2>0. r \in Seq(Byte)
    <3>1. 2 * n \in Nat OBVIOUS
    <3>2. QED BY <3>1, ZerosAre, Joins
  <2>1. Read(w, r, q, m, x, y, c) BY <1>2
  <2> HIDE DEF r
  <2>2. PlainRead(w, r, q, m, x, y, c) BY <1>1, <1>2, <2>0, <2>1, ReadPlain
  <2>3. QED BY <2>2 DEF PlainRead, r
<1>4. QED BY <1>1, <1>2, <1>3, RestoringRead

LEMMA TurnLast ==
  ASSUME NEW w, NEW u \in Seq(Byte), NEW x, NEW y, Restoring(w, u, x, y, 2), Len(x) > 1, ~ (Len(x) > 2), x[2] = 3
  PROVE  Restoring(w, u, <<x[1]>> \o SubSeq(x, 3, Len(x)), y, 2)
<1>1. w \in Seq(Byte) /\ x \in Seq(Byte) /\ y \in Seq(Byte) /\ 2 \in 0 .. 2 /\ Sound(w) BY DEF Restoring
<1>2. PICK n \in Nat, q \in [Nat -> Nat], m \in 1 .. Len(w) : Read(w, u \o Zeros(2 * n), q, m, x, y, 2)
  BY DEF Restoring
<1>3. /\ m + 1 \in 1 .. Len(w) /\ <<x[1]>> \o SubSeq(x, 3, Len(x)) \in Seq(Byte)
      /\ Read(w, u \o Zeros(2 * n), q, m + 1, <<x[1]>> \o SubSeq(x, 3, Len(x)), y, 2)
  <2> DEFINE r == u \o Zeros(2 * n)
  <2>0. r \in Seq(Byte)
    <3>1. 2 * n \in Nat OBVIOUS
    <3>2. QED BY <3>1, ZerosAre, Joins
  <2>1. Read(w, r, q, m, x, y, 2) BY <1>2
  <2> HIDE DEF r
  <2>2. LastRead(w, r, q, m, x, y) BY <1>1, <1>2, <2>0, <2>1, ReadLast
  <2>3. QED BY <2>2 DEF LastRead, r
<1>4. QED BY <1>1, <1>2, <1>3, RestoringRead

LEMMA TurnEscaped ==
  ASSUME NEW w, NEW u \in Seq(Byte), NEW x, NEW y, Restoring(w, u, x, y, 2), Len(x) > 1, Len(x) # 2, x[2] = 3
  PROVE  /\ ~ (x[3] > 3)
         /\ Restoring(w, u, <<x[1]>> \o SubSeq(x, 4, Len(x)), Append(y, x[3]), IF x[3] # 0 THEN 0 ELSE 1)
<1>1. w \in Seq(Byte) /\ x \in Seq(Byte) /\ y \in Seq(Byte) /\ 2 \in 0 .. 2 /\ Sound(w) BY DEF Restoring
<1>2. PICK n \in Nat, q \in [Nat -> Nat], m \in 1 .. Len(w) : Read(w, u \o Zeros(2 * n), q, m, x, y, 2)
  BY DEF Restoring
<1>3. /\ ~ (x[3] > 3)
      /\ m + 2 \in 1 .. Len(w)
      /\ <<x[1]>> \o SubSeq(x, 4, Len(x)) \in Seq(Byte) /\ Append(y, x[3]) \in Seq(Byte)
      /\ Read(w, u \o Zeros(2 * n), q, m + 2, <<x[1]>> \o SubSeq(x, 4, Len(x)), Append(y, x[3]),
              IF x[3] # 0 THEN 0 ELSE 1)
  <2> DEFINE r == u \o Zeros(2 * n)
  <2>0. r \in Seq(Byte)
    <3>1. 2 * n \in Nat OBVIOUS
    <3>2. QED BY <3>1, ZerosAre, Joins
  <2>1. Read(w, r, q, m, x, y, 2) BY <1>2
  <2> HIDE DEF r
  <2>2. EscapedRead(w, r, q, m, x, y) BY <1>1, <1>2, <2>0, <2>1, ReadEscaped
  <2>3. QED BY <2>2 DEF EscapedRead, r
<1>4. (IF x[3] # 0 THEN 0 ELSE 1) \in 0 .. 2 OBVIOUS
<1>5. QED BY <1>1, <1>2, <1>3, <1>4, RestoringRead

LEMMA UnescapeStep == FileInv /\ DecoderInv /\ DecoderTypes /\ EBSPtoRBSP => DecoderInv'
<1> SUFFICES ASSUME FileInv, DecoderInv, DecoderTypes, EBSPtoRBSP PROVE DecoderInv' OBVIOUS
<1> DEFINE x == nalu.buf
           y == nalu.rbsp
           c == count
           b == x[2]
           escape == c = 2 /\ b = 3
           last == Len(x) = 2
           bad == c = 2 /\ (b < 3 \/ (escape /\ ~ last /\ x[3] > 3))
           kept == IF escape /\ ~ last THEN x[3] ELSE b
           used == IF escape /\ ~ last THEN 2 ELSE 1
<1>1. /\ pc = "unescape" /\ Len(x) > 1
      /\ pc' = (IF bad THEN "error" ELSE pc)
      /\ nalu'.buf = <<x[1]>> \o SubSeq(x, 2 + used, Len(x))
      /\ nalu'.rbsp = (IF escape /\ last THEN y ELSE Append(y, kept))
      /\ count' = (IF escape /\ last THEN c ELSE Count(kept, escape))
      /\ file' = file /\ sent' = sent /\ Buf' = Buf /\ arrived' = arrived
      /\ iobuffer' = iobuffer /\ unread' = unread /\ annex_b' = annex_b
  BY DEF EBSPtoRBSP, DecoderTypes, reader
<1>2. PICK s \in [Nat -> Nat], t \in [Nat -> Nat] : \E P \in Nat : Reading(s, t, P)
  BY <1>1 DEF DecoderInv
<1>3. PICK P \in Nat : Reading(s, t, P) BY <1>2
<1>4. Lay(file, sent, s, t) /\ Ahead(file, iobuffer, unread, P) /\ AtUnit(s, t, P)
  BY <1>1, <1>3 DEF Reading, At
<1> DEFINE k == arrived + 1
           W == SubSeq(file, s[k] + 1, t[k])
           U == Unit(sent[k])
<1>5. Restoring(W, U, x, y, c) BY <1>4 DEF AtUnit
<1>u. U \in Seq(Byte)
  <2>1. file \in Seq(Byte) /\ Len(sent) \in Nat BY LenProperties DEF FileInv
  <2>2. k \in 1 .. Len(sent) BY <1>4, <2>1 DEF AtUnit
  <2> HIDE DEF k
  <2>3. UnitLies(file, sent, s, t, k) BY <1>4, <2>1, <2>2, Lies
  <2>4. QED BY <2>3 DEF UnitLies, IsUnit
<1>6. ~ bad /\ Restoring(W, U, nalu'.buf, nalu'.rbsp, count')
  <2> HIDE DEF W, U
  <2>a. x \in Seq(Byte) /\ c \in 0 .. 2 BY <1>5 DEF Restoring
  <2> DEFINE g == Len(x)
  <2>b. g \in Nat /\ g > 1 /\ (last <=> g = 2) /\ (g # 2 <=> g > 2)
    <3>1. g \in Nat /\ g > 1 BY <1>1, <2>a, LenProperties
    <3> HIDE DEF g
    <3>2. g # 2 <=> g > 2 BY <3>1
    <3>3. last <=> g = 2 BY DEF g
    <3>4. QED BY <3>1, <3>2, <3>3
  <2> HIDE DEF x, y, c
  <2>1. CASE ~ (c = 2 /\ b = 3)
    <3>1. /\ c = 2 => b > 3
          /\ Restoring(W, U, <<x[1]>> \o SubSeq(x, 3, Len(x)), Append(y, b), IF b # 0 THEN 0 ELSE c + 1)
      BY <1>1, <1>5, <2>1, <1>u, TurnPlain
    <3>2. b \in Byte
      <4>1. Len(x) \in Nat BY <2>a, LenProperties
      <4>2. 2 \in 1 .. Len(x) BY <1>1, <4>1
      <4>3. QED BY <2>a, <4>2, ElementOfSeq
    <3>3. ~ escape /\ kept = b /\ used = 1 /\ 2 + used = 3 BY <2>1
    <3>4. ~ bad
      <4> HIDE DEF b
      <4>1. c = 2 => ~ (b < 3) BY <3>1, <3>2 DEF Byte
      <4>2. QED BY <3>3, <4>1
    <3>5. Count(kept, escape) = IF b # 0 THEN 0 ELSE c + 1 BY <3>3 DEF Count, c
    <3> HIDE DEF escape, kept, used, bad
    <3>6. /\ nalu'.buf = <<x[1]>> \o SubSeq(x, 3, Len(x)) /\ nalu'.rbsp = Append(y, b)
          /\ count' = IF b # 0 THEN 0 ELSE c + 1
      BY <1>1, <3>3, <3>5
    <3>7. QED BY <3>1, <3>4, <3>6
  <2>2. CASE c = 2 /\ b = 3 /\ ~ (Len(x) > 2)
    <3>1. Restoring(W, U, <<x[1]>> \o SubSeq(x, 3, Len(x)), y, 2) BY <1>1, <1>5, <2>2, <1>u, TurnLast
    <3>2. last BY <2>2, <2>b
    <3>3. escape /\ used = 1 /\ 2 + used = 3 BY <2>2, <3>2
    <3>4. ~ bad BY <2>2, <3>2
    <3> HIDE DEF escape, kept, used, bad, last
    <3>5. nalu'.buf = <<x[1]>> \o SubSeq(x, 3, Len(x)) /\ nalu'.rbsp = y /\ count' = 2
      BY <1>1, <2>2, <3>2, <3>3
    <3>6. QED BY <3>1, <3>4, <3>5
  <2>3. CASE c = 2 /\ b = 3 /\ Len(x) > 2
    <3>1. ~ last /\ Len(x) # 2 BY <2>3, <2>b
    <3>2. /\ ~ (x[3] > 3)
          /\ Restoring(W, U, <<x[1]>> \o SubSeq(x, 4, Len(x)), Append(y, x[3]), IF x[3] # 0 THEN 0 ELSE 1)
      BY <1>1, <1>5, <2>3, <3>1, <1>u, TurnEscaped
    <3>3. escape /\ kept = x[3] /\ used = 2 /\ 2 + used = 4 BY <2>3, <3>1
    <3>4. ~ bad
      <4>1. ~ (b < 3)
        <5>1. b = 3 BY <2>3
        <5> HIDE DEF b
        <5>2. QED BY <5>1
      <4>2. QED BY <3>2, <4>1
    <3>5. Count(kept, escape) = IF x[3] # 0 THEN 0 ELSE 1 BY <3>3 DEF Count
    <3> HIDE DEF escape, kept, used, bad, last
    <3>6. /\ nalu'.buf = <<x[1]>> \o SubSeq(x, 4, Len(x)) /\ nalu'.rbsp = Append(y, x[3])
          /\ count' = IF x[3] # 0 THEN 0 ELSE 1
      BY <1>1, <3>1, <3>3, <3>5
    <3>7. QED BY <3>2, <3>4, <3>6
  <2>4. QED BY <2>1, <2>2, <2>3
<1>7. pc' = "unescape" BY <1>1, <1>6
<1>8. AtUnit(s, t, P)'
  <2>1. Beyond(s, P)' BY <1>1, <1>4 DEF AtUnit, Beyond
  <2>2. QED BY <1>1, <1>4, <1>6, <2>1 DEF AtUnit
<1>9. Reading(s, t, P)' BY <1>1, <1>4, <1>7, <1>8 DEF Reading, At
<1>10. QED BY <1>7, <1>9 DEF DecoderInv

(* The unit that is returned is the one that was written.                   *)
LEMMA Returned ==
  FileInv /\ DecoderInv /\ ReturnUnit =>
    /\ DecoderInv'
    /\ arrived + 1 \in 1 .. Len(sent) /\ arrived' = arrived + 1 /\ got' = Unit(sent[arrived + 1])
    /\ IsUnit(sent[arrived + 1])
<1> DEFINE k == arrived + 1
<1> SUFFICES ASSUME FileInv, DecoderInv, ReturnUnit
             PROVE  /\ DecoderInv' /\ k \in 1 .. Len(sent) /\ arrived' = k /\ got' = Unit(sent[k])
                    /\ IsUnit(sent[k])
  OBVIOUS
<1>1. pc = "unescape" /\ Len(nalu.buf) <= 1 BY DEF ReturnUnit
<1>2. PICK s \in [Nat -> Nat], t \in [Nat -> Nat] : \E P \in Nat : Reading(s, t, P)
  BY <1>1 DEF DecoderInv
<1>3. PICK P \in Nat : Reading(s, t, P) BY <1>2
<1>4. Lay(file, sent, s, t) /\ Ahead(file, iobuffer, unread, P) /\ AtUnit(s, t, P)
  BY <1>1, <1>3 DEF Reading, At
<1>5. file \in Seq(Byte) /\ Len(sent) \in Nat BY LenProperties DEF FileInv
<1>6. arrived \in 0 .. Len(sent) - 1 /\ Buf = <<>> /\ Beyond(s, P)
      /\ Restoring(SubSeq(file, s[k] + 1, t[k]), Unit(sent[k]), nalu.buf, nalu.rbsp, count)
  BY <1>4 DEF AtUnit
<1>7. k \in 1 .. Len(sent) /\ k \in Nat BY <1>5, <1>6
<1>8. IsUnit(sent[k])
  <2> HIDE DEF k
  <2>1. UnitLies(file, sent, s, t, k) BY <1>4, <1>5, <1>7, Lies
  <2>2. QED BY <2>1 DEF UnitLies
<1>9. nalu.buf # <<>> /\ nalu.buf \o RBSPtoSODB(nalu.rbsp) = Unit(sent[k])
  <2> HIDE DEF k
  <2>1. QED BY <1>1, <1>6, <1>8, RestoringEnd
<1>10. /\ pc' = "prefix" /\ arrived' = k /\ got' = Unit(sent[k])
       /\ file' = file /\ sent' = sent /\ Buf' = Buf
       /\ iobuffer' = iobuffer /\ unread' = unread /\ annex_b' = annex_b
  BY <1>9 DEF ReturnUnit, written
<1>11. AtEnd' \/ AtCode(s, P)'
  <2>1. CASE annex_b.nextstartcodebytes = 0 /\ annex_b.is_eof /\ k = Len(sent)
    BY <1>6, <1>10, <2>1 DEF AtEnd
  <2>2. CASE /\ annex_b.nextstartcodebytes \in {3, 4} /\ ~ annex_b.is_eof
             /\ k < Len(sent) /\ P = s[arrived + 2]
    <3>1. k \in 0 .. Len(sent) - 1 BY <1>5, <1>7, <2>2
    <3>2. k + 1 = arrived + 2 BY <1>5, <1>6
    <3>3. QED BY <1>6, <1>10, <2>2, <3>1, <3>2 DEF AtCode
  <2>3. QED BY <1>6, <2>1, <2>2 DEF Beyond
<1>12. Reading(s, t, P)' BY <1>4, <1>10, <1>11 DEF Reading, At
<1>13. DecoderInv' BY <1>10, <1>12 DEF DecoderInv
<1>14. QED BY <1>7, <1>8, <1>10, <1>13

LEMMA EncoderStep ==
  DecoderInv /\ (StartUnit \/ RBSPtoEBSP \/ WriteAnnexbNALU \/ AddZeroByte) => DecoderInv'
<1> SUFFICES ASSUME DecoderInv, StartUnit \/ RBSPtoEBSP \/ WriteAnnexbNALU \/ AddZeroByte PROVE DecoderInv'
  OBVIOUS
<1>1. pc \in {"write", "payload"} /\ pc' \in {"write", "payload"} /\ reader' = reader
  BY DEF StartUnit, RBSPtoEBSP, WriteAnnexbNALU, AddZeroByte
<1>2. NotStarted BY <1>1 DEF DecoderInv
<1>3. annex_b' = annex_b /\ arrived' = arrived /\ got' = got /\ Buf' = Buf BY <1>1 DEF reader
<1>4. NotStarted' BY <1>2, <1>3 DEF NotStarted
<1>5. QED BY <1>1, <1>4 DEF DecoderInv

LEMMA IdleStep == DecoderInv /\ UNCHANGED vars => DecoderInv'
<1> SUFFICES ASSUME DecoderInv, UNCHANGED vars PROVE DecoderInv' OBVIOUS
<1>1. /\ pc' = pc /\ nalu' = nalu /\ count' = count /\ file' = file /\ sent' = sent
      /\ unread' = unread /\ iobuffer' = iobuffer /\ Buf' = Buf /\ annex_b' = annex_b
      /\ arrived' = arrived /\ got' = got
  BY DEF vars, written, reader
<1>2. NotStarted' <=> NotStarted BY <1>1 DEF NotStarted
<1>3. ASSUME NEW s, NEW t, NEW P, Reading(s, t, P) PROVE Reading(s, t, P)'
  <2>1. Lay(file, sent, s, t) /\ Ahead(file, iobuffer, unread, P) /\ At(s, t, P) BY <1>3 DEF Reading
  <2>2. AtStart(s, P)' <=> AtStart(s, P) BY <1>1 DEF AtStart
  <2>3. AtEnd' <=> AtEnd BY <1>1 DEF AtEnd
  <2>4. AtCode(s, P)' <=> AtCode(s, P) BY <1>1 DEF AtCode
  <2>5. AtScan(s, P)' <=> AtScan(s, P) BY <1>1 DEF AtScan
  <2>6. AtUnit(s, t, P)' <=> AtUnit(s, t, P) BY <1>1 DEF AtUnit, Beyond
  <2>7. At(s, t, P)' BY <1>1, <2>1, <2>2, <2>3, <2>4, <2>5, <2>6 DEF At
  <2>8. QED BY <1>1, <2>1, <2>7 DEF Reading
<1>4. (pc \in {"write", "payload"} => NotStarted) /\ pc # "error" BY DEF DecoderInv
<1>5. CASE pc \in {"prefix", "scan", "unescape"}
  <2>1. PICK s \in [Nat -> Nat], t \in [Nat -> Nat] : \E P \in Nat : Reading(s, t, P)
    BY <1>5 DEF DecoderInv
  <2>2. PICK P \in Nat : Reading(s, t, P) BY <2>1
  <2>3. Reading(s, t, P)' BY <1>3, <2>2
  <2>4. QED BY <1>1, <1>5, <2>3 DEF DecoderInv
<1>6. CASE pc \notin {"prefix", "scan", "unescape"} BY <1>1, <1>2, <1>4, <1>6 DEF DecoderInv
<1>7. QED BY <1>5, <1>6

LEMMA DecoderStep == FileInv /\ DecoderInv /\ DecoderTypes /\ [Next]_vars => DecoderInv'
BY OpenStep, PutBackStep, EndStep, ReadPrefixStep, CheckPrefixStep, ReadByteStep, LastUnitStep,
   FoundStep, UnescapeStep, Returned, EncoderStep, IdleStep DEF Next

-----------------------------------------------------------------------------
(* The types.                                                               *)

Types ==
  /\ pc \in {"write", "payload", "prefix", "scan", "unescape", "end", "error"}
  /\ DecoderTypes
  /\ count \in 0 .. 2 /\ zeros \in Nat /\ arrived \in Nat
  /\ file \in Seq(Byte) /\ sent \in Seq(SentUnits)
  /\ unread \in Seq(Byte) /\ iobuffer \in Seq(Byte) /\ Buf \in Seq(Byte) /\ got \in Seq(Byte)

LEMMA TypesAre == TypeOK <=> Types
BY DEF TypeOK, Types, DecoderTypes, ByteSeqs, SentUnits, Byte

LEMMA getfbyteTypes ==
  ASSUME Types, getfbyte
  PROVE  /\ unread' \in Seq(Byte) /\ iobuffer' \in Seq(Byte) /\ Buf' \in Seq(Byte)
         /\ annex_b' \in [is_eof : BOOLEAN, nextstartcodebytes : {0, 3, 4}, IsFirst : BOOLEAN]
<1> DEFINE used == iobuffer # <<>>
           from == IF used THEN iobuffer ELSE Chunk(unread)
           left == IF used THEN unread ELSE Rest(unread)
<1>1. /\ unread \in Seq(Byte) /\ iobuffer \in Seq(Byte) /\ Buf \in Seq(Byte)
      /\ annex_b \in [is_eof : BOOLEAN, nextstartcodebytes : {0, 3, 4}, IsFirst : BOOLEAN]
  BY DEF Types, DecoderTypes
<1>2. from \in Seq(Byte) /\ left \in Seq(Byte) BY <1>1, ChunkAre
<1>3. CASE from = <<>>
  <2>1. /\ annex_b' = [annex_b EXCEPT !.is_eof = TRUE]
        /\ Buf' = Append(Buf, 0) /\ unread' = unread /\ iobuffer' = iobuffer
    BY <1>3 DEF getfbyte
  <2>2. 0 \in Byte BY DEF Byte
  <2>3. Buf' \in Seq(Byte) BY <1>1, <2>1, <2>2, OneByte
  <2>4. QED BY <1>1, <2>1, <2>3
<1>4. CASE from # <<>>
  <2>1. /\ iobuffer' = Tail(from) /\ Buf' = Append(Buf, Head(from)) /\ unread' = left
        /\ annex_b' = annex_b
    BY <1>4 DEF getfbyte
  <2> HIDE DEF from, left
  <2>2. Head(from) \in Byte /\ Tail(from) \in Seq(Byte) BY <1>2, <1>4, HeadTailProperties
  <2>3. Buf' \in Seq(Byte) BY <1>1, <2>1, <2>2, OneByte
  <2>4. QED BY <1>1, <1>2, <2>1, <2>2, <2>3
<1>5. QED BY <1>3, <1>4

LEMMA TypesInit == Init => Types
BY DEF Init, Types, DecoderTypes, NoUnit

(* What no step of the decoder but its own changes.                         *)
LEMMA TypesStep ==
  Types /\ PayloadInv' /\ FileInv /\ FileInv' /\ DecoderInv /\ DecoderInv' /\ [Next]_vars => Types'
<1> SUFFICES ASSUME Types, PayloadInv', FileInv, FileInv', DecoderInv, DecoderInv', [Next]_vars
             PROVE  Types'
  OBVIOUS
<1> DEFINE Nalus == [header : Headers \cup {<<>>}, startcodeprefix_len : Nat,
                     rbsp : Seq(Byte), buf : Seq(Byte)]
           Annexes == [is_eof : BOOLEAN, nextstartcodebytes : {0, 3, 4}, IsFirst : BOOLEAN]
<1>1. /\ nalu \in Nalus /\ annex_b \in Annexes
      /\ count \in 0 .. 2 /\ zeros \in Nat /\ arrived \in Nat
      /\ unread \in Seq(Byte) /\ iobuffer \in Seq(Byte) /\ Buf \in Seq(Byte) /\ got \in Seq(Byte)
      /\ pc \in {"write", "payload", "prefix", "scan", "unescape", "end", "error"}
      /\ file \in Seq(Byte)
  BY DEF Types, DecoderTypes
<1>2. file' \in Seq(Byte) /\ sent' \in Seq(SentUnits) BY DEF FileInv
<1> DEFINE Rest1 == unread' \in Seq(Byte) /\ iobuffer' \in Seq(Byte) /\ Buf' \in Seq(Byte)
           Rest2 == arrived' \in Nat /\ got' \in Seq(Byte)
           Pcs == pc' \in {"write", "payload", "prefix", "scan", "unescape", "end", "error"}
<1>3. SUFFICES /\ Pcs /\ nalu' \in Nalus /\ annex_b' \in Annexes /\ count' \in 0 .. 2 /\ zeros' \in Nat
               /\ Rest1 /\ Rest2
  BY <1>2 DEF Types, DecoderTypes
<1>4. CASE StartUnit \/ RBSPtoEBSP
  <2>1. pc' = "payload" /\ zeros' = zeros /\ reader' = reader BY <1>4 DEF StartUnit, RBSPtoEBSP
  <2>2. /\ nalu' \in [header : Headers, startcodeprefix_len : {3, 4}, rbsp : Seq(Byte), buf : Seq(Byte)]
        /\ count' \in 0 .. 2
    BY <2>1 DEF PayloadInv
  <2>3. nalu' \in Nalus BY <2>2
  <2>4. QED BY <1>1, <2>1, <2>2, <2>3 DEF reader
<1>5. CASE WriteAnnexbNALU BY <1>1, <1>5 DEF WriteAnnexbNALU, reader
<1>6. CASE AddZeroByte BY <1>1, <1>6 DEF AddZeroByte, reader
<1>7. CASE Open
  <2>1. /\ pc' = "prefix" /\ nalu' = NoUnit /\ count' = 0 /\ zeros' = zeros /\ Buf' = Buf
        /\ arrived' = arrived /\ got' = got /\ iobuffer' = Chunk(file) /\ unread' = Rest(file)
        /\ annex_b' = [annex_b EXCEPT !.is_eof = file = <<>>]
    BY <1>7 DEF Open
  <2>2. NoUnit \in Nalus BY DEF NoUnit
  <2>3. Chunk(file) \in Seq(Byte) /\ Rest(file) \in Seq(Byte) BY <1>1, ChunkAre
  <2>4. annex_b' \in Annexes BY <1>1, <2>1
  <2>5. QED BY <1>1, <2>1, <2>2, <2>3, <2>4
<1>8. CASE PutBackStartCode
  <2>1. /\ Buf' = StartCode(annex_b.nextstartcodebytes) /\ annex_b.nextstartcodebytes # 0
        /\ pc' = pc /\ annex_b' = annex_b /\ written' = written
        /\ unread' = unread /\ iobuffer' = iobuffer /\ arrived' = arrived /\ got' = got
    BY <1>8 DEF PutBackStartCode
  <2> DEFINE n == annex_b.nextstartcodebytes
  <2>2. n \in {0, 3, 4} /\ n # 0 /\ Buf' = StartCode(n) BY <1>1, <2>1
  <2> HIDE DEF n
  <2>3. n \in Nat /\ n >= 3 BY <2>2
  <2>4. Buf' \in Seq(Byte) BY <2>2, <2>3, StartCodeIs
  <2>5. QED BY <1>1, <2>1, <2>4 DEF written
<1>9. CASE ReadPrefix \/ ReadByte
  <2>1. pc' = pc /\ written' = written /\ arrived' = arrived /\ got' = got /\ getfbyte
    BY <1>9 DEF ReadPrefix, ReadByte
  <2>2. Rest1 /\ annex_b' \in Annexes BY <2>1, getfbyteTypes
  <2>3. QED BY <1>1, <2>1, <2>2 DEF written
<1>10. CASE EndOfFile
  <2>1. written' = written /\ reader' = reader /\ Pcs BY <1>10 DEF EndOfFile
  <2>2. QED BY <1>1, <2>1 DEF written, reader
<1>11. CASE CheckPrefix
  <2>1. /\ Pcs /\ nalu' = [nalu EXCEPT !.startcodeprefix_len = Len(Buf)]
        /\ \E v \in BOOLEAN : annex_b' = [annex_b EXCEPT !.IsFirst = annex_b.IsFirst /\ v]
        /\ count' = count /\ zeros' = zeros /\ unread' = unread /\ iobuffer' = iobuffer
        /\ Buf' = Buf /\ arrived' = arrived /\ got' = got
    BY <1>11 DEF CheckPrefix
  <2>2. Len(Buf) \in Nat BY <1>1, LenProperties
  <2>3. nalu' \in Nalus BY <1>1, <2>1, <2>2
  <2>4. annex_b' \in Annexes BY <1>1, <2>1
  <2>5. QED BY <1>1, <2>1, <2>3, <2>4
<1>12. CASE LastUnit \/ FoundStartCode
  <2>a. PICK n : \E next \in {0, 3, 4} : Hand(n, next) BY <1>12 DEF LastUnit, FoundStartCode
  <2>1. PICK next \in {0, 3, 4} : Hand(n, next) BY <2>a
  <2>2. /\ nalu' = [nalu EXCEPT !.buf = SubSeq(Buf, nalu.startcodeprefix_len + 1, n), !.rbsp = <<>>]
        /\ annex_b' = [annex_b EXCEPT !.nextstartcodebytes = next]
        /\ Buf' = <<>> /\ count' = 0 /\ pc' = "unescape" /\ zeros' = zeros
        /\ unread' = unread /\ iobuffer' = iobuffer /\ arrived' = arrived /\ got' = got
    BY <2>1 DEF Hand
  <2>3. nalu'.buf \in Seq(Byte) BY <2>2 DEF DecoderInv, Reading, At, AtUnit, Restoring
  <2>4. nalu' \in Nalus
    <3> DEFINE v == SubSeq(Buf, nalu.startcodeprefix_len + 1, n)
    <3>1. nalu' = [nalu EXCEPT !.buf = v, !.rbsp = <<>>] BY <2>2
    <3>2. v \in Seq(Byte) /\ <<>> \in Seq(Byte) BY <1>1, <2>2, <2>3
    <3> HIDE DEF v
    <3>3. QED BY <1>1, <3>1, <3>2
  <2>5. annex_b' \in Annexes BY <1>1, <2>2
  <2>6. <<>> \in Seq(Byte) OBVIOUS
  <2>7. QED BY <1>1, <2>2, <2>4, <2>5, <2>6
<1>13. CASE EBSPtoRBSP
  <2>1. /\ \E x, y : nalu' = [nalu EXCEPT !.buf = x, !.rbsp = y]
        /\ zeros' = zeros /\ reader' = reader /\ pc' \in {"error", "unescape"}
    BY <1>13 DEF EBSPtoRBSP
  <2>2. pc' = "unescape" BY <2>1 DEF DecoderInv
  <2>3. nalu'.buf \in Seq(Byte) /\ nalu'.rbsp \in Seq(Byte) /\ count' \in 0 .. 2
    BY <2>2 DEF DecoderInv, Reading, At, AtUnit, Restoring
  <2>4. PICK x, y : nalu' = [nalu EXCEPT !.buf = x, !.rbsp = y] BY <2>1
  <2>5. x \in Seq(Byte) /\ y \in Seq(Byte) BY <1>1, <2>3, <2>4
  <2>6. nalu' \in Nalus BY <1>1, <2>4, <2>5
  <2>7. QED BY <1>1, <2>1, <2>2, <2>3, <2>6 DEF reader
<1>14. CASE ReturnUnit
  <2>1. arrived' = arrived + 1 /\ got' = Unit(sent[arrived + 1]) /\ IsUnit(sent[arrived + 1])
    BY <1>14, Returned
  <2>2. Rest2 BY <1>1, <2>1 DEF IsUnit
  <2>3. /\ Pcs /\ written' = written
        /\ unread' = unread /\ iobuffer' = iobuffer /\ Buf' = Buf /\ annex_b' = annex_b
    BY <1>14 DEF ReturnUnit
  <2>4. QED BY <1>1, <2>2, <2>3 DEF written
<1>15. CASE UNCHANGED vars BY <1>1, <1>15 DEF vars, written, reader
<1>16. QED
  BY <1>4, <1>5, <1>6, <1>7, <1>8, <1>9, <1>10, <1>11, <1>12, <1>13, <1>14, <1>15 DEF Next

-----------------------------------------------------------------------------
(* What holds in every state.                                               *)

NalInv == Types /\ PayloadInv /\ WrittenInv /\ FileInv /\ DecoderInv

LEMMA NalInit == Init => NalInv
<1> SUFFICES ASSUME Init PROVE NalInv OBVIOUS
<1>1. pc = "write" /\ NotStarted BY DEF Init, NotStarted
<1>2. PayloadInv /\ WrittenInv /\ DecoderInv BY <1>1 DEF PayloadInv, WrittenInv, DecoderInv
<1>3. QED BY <1>2, TypesInit, FileInit DEF NalInv

LEMMA NalStep == NalInv /\ [Next]_vars => NalInv'
<1> SUFFICES ASSUME NalInv, [Next]_vars PROVE NalInv' OBVIOUS
<1>1. Types /\ DecoderTypes /\ PayloadInv /\ WrittenInv /\ FileInv /\ DecoderInv BY DEF NalInv, Types
<1>2. PayloadInv' /\ WrittenInv' /\ FileInv' BY <1>1, PayloadStep, WrittenStep, FileStep
<1>3. DecoderInv' BY <1>1, DecoderStep
<1>4. Types' BY <1>1, <1>2, <1>3, TypesStep
<1>5. QED BY <1>2, <1>3, <1>4 DEF NalInv

(* Every byte and every count has its type in every state.                  *)
THEOREM TypeCorrect == Spec => []TypeOK
<1>1. NalInv => TypeOK BY TypesAre DEF NalInv
<1>2. QED BY <1>1, NalInit, NalStep, PTL DEF Spec

(* get_annex_b_NALU and EBSPtoRBSP report no error for a file that the      *)
(* encoder wrote, wherever the borders of the chunks are.                   *)
THEOREM NothingIsRefused == Spec => []NothingRefused
<1>1. NalInv => NothingRefused BY DEF NalInv, DecoderInv, NothingRefused
<1>2. QED BY <1>1, NalInit, NalStep, PTL DEF Spec

(* The units written are sent, the units read delivered.                    *)
LEMMA StepsDeliver == NalInv /\ NalInv' /\ [Next]_vars => [Delivery!Next]_(Delivery!vars)
<1> DEFINE Mapped == [n \in DOMAIN sent |-> Unit(sent[n])]
           Last == IF got = <<>> THEN <<>> ELSE <<got, 0>>
<1> SUFFICES ASSUME NalInv, NalInv', [Next]_vars
             PROVE  \/ Delivery!Next
                    \/ Mapped' = Mapped /\ arrived' = arrived /\ Last' = Last
  BY DEF Delivery!vars
<1>1. sent \in Seq(SentUnits) /\ Len(sent) \in Nat /\ arrived \in Nat BY LenProperties DEF NalInv, Types
<1>2. CASE WriteAnnexbNALU
  <2> DEFINE u == [header |-> nalu.header, rbsp |-> nalu.rbsp]
  <2>1. sent' = Append(sent, u) /\ arrived' = arrived /\ got' = got BY <1>2 DEF WriteAnnexbNALU, reader
  <2>2. u \in SentUnits BY <1>2 DEF WriteAnnexbNALU, NalInv, PayloadInv, SentUnits
  <2> HIDE DEF u
  <2>3. /\ sent' \in Seq(SentUnits) /\ Len(sent') = Len(sent) + 1 /\ Len(sent') \in Nat
        /\ (\A i \in 1 .. Len(sent) : sent'[i] = sent[i]) /\ sent'[Len(sent) + 1] = u
    BY <1>1, <2>1, <2>2, AppendProperties, LenProperties
  <2>4. \A i \in 1 .. Len(sent') : Unit(sent'[i]) \in Seq(Byte)
    <3>1. \A i \in 1 .. Len(sent') : sent'[i] \in SentUnits BY <2>3, ElementOfSeq
    <3>2. \A v \in SentUnits : v.header \in Seq(Byte) /\ v.rbsp \in Seq(Byte)
      BY HeaderAssumption DEF SentUnits, Byte
    <3>3. QED BY <3>1, <3>2, Joins DEF Unit
  <2>5. DOMAIN sent = 1 .. Len(sent) /\ DOMAIN sent' = 1 .. Len(sent') BY <1>1, <2>3, LenProperties
  <2>6. /\ Mapped \in Seq(Seq(Byte)) /\ Len(Mapped) = Len(sent)
        /\ Mapped' \in Seq(Seq(Byte)) /\ Len(Mapped') = Len(sent) + 1
    <3>1. \A i \in 1 .. Len(sent) : Unit(sent[i]) \in Seq(Byte)
      <4>1. \A i \in 1 .. Len(sent) : i \in 1 .. Len(sent') BY <1>1, <2>3
      <4>2. QED BY <2>3, <2>4, <4>1
    <3>2. QED BY <1>1, <2>3, <2>4, <2>5, <3>1
  <2>7. SubSeq(Mapped', 1, Len(Mapped)) = Mapped
    <3>1. \A i \in 1 .. Len(sent) : Mapped'[i] = Mapped[i]
      <4>1. \A i \in 1 .. Len(sent) : i \in 1 .. Len(sent') BY <1>1, <2>3
      <4>2. QED BY <2>3, <2>5, <4>1
    <3> HIDE DEF Mapped
    <3>2. QED BY <1>1, <2>6, <3>1
  <2>8. Delivery!Send
    <3>1. Len(Mapped') > Len(Mapped) BY <1>1, <2>6
    <3>2. \A i \in Len(Mapped) + 1 .. Len(Mapped') : Mapped'[i] \in Seq(0 .. 255)
      <4>1. \A i \in Len(Mapped) + 1 .. Len(Mapped') : i \in 1 .. Len(Mapped') BY <1>1, <2>6
      <4>2. \A i \in 1 .. Len(Mapped') : Mapped'[i] \in Seq(Byte) BY <2>6, ElementOfSeq
      <4>3. QED BY <4>1, <4>2 DEF Byte
    <3>3. arrived' = arrived /\ Last' = Last BY <2>1
    <3>4. QED BY <2>7, <3>1, <3>2, <3>3 DEF Delivery!Send
  <2>9. QED BY <2>8 DEF Delivery!Next
<1>3. CASE ReturnUnit
  <2>1. /\ arrived + 1 \in 1 .. Len(sent) /\ arrived' = arrived + 1 /\ got' = Unit(sent[arrived + 1])
        /\ IsUnit(sent[arrived + 1])
    BY <1>3, Returned DEF NalInv
  <2>2. sent' = sent BY <1>3 DEF ReturnUnit, written
  <2>3. got' # <<>>
    <3>1. got' = <<>> => Len(got') = 0 OBVIOUS
    <3>2. QED BY <2>1, <3>1 DEF IsUnit
  <2>4. DOMAIN sent = 1 .. Len(sent) BY <1>1, LenProperties
  <2>5. Len(Mapped) = Len(sent)
    <3>1. DOMAIN Mapped = 1 .. Len(sent) BY <2>4
    <3>2. QED BY <1>1, <3>1
  <2>6. 0 \in 0 .. Len(Mapped) - arrived - 1 /\ arrived' = arrived + 0 + 1 BY <1>1, <2>1, <2>5
  <2>7. Last' = <<Mapped[arrived'], 0>> BY <2>1, <2>3, <2>4
  <2>8. Mapped' = Mapped BY <2>2
  <2>9. Delivery!Deliver BY <2>6, <2>7, <2>8 DEF Delivery!Deliver
  <2>10. QED BY <2>9 DEF Delivery!Next
<1>4. CASE ~ WriteAnnexbNALU /\ ~ ReturnUnit
  <2>1. sent' = sent /\ arrived' = arrived /\ got' = got
    BY <1>4 DEF Next, StartUnit, RBSPtoEBSP, AddZeroByte, Open, PutBackStartCode, ReadPrefix, EndOfFile,
       CheckPrefix, ReadByte, LastUnit, FoundStartCode, Hand, EBSPtoRBSP, vars, written, reader
  <2>2. QED BY <2>1
<1>5. QED BY <1>2, <1>3, <1>4

(* The decoder reads what the encoder wrote: each unit once, in order and   *)
(* unchanged (the safety part of ImplementsDelivery).                       *)
THEOREM DeliveredInOrder == Spec => Delivery!InOrder
<1>1. Init => Delivery!Init
  <2> SUFFICES ASSUME Init PROVE Delivery!Init OBVIOUS
  <2>1. sent = <<>> /\ arrived = 0 /\ got = <<>> BY DEF Init
  <2>2. [n \in DOMAIN sent |-> Unit(sent[n])] = <<>> BY <2>1
  <2>3. QED BY <2>1, <2>2 DEF Delivery!Init
<1>2. QED BY <1>1, NalInit, NalStep, StepsDeliver, PTL DEF Spec, Delivery!InOrder
=============================================================================
