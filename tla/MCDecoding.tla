---------------------------- MODULE MCDecoding ----------------------------
(* PictureDecoding on short streams.  A configuration cannot write           *)
(* sequences, functions and negative numbers, which have names here.         *)
EXTENDS PictureDecoding

TwoRefFrames == <<2, 5>>
MinusTwo == -2
NearAndFar == {-7, 3, 8}
Near == {-3, 2, 8}
SmallDeltas == {-1, 0}

(* For each pic_order_cnt_type, the pictures that may carry operation 5.     *)
NoMmco5 == [t \in PocTypes |-> {}]
Mmco5ByType == [t \in PocTypes |-> IF t = 0 THEN {"bottom"} ELSE Structures]
Mmco5OnFrames == [t \in PocTypes |-> {"frame"}]

(* For each type, the frames that may be left out of the stream at a time.   *)
NoGaps == [t \in PocTypes |-> 0]
GapsByType == [t \in PocTypes |-> IF t = 0 THEN 1 ELSE 2]
=============================================================================
