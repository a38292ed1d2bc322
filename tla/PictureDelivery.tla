--------------------------- MODULE PictureDelivery ---------------------------
(***************************************************************************)
(* What decoding promises of the pictures of a stream, without slices,     *)
(* look-ahead or headers: the pictures whose slices all arrive are given   *)
(* to the decoded picture buffer, each once, whole, in the order of the    *)
(* stream and unmixed with another; a picture that lost a slice never is;  *)
(* and the decoder gives up only on a stream that lost something.          *)
(* PictureDecoding implements this specification.                          *)
(***************************************************************************)
EXTENDS Integers

CONSTANTS MaxPictures, Macroblocks

VARIABLES
  sent,     (* the pictures the stream has begun are 1 .. sent             *)
  lost,     (* those of them that lost a slice, or that a loss has left    *)
            (* with the same header as the picture heard before            *)
  stored,   (* the macroblocks of the last picture stored, each with the   *)
            (* picture it was sent in                                      *)
  stopped   (* the decoder has given up                                    *)

vars == <<sent, lost, stored, stopped>>

Whole(i) == {i} \X Macroblocks
LastStored == IF stored = {} THEN 0 ELSE CHOOSE i \in 1 .. MaxPictures : Whole(i) = stored

Init == sent = 0 /\ lost = {} /\ stored = {} /\ stopped = FALSE

Send ==
  /\ sent' = sent + 1
  /\ UNCHANGED <<lost, stored, stopped>>

Lose ==
  /\ sent' \in {sent, sent + 1}
  /\ \E i \in (LastStored + 1) .. sent' : lost' = lost \cup {i, sent'}
  /\ UNCHANGED <<stored, stopped>>

Store ==
  /\ \E i \in (LastStored + 1) .. sent :
       /\ i \notin lost /\ (LastStored + 1) .. (i - 1) \subseteq lost
       /\ stored' = Whole(i)
  /\ UNCHANGED <<sent, lost, stopped>>

GiveUp ==
  /\ lost # {} /\ ~stopped
  /\ stopped' = TRUE
  /\ UNCHANGED <<sent, lost, stored>>

Next == Send \/ Lose \/ Store \/ GiveUp

EachIsStored ==
  \A i \in 1 .. MaxPictures : sent >= i ~> (LastStored >= i \/ i \in lost \/ stopped)

(* What may happen, and that it does.                                       *)
InOrder == Init /\ [][Next]_vars
Spec == InOrder /\ EachIsStored
=============================================================================
