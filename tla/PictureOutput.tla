---------------------------- MODULE PictureOutput ----------------------------
(***************************************************************************)
(* What a decoded picture buffer promises of the output file, without its  *)
(* stores, reference marks or limits: a frame that is accepted is written  *)
(* once, with both of its fields, unless an IDR picture tells the decoder  *)
(* to drop what waits; a frame that was never accepted is never written;   *)
(* and no frame waits forever.  Dpb implements this specification.         *)
(***************************************************************************)
EXTENDS Sequences, SequencesExt

CONSTANT Frames

VARIABLES
  pending,   (* frames accepted, neither written nor dropped               *)
  dropping,  (* an IDR picture with no_output_of_prior_pics is handled     *)
  written    (* what the last step wrote                                   *)

vars == <<pending, dropping, written>>

Init == pending = {} /\ dropping = FALSE /\ written = <<>>

(* A frame is written as one image, from its two fields.                    *)
Whole(f) == [parity \in {"top", "bottom"} |-> f]

(* At most one new frame is accepted, and some of those that wait, the new  *)
(* one perhaps among them, are written.                                     *)
Advance ==
  /\ ~dropping /\ dropping' \in BOOLEAN
  /\ \E new \in {{}} \cup {{f} : f \in Frames \ pending} :
       \E out \in SUBSET (pending \cup new) :
         /\ pending' = (pending \cup new) \ out
         /\ \E order \in SetToSeqs(out) : written' = [n \in DOMAIN order |-> Whole(order[n])]

Drop ==
  /\ dropping /\ ~dropping'
  /\ pending' \subseteq pending
  /\ written' = <<>>

Next == Advance \/ Drop

NoneWaitsForever == \A f \in Frames : []<>(f \notin pending)

Accounted == Init /\ [][Next]_vars   (* the safety part *)

Spec == Accounted /\ NoneWaitsForever
=============================================================================
