---------------------------- MODULE NalDelivery ----------------------------
(***************************************************************************)
(* What the transport of NAL units promises, without bytes, start codes,   *)
(* packets or buffers: the units that an encoder sends arrive unchanged    *)
(* and in order, none of them twice.  A transport that may lose units says *)
(* with each one how many were lost since the one before; it cannot know   *)
(* of those lost before the first.  Without losses all units do arrive.     *)
(* AnnexB implements this specification without losses, RtpPackets with.   *)
(***************************************************************************)
EXTENDS Naturals, Sequences

CONSTANTS
  Units,   (* the NAL units there are                                      *)
  Lossy    (* some may be lost on the way                                  *)

VARIABLES
  sent,    (* the units sent so far                                        *)
  passed,  (* how many of them have arrived or been passed over            *)
  got      (* the last to arrive, and how many were lost before it         *)

vars == <<sent, passed, got>>

Init == sent = <<>> /\ passed = 0 /\ got = <<>>

(* A step sends one unit or several.                                        *)
Send ==
  /\ Len(sent') > Len(sent) /\ SubSeq(sent', 1, Len(sent)) = sent
  /\ \A n \in Len(sent) + 1 .. Len(sent') : sent'[n] \in Units
  /\ UNCHANGED <<passed, got>>

Deliver ==
  \E lost \in 0 .. Len(sent) - passed - 1 :
    /\ lost > 0 => Lossy
    /\ passed' = passed + lost + 1
    /\ got' = <<sent[passed'], IF got = <<>> THEN 0 ELSE lost>>
    /\ UNCHANGED sent

Next == Send \/ Deliver

(* A transport that may lose units.                                         *)
InOrder == Init /\ [][Next]_vars

(* One on which every unit arrives.                                         *)
Spec == InOrder /\ <>[](passed = Len(sent))
=============================================================================
