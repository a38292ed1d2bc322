------------------------------- MODULE MCRtp -------------------------------
(* RtpPackets on short files.                                                *)
EXTENDS RtpPackets

FarAndBack == {12, -10}
=============================================================================
