------------------------------- MODULE MCNal -------------------------------
(* AnnexB on short files.                                                    *)
EXTENDS AnnexB

(* nal_unit_type 1 with nal_ref_idc 0 looks like the end of a start code; a  *)
(* prefix unit of an anchor picture has zeros in its header.                 *)
TwoHeaders == {<<1>>, <<110, 0, 0, 7>>}
=============================================================================
