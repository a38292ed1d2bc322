------------------------------- MODULE MCDpb -------------------------------
(* Dpb on small buffers: the configurations give every constant a value.    *)
EXTENDS RefLists
=============================================================================
