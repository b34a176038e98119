------------------------------ MODULE MCDsSeq ------------------------------
(* Small instances of DsSeq for TLC.                                       *)
EXTENDS DsSeq
=============================================================================
