------------------------- MODULE MCAppendOnlyFile -------------------------
(* AppendOnlyFile for TLC.                                               *)
EXTENDS AppendOnlyFile
=============================================================================
