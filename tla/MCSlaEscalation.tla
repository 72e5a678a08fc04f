-------------------------- MODULE MCSlaEscalation --------------------------
(* SlaEscalation for TLC. *)
EXTENDS SlaEscalation
=============================================================================
