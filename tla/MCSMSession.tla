---------------------------- MODULE MCSMSession -----------------------------
(* SMSession with small sets for TLC. *)
EXTENDS SMSession
=============================================================================
