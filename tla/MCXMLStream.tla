---------------------------- MODULE MCXMLStream -----------------------------
(* XMLStream with small sets for TLC. *)
EXTENDS XMLStream
=============================================================================
