--------------------------- MODULE MCStanzaStream ---------------------------
(* StanzaStream with small sets for TLC. *)
EXTENDS StanzaStream, TLC

Symmetry == Permutations(Tokens \ (MayDrop \cup MayFail))

\* No action reads io, so states that differ in it only are one to TLC; the
\* action properties look at io' on every step it generates.
View == <<tokenVars, futVars, smVars, taskVars, streamVars, opVars, connVars>>
=============================================================================
