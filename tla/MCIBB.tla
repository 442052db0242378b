-------------------------------- MODULE MCIBB --------------------------------
(* IBB with a few bytes for TLC: only the acceptor writes, and may do so before the opener knows of the session. *)
EXTENDS IBB
BytesPerEnd == [e \in End |-> IF e = "opener" THEN 0 ELSE 3]
=============================================================================
