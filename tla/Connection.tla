----------------------------- MODULE Connection -----------------------------
(***************************************************************************)
(* What a protocol.XMLStream promises its user: the life of a connection.  *)
(* An open connection ends once and for all; on_closing fires exactly      *)
(* once, after it has ended, with the error as it was known then; another  *)
(* may be established after that.                                          *)
(***************************************************************************)
VARIABLES
    conn,       \* "none", "open", "closing" or "down"
    connErr,    \* the connection ended with an error
    notified    \* on_closing has fired

connection == <<conn, connErr, notified>>

Ended == conn \in {"closing", "down"}

Init == conn = "none" /\ ~connErr /\ ~notified

Establish ==
    /\ conn = "none" \/ (conn = "down" /\ notified)
    /\ conn' = "open" /\ ~connErr' /\ ~notified'

\* The user closes it, or it ends without an error.
End ==
    /\ conn = "open" /\ conn' \in {"closing", "down"}
    /\ UNCHANGED <<connErr, notified>>

Fail ==
    /\ conn = "open" \/ Ended
    /\ conn' \in {"closing", "down"} /\ (conn = "down" => conn' = "down")
    /\ connErr' /\ ~notified
    /\ UNCHANGED notified

Gone == conn = "closing" /\ conn' = "down" /\ UNCHANGED <<connErr, notified>>

Notify == Ended /\ ~notified /\ notified' /\ UNCHANGED <<conn, connErr>>

Next == Establish \/ End \/ Fail \/ Gone \/ Notify

Spec == Init /\ [][Next]_connection
=============================================================================
