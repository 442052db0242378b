--------------------------- MODULE TokenContract ----------------------------
(***************************************************************************)
(* What a StanzaToken promises to whoever enqueued the stanza, across any  *)
(* number of connections: no stanza is transferred twice, or while it is   *)
(* retracted, and a confirmation is given only after the transfer and      *)
(* never withdrawn.                                                        *)
(***************************************************************************)

CONSTANT Tokens

VARIABLES
    promise,       \* what each token says about its stanza: "NEW", "OPEN",
                   \* "DELIVERED", "RETRACTED", "WITHHELD" or "UNKNOWN"
    transferred    \* stanzas the server has taken over

Init ==
    /\ promise = [t \in Tokens |-> "NEW"]
    /\ transferred = {}

Change(S, from, to) ==
    /\ S # {} /\ \A t \in S : promise[t] \in from
    /\ promise' = [t \in Tokens |-> IF t \in S THEN to ELSE promise[t]]
    /\ UNCHANGED transferred

Accept == \E t \in Tokens : Change({t}, {"NEW"}, "OPEN")

\* A stanza is transferred once, and neither retracted nor withheld ones are.
Transfer ==
    /\ \E t \in Tokens \ transferred :
          /\ promise[t] \in {"OPEN", "UNKNOWN"}
          /\ transferred' = transferred \cup {t}
    /\ UNCHANGED promise

Confirm == \E S \in SUBSET transferred : Change(S, {"OPEN"}, "DELIVERED")

Retract == \E t \in Tokens \ transferred : Change({t}, {"OPEN"}, "RETRACTED")

\* A stanza that is not sent, because a filter drops it or sending it fails,
\* has not been transferred; it may yet be sent with the rest of its batch.
Withhold == \E t \in Tokens \ transferred : Change({t}, {"OPEN"}, "WITHHELD")
Retry    == \E t \in Tokens : Change({t}, {"WITHHELD"}, "OPEN")

\* The session ends, or the stanza is sent without Stream Management, without
\* a verdict except on the stanzas D.
GiveUp == \E S \in SUBSET Tokens, D \in SUBSET transferred :
    /\ S # {} /\ S \cap D = {}
    /\ \A t \in S : promise[t] \in {"OPEN", "RETRACTED", "WITHHELD"}
    /\ \A t \in D : promise[t] = "OPEN"
    /\ promise' = [t \in Tokens |-> IF t \in S THEN "UNKNOWN"
                                    ELSE IF t \in D THEN "DELIVERED" ELSE promise[t]]
    /\ UNCHANGED transferred

Next == Accept \/ Transfer \/ Confirm \/ Retract \/ Withhold \/ Retry \/ GiveUp

Spec == Init /\ [][Next]_<<promise, transferred>>
=============================================================================
