---- MODULE MCTracking ----
EXTENDS Tracking
\* All groupchat messages have the same body, so that they compete for a reflection.
MCBody == [g \in Grouped |-> "b"]
====
