---- MODULE MCLookup ----
EXTENDS Lookup
\* A presence announces hashes of one or two algorithms.
MCAnnouncements == {<<"h">>, <<"g", "h">>}
====
