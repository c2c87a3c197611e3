------------------------- MODULE MCBoardVerification -------------------------
EXTENDS BoardVerification

\* One tenant's host ends with another's: notacme.pinpointhq.com has acme.pinpointhq.com in it.
Endings == [t \in Tenant |-> IF t = "acme" THEN {"acme", "notacme"} ELSE {t}]
===============================================================================
