--------------------------- MODULE MCFieldOwnership ---------------------------
(* Two aggregators and a board that outranks them. *)
EXTENDS FieldOwnership

MCRank == [s \in Source |-> IF s = "board" THEN 2 ELSE 1]

\* At first the board has a whole text with the location and the second aggregator one without,
\* the first aggregator any account.  An edit may change each.
MCOpening ==
  {[s \in Source |->
      IF s = "feed1" THEN a
      ELSE [rev |-> 0, partial |-> FALSE, states |-> IF s = "board" THEN Optional ELSE {}]] :
   a \in {b \in Account : b.rev = 0}}
===============================================================================
