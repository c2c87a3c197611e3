---------------------------- MODULE MCIngestionRun ----------------------------
(* Small instances of IngestionRun: the postings alternate between two boards, or countries. *)
EXTENDS IngestionRun

MCRunsOf == [s \in Source |-> IF s \in Overlapping THEN 2 ELSE 1]
MCPostingsOf ==
  [s \in Source |-> IF s = "adzuna" THEN 1 ELSE IF s \in {"remotive", "jobicy"} THEN 2 ELSE 3]
MCSectionOf == [p \in Posting |-> 1 + (p % Sections)]
===============================================================================
