---------------------------- MODULE MCCvLifecycle ----------------------------
(* CvLifecycle on two or three uploads; the CVs share a concept.             *)
EXTENDS CvLifecycle, TLC

CONSTANTS v1, v2, v3, k1, k2

MCSays == [c \in Cv |-> IF c = v1 THEN {k1} ELSE Concept]

=============================================================================
