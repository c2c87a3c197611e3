--------------------------- MODULE MCBoardRegistry ---------------------------
(* BoardRegistry on two boards and two companies that both guess the first   *)
(* board; the second is only ever named by a verifier or a website.          *)
EXTENDS BoardRegistry, TLC

CONSTANTS c1, c2, s1, s2

MCGuesses == [c \in Company |-> {s1}]

CompanySymmetry == Permutations(Company)

=============================================================================
