------------------------------ MODULE MCJobSkills ------------------------------
EXTENDS JobSkills

\* The second version moves `spark` to another concept and settles what `r` means.
Vocabulary ==
  [v \in 1 .. 2 |-> [f \in {"golang", "spark", "r"} |->
     CASE f = "golang" -> {"go"}
       [] f = "spark" -> IF v = 1 THEN {"spark"} ELSE {"sql"}
       [] f = "r" -> IF v = 1 THEN {"go", "sql"} ELSE {"go"}]]

Descriptions == {{"golang", "spark"}, {"r", "spark"}}
===============================================================================
