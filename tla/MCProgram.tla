------------------------------- MODULE MCProgram -------------------------------
(* The program store with three line numbers, a node for each of them, and *)
(* one statement of each kind: the jumps go to the first and the last line.*)
EXTENDS Program, TLC

MCLine == {10, 20, 30}
MCStmt == {<<"plain">>, <<"stop">>, <<"goto", 10>>, <<"if", 30>>}

=============================================================================
