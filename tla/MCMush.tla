-------------------------------- MODULE MCMush --------------------------------
(* The interpreter with a program of one line, one slot for a job,         *)
(* and ints of five bits, so that a difference can be cut off.             *)
EXTENDS Mush, TLC

MCLine == {10}
MCOutput == {<<1>>, <<Letter>>}
MCVar == {"JOB", "STATUS", "OUTPUT", "X"}

Lit(text) == <<"lit", "str", text>>
Num(var) == <<"var", "num", var>>
Binary(oprtr, a, b) == <<"binary", "num", oprtr, a, b>>

Down == Binary("-", Num("X"), Lit(<<0, 2, 0>>))
IsUp == Binary("||", Binary("<", Num("X"), Num("STATUS")), Binary("/", Lit(<<4>>), Num("STATUS")))
IsText == Binary("==", <<"var", "str", "OUTPUT">>, <<"lit", "str", <<1>>>>)
HasJob == Binary("&&", Binary("<=", Lit(<<0>>), Num("JOB")), <<"not", "num", IsText>>)
NoText == Binary("==", HasJob[5], IsText[4])

MCExpr == {Down, Down[4], Down[5], IsUp, IsUp[4], IsUp[5], Num("STATUS"), Lit(<<4>>), Num("JOB"), Num("OUTPUT"),
           IsText, IsText[4], IsText[5], HasJob, HasJob[4], HasJob[5], HasJob[4][4], NoText}

MCStmt == {<<"plain", <<"set", "X", Down>>>>, <<"plain", <<"fg", TRUE>>>>,
           <<"if", 10, IsUp>>, <<"goto", 10>>, <<"stop">>}
MCImmediate == {<<"unset", "X">>, <<"bg", FALSE>>, <<"wait", Num("JOB")>>, <<"poll", Num("JOB")>>, <<"cancel", Num("JOB")>>,
                <<"pause">>, <<"set", "X", IsText[4]>>, <<"poll", NoText>>}
=============================================================================
