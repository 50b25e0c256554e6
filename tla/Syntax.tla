-------------------------------- MODULE Syntax --------------------------------
(***************************************************************************)
(* The syntax trees of hw4 (syntax.h), how the shell prints them           *)
(* (syntax.c, prog_list), and how its scanner reads a text (mush.lex.c).   *)
(*                                                                         *)
(* A text is a sequence of lexemes: names, numbers and other words, the    *)
(* keywords, operators, what is quoted, the blanks between them and the    *)
(* ends of lines.  What the scanner calls a name or a keyword depends on   *)
(* what comes after it.                                                    *)
(*                                                                         *)
(* An expression is a literal <<"lit", type, text>>, a variable <<"var",   *)
(* type, name>>, <<"not", type, e>> or <<"binary", type, operator, e1,     *)
(* e2>>, as in Mush.  A statement is its class and what belongs to it.     *)
(***************************************************************************)
EXTENDS Integers, Sequences

LOCAL INSTANCE SequencesExt

Name(x) == <<"name", x>>
Number(n) == <<"number", n>>
Word(w) == <<"word", w>>
Key(k) == <<"key", k>>
Op(o) == <<"op", o>>
Quoted(text) == <<"quoted", text>>
Blank == <<"blank">>
Eol == <<"eol">>
EndOfFile == <<"end of file">>

\* The input file of a pipeline that has none; the output file, too.
NoFile == <<<<"no file">>>>

-----------------------------------------------------------------------------
(* mush.lex.c.  A token is a symbol of the grammar and its text. *)

\* The rules with a trailing context: a keyword wants white space after it; a
\* name that, a parenthesis, a quote or an angle; and a number anything that may
\* not be part of a word.  Without it they are names or words, and so is 0.
EndsName(after) ==
  \/ after \in {Blank, Eol} \/ after[1] = "quoted"
  \/ after[1] = "op" /\ after[2] \in {"(", ")", "<", ">", "<=", ">="}

Scanned(lexeme, after) ==
  LET kind == lexeme[1]
      token(symbol) == <<symbol, <<lexeme>>>>
  IN CASE kind = "op" -> <<lexeme[2], <<>>>>
       [] kind = "eol" -> <<"EOL", <<>>>>
       [] kind = "quoted" -> <<"STRING", lexeme[2]>>
       [] kind = "word" -> token("WORD")
       [] kind = "key" /\ after \in {Blank, Eol} -> <<lexeme[2], <<>>>>
       [] kind \in {"key", "name"} ->
            token(IF EndsName(after) THEN "NAME" ELSE "WORD")
       [] kind = "number" -> token(IF lexeme[2] = 0 \/ after = EndOfFile THEN "WORD" ELSE "NUMBER")

-----------------------------------------------------------------------------
(* syntax.c *)

Joined(texts, separator) ==
  FlattenSeq([i \in DOMAIN texts |-> IF i = 1 THEN texts[i] ELSE separator \o texts[i]])

InParens(text) == <<Op("(")>> \o text \o <<Op(")")>>

\* The left argument of an operator is taken for one that needs no parentheses.
RECURSIVE ShowExprRightOnly(_, _)
ShowExprRightOnly(e, parens) ==
  LET shown(text) == IF parens THEN InParens(text) ELSE text
  IN CASE e[1] = "lit" -> e[3]
       [] e[1] = "var" -> <<Op(IF e[2] = "num" THEN "#" ELSE "$"), Name(e[3])>>
       [] e[1] = "not" -> shown(<<Op("!"), Blank>> \o ShowExprRightOnly(e[3], TRUE))
       [] e[1] = "binary" ->
            shown(ShowExprRightOnly(e[4], FALSE) \o <<Blank, Op(e[3]), Blank>>
                    \o ShowExprRightOnly(e[5], TRUE))

RECURSIVE ShowExpr(_, _)
ShowExpr(e, parens) ==
  LET shown(text) == IF parens THEN InParens(text) ELSE text
  IN CASE e[1] = "lit" -> e[3]
       [] e[1] = "var" -> <<Op(IF e[2] = "num" THEN "#" ELSE "$"), Name(e[3])>>
       [] e[1] = "not" -> shown(<<Op("!"), Blank>> \o ShowExpr(e[3], TRUE))
       [] e[1] = "binary" ->
            shown(ShowExpr(e[4], TRUE) \o <<Blank, Op(e[3]), Blank>> \o ShowExpr(e[5], TRUE))

ShowCommand(args) == Joined([i \in DOMAIN args |-> ShowExpr(args[i], FALSE)], <<Blank>>)

ShowPipeline(p) ==
  LET redirected(file, o) == IF file = NoFile THEN <<>> ELSE <<Blank, Op(o), Blank>> \o file
  IN Joined([i \in DOMAIN p.commands |-> ShowCommand(p.commands[i])], <<Blank, Op("|"), Blank>>)
       \o redirected(p.input, "<")
       \o (IF p.capture THEN <<Blank, Op(">"), Op("@")>> ELSE <<>>)
       \o redirected(p.output, ">")

ShowNumber(n) == IF n < 0 THEN <<Op("-"), Number(-n)>> ELSE <<Number(n)>>

\* A statement of a program; the others have no line number.
ShowStmt(l, s) ==
  LET key == <<Key(s[1]), Blank>>
      goto(n) == <<Key("goto"), Blank>> \o ShowNumber(n)
  IN <<Blank>> \o ShowNumber(l) \o <<Blank>>
       \o (CASE s[1] \in {"stop", "pause"} -> <<Key(s[1])>>
             [] s[1] = "fg" -> ShowPipeline(s[2])
             [] s[1] = "bg" -> ShowPipeline(s[2]) \o <<Op("&"), Blank>>
             [] s[1] \in {"wait", "poll", "cancel"} -> key \o ShowExpr(s[2], FALSE)
             [] s[1] = "set" -> key \o <<Name(s[2]), Blank, Op("="), Blank>> \o ShowExpr(s[3], FALSE)
             [] s[1] = "unset" -> key \o <<Name(s[2])>>
             [] s[1] = "if" -> key \o ShowExpr(s[3], FALSE) \o <<Blank>> \o goto(s[2])
             [] s[1] = "goto" -> goto(s[2])
             [] s[1] = "source" -> key \o s[2])
       \o <<Eol>>

\* prog_list: the statements in order, with an arrow at the counter.
Listing(program, counter) ==
  LET arrow(here) == IF here THEN <<Op("-"), Op("-"), Op(">"), Eol>> ELSE <<>>
      entries == SetToSortSeq(program, LAMBDA a, b : a[1] < b[1])
      lines == {entry[1] : entry \in program}
  IN FlattenSeq([i \in DOMAIN entries |-> arrow(counter = entries[i][1]) \o ShowStmt(entries[i][1], entries[i][2])])
       \o arrow(counter \notin lines)
=============================================================================
