-------------------------------- MODULE Reader --------------------------------
(***************************************************************************)
(* How the shell of hw4 reads: the stack of input files that the scanner   *)
(* takes tokens from (push_input, pop_input), the parser that bison made   *)
(* (yyparse), and exec_interactive, which enters a statement into the      *)
(* program or executes it.  `source' pushes a file.                        *)
(*                                                                         *)
(* The parser shifts a token, or reduces what is on its stack, one step    *)
(* at a time; it reads a token only where what to do depends on it.  The   *)
(* program is that of ProgramStore, which Program implements.  What other  *)
(* statements do is in Mush; here they succeed, or fail and end a run.  A  *)
(* quit that ends a run is in Program.                                     *)
(*                                                                         *)
(* When the shell has ended, the last listing may be the input of another. *)
(***************************************************************************)
EXTENDS ProgramStore, Syntax, FiniteSets

Seqs == INSTANCE SequencesExt

CONSTANTS
  Script,    \* the texts given to the shell
  Source,    \* the files of `source': a function from names to texts
  IntBits    \* the width of an int: 32 in the code

VARIABLES
  input,     \* the texts and how far each is read, the file read first
  pc,        \* "parse", "exec", "delete", "run" or "done"
  stack,     \* the stack of the parser: symbols and their values
  ahead,     \* the token that is read and not shifted, or NoToken
  parsed,    \* the line number and the statement; the number is 0 at the prompt
  shifted,   \* the tokens shifted since yyparse was called
  listing,   \* what the last `list' printed
  listed,    \* the program it listed
  again      \* it is read by a second shell

reader == <<input, pc, stack, ahead, parsed, shifted, listing, listed, again>>

NoToken == <<"none", <<>>>>

Nothing == <<0, <<"nothing">>>>

-----------------------------------------------------------------------------
(* The grammar *)

BinaryOps == {"<", ">", "==", "<=", ">=", "&&", "||", "+", "-", "*", "/", "%"}

\* How tightly an operator binds.
Level(o) == CASE o \in {"<", ">", "==", "<=", ">="} -> 3
              [] o \in {"&&", "||", "!"} -> 2
              [] OTHER -> 1

Literals == {"NUMBER", "NAME", "WORD", "STRING"}

Starters == Literals \cup {"(", "#", "$"}

\* The symbol that is n below the top.
Sym(s, n) == IF n < Len(s) THEN s[Len(s) - n][1] ELSE "bottom"

Val(s, n) == s[Len(s) - n][2]

Below(s, n) == SubSeq(s, 1, Len(s) - n)

\* What may begin where the stack ends.
Place(s) ==
  LET top == Sym(s, 0)
  IN CASE top \in {"bottom", "delete", ",", "goto"} -> "line number"
       [] top = "source" \/ (top \in {"<", ">"} /\ Sym(s, 1) = "pipeline") -> "file"
       [] top \in {"#", "$", "set", "unset"} -> "name"
       [] top \in {"optional_lineno", "arg", "|"} -> "argument"
       [] top \in {"!", "(", "wait", "poll", "cancel", "if", "="} -> "expression"
       [] top \in BinaryOps /\ Sym(s, 1) = "expr" -> "expression"
       [] OTHER -> "nothing"

\* An operator yields to another of its level, as if it were %right.
TighterOrEqual(s) == {o \in BinaryOps : Sym(s, 1) \in BinaryOps \cup {"!"} => Level(o) >= Level(Sym(s, 1))}

\* The operators that bind tighter than the one before the expression on top.
Tighter(s) == {o \in BinaryOps : Sym(s, 1) \in BinaryOps \cup {"!"} => Level(o) > Level(Sym(s, 1))}

\* The tokens that may be shifted.
Expected(s) ==
  LET top == Sym(s, 0)
  IN CASE s = <<>> -> {"list", "delete", "run", "cont", "EOL", "EoF", "NUMBER"}
       [] top = "optional_lineno" ->
            Starters \cup {"wait", "poll", "cancel", "pause", "set", "unset", "if", "goto", "source"}
       [] top = "expr" ->
            Tighter(s) \cup (CASE Sym(s, 1) = "(" -> {")"}
                               [] Sym(s, 1) = "if" -> {"goto"}
                               [] Sym(s, 1) \in {"wait", "poll", "cancel", "="} -> {"EOL"}
                               [] OTHER -> {})
       [] top = "command" -> {"|"}
       [] top = "pipeline" -> {"<", ">", "&", "EOL"}
       [] top = "lineno" /\ Len(s) = 1 -> {"stop"}
       [] top = "lineno" /\ Sym(s, 1) = "delete" -> {","}
       [] top = "lineno" /\ Sym(s, 1) \in {",", "goto"} -> {"EOL"}
       [] top = "NAME" /\ Sym(s, 1) = "set" -> {"="}
       [] top = "NAME" /\ Sym(s, 1) = "unset" -> {"EOL"}
       [] top = "file" /\ Sym(s, 1) = "source" -> {"EOL"}
       [] top \in {"list", "run", "cont", "stop", "pause", "&", "error"} -> {"EOL"}
       [] Place(s) = "line number" /\ s # <<>> -> {"NUMBER"}
       [] Place(s) = "file" -> {"NAME", "STRING"} \cup (IF top = ">" THEN {"@"} ELSE {})
       [] Place(s) = "name" -> {"NAME"}
       [] Place(s) = "argument" /\ top # "optional_lineno" -> Starters
       [] Place(s) = "expression" -> Starters \cup {"!"}
       [] OTHER -> {}

-----------------------------------------------------------------------------
(* The reductions of yyparse *)

\* An atomic_expr is an argument of a command or an operand.
Operand(s, e) == Append(s, <<IF Place(s) = "argument" THEN "arg" ELSE "expr", e>>)

\* arg_list and command: all the arguments.
CommandOn(s) ==
  LET first == CHOOSE i \in DOMAIN s : /\ \A j \in i .. Len(s) : s[j][1] = "arg"
                                       /\ s[i - 1][1] # "arg"
  IN Append(SubSeq(s, 1, first - 1),
            <<"command", [i \in 1 .. Len(s) - first + 1 |-> s[first + i - 1][2]]>>)

\* command_list and pipeline: optional_lineno, command, PIPE, command ...
PipelineOn(s) ==
  <<s[1], <<"pipeline", [commands |-> [i \in 1 .. Len(s) \div 2 |-> s[2 * i][2]],
                         input |-> NoFile, output |-> NoFile, capture |-> FALSE]>>>>

Redirected(s) ==
  LET p == Val(s, 2)
  IN Append(Below(s, 3),
            <<"pipeline", CASE Sym(s, 0) = "@" -> [p EXCEPT !.capture = TRUE]
                            [] Sym(s, 1) = "<" -> [p EXCEPT !.input = Val(s, 0)]
                            [] OTHER -> [p EXCEPT !.output = Val(s, 0)]>>)

\* atoi
LineNumber(text) == ((text[1][2] + 2^(IntBits - 1)) % 2^IntBits) - 2^(IntBits - 1)

\* What a reduction leaves, or the stack as it was when there is none.  Only where
\* a line number is optional must it be positive; a `stop' has to have one.
Reduced(s) ==
  LET top == Sym(s, 0)
  IN CASE s = <<>> -> <<<<"optional_lineno", 0>>>>
       [] top \in Literals /\ Place(Below(s, 1)) \in {"argument", "expression"} ->
            Operand(Below(s, 1), <<"lit", "str", Val(s, 0)>>)
       [] top = "NUMBER" /\ Place(Below(s, 1)) = "line number" ->
            Append(Below(s, 1), <<"lineno", LineNumber(Val(s, 0))>>)
       [] top = "NAME" /\ Sym(s, 1) \in {"#", "$"} ->
            Operand(Below(s, 2), <<"var", IF Sym(s, 1) = "#" THEN "num" ELSE "str", Val(s, 0)[1][2]>>)
       [] top \in {"NAME", "STRING"} /\ Place(Below(s, 1)) = "file" ->
            Append(Below(s, 1), <<"file", Val(s, 0)>>)
       [] top = ")" -> Operand(Below(s, 3), Val(s, 1))
       [] top = "expr" /\ Sym(s, 1) = "!" -> Append(Below(s, 2), <<"expr", <<"not", "num", Val(s, 0)>>>>)
       [] top = "expr" /\ Sym(s, 1) \in BinaryOps ->
            Append(Below(s, 3), <<"expr", <<"binary", "num", Sym(s, 1), Val(s, 2), Val(s, 0)>>>>)
       [] top = "arg" -> CommandOn(s)
       [] top = "command" -> PipelineOn(s)
       [] top \in {"file", "@"} /\ Sym(s, 2) = "pipeline" -> Redirected(s)
       [] top = "lineno" /\ Len(s) = 1 /\ Val(s, 0) > 0 -> <<<<"optional_lineno", Val(s, 0)>>>>
       [] OTHER -> s

\* The statement that a stack which ends with EOL stands for.
Statement(s) ==
  LET value(i) == s[i][2]
      key == s[2][1]
  IN CASE s[1][1] \in {"EOL", "error"} -> Nothing
       [] s[1][1] \in {"list", "run", "cont"} -> <<0, <<s[1][1]>>>>
       [] s[1][1] = "delete" -> <<0, <<"delete", value(2), value(4)>>>>
       [] OTHER ->
            <<value(1), CASE key = "pipeline" -> <<IF s[3][1] = "&" THEN "bg" ELSE "fg", value(2)>>
                          [] key \in {"stop", "pause"} -> <<key>>
                          [] key = "set" -> <<"set", value(3)[1][2], value(5)>>
                          [] key = "unset" -> <<"unset", value(3)[1][2]>>
                          [] key = "if" -> <<"if", value(5), value(3)>>
                          [] OTHER -> <<key, value(3)>>>>

-----------------------------------------------------------------------------
(* yylex *)

Unread(file) == Seqs!SelectInSubSeq(file[1], file[2] + 1, Len(file[1]), LAMBDA lexeme : lexeme # Blank)

\* The end of a pushed file is that of a line, but the file is not popped.
LexKeepingFile ==
  LET text == Head(input)[1]
      i == Unread(Head(input))
  IN /\ pc = "parse" /\ ahead = NoToken
     /\ Expected(stack) # {}
     /\ \/ /\ i > 0
           /\ ahead' = Scanned(text[i], IF i < Len(text) THEN text[i + 1] ELSE EndOfFile)
           /\ input' = <<<<text, i>>>> \o Tail(input)
        \/ /\ i = 0
           /\ ahead' = <<IF Len(input) > 1 THEN "EOL" ELSE "EoF", <<>>>>
           /\ UNCHANGED input
     /\ UNCHANGED <<vars, pc, stack, parsed, shifted, listing, listed, again>>

\* At the end of a file that was pushed the scanner is back in the one before,
\* and the end is that of a line.
Lex ==
  LET text == Head(input)[1]
      i == Unread(Head(input))
  IN /\ pc = "parse" /\ ahead = NoToken
     /\ Expected(stack) # {}
     /\ \/ /\ i > 0
           /\ ahead' = Scanned(text[i], IF i < Len(text) THEN text[i + 1] ELSE EndOfFile)
           /\ input' = <<<<text, i>>>> \o Tail(input)
        \/ i = 0 /\ Len(input) > 1 /\ ahead' = <<"EOL", <<>>>> /\ input' = Tail(input)
        \/ i = 0 /\ Len(input) = 1 /\ ahead' = <<"EoF", <<>>>> /\ UNCHANGED input
     /\ UNCHANGED <<vars, pc, stack, parsed, shifted, listing, listed, again>>

\* yyparse returns at the end of a line; at the end of the input the shell ends.
Shift ==
  LET s == Append(stack, ahead)
  IN /\ pc = "parse" /\ ahead[1] \in Expected(stack)
     /\ shifted' = Append(shifted, ahead)
     /\ ahead' = NoToken
     /\ IF ahead[1] \in {"EOL", "EoF"}
        THEN /\ pc' = (IF ahead[1] = "EOL" THEN "exec" ELSE "done")
             /\ parsed' = (IF ahead[1] = "EOL" THEN Statement(s) ELSE Nothing)
             /\ stack' = <<>>
        ELSE stack' = s /\ UNCHANGED <<pc, parsed>>
     /\ UNCHANGED <<vars, input, listing, listed, again>>

\* There is nothing to shift, or no need to know.
MustReduce ==
  /\ pc = "parse"
  /\ Expected(stack) = {} \/ ahead[1] \notin Expected(stack) \cup {NoToken[1]}

\* Before a statement without a line number.
Starts == stack = <<>> => ahead[1] \in Expected(<<<<"optional_lineno", 0>>>>)

Reduce ==
  /\ MustReduce /\ Starts /\ Reduced(stack) # stack
  /\ stack' = Reduced(stack)
  /\ UNCHANGED <<vars, input, pc, ahead, parsed, shifted, listing, listed, again>>

\* An error is a statement of its own, without the end of its line.
SyntaxErrorAtOnce ==
  /\ MustReduce /\ ~(Starts /\ Reduced(stack) # stack)
  /\ stack' = <<>> /\ ahead' = NoToken
  /\ pc' = "exec" /\ parsed' = Nothing
  /\ UNCHANGED <<vars, input, shifted, listing, listed, again>>

\* A syntax error, or a line number that is not positive.  No state but the first
\* can take the error; then tokens are discarded up to the end of a line.
SyntaxError ==
  /\ MustReduce /\ ~(Starts /\ Reduced(stack) # stack)
  /\ IF Sym(stack, 0) = "error" THEN ahead' = NoToken /\ UNCHANGED stack
                                ELSE stack' = <<<<"error", 0>>>> /\ UNCHANGED ahead
  /\ UNCHANGED <<vars, input, pc, parsed, shifted, listing, listed, again>>

-----------------------------------------------------------------------------
(* exec_interactive, exec_run, exec_cont, and what exec_stmt does to the    *)
(* program and to the input                                                 *)

Unmoved == UNCHANGED <<stack, ahead, again>>

\* yyparse is called again.
NextLine == pc' = "parse" /\ parsed' = Nothing /\ shifted' = <<>>

Enter ==
  /\ pc = "exec" /\ parsed[1] # 0
  /\ Insert(parsed[1], parsed[2])
  /\ NextLine /\ Unmoved /\ UNCHANGED <<input, listing, listed>>

Given(class) == pc = "exec" /\ parsed[1] = 0 /\ parsed[2][1] = class

List ==
  /\ Given("list")
  /\ listing' = Listing(program, counter) /\ listed' = program
  /\ NextLine /\ Unmoved /\ UNCHANGED <<vars, input>>

DeleteLines ==
  /\ Given("delete")
  /\ Delete(parsed[2][2], parsed[2][3])
  /\ pc' = "delete" /\ parsed' = Nothing /\ shifted' = <<>>
  /\ Unmoved /\ UNCHANGED <<input, listing, listed>>

Deleting ==
  /\ pc = "delete"
  /\ \/ /\ \E l \in doomed : Remove(l) /\ \A k \in doomed : l <= k
        /\ UNCHANGED <<pc, parsed, shifted>>
     \/ doomed = {} /\ NextLine /\ UNCHANGED vars
  /\ Unmoved /\ UNCHANGED <<input, listing, listed>>

RunProgram ==
  /\ Given("run")
  /\ Following(-(2^IntBits), counter') /\ UNCHANGED <<program, doomed>>
  /\ pc' = "run" /\ parsed' = Nothing /\ shifted' = <<>>
  /\ Unmoved /\ UNCHANGED <<input, listing, listed>>

Cont ==
  /\ Given("cont")
  /\ pc' = "run" /\ parsed' = Nothing /\ shifted' = <<>>
  /\ Unmoved /\ UNCHANGED <<vars, input, listing, listed>>

\* At the prompt, too, the counter moves to the line, if it exists; of an `if'
\* the expression may be false, or an error.
GotoLine ==
  /\ Given("goto") \/ Given("if")
  /\ \/ Goto(parsed[2][2])
     \/ (Given("if") \/ parsed[2][2] \notin Lines) /\ UNCHANGED vars
  /\ NextLine /\ Unmoved /\ UNCHANGED <<input, listing, listed>>

\* push_input, if the file can be opened.
Pushed(file) == IF file \in DOMAIN Source THEN <<<<Source[file], 0>>>> \o input ELSE input

SourceFile ==
  /\ Given("source")
  /\ input' = Pushed(parsed[2][2])
  /\ NextLine /\ Unmoved /\ UNCHANGED <<vars, listing, listed>>

\* A line that is empty or in error, or a statement for Mush.
Other ==
  /\ pc = "exec" /\ parsed[1] = 0
  /\ parsed[2][1] \notin {"list", "delete", "run", "cont", "goto", "if", "source"}
  /\ NextLine /\ Unmoved /\ UNCHANGED <<vars, input, listing, listed>>

StatementAt(l) == (CHOOSE entry \in program : entry[1] = l)[2]

\* A statement of the program is executed, after the counter has moved on.
RunStatement ==
  LET s == StatementAt(counter)
      jump == IF s[2] \in Lines THEN Goto(s[2]) /\ UNCHANGED pc ELSE Advance /\ pc' = "parse"
  IN /\ pc = "run" /\ counter # End
     /\ \/ s[1] \in {"goto", "if"} /\ jump /\ UNCHANGED input
        \/ s[1] = "stop" /\ Advance /\ pc' = "parse" /\ UNCHANGED input
        \/ /\ s[1] = "source" /\ Advance /\ input' = Pushed(s[2])
           /\ pc' = (IF s[2] \in DOMAIN Source THEN "run" ELSE "parse")
        \/ s[1] \notin {"goto", "stop", "source"} /\ Advance /\ pc' \in {"run", "parse"} /\ UNCHANGED input
     /\ Unmoved /\ UNCHANGED <<parsed, shifted, listing, listed>>

EndOfProgram ==
  /\ pc = "run" /\ counter = End
  /\ pc' = "parse"
  /\ Unmoved /\ UNCHANGED <<vars, input, parsed, shifted, listing, listed>>

\* Another shell is given the last listing.
Again ==
  /\ pc = "done" /\ ~again /\ listing # <<>>
  /\ again' = TRUE
  /\ input' = <<<<listing, 0>>>>
  /\ program' = {} /\ counter' = End /\ UNCHANGED doomed
  /\ pc' = "parse" /\ shifted' = <<>>
  /\ UNCHANGED <<stack, ahead, parsed, listing, listed>>

-----------------------------------------------------------------------------
ReaderInit ==
  /\ Init
  /\ \E text \in Script : input = <<<<text, 0>>>>
  /\ pc = "parse" /\ stack = <<>> /\ ahead = NoToken
  /\ parsed = Nothing /\ shifted = <<>>
  /\ listing = <<>> /\ listed = {} /\ again = FALSE

Step ==
  \/ Lex \/ Shift \/ Reduce \/ SyntaxError
  \/ Enter \/ List \/ DeleteLines \/ Deleting \/ RunProgram \/ Cont \/ GotoLine \/ SourceFile \/ Other
  \/ RunStatement \/ EndOfProgram

ReaderNext == Step \/ Again

readerVars == <<vars, reader>>

\* The shell reads from files; nothing keeps it waiting.
ReaderSpec == ReaderInit /\ [][ReaderNext]_readerVars /\ WF_readerVars(Step)

-----------------------------------------------------------------------------
(* What an expression means: the operator that binds least tightly, the     *)
(* last of those, divides it, unless a ! is before it and nothing between   *)
(* them that binds less tightly than !.                                     *)
RECURSIVE Meaning(_)
Meaning(tokens) ==
  LET symbol(i) == tokens[i][1]
      open(i) == Cardinality({j \in 1 .. i : symbol(j) = "("}) - Cardinality({j \in 1 .. i : symbol(j) = ")"})
      outer == {i \in DOMAIN tokens : symbol(i) \in BinaryOps /\ open(i) = 0}
      negated == {i \in outer : \E j \in 1 .. i : /\ symbol(j) = "!" /\ open(j) = 0
                                                  /\ \A k \in outer : j < k /\ k <= i => Level(symbol(k)) > Level("!")}
      free == outer \ negated
      part(i, j) == SubSeq(tokens, i, j)
      n == Len(tokens)
  IN CASE free # {} ->
            LET m == CHOOSE i \in free : \A k \in free : /\ Level(symbol(i)) <= Level(symbol(k))
                                                         /\ Level(symbol(i)) = Level(symbol(k)) => k <= i
            IN <<"binary", "num", symbol(m), Meaning(part(1, m - 1)), Meaning(part(m + 1, n))>>
       [] free = {} /\ symbol(1) = "!" -> <<"not", "num", Meaning(part(2, n))>>
       [] free = {} /\ symbol(1) = "(" -> Meaning(part(2, n - 1))
       [] symbol(1) = "#" -> <<"var", "num", tokens[2][2][1][2]>>
       [] symbol(1) = "$" -> <<"var", "str", tokens[2][2][1][2]>>
       [] OTHER -> <<"lit", "str", tokens[1][2]>>

\* The tokens of the expression of a `set': after the name and the sign, before EOL.
Written == LET first == Seqs!SelectInSeq(shifted, LAMBDA token : token[1] = "=")
           IN SubSeq(shifted, first + 1, Len(shifted) - 1)

\* The parser builds the tree that the levels of the operators call for: those of
\* one level from left to right, comparisons first, then ! && ||, and arithmetic
\* last, whatever the parentheses and negations (mush.tab.c 1955-2110).
Precedence == (pc = "exec" /\ parsed[2][1] = "set") => parsed[2][3] = Meaning(Written)

\* A statement is executed between lines: whatever was on its line, an error or
\* the end of a file, no token of the next has been read, so that a file that is
\* sourced now comes before it (execution.c 57-97, mush.lex.c 590-606).
LineByLine ==
  pc \in {"exec", "delete", "run", "done"} =>
    /\ stack = <<>> /\ ahead = NoToken
    /\ \A i \in DOMAIN input :
         LET text == input[i][1] last == input[i][2]
         IN last = 0 \/ text[last] = Eol \/ Unread(input[i]) = 0

-----------------------------------------------------------------------------
(* What is listed as it was typed *)

\* The text before `after' is one token, and one of these.
Scans(text, after, symbols) ==
  Len(text) = 1 /\ text[1] # Blank /\ Scanned(text[1], after)[1] \in symbols

Compound(e) == e[1] \in {"not", "binary"}

\* The text of an expression, before `after', has the tokens of that expression.
RECURSIVE AsWritten(_, _)
AsWritten(e, after) ==
  LET operand(a, next) == AsWritten(a, IF Compound(a) THEN Op(")") ELSE next)
  IN CASE e[1] = "lit" -> Scans(e[3], after, Literals)
       [] e[1] = "var" -> Scans(<<Name(e[3])>>, after, {"NAME"})
       [] e[1] = "not" -> operand(e[3], after)
       [] e[1] = "binary" -> operand(e[4], Blank) /\ operand(e[5], after)

\* No argument is an expression; files have names.
Piped(p, after) ==
  LET bare == p.input = NoFile /\ p.output = NoFile /\ ~p.capture
      atLast(i, j) == bare /\ i = Len(p.commands) /\ j = Len(p.commands[i])
  IN /\ \A i \in DOMAIN p.commands : \A j \in DOMAIN p.commands[i] :
          LET arg == p.commands[i][j]
          IN ~Compound(arg) /\ AsWritten(arg, IF atLast(i, j) THEN after ELSE Blank)
     /\ \/ p.input = NoFile
        \/ Scans(p.input, IF p.capture \/ p.output # NoFile THEN Blank ELSE after, {"NAME"})
     /\ p.output = NoFile \/ Scans(p.output, after, {"NAME"})

Readable(s) ==
  CASE s[1] = "fg" -> Piped(s[2], Eol)
    [] s[1] = "bg" -> Piped(s[2], Op("&"))
    [] s[1] \in {"wait", "poll", "cancel"} -> AsWritten(s[2], Eol)
    [] s[1] = "set" -> AsWritten(s[3], Eol)
    [] s[1] = "if" -> AsWritten(s[3], Blank) /\ s[2] > 0
    [] s[1] = "goto" -> s[2] > 0
    [] s[1] = "source" -> Scans(s[2], Eol, {"NAME"})
    [] OTHER -> TRUE

\* The listing of a program, read by another shell, gives the same statements on
\* the same lines, except just those with an argument that is an expression, a
\* quoted text that is no literal without its quotes, a file whose name needs
\* quotes, a variable or file just before an &, or a line number or a target that is
\* not positive: these are lost or changed, but never another line (syntax.c 16-195, program.c
\* 28-40).
ListingReadsBack ==
  (pc = "done" /\ again) =>
    /\ \A entry \in listed : entry \in program <=> entry[1] > 0 /\ Readable(entry[2])
    /\ Lines \subseteq {entry[1] : entry \in listed}

Terminated(text) == text # <<>> => text[Len(text)] = Eol

\* The shell comes to the end of its input, if that ends with a line: otherwise it
\* discards the end of the file for ever (execution.c 57-97, mush.tab.c 2227-2240).
ReaderEnds == (pc # "done" /\ Terminated(Seqs!Last(input)[1])) ~> pc = "done"
=============================================================================
