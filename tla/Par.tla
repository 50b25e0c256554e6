-------------------------------- MODULE Par ---------------------------------
(***************************************************************************)
(* The program par (hw2/src/par.c): its options, the reading of a          *)
(* paragraph, the loop of original_main and its cleanup.                   *)
(*                                                                         *)
(* Standard input is a sequence of lines whose last element is what comes  *)
(* after the last newline.  getchar, ungetc and the character buffer of    *)
(* readlines work on the first line of it (Buffer shows that a buffer is a *)
(* sequence).  An option is a record of its name and its argument, a       *)
(* sequence of digits (10 stands for any other character) or NoArg; those  *)
(* of PARINIT come before those of the command line.                       *)
(***************************************************************************)
EXTENDS Reformat

CONSTANTS
  ParInputs,      \* the pairs <<options, lines>> par is run with
  NoArg

Option == [name : STRING, arg : {NoArg} \cup Seq(Nat)]

ASSUME InputsAssumption ==
  \A r \in ParInputs : r[1] \in Seq(Option) /\ r[2] \in Seq(Seq(STRING)) \ {<<>>}

VARIABLES
  pc,             \* where original_main is
  options,        \* what getopt_long has still to return
  set,            \* widthbak ... minbak: the values the options set, or -1
  option_code,    \* what setOptions returned
  stdin,          \* the lines not yet read
  inlines,        \* the paragraph read so far
  val,            \* width ... min for this paragraph
  outlines,       \* the paragraph reformatted
  stdout,         \* the lines printed
  errmsg,         \* the message of errmsg.c, or "none"
  status,         \* the exit status, "running" before
  run             \* the element of ParInputs par runs with

vars == <<pc, options, set, option_code, stdin, inlines, val, outlines, stdout,
          errmsg, status, run>>

Blank(line) == ToSet(line) \subseteq White

Unset == [width |-> -1, prefix |-> -1, suffix |-> -1, hang |-> -1, last |-> -1, min |-> -1]

-----------------------------------------------------------------------------
(* Options. *)

IsUdec(digits) ==
  /\ digits # <<>>
  /\ \A i \in DOMAIN digits : digits[i] < 10
  /\ FoldLeft(LAMBDA n, d : 10 * n + d, 0, digits) <= 9999

Strtoudec(digits) == FoldLeft(LAMBDA n, d : 10 * n + d, 0, digits)

\* The variable an option sets, for those that take a value.
Target == [w |-> "width", p |-> "prefix", s |-> "suffix", h |-> "hang", l |-> "last", m |-> "min"]

\* The value it gives, for those that take none.
Fixed == [last   |-> [var |-> "last", value |-> 1], nolast |-> [var |-> "last", value |-> 0],
          min    |-> [var |-> "min", value |-> 1],  nomin  |-> [var |-> "min", value |-> 0]]

\* errmsg.c: there is one message, the last.
IsError(msg) == msg # "none"

SetError(msg) == errmsg' = msg

\* setValue and the range check of -l and -m.  A bad flag is stored all the same.
TakeOption(opt) ==
  LET digits == IF opt.arg = NoArg THEN <<1>> ELSE opt.arg
      flag   == opt.name \in {"l", "m"}
  IN  \/ /\ opt.name \in DOMAIN Target
         /\ IF IsUdec(digits)
            THEN /\ set' = [set EXCEPT ![Target[opt.name]] = Strtoudec(digits)]
                 /\ IF flag /\ Strtoudec(digits) > 1 THEN SetError("bad flag") ELSE UNCHANGED errmsg
            ELSE SetError("invalid input") /\ UNCHANGED set
         /\ option_code' = IF IsError(errmsg') THEN 0 ELSE option_code
      \/ /\ opt.name \in DOMAIN Fixed
         /\ set' = [set EXCEPT ![Fixed[opt.name].var] = Fixed[opt.name].value]
         /\ UNCHANGED <<errmsg, option_code>>
      \/ /\ opt.name = "version"
         /\ SetError("version") /\ option_code' = 2
         /\ UNCHANGED set
      \/ /\ opt.name = "unknown"
         /\ UNCHANGED <<set, errmsg, option_code>>

SetOption ==
  /\ pc = "options" /\ options # <<>>
  /\ TakeOption(Head(options))
  /\ options' = Tail(options)
  /\ pc' = IF option_code' = 1 THEN pc ELSE "cleanup"
  /\ UNCHANGED <<stdin, inlines, val, outlines, stdout, status, run>>

OptionsSet ==
  /\ pc = "options" /\ options = <<>>
  /\ pc' = "skip"
  /\ UNCHANGED <<options, set, option_code, stdin, inlines, val, outlines, stdout, errmsg, status, run>>

-----------------------------------------------------------------------------
(* The loop of original_main. *)

SkipNewline ==
  /\ pc = "skip" /\ Len(stdin) > 1 /\ Head(stdin) = <<>>
  /\ stdin' = Tail(stdin)
  /\ stdout' = Append(stdout, <<>>)
  /\ UNCHANGED <<pc, options, set, option_code, inlines, val, outlines, errmsg, status, run>>

Eof ==
  /\ pc = "skip" /\ stdin = <<<<>>>>
  /\ pc' = "cleanup"
  /\ UNCHANGED <<options, set, option_code, stdin, inlines, val, outlines, stdout, errmsg, status, run>>

BeginParagraph ==
  /\ pc = "skip" /\ Head(stdin) # <<>>
  /\ pc' = "read" /\ inlines' = <<>>
  /\ UNCHANGED <<options, set, option_code, stdin, val, outlines, stdout, errmsg, status, run>>

Rest == IF Len(stdin) > 1 THEN Tail(stdin) ELSE <<<<>>>>

\* readlines, one line.
ReadLine ==
  /\ pc = "read" /\ ~ Blank(Head(stdin))
  /\ inlines' = Append(inlines, Head(stdin))
  /\ stdin' = Rest
  /\ UNCHANGED <<pc, options, set, option_code, val, outlines, stdout, errmsg, status, run>>

\* With the newline not pushed back, and with the white characters pushed back too
\* (variants the checks refute).
EndParagraphSwallow ==
  /\ pc = "read" /\ Blank(Head(stdin))
  /\ stdin' = IF Len(stdin) > 1 THEN Tail(stdin) ELSE <<<<>>>>
  /\ IF inlines = <<>> THEN pc' = "skip" /\ UNCHANGED val
                       ELSE pc' = "format" /\ val' = Setdefaults(inlines, set)
  /\ UNCHANGED <<options, set, option_code, inlines, outlines, stdout, errmsg, status, run>>

EndParagraphUnread ==
  /\ pc = "read" /\ Blank(Head(stdin))
  /\ stdin' = stdin
  /\ IF inlines = <<>> THEN pc' = "skip" /\ UNCHANGED val
                       ELSE pc' = "format" /\ val' = Setdefaults(inlines, set)
  /\ UNCHANGED <<options, set, option_code, inlines, outlines, stdout, errmsg, status, run>>

\* readlines, the end: the white characters are lost, the newline is pushed back.
EndParagraph ==
  /\ pc = "read" /\ Blank(Head(stdin))
  /\ stdin' = IF Len(stdin) > 1 THEN <<<<>>>> \o Tail(stdin) ELSE <<<<>>>>
  /\ IF inlines = <<>> THEN pc' = "skip" /\ UNCHANGED val
                       ELSE pc' = "format" /\ val' = Setdefaults(inlines, set)
  /\ UNCHANGED <<options, set, option_code, inlines, outlines, stdout, errmsg, status, run>>

\* A paragraph that leaves no room for a word between prefix and suffix is split for ever.
SplitForEver ==
  /\ pc = "format" /\ Endless(inlines, val)
  /\ pc' = "endless"
  /\ UNCHANGED <<options, set, option_code, stdin, inlines, val, outlines, stdout, errmsg, status, run>>

FormatParagraph ==
  /\ pc = "format" /\ ~ Endless(inlines, val)
  /\ LET r == ReformatPar(inlines, val)
     IN  /\ errmsg' = r.errmsg /\ outlines' = r.out
         /\ pc' = IF IsError(r.errmsg) THEN "cleanup" ELSE "print"
  /\ UNCHANGED <<options, set, option_code, stdin, inlines, val, stdout, status, run>>

PrintParagraph ==
  /\ pc = "print"
  /\ stdout' = stdout \o outlines
  /\ inlines' = <<>> /\ outlines' = <<>> /\ pc' = "skip"
  /\ UNCHANGED <<options, set, option_code, stdin, val, errmsg, status, run>>

\* parcleanup: the message is reported; only --version is a success.
Cleanup ==
  /\ pc = "cleanup"
  /\ status' = IF IsError(errmsg) /\ option_code # 2 THEN "failure" ELSE "success"
  /\ pc' = "exited"
  /\ UNCHANGED <<options, set, option_code, stdin, inlines, val, outlines, stdout, errmsg, run>>

\* main is called with a command line, an environment and a standard input.
Main ==
  /\ pc = "main"
  /\ run' \in ParInputs
  /\ options' = run'[1] /\ stdin' = run'[2] /\ pc' = "options"
  /\ UNCHANGED <<set, option_code, inlines, val, outlines, stdout, errmsg, status>>

Init ==
  /\ pc = "main" /\ run = <<>> /\ options = <<>> /\ stdin = <<>>
  /\ set = Unset /\ val = Unset /\ option_code = 1
  /\ inlines = <<>> /\ outlines = <<>> /\ stdout = <<>>
  /\ errmsg = "none" /\ status = "running"

Next ==
  \/ Main \/ SetOption \/ OptionsSet
  \/ SkipNewline \/ Eof \/ BeginParagraph \/ ReadLine \/ EndParagraph
  \/ SplitForEver \/ FormatParagraph \/ PrintParagraph \/ Cleanup

Spec == Init /\ [][Next]_vars

-----------------------------------------------------------------------------
(* The layouts of par.doc ("Details").  A layout of n words is the set of  *)
(* the words that end a line.                                              *)

Layouts(n) == {B \cup {n} : B \in SUBSET (1..(n - 1))}

LengthAt(col, B, j) == LineLen(col, Max({b \in B : b < j} \cup {0}) + 1, j)

Counted(B, n, last) == IF last = 1 THEN B ELSE B \ {n}

Shortest(col, B, v) ==
  Min({LengthAt(col, B, j) : j \in Counted(B, Len(col) - 1, v.last)} \cup {LineWidth(v)})

Longest(col, B) == Max({LengthAt(col, B, j) : j \in B})

Badness(col, B, v) ==
  LET newL == IF v.min = 1 THEN Longest(col, B) ELSE LineWidth(v)
      Square(j) == (newL - LengthAt(col, B, j)) * (newL - LengthAt(col, B, j))
  IN  MapThenSumSet(Square, Counted(B, Len(col) - 1, v.last))

\* B is among the best: compare by shortest line, then longest, then squares.
IsBest(col, B, v) ==
  /\ Longest(col, B) <= LineWidth(v)
  /\ \A C \in Layouts(Len(col) - 1) :
       \/ Longest(col, C) > LineWidth(v)
       \/ Shortest(col, C, v) < Shortest(col, B, v)
       \/ /\ Shortest(col, C, v) = Shortest(col, B, v)
          /\ v.min = 1 /\ Longest(col, C) > Longest(col, B)
       \/ /\ Shortest(col, C, v) = Shortest(col, B, v)
          /\ v.min = 1 => Longest(col, C) = Longest(col, B)
          /\ Badness(col, C, v) >= Badness(col, B, v)

Split(lines, v) ==
  FlattenSeq([k \in DOMAIN lines |-> WordsOf(Middle(lines[k], v), LineWidth(v))])

\* The layout of the lines about to be printed.
Printed ==
  {Len(Split(SubSeq(outlines, 1, k), val)) : k \in DOMAIN outlines} \ {0}

\* The sums of squares of a paragraph stay below INT_MAX.
NoOverflow(n, L) == n * L * L <= MaxInt

-----------------------------------------------------------------------------
(* The paragraph about to be printed is broken into lines in one of the     *)
(* best ways of par.doc: choosebreaks' three passes, which each look only   *)
(* at the words that follow, find an optimum over all the ways to break.    *)
(* They report an "impossibility" only when the first word, with the white  *)
(* characters before it, is longer than a line, or the sums of squares      *)
(* overflow (reformat.c:77, 121, 160, 250-258).                             *)
BestBreaks ==
  LET words == Words(inlines, val)
      col == Columns(words)
  IN  /\ pc = "print" /\ Len(col) > 1 /\ NoOverflow(Len(col) - 1, LineWidth(val))
           => Printed \in Layouts(Len(col) - 1) /\ IsBest(col, Printed, val)
      /\ errmsg \in {"impossibility 1", "impossibility 2", "impossibility 3"}
           => Len(words[1]) > LineWidth(val) \/ ~NoOverflow(Len(words), LineWidth(val))

(* Between prefixes and suffixes the output has the words of the input, in  *)
(* order, none lost, joined or split but those longer than a line, and no   *)
(* line of it is wider than the width (reformat.c:270-305).                 *)
WordsKept ==
  pc = "print" =>
    /\ Split(outlines, val) = Split(inlines, val)
    /\ \A k \in DOMAIN outlines : Len(outlines[k]) \in Affix(val)..val.width

\* The first of the lines up to the kth, which is not blank, with no blank line between.
RunStart(lines, k) == Min({i \in 1..k : \A j \in i..k : ~ Blank(lines[j])})

\* What par has printed after the kth line, if it had printed this before: an empty
\* line for a blank line, a paragraph at the end of a run of others.
WithLine(lines, v, k, before) ==
  LET n == Len(lines)
      paragraph == SubSeq(lines, RunStart(lines, k), k)
  IN  IF Blank(lines[k]) THEN IF k < n THEN Append(before, <<>>) ELSE before
      ELSE IF k < n /\ ~ Blank(lines[k + 1]) THEN before
      ELSE before \o ReformatPar(paragraph, Setdefaults(paragraph, v)).out

\* What par prints for the first lines, for each number of them.
Upto(lines, v) ==
  LET upto[k \in 0..Len(lines)] ==
        IF k = 0 THEN <<>> ELSE WithLine(lines, v, k, upto[k - 1])
  IN  upto

Expected(lines, v) == Upto(lines, v)[Len(lines)]

(* The reader, which works by character and pushes back the newline after a *)
(* paragraph, neither splits, joins nor drops a paragraph or a blank line,  *)
(* and stops at the first error (par.c:154-245, 563-608).                   *)
ParagraphsKept ==
  pc \in {"cleanup", "exited"} /\ option_code = 1 =>
    IF errmsg = "none" THEN stdout = Expected(run[2], set)
                       ELSE ReformatPar(inlines, val).errmsg = errmsg

\* The characters in some lines, a newline after each.
Size(lines) ==
  LET size[i \in 0..Len(lines)] == IF i = 0 THEN 0 ELSE size[i - 1] + Len(lines[i]) + 1
  IN  size[Len(lines)]

\* What is left to do: the options, the input, and the stages of a paragraph.
Left ==
  LET rank == CASE pc = "options" -> 8 + Len(options)
                [] pc = "read" -> IF inlines = <<>> THEN 2 ELSE 7
                [] pc = "format" -> 6 [] pc = "print" -> 5 [] pc = "skip" -> 3
                [] pc = "cleanup" -> 1 [] OTHER -> 0
  IN  rank + 10 * Size(stdin)

(* par comes to an end whatever its options and its input, unless the width *)
(* leaves no room for a word: every step takes something from a number,     *)
(* although newlines are pushed back and paragraphs can be empty            *)
(* (par.c:154-245, 563-608).                                                *)
ParProgress ==
  [][pc # "main" => Left' < Left /\ (pc' = "endless" => LineWidth(val) <= 0)]_vars
=============================================================================
