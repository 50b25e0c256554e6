------------------------------ MODULE Reformat ------------------------------
(***************************************************************************)
(* How par lays out one paragraph (hw2/src/reformat.c, and setdefaults of  *)
(* hw2/src/par.c).                                                         *)
(*                                                                         *)
(* A line is a sequence of characters.  The struct word list is a sequence *)
(* of words; a word's nextline pointer is the index of the first word of   *)
(* the next line, one more than the number of words standing for NULL.     *)
(* Each backward pass of choosebreaks is a recursive function from the     *)
(* index of a word to the score it is given.  MaxInt is INT_MAX: a score   *)
(* beyond it wraps to a negative number.                                   *)
(***************************************************************************)
EXTENDS Integers, Sequences, SequencesExt, FiniteSets, FiniteSetsExt

CONSTANT MaxInt

ASSUME MaxIntAssumption == MaxInt \in Nat \ {0}

White == {" ", "\t"}

Spaces(n) == [i \in 1..n |-> " "]

Wrap(n) == IF n > MaxInt THEN ((n + MaxInt + 1) % (2 * MaxInt + 2)) - MaxInt - 1
                         ELSE n

-----------------------------------------------------------------------------
(* Default values, in the order setdefaults computes them. *)

Or(value, default) == IF value < 0 THEN default ELSE value

CommonPrefix(lines) == Len(LongestCommonPrefix(ToSet(lines)))

\* The common suffix, less its leading white characters except the last.
CommonSuffix(lines) ==
  LET s == Reverse(LongestCommonPrefix({Reverse(ln) : ln \in ToSet(lines)}))
      start == Min({k \in 0..Len(s) : \/ k + 2 > Len(s)
                                      \/ s[k + 1] \notin White
                                      \/ s[k + 2] \notin White})
  IN  Len(s) - start

Setdefaults(lines, v) ==
  LET hang == Or(v.hang, 0)
      last == Or(v.last, 0)
  IN  [width  |-> Or(v.width, 72),
       hang   |-> hang,
       last   |-> last,
       min    |-> Or(v.min, last),
       prefix |-> Or(v.prefix, IF Len(lines) <= hang + 1 THEN 0
                               ELSE CommonPrefix(SubSeq(lines, hang + 1, Len(lines)))),
       suffix |-> Or(v.suffix, IF Len(lines) <= 1 THEN 0 ELSE CommonSuffix(lines))]

-----------------------------------------------------------------------------
(* Words. *)

Affix(v) == v.prefix + v.suffix

LineWidth(v) == v.width - v.prefix - v.suffix            \* L

\* The words of a text, each cut after its L-th character.  The scan makes no
\* progress when L is not positive: see Endless.
WordsOf(text, L) ==
  LET n == Len(text)
      Skip(p)  == Min({q \in p..(n + 1) : q = n + 1 \/ text[q] \notin White})
      Stop(p)  == Min({q \in p..(n + 1) : q = n + 1 \/ text[q] \in White})
      from[p \in 1..(n + 1)] ==
        LET p1 == Skip(p)
            p2 == Min({Stop(p1), p1 + L})
        IN  IF p1 = n + 1 THEN <<>> ELSE <<SubSeq(text, p1, p2 - 1)>> \o from[p2]
  IN  from[1]

Middle(line, v) == SubSeq(line, v.prefix + 1, Len(line) - v.suffix)

TooShort(lines, v) == {k \in DOMAIN lines : Len(lines[k]) < Affix(v)}

\* Splitting a line that has a word goes on for ever when L is zero or less.
Endless(lines, v) ==
  /\ LineWidth(v) <= 0
  /\ \E k \in DOMAIN lines : /\ \A j \in 1..k : j \notin TooShort(lines, v)
                             /\ ToSet(Middle(lines[k], v)) \ White # {}

\* All words; the first one takes the white characters before it.
Words(lines, v) ==
  LET split == FlattenSeq([k \in DOMAIN lines |-> WordsOf(Middle(lines[k], v), LineWidth(v))])
      text  == Middle(lines[1], v)
      lead  == {i \in 1..Len(text) : \A j \in 1..i : text[j] \in White}
  IN  IF ToSet(text) \subseteq White THEN split
      ELSE <<SubSeq(text, 1, Cardinality(lead)) \o split[1]>> \o Tail(split)

-----------------------------------------------------------------------------
(* choosebreaks.  col gives the columns at which the words would end if all *)
(* were on one line: the word k takes the columns col[k] + 1 to col[k + 1]  *)
(* less one for the space after it.                                        *)

Columns(words) == FoldLeft(LAMBDA c, w : Append(c, Last(c) + Len(w) + 1), <<0>>, words)

LineLen(col, i, j) == col[j + 1] - col[i] - 1

Least(a, b)    == IF a <= b THEN a ELSE b
Greatest(a, b) == IF a >= b THEN a ELSE b

\* A loop from the last word to the first: Score(i, later) is the score of the
\* word i when later[k] is that of the word i + k.
Backward(n, Score(_, _), Scores) ==
  LET back[later \in Seq(Scores)] ==
        IF Len(later) = n THEN later ELSE back[<<Score(n - Len(later), later)>> \o later]
  IN  back[<<>>]

\* First pass: the shortest line can be made this long.  -1: no way to break.
ShortestScores(col, L, last) ==
  LET n == Len(col) - 1
      Score(i, later) ==
        IF LineLen(col, i, n) <= L THEN IF last = 1 THEN LineLen(col, i, n) ELSE L
        ELSE Max({-1} \cup {Least(LineLen(col, i, j), later[j + 1 - i]) :
                               j \in {k \in i..(n - 1) : LineLen(col, i, k) <= L}})
  IN  Backward(n, Score, Int)

\* Second pass: the longest line need be no longer than this.
LongestScores(col, L, last, shortest) ==
  LET n == Len(col) - 1
      MinLen(j) == IF j < n \/ last = 1 THEN shortest ELSE 0
      Score(i, later) ==
        Min({L + 1} \cup {Greatest(LineLen(col, i, j), IF j < n THEN later[j + 1 - i] ELSE 0) :
                             j \in {k \in i..n : LineLen(col, i, k) >= MinLen(k)}})
  IN  Backward(n, Score, Int)

\* With the sum of the differences, not of their squares (a variant the checks refute).
SquareScoresLinear(col, newL, last, shortest) ==
  LET n == Len(col) - 1
      Word == [score : Int, nextline : Int]
      Score(i, later) ==
        LET try[j \in i..(n + 1), best \in Word] ==
              LET linelen == LineLen(col, i, j)
                  free    == j = n /\ last = 0
                  diff    == IF free THEN 0 ELSE newL - linelen
                  score   == IF j < n THEN later[j + 1 - i].score ELSE 0
                  sum     == Wrap(score + diff)
                  better  == /\ linelen >= (IF free THEN 0 ELSE shortest)
                             /\ score >= 0
                             /\ best.score < 0 \/ sum <= best.score
              IN  IF j > n \/ linelen > newL THEN best
                  ELSE try[j + 1, IF better THEN [score |-> sum, nextline |-> j + 1] ELSE best]
        IN  try[i, [score |-> -1, nextline |-> 0]]
  IN  Backward(n, Score, Word)

\* Third pass: the least sum of squares, the later break winning a tie.  try goes
\* through the last words a line that starts with the word i can have.
SquareScores(col, newL, last, shortest) ==
  LET n == Len(col) - 1
      Word == [score : Int, nextline : Int]
      Score(i, later) ==
        LET try[j \in i..(n + 1), best \in Word] ==
              LET linelen == LineLen(col, i, j)
                  free    == j = n /\ last = 0
                  diff    == IF free THEN 0 ELSE newL - linelen
                  score   == IF j < n THEN later[j + 1 - i].score ELSE 0
                  sum     == Wrap(score + diff * diff)
                  better  == /\ linelen >= (IF free THEN 0 ELSE shortest)
                             /\ score >= 0
                             /\ best.score < 0 \/ sum <= best.score
              IN  IF j > n \/ linelen > newL THEN best
                  ELSE try[j + 1, IF better THEN [score |-> sum, nextline |-> j + 1] ELSE best]
        IN  try[i, [score |-> -1, nextline |-> 0]]
  IN  Backward(n, Score, Word)

\* What choosebreaks returns: newL and the chosen words, or an error.
Choosebreaks(col, L, last, min) ==
  LET n        == Len(col) - 1
      first    == ShortestScores(col, L, last)
      shortest == IF n = 0 THEN L ELSE first[1]
      longest  == IF n = 0 THEN 0 ELSE LongestScores(col, L, last, shortest)[1]
      newL     == IF min = 0 THEN L ELSE longest
      squares  == SquareScores(col, newL, last, shortest)
      fail(e)  == [errmsg |-> e, newL |-> 0, word |-> <<>>]
  IN  IF \E i \in 1..n : first[i] < 0 THEN fail("impossibility 1")
      ELSE IF min = 1 /\ newL > L THEN fail("impossibility 2")
      ELSE IF n > 0 /\ squares[1].score < 0 THEN fail("impossibility 3")
      ELSE [errmsg |-> "none", newL |-> newL, word |-> squares]

\* The lines, as pairs of the first and the last word of each.
LinesFrom(word) ==
  LET from[i \in 1..(Len(word) + 1)] ==
        IF i > Len(word) THEN <<>>
        ELSE <<<<i, word[i].nextline - 1>>>> \o from[word[i].nextline]
  IN  from[1]

-----------------------------------------------------------------------------
(* reformat: the output lines, or an error. *)

Joined(words) == FoldLeft(LAMBDA text, w : text \o <<" ">> \o w, words[1], Tail(words))

\* With the padding counted from the end of the prefix (a variant the checks refute).
OutLineWide(lines, v, words, chosen, breaks, k) ==
  LET numin   == Len(lines)
      body    == IF k > Len(breaks) THEN <<>>
                 ELSE Joined(SubSeq(words, breaks[k][1], breaks[k][2]))
      linelen == IF v.suffix > 0 THEN chosen.newL + v.prefix ELSE Len(body)
      Pre(ln) == SubSeq(ln, 1, v.prefix)
      Suf(ln) == SubSeq(ln, Len(ln) - v.suffix + 1, Len(ln))
      prefix  == IF k <= numin THEN Pre(lines[k])
                 ELSE IF numin > v.hang THEN Pre(lines[numin]) ELSE Spaces(v.prefix)
      suffix  == Suf(lines[Least(k, numin)])
  IN  prefix \o body \o Spaces(linelen - Len(body)) \o suffix

OutLine(lines, v, words, chosen, breaks, k) ==
  LET numin   == Len(lines)
      body    == IF k > Len(breaks) THEN <<>>
                 ELSE Joined(SubSeq(words, breaks[k][1], breaks[k][2]))
      linelen == IF v.suffix > 0 THEN chosen.newL ELSE Len(body)
      Pre(ln) == SubSeq(ln, 1, v.prefix)
      Suf(ln) == SubSeq(ln, Len(ln) - v.suffix + 1, Len(ln))
      prefix  == IF k <= numin THEN Pre(lines[k])
                 ELSE IF numin > v.hang THEN Pre(lines[numin]) ELSE Spaces(v.prefix)
      suffix  == Suf(lines[Least(k, numin)])
  IN  prefix \o body \o Spaces(linelen - Len(body)) \o suffix

ReformatPar(lines, v) ==
  LET words  == Words(lines, v)
      chosen == Choosebreaks(Columns(words), LineWidth(v), v.last, v.min)
      breaks == LinesFrom(chosen.word)
  IN  IF TooShort(lines, v) # {} THEN [errmsg |-> "short line", out |-> <<>>]
      ELSE IF chosen.errmsg # "none" THEN [errmsg |-> chosen.errmsg, out |-> <<>>]
      ELSE [errmsg |-> "none",
            out    |-> [k \in 1..Greatest(v.hang, Len(breaks)) |->
                          OutLine(lines, v, words, chosen, breaks, k)]]
=============================================================================
