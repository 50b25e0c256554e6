------------------------------ MODULE ArgoText ------------------------------
(***************************************************************************)
(* Characters, numbers and strings of argo (hw1/src/argo.c): the tables of *)
(* argo.h, what the loop of argo_read_number keeps of a number, its        *)
(* canonical text, and how numbers and strings are written.                *)
(*                                                                         *)
(* A character is an ARGO_CHAR, an integer.  argo_get_next_char returns a  *)
(* char, which is signed: the bytes from 128 on arrive as c - 256, and the *)
(* byte 255 as EOF.  A double is exact: the digits read, and how many of   *)
(* them come after the separator.                                          *)
(***************************************************************************)
EXTENDS Integers, Sequences, SequencesExt, Functions

CONSTANT Digits         \* how many characters of a number are kept: 9 in the code

EOF == -1
ARGO_BS == 8
ARGO_HT == 9
ARGO_LF == 10
ARGO_FF == 12
ARGO_CR == 13
ARGO_SPACE == 32
ARGO_QUOTE == 34
ARGO_PLUS == 43
ARGO_COMMA == 44
ARGO_MINUS == 45
ARGO_PERIOD == 46
ARGO_FSLASH == 47
ARGO_DIGIT0 == 48
ARGO_COLON == 58
ARGO_LBRACK == 91
ARGO_BSLASH == 92
ARGO_RBRACK == 93
ARGO_B == 98
ARGO_E == 101
ARGO_F == 102
ARGO_N == 110
ARGO_R == 114
ARGO_T == 116
ARGO_U == 117
ARGO_LBRACE == 123
ARGO_RBRACE == 125

IsWhitespace(c) == c \in {ARGO_SPACE, ARGO_LF, ARGO_CR, ARGO_HT}
IsExponent(c) == c \in {ARGO_E, 69}
IsDigit(c) == c \in 48..57
IsHex(c) == c \in 48..57 \cup 65..70 \cup 97..102
IsControl(c) == c \in 0..31

HexValue(c) == IF IsDigit(c) THEN c - 48 ELSE IF c \in 97..102 THEN c - 87 ELSE c - 55

\* A byte written by fprintf("%c") and read back by fgetc into a char.
Reread(c) == IF (c % 256) >= 128 THEN (c % 256) - 256 ELSE c % 256

\* The digits of n as characters, in base 10 or 16: %d and %x of printf.
Numeral(n, base) ==
  LET digits[k \in Nat] ==
        LET last == IF k % base < 10 THEN 48 + (k % base) ELSE 87 + (k % base)
        IN IF k < base THEN <<last>> ELSE Append(digits[k \div base], last)
  IN digits[n]

StripZeros[n \in Nat] == IF n # 0 /\ n % 10 = 0 THEN StripZeros[n \div 10] ELSE n

-----------------------------------------------------------------------------
(* The loop of argo_read_number. *)

InNumber(c) == IsDigit(c) \/ IsExponent(c) \/ c \in {ARGO_PLUS, ARGO_MINUS, ARGO_PERIOD}

NumberStart ==
  [text |-> <<>>, valid_int |-> TRUE, valid_float |-> TRUE, valid_string |-> TRUE,
   positive |-> TRUE, int_value |-> 0, float_value |-> 0, digits_after_separator |-> 0,
   num_started |-> FALSE, has_exp |-> FALSE, exp_started |-> FALSE, has_separator |-> FALSE]

\* The characters at which it gives up.
NumberError(n, c) ==
  \/ IsDigit(c) /\ n.valid_int /\ n.num_started /\ n.int_value = 0 /\ c = ARGO_DIGIT0
  \/ c \in {ARGO_PLUS, ARGO_MINUS} /\ (~n.has_exp \/ n.exp_started) /\ (c = ARGO_PLUS \/ n.num_started)
  \/ IsExponent(c) /\ n.has_exp
  \/ c = ARGO_PERIOD /\ n.has_separator

NumberNext(n, c) ==
  LET sign == c = ARGO_MINUS /\ ~n.num_started
      goes == ~sign /\ ~IsExponent(c)           \* no `continue'
      int  == IsDigit(c) /\ n.valid_int
      real == IsDigit(c) /\ n.valid_float
  IN [text         |-> IF Len(n.text) < Digits
                       THEN Append(n.text, IF IsExponent(c) THEN ARGO_E ELSE c) ELSE n.text,
      valid_string |-> n.valid_string /\ Len(n.text) < Digits,
      valid_int    |-> n.valid_int /\ ~IsExponent(c) /\ c # ARGO_PERIOD,
      valid_float  |-> n.valid_float /\ ~IsExponent(c),
      positive     |-> n.positive /\ ~sign,
      int_value    |-> IF int THEN n.int_value * 10 + (c - 48) ELSE n.int_value,
      float_value  |-> IF real THEN n.float_value * 10 + (c - 48) ELSE n.float_value,
      digits_after_separator |-> n.digits_after_separator + IF real /\ n.has_separator THEN 1 ELSE 0,
      num_started   |-> n.num_started \/ goes,
      has_exp       |-> n.has_exp \/ IsExponent(c),
      exp_started   |-> n.exp_started \/ (goes /\ n.has_exp),
      has_separator |-> n.has_separator \/ c = ARGO_PERIOD]

-----------------------------------------------------------------------------
(* The canonical text of a number: argo_read_number_helper and, with the    *)
(* same loop, argo_write_number_helper.                                     *)

DecimalStart == [ok |-> TRUE, num |-> 0, exp |-> 0, exp_tmp |-> 0, before_separator |-> TRUE,
                 minus |-> FALSE, exp_minus |-> FALSE, started |-> FALSE, is_num |-> TRUE,
                 integer_is_zero |-> FALSE, fractional_is_zero |-> TRUE]

\* A variant the checks refute: zeros among the decimals count as leading ones.
LeadingZeroAnywhere(d, c) == d.integer_is_zero /\ c = ARGO_DIGIT0

\* A zero of the fraction that lowers the exponent.
LeadingZero(d, c) == d.integer_is_zero /\ d.fractional_is_zero /\ c = ARGO_DIGIT0

DecimalNext(d, c) ==
  LET num     == d.num * 10 + (c - 48)
      sign    == c \in {ARGO_PLUS, ARGO_MINUS} /\ ~d.started
      point   == d.is_num /\ c = ARGO_PERIOD /\ d.before_separator
  IN IF ~d.ok THEN d
     ELSE IF d.is_num /\ IsDigit(c)
     THEN [d EXCEPT !.num = num, !.started = TRUE,
                    !.exp = @ + (IF d.before_separator /\ num # 0 THEN 1 ELSE 0)
                              - (IF LeadingZero(d, c) THEN 1 ELSE 0),
                    !.fractional_is_zero = @ /\ (d.integer_is_zero => c = ARGO_DIGIT0)]
     ELSE IF d.is_num /\ IsExponent(c) THEN [d EXCEPT !.started = FALSE, !.is_num = FALSE]
     ELSE IF IsDigit(c) THEN [d EXCEPT !.exp_tmp = @ * 10 + (c - 48), !.started = TRUE]
     ELSE [d EXCEPT !.ok = sign \/ point, !.started = TRUE,
                    !.minus = @ \/ (d.is_num /\ sign /\ c = ARGO_MINUS),
                    !.exp_minus = @ \/ (~d.is_num /\ sign /\ c = ARGO_MINUS),
                    !.before_separator = @ /\ ~point,
                    !.integer_is_zero = @ \/ (point /\ d.num = 0)]

Decimal(text) ==
  LET d == FoldLeft(DecimalNext, DecimalStart, text)
  IN [ok |-> d.ok, minus |-> d.minus, num |-> StripZeros[d.num],
      exp |-> d.exp + (IF d.exp_minus THEN -d.exp_tmp ELSE d.exp_tmp)]

Abs(n) == IF n < 0 THEN -n ELSE n

Minus(b) == IF b THEN <<ARGO_MINUS>> ELSE <<>>

\* What argo_read_number_helper stores: the exponent goes twice through an
\* int, from right to left, and comes back without its trailing zeros.
CanonicalNumber(text) ==
  LET d == Decimal(text)
  IN Minus(d.minus) \o <<ARGO_DIGIT0, ARGO_PERIOD>>
       \o (IF d.num = 0 THEN <<>> ELSE Numeral(d.num, 10))
       \o (IF d.exp = 0 THEN <<>>
           ELSE <<ARGO_E>> \o Minus(d.exp < 0) \o Numeral(StripZeros[Abs(d.exp)], 10))

\* argo_write_number_helper.
WriteNumberHelper(text) ==
  LET d == Decimal(text)
  IN Minus(d.minus) \o <<ARGO_DIGIT0, ARGO_PERIOD>> \o Numeral(d.num, 10)
       \o (IF d.exp = 0 \/ d.num = 0 THEN <<>>
           ELSE <<ARGO_E>> \o Minus(d.exp < 0) \o Numeral(Abs(d.exp), 10))

\* The fields of the ARGO_NUMBER that argo_read_number leaves.
NumberOf(n) ==
  [valid_int |-> n.valid_int, valid_float |-> n.valid_float, valid_string |-> n.valid_string,
   negative |-> ~n.positive, int_value |-> n.int_value, float_value |-> n.float_value,
   places |-> n.digits_after_separator, string_value |-> CanonicalNumber(n.text)]

\* %f of a number from 0.1 to 1: six decimals, exact up to six places.
Fixed6(n) ==
  <<ARGO_DIGIT0, ARGO_PERIOD>>
    \o [i \in 1..6 |-> IF i <= n.places THEN 48 + ((n.float_value \div 10^(n.places - i)) % 10) ELSE 48]

FloatIsPlain(n) ==
  n.valid_float /\ ~n.negative /\ n.float_value < 10^n.places /\ 10 * n.float_value >= 10^n.places

\* argo_write_number: its text, and whether it returns zero.  Only the first
\* two cases reach the newline that ends a pretty-printed value.
WriteNumber(n, newline) ==
  IF n.valid_int THEN [text |-> Minus(n.negative /\ n.int_value # 0) \o Numeral(n.int_value, 10) \o newline, ok |-> TRUE]
  ELSE IF FloatIsPlain(n) THEN [text |-> Fixed6(n) \o newline, ok |-> TRUE]
  ELSE IF n.valid_string THEN [text |-> WriteNumberHelper(n.string_value), ok |-> TRUE]
  ELSE [text |-> <<>>, ok |-> FALSE]

-----------------------------------------------------------------------------
(* Strings. *)

\* A character after a backslash.
Unescaped(c) ==
  CASE c = ARGO_B -> ARGO_BS
    [] c = ARGO_F -> ARGO_FF
    [] c = ARGO_N -> ARGO_LF
    [] c = ARGO_R -> ARGO_CR
    [] c = ARGO_T -> ARGO_HT
    [] OTHER -> c

\* The characters that are written as a backslash and a letter.
\* A variant the checks refute: the backslash itself is not.
NamedNoBackslash == {ARGO_BS, ARGO_FF, ARGO_LF, ARGO_CR, ARGO_HT, ARGO_QUOTE}

Named == {ARGO_BS, ARGO_FF, ARGO_LF, ARGO_CR, ARGO_HT, ARGO_BSLASH, ARGO_QUOTE}

Letter(c) ==
  CASE c = ARGO_BS -> ARGO_B
    [] c = ARGO_FF -> ARGO_F
    [] c = ARGO_LF -> ARGO_N
    [] c = ARGO_CR -> ARGO_R
    [] c = ARGO_HT -> ARGO_T
    [] OTHER -> c

\* How many zeros come before the hexadecimal digits of an escaped character.
Padding(c) == IF c <= 15 THEN 3 ELSE IF c <= 255 THEN 2 ELSE IF c <= 4095 THEN 1 ELSE 0

\* argo_write_string.  The byte of %c is left as it is read back.
WriteChar(c) ==
  IF c \in Named THEN <<ARGO_BSLASH, Letter(c)>>
  ELSE IF IsControl(c) \/ c > 255
  THEN <<ARGO_BSLASH, ARGO_U>> \o [i \in 1..Padding(c) |-> ARGO_DIGIT0] \o Numeral(c, 16)
  ELSE <<Reread(c)>>

WriteString(s) == <<ARGO_QUOTE>> \o FlattenSeq([i \in DOMAIN s |-> WriteChar(s[i])]) \o <<ARGO_QUOTE>>
=============================================================================
