-------------------------------- MODULE Argo --------------------------------
(***************************************************************************)
(* The program argo (hw1): its arguments (validargs.c, main.c), the parser *)
(* of argo.c over the pool argo_value_storage, and the writer.             *)
(*                                                                         *)
(* The recursion of the parser is a stack of frames, one for each pending  *)
(* call: a frame holds the locals of its function, `c' being the character *)
(* it looks at, and `at' says where the function is.  Every caller returns *)
(* an error as soon as its callee does, so an error unwinds in one step.   *)
(* Standard input is the characters `stdin' and then up to `more'          *)
(* characters of the alphabet of the run, chosen as they are read.  When a *)
(* run has rewritten its input, a second one may read what it printed.     *)
(***************************************************************************)
EXTENDS ArgoText, FiniteSetsExt

CONSTANTS
  NumValues,    \* NUM_ARGO_VALUES
  ArgoRuns      \* records: argv, prefix and alphabet of the input, more

ASSUME ValuesAssumption == NumValues \in Nat

\* A byte 255, which arrives as EOF, is in a prefix only.
ASSUME RunsAssumption ==
  \A r \in ArgoRuns : r.prefix \in Seq(Int) /\ r.alphabet \subseteq Int \ {EOF} /\ r.more \in Nat

VARIABLES
  pc,           \* "validargs", "reading", "exit"
  run,          \* the element of ArgoRuns argo runs with
  first,        \* what the first run printed, and whether it printed every number
  options,      \* global_options
  stdin, more,  \* the input still to come
  input,        \* the characters read and not pushed back
  pos,          \* argo_lines_read, argo_chars_read, argo_chars_read_prev
  storage,      \* argo_value_storage
  next_value,   \* argo_next_value
  stack,        \* the pending calls
  result,       \* the value argo_read_value has just returned
  stdout,
  stderr,       \* the number of messages printed
  status        \* the exit status, "running" before

stream == <<stdin, more, input>>
heap == <<storage, next_value>>
outputs == <<stdout, stderr, status>>
vars == <<pc, run, first, options, stream, pos, heap, stack, result, outputs>>

Null == -1

NoText == <<>>                \* there was no first run

Values == 0..(NumValues - 1)

\* A zeroed ARGO_VALUE; the members of its content are kept apart.
Fresh == [type |-> "none", next |-> Null, prev |-> Null, name |-> <<>>, string |-> <<>>,
          number |-> NumberOf(NumberStart), list |-> Null, basic |-> "null"]

-----------------------------------------------------------------------------
(* Arguments: sequences of characters. *)

ParseArg(arg) == IF Len(arg) = 2 /\ arg[1] = ARGO_MINUS THEN arg[2] ELSE 0

Str2int(arg) ==
  LET n == FoldLeft(LAMBDA ans, c : ans * 10 + (c - 48), 0, arg)
  IN IF (\A i \in DOMAIN arg : IsDigit(arg[i])) /\ n < 256 THEN n ELSE -1

\* argv without the program's name.  With no argument, argv[1] is NULL.
Validargs(argv) ==
  LET argc   == Len(argv) + 1
      letter == ParseArg(argv[1])
      indent == IF argc = 3 THEN 4 ELSE Str2int(argv[3])
      Mode(m, p, i) == [mode |-> m, pretty |-> p, indent |-> i]
  IN IF argv = <<>> THEN Mode("crash", FALSE, 0)
     ELSE IF letter = 104 THEN Mode("help", FALSE, 0)
     ELSE IF letter = 118 /\ argc = 2 THEN Mode("validate", FALSE, 0)
     ELSE IF letter = 99 /\ argc = 2 THEN Mode("canonicalize", FALSE, 0)
     ELSE IF letter = 99 /\ ParseArg(argv[2]) = 112 /\ indent # -1 THEN Mode("canonicalize", TRUE, indent)
     ELSE Mode("invalid", FALSE, 0)

-----------------------------------------------------------------------------
(* Characters of the input. *)

Arriving == IF stdin # <<>> THEN {Head(stdin)}
            ELSE {EOF} \cup IF more > 0 THEN run.alphabet ELSE {}

Fetch(c) ==
  /\ stdin' = IF stdin = <<>> THEN <<>> ELSE Tail(stdin)
  /\ more' = IF stdin # <<>> THEN more ELSE IF c = EOF THEN 0 ELSE more - 1
  /\ input' = IF c = EOF THEN input ELSE Append(input, c)

\* A variant the checks refute: the column is not restored.
BeforeColumnLost(p, c) == [lines |-> IF c = ARGO_LF THEN p.lines - 1 ELSE p.lines,
                           chars |-> p.chars - 1, prev |-> p.prev]

\* argo_get_next_char and argo_get_prev_char on the counters.
After(p, c) == [lines |-> IF c = ARGO_LF THEN p.lines + 1 ELSE p.lines,
                chars |-> IF c = ARGO_LF THEN 0 ELSE p.chars + 1, prev |-> p.chars]

Before(p, c) == [lines |-> IF c = ARGO_LF THEN p.lines - 1 ELSE p.lines,
                 chars |-> IF c = ARGO_LF THEN p.prev ELSE p.chars - 1, prev |-> p.prev]

GetNextChar(c) == c \in Arriving /\ Fetch(c) /\ pos' = After(pos, c)

\* ungetc refuses EOF.
GetPrevChar(c) ==
  /\ stdin' = IF c = EOF THEN stdin ELSE <<c>> \o stdin
  /\ input' = IF c = EOF THEN input ELSE Front(input)
  /\ pos' = Before(pos, c)
  /\ UNCHANGED more

\* The character c is pushed back and a callee reads the next one, d.
ReadAgain(c, d) ==
  /\ IF c = EOF THEN d \in Arriving /\ Fetch(d) ELSE d = c /\ UNCHANGED stream
  /\ pos' = After(Before(pos, c), d)

-----------------------------------------------------------------------------
(* Calls and values. *)

top == Last(stack)
At(place) == pc = "reading" /\ result = Null /\ top.at = place

Replaced(frame) == Append(Front(stack), frame)

\* The function of frame f takes the next character.
Getting(f) == \E c \in Arriving : GetNextChar(c) /\ stack' = Replaced([f EXCEPT !.c = c])

\* Calls a function that begins with argo_get_next_char.
CallGetting(callers, f) == \E c \in Arriving : GetNextChar(c) /\ stack' = Append(callers, [f EXCEPT !.c = c])

Room(n) == next_value + n <= NumValues

\* argo_read_value on its first character.
CallValue(callers, c) ==
  /\ Room(1)
  /\ next_value' = next_value + 1
  /\ stack' = Append(callers, [at |-> "value", v |-> next_value, c |-> c])
  /\ UNCHANGED storage

\* argo_read_value returns its value v, of a type now known.
ReturnValue(v, type, memory) ==
  /\ storage' = [memory EXCEPT ![v].type = type]
  /\ result' = v
  /\ stack' = SubSeq(stack, 1, Len(stack) - 2)

\* Every pending call fails; main exits with EXIT_FAILURE.
Fail(messages) ==
  /\ pc' = "exit"
  /\ status' = "failure"
  /\ stderr' = stderr + messages
  /\ UNCHANGED <<run, first, options, stream, pos, heap, stack, result, stdout>>

kept == <<pc, run, first, options, outputs>>

-----------------------------------------------------------------------------
(* argo_read_value. *)

ValueSpace == At("value") /\ IsWhitespace(top.c) /\ Getting(top) /\ UNCHANGED <<kept, heap, result>>

ValueNumber ==
  /\ At("value") /\ (IsDigit(top.c) \/ top.c = ARGO_MINUS)
  /\ ReadAgain(top.c, top.c)
  /\ stack' = Append(stack, [at |-> "number", v |-> top.v, c |-> top.c, n |-> NumberStart])
  /\ UNCHANGED <<kept, heap, result>>

ValueString ==
  /\ At("value") /\ top.c = ARGO_QUOTE
  /\ CallGetting(stack, [at |-> "string", v |-> top.v, field |-> "string", c |-> 0])
  /\ UNCHANGED <<kept, heap, result>>

Literals == [true  |-> <<ARGO_T, ARGO_R, ARGO_U, ARGO_E>>,
             false |-> <<ARGO_F, 97, 108, 115, ARGO_E>>,
             null  |-> <<ARGO_N, ARGO_U, 108, 108>>]

ValueLiteral ==
  \E word \in DOMAIN Literals :
    /\ At("value") /\ top.c = Head(Literals[word])
    /\ CallGetting(stack, [at |-> "literal", v |-> top.v, c |-> 0, rest |-> Tail(Literals[word]), word |-> word])
    /\ UNCHANGED <<kept, heap, result>>

\* argo_read_object and argo_read_array up to their loop: a first character,
\* the head of the list and the value its first element will have.
ValueList ==
  /\ At("value") /\ top.c \in {ARGO_LBRACE, ARGO_LBRACK}
  /\ Room(2)
  /\ storage' = [storage EXCEPT ![next_value] = [@ EXCEPT !.next = next_value, !.prev = next_value],
                                ![top.v].list = next_value]
  /\ next_value' = next_value + 2
  /\ CallGetting(stack, [at |-> "top", v |-> top.v, c |-> 0, object |-> top.c = ARGO_LBRACE,
                         starter |-> next_value, prev |-> next_value, next |-> next_value + 1])
  /\ UNCHANGED <<kept, result>>

ValueError ==
  /\ At("value") /\ ~IsWhitespace(top.c) /\ ~IsDigit(top.c)
  /\ top.c \notin {ARGO_MINUS, ARGO_QUOTE, ARGO_LBRACE, ARGO_LBRACK, ARGO_T, ARGO_F, ARGO_N}
  /\ Fail(IF top.c = EOF THEN 0 ELSE 1)

-----------------------------------------------------------------------------
(* Numbers, literals and strings. *)

NumberChar ==
  /\ At("number") /\ InNumber(top.c) /\ ~NumberError(top.n, top.c)
  /\ Getting([top EXCEPT !.n = NumberNext(top.n, top.c)])
  /\ UNCHANGED <<kept, heap, result>>

\* The value that argo_read_number_helper takes stays in use.
NumberEnd ==
  /\ At("number") /\ ~InNumber(top.c) /\ Room(1)
  /\ IF Decimal(top.n.text).ok
     THEN LET number == NumberOf(top.n)
              memory == [storage EXCEPT ![top.v].number = number, ![next_value].string = number.string_value]
          IN /\ ReturnValue(top.v, "number", memory)
             /\ GetPrevChar(top.c)
             /\ UNCHANGED <<pc, status>>
     ELSE /\ pc' = "exit" /\ status' = "crash"      \* tmp is NULL
          /\ UNCHANGED <<storage, result, stack, stream, pos>>
  /\ next_value' = next_value + 1
  /\ stderr' = stderr + IF top.n.valid_int \/ top.n.valid_float \/ top.n.valid_string THEN 0 ELSE 1
  /\ UNCHANGED <<run, first, options, stdout>>

NumberFails == At("number") /\ InNumber(top.c) /\ NumberError(top.n, top.c) /\ Fail(1)

LiteralChar ==
  /\ At("literal") /\ top.c = Head(top.rest)
  /\ IF Len(top.rest) > 1
     THEN Getting([top EXCEPT !.rest = Tail(@)]) /\ UNCHANGED <<storage, result>>
     ELSE /\ ReturnValue(top.v, "basic", [storage EXCEPT ![top.v].basic = top.word])
          /\ UNCHANGED <<stream, pos>>
  /\ UNCHANGED <<kept, next_value>>

LiteralFails == At("literal") /\ top.c # Head(top.rest) /\ Fail(1)

\* argo_append_char to the string being read.
Grown(c) ==
  [storage EXCEPT ![top.v] = IF top.field = "name" THEN [@ EXCEPT !.name = Append(@, c)]
                                                   ELSE [@ EXCEPT !.string = Append(@, c)]]

StringChar ==
  /\ At("string") /\ top.c \notin {EOF, ARGO_QUOTE} /\ ~IsControl(top.c)
  /\ IF top.c = ARGO_BSLASH THEN Getting([top EXCEPT !.at = "escape"]) /\ UNCHANGED storage
                            ELSE Getting(top) /\ storage' = Grown(top.c)
  /\ UNCHANGED <<kept, next_value, result>>

StringEscape ==
  /\ At("escape")
  /\ IF top.c = ARGO_U
     THEN Getting([at |-> "hex", v |-> top.v, field |-> top.field, c |-> 0, i |-> 0, value |-> 0]) /\ UNCHANGED storage
     ELSE Getting([top EXCEPT !.at = "string"]) /\ storage' = Grown(Unescaped(top.c))
  /\ UNCHANGED <<kept, next_value, result>>

StringHex ==
  /\ At("hex") /\ IsHex(top.c)
  /\ LET value == top.value * 16 + HexValue(top.c)
     IN IF top.i < 3
        THEN Getting([top EXCEPT !.i = @ + 1, !.value = value]) /\ UNCHANGED storage
        ELSE Getting([at |-> "string", v |-> top.v, field |-> top.field, c |-> 0]) /\ storage' = Grown(value)
  /\ UNCHANGED <<kept, next_value, result>>

StringFails ==
  /\ (At("string") /\ IsControl(top.c)) \/ (At("hex") /\ ~IsHex(top.c))
  /\ Fail(1)

\* The end of the input ends a string too.
StringEnd ==
  /\ At("string") /\ top.c \in {EOF, ARGO_QUOTE}
  /\ IF top.field = "string"
     THEN ReturnValue(top.v, "string", storage) /\ UNCHANGED <<stream, pos>>
     ELSE /\ CallGetting(SubSeq(stack, 1, Len(stack) - 2), [stack[Len(stack) - 1] EXCEPT !.at = "colon"])
          /\ UNCHANGED <<storage, result>>
  /\ UNCHANGED <<kept, next_value>>

-----------------------------------------------------------------------------
(* The loops of argo_read_object and argo_read_array. *)

Closer == IF top.object THEN ARGO_RBRACE ELSE ARGO_RBRACK

ListSpace ==
  /\ At("top") \/ At("colon") \/ At("after")
  /\ IsWhitespace(top.c) /\ Getting(top)
  /\ UNCHANGED <<kept, heap, result>>

ListEnd ==
  /\ At("top") \/ At("after")
  /\ top.c = Closer
  /\ ReturnValue(top.v, IF top.object THEN "object" ELSE "array", storage)
  /\ UNCHANGED <<kept, stream, pos, next_value>>

ArrayElement ==
  /\ At("top") /\ ~top.object /\ ~IsWhitespace(top.c) /\ top.c # Closer
  /\ \E d \in Arriving \cup {top.c} :
       ReadAgain(top.c, d) /\ CallValue(Replaced([top EXCEPT !.at = "element"]), d)
  /\ UNCHANGED <<kept, result>>

ObjectName ==
  /\ At("top") /\ top.object /\ top.c = ARGO_QUOTE
  /\ CallGetting(Replaced([top EXCEPT !.at = "name"]),
                 [at |-> "string", v |-> top.next, field |-> "name", c |-> 0])
  /\ UNCHANGED <<kept, heap, result>>

ObjectColon ==
  /\ At("colon") /\ top.c = ARGO_COLON
  /\ \E d \in Arriving : GetNextChar(d) /\ CallValue(Replaced([top EXCEPT !.at = "element"]), d)
  /\ UNCHANGED <<kept, result>>

\* These two errors print nothing.
ObjectError ==
  /\ \/ At("top") /\ top.object /\ ~IsWhitespace(top.c) /\ top.c \notin {ARGO_RBRACE, ARGO_QUOTE}
     \/ At("colon") /\ ~IsWhitespace(top.c) /\ top.c # ARGO_COLON
  /\ Fail(0)

\* A variant the checks refute: the element before is not linked to this one.
LinkedToStarter(f) ==
  [storage EXCEPT
     ![f.next] = [storage[result] EXCEPT !.name = storage[f.next].name, !.prev = f.prev, !.next = f.starter],
     ![f.starter] = [@ EXCEPT !.prev = f.next, !.next = f.next]]

\* The element takes the type and the content of the value that was read.
Linked(f) ==
  [storage EXCEPT
     ![f.next] = [storage[result] EXCEPT !.name = storage[f.next].name, !.prev = f.prev, !.next = f.starter],
     ![f.prev].next = f.next,
     ![f.starter].prev = f.next]

Element ==
  /\ pc = "reading" /\ result # Null /\ stack # <<>> /\ Room(1)
  /\ storage' = Linked(top)
  /\ next_value' = next_value + 1
  /\ result' = Null
  /\ Getting([top EXCEPT !.at = "after", !.prev = top.next, !.next = next_value])
  /\ UNCHANGED kept

\* A variant the checks refute: without a comma, that character is lost.
ListAfterSkips ==
  /\ At("after") /\ ~IsWhitespace(top.c) /\ top.c # Closer
  /\ Getting([top EXCEPT !.at = "top"])
  /\ UNCHANGED <<kept, heap, result>>

\* Without a comma the loop goes on with the same character.
ListAfter ==
  /\ At("after") /\ ~IsWhitespace(top.c) /\ top.c # Closer
  /\ IF top.c = ARGO_COMMA THEN Getting([top EXCEPT !.at = "top"])
     ELSE stack' = Replaced([top EXCEPT !.at = "top"]) /\ UNCHANGED <<stream, pos>>
  /\ UNCHANGED <<kept, heap, result>>

\* argo_get_next_value has nothing left.
Abort ==
  /\ pc = "reading"
  /\ \/ At("value") /\ top.c \in {ARGO_LBRACE, ARGO_LBRACK} /\ ~Room(2)
     \/ At("number") /\ ~InNumber(top.c) /\ ~Room(1)
     \/ At("top") /\ ~top.object /\ ~IsWhitespace(top.c) /\ top.c # Closer /\ ~Room(1)
     \/ At("colon") /\ top.c = ARGO_COLON /\ ~Room(1)
     \/ result # Null /\ stack # <<>> /\ ~Room(1)
  /\ pc' = "exit"
  /\ status' = "abort"
  /\ stderr' = stderr + 1
  /\ UNCHANGED <<run, first, options, stream, pos, heap, stack, result, stdout>>

-----------------------------------------------------------------------------
(* The writer. *)

Indent(level) ==
  IF options.pretty THEN <<ARGO_LF>> \o [i \in 1..(level * options.indent) |-> ARGO_SPACE] ELSE <<>>

\* The newline after a value that is not inside another.
Ending(level) == IF level = 0 /\ options.pretty THEN <<ARGO_LF>> ELSE <<>>

\* The elements after i, in the order of their links.  The code follows those
\* of the head of a list and its elements; nothing is after another value.
ElementsFrom[i \in Values] ==
  LET next == storage[i].next
  IN IF next = Null \/ storage[next].type = "none" THEN <<>> ELSE <<next>> \o ElementsFrom[next]

WriteBasic(v, level) == Literals[v.basic] \o Ending(level)

\* An object or an array whose elements have been written as `texts'.
WriteList(v, texts, level) ==
  LET elements == ElementsFrom[v.list]
      Name(k) ==
        IF v.type = "object"
        THEN WriteString(storage[elements[k]].name) \o <<ARGO_COLON>>
               \o (IF options.pretty THEN <<ARGO_SPACE>> ELSE <<>>)
        ELSE <<>>
      Member(k) ==
        Indent(level + 1) \o Name(k) \o texts[k]
          \o (IF k < Len(elements) THEN <<ARGO_COMMA>> ELSE <<>>)
  IN <<IF v.type = "object" THEN ARGO_LBRACE ELSE ARGO_LBRACK>>
       \o FlattenSeq([k \in DOMAIN elements |-> Member(k)]) \o Indent(level)
       \o <<IF v.type = "object" THEN ARGO_RBRACE ELSE ARGO_RBRACK>> \o Ending(level)

\* argo_write_value inside `level' lists.  What a value inside a list could
\* not write is left out.
Written[p \in Values \X (0..NumValues)] ==
  LET v        == storage[p[1]]
      level    == p[2]
      elements == ElementsFrom[v.list]
  IN CASE v.type = "basic"  -> WriteBasic(v, level)
       [] v.type = "number" -> WriteNumber(v.number, Ending(level)).text
       [] v.type = "string" -> WriteString(v.string) \o Ending(level)
       [] OTHER ->
            WriteList(v, [k \in DOMAIN elements |-> Written[<<elements[k], level + 1>>]], level)

Unwritable(v) == v.type = "number" /\ ~WriteNumber(v.number, <<>>).ok

-----------------------------------------------------------------------------
(* main. *)

Exit(code) ==
  /\ pc' = "exit"
  /\ status' = code
  /\ UNCHANGED <<run, first, stream, pos, heap, stack, result, stderr>>

Start ==
  /\ pc = "validargs"
  /\ options' = Validargs(run.argv)
  /\ LET mode == Validargs(run.argv).mode
     IN \/ mode = "crash" /\ Exit("crash")
        \/ mode = "help" /\ Exit("success")
        \/ mode = "invalid" /\ Exit("failure")
        \/ /\ mode \in {"validate", "canonicalize"}
           /\ pc' = "reading"
           /\ \E c \in Arriving : GetNextChar(c) /\ CallValue(<<>>, c)
           /\ UNCHANGED <<run, first, result, stderr, status>>
  /\ UNCHANGED stdout

\* Only a pretty-printed value that could not be written is a failure.
Write ==
  /\ pc = "reading" /\ result # Null /\ stack = <<>>
  /\ stdout' = IF options.mode = "validate" THEN <<>> ELSE Written[<<result, 0>>]
  /\ Exit(IF options.mode = "canonicalize" /\ options.pretty /\ Unwritable(storage[result])
          THEN "failure" ELSE "success")
  /\ UNCHANGED options

Unset == [mode |-> "invalid", pretty |-> FALSE, indent |-> 0]

Init ==
  /\ run \in ArgoRuns
  /\ stdin = run.prefix
  /\ more = run.more
  /\ first = NoText
  /\ pc = "validargs" /\ status = "running" /\ options = Unset
  /\ input = <<>> /\ pos = [lines |-> 0, chars |-> 0, prev |-> 0]
  /\ storage = [i \in Values |-> Fresh] /\ next_value = 0
  /\ stack = <<>> /\ result = Null
  /\ stdout = <<>> /\ stderr = 0

\* A number from 0.1 to 1 that was read with an exponent is written with the
\* digits it has; without an exponent, with six decimals.
HasTwoForms(v) ==
  LET d == Decimal(v.number.string_value)
  IN v.type = "number" /\ ~v.number.valid_int /\ ~FloatIsPlain(v.number) /\ d.num # 0 /\ d.exp = 0

Printed == [text     |-> stdout,
            whole    |-> \A i \in Values : ~Unwritable(storage[i]),
            twoforms |-> \E i \in Values : HasTwoForms(storage[i])]

\* Another process reads what this one has printed.
Again ==
  /\ pc = "exit" /\ status = "success" /\ options.mode = "canonicalize" /\ first = NoText
  /\ first' = Printed
  /\ stdin' = stdout
  /\ more' = 0
  /\ pc' = "validargs" /\ status' = "running" /\ options' = Unset
  /\ input' = <<>> /\ pos' = [lines |-> 0, chars |-> 0, prev |-> 0]
  /\ storage' = [i \in Values |-> Fresh] /\ next_value' = 0
  /\ stack' = <<>> /\ result' = Null
  /\ stdout' = <<>> /\ stderr' = 0
  /\ UNCHANGED run

Next ==
  \/ Start \/ ValueSpace \/ ValueNumber \/ ValueString \/ ValueLiteral \/ ValueList \/ ValueError
  \/ NumberChar \/ NumberEnd \/ NumberFails \/ LiteralChar \/ LiteralFails
  \/ StringChar \/ StringEscape \/ StringHex \/ StringFails \/ StringEnd
  \/ ListSpace \/ ListEnd \/ ArrayElement \/ ObjectName \/ ObjectColon \/ ObjectError
  \/ Element \/ ListAfter \/ Abort \/ Write \/ Again

Spec == Init /\ [][Next]_vars

-----------------------------------------------------------------------------
(* Properties. *)

Rewritten == pc = "exit" /\ status = "success" /\ options.mode = "canonicalize"

Significant(text) == SelectSeq(text, LAMBDA c : ~IsWhitespace(c) /\ c # ARGO_COMMA)

Occurrences(text, c) == Len(SelectSeq(text, LAMBDA d : d = c))

\* Inputs without escapes, fractions, exponents, signs and zeros.
Plain(text) == ToSet(text) \cap {ARGO_BSLASH, ARGO_PERIOD, ARGO_MINUS, ARGO_DIGIT0} = {}
                 /\ \A i \in 2..Len(text) : ~(IsExponent(text[i]) /\ IsDigit(text[i - 1]))

\* The quote that is missing where the input ends within a string.
QuoteCutOff(text) == IF Occurrences(text, ARGO_QUOTE) % 2 = 1 THEN <<ARGO_QUOTE>> ELSE <<>>

\* The input has no byte 255.
NoByte255 == EOF \notin ToSet(IF first = NoText THEN run.prefix ELSE first.text)

\* What the parser and the writer do together loses, repeats or reorders no
\* character of the input but spaces and commas: the lists are linked and
\* written in the order in which they were read, each name with its own value
\* (argo.c:647-784, 1072-1128).  Nor does it add one, but for a string that the end
\* of the input cuts off: the loop that reads it ends with the input and reports
\* success (argo.c:226-227), and the string is written with its quote, although
\* argo.c:42-45 and 215-217 say that a premature end of the input is an error.
TextKept ==
  Rewritten /\ first = NoText /\ NoByte255 /\ Plain(input)
    => Significant(stdout) = Significant(input \o QuoteCutOff(input))

\* The rings of the pool: next and prev are inverse on the values in use, every
\* ring has one head, of type ARGO_NO_TYPE, and holds its elements in the order
\* they were taken from the pool: at every step of the parser, which follows
\* `next' to that head and nothing else when it writes (argo.c:647-784).
ListsSound ==
  LET linked == {i \in Values : storage[i].next # Null}
      heads  == {i \in linked : storage[i].type = "none"}
  IN /\ \A i \in linked : /\ storage[i].next \in linked /\ storage[storage[i].next].prev = i
                          /\ storage[i].prev \in linked /\ storage[storage[i].prev].next = i
     /\ \A i \in linked \ heads : \E h \in heads : i \in ToSet(ElementsFrom[h])
     /\ \A h \in heads : LET e == ElementsFrom[h]
                         IN /\ storage[h].prev = IF e = <<>> THEN h ELSE Last(e)
                            /\ \A k \in 2..Len(e) : e[k - 1] < e[k]

Newlines(text) == {i \in DOMAIN text : text[i] = ARGO_LF}

\* How many characters come after the last newline.
Column(text) == Len(text) - (IF Newlines(text) = {} THEN 0 ELSE Max(Newlines(text)))

\* The position that an error message names is that of the last character read,
\* after any number of characters pushed back, newlines too, unless the input has
\* the byte 255, which ungetc refuses (argo.c:180-204).
PositionsExact ==
  (/\ NoByte255 /\ pc = "reading"
   /\ IF result # Null THEN storage[result].type = "number" ELSE top.c # EOF) =>
     pos.lines = Cardinality(Newlines(input)) /\ pos.chars = Column(input)

\* A number as <<minus, n, e>>, for n * 10^e where 10 does not divide n.
Normal(minus, n, e) ==
  LET s == StripZeros[n]
      zeros == Len(Numeral(n, 10)) - Len(Numeral(s, 10))
  IN IF n = 0 THEN <<FALSE, 0, 0>> ELSE <<minus, s, e + zeros>>

ToInt(text) == FoldLeft(LAMBDA n, c : IF IsDigit(c) THEN n * 10 + (c - 48) ELSE n, 0, text)

Before1(text, set) == LET at == {i \in DOMAIN text : text[i] \in set}
                      IN IF at = {} THEN Len(text) ELSE Min(at) - 1

\* The value of the text of a number, by the JSON grammar.
NumberValue(text) ==
  LET mantissa == SubSeq(text, 1, Before1(text, {ARGO_E, 69}))
      exponent == SubSeq(text, Len(mantissa) + 1, Len(text))
      places   == Len(mantissa) - Before1(mantissa, {ARGO_PERIOD})
      shift    == IF ARGO_MINUS \in ToSet(exponent) THEN -ToInt(exponent) ELSE ToInt(exponent)
  IN Normal(ARGO_MINUS \in ToSet(mantissa), ToInt(mantissa),
            shift - (IF places = 0 THEN 0 ELSE places - 1))

\* The exponents the code keeps: it writes n * 10^e as 0.n times a power of ten.
ExponentKept(value) ==
  LET x == value[3] + Len(Numeral(value[2], 10))
  IN x = 0 \/ x % 10 # 0

\* A number of at most nine characters is written with the value it was read
\* with, whichever of its three representations argo_write_number picks, unless
\* it has a fraction or an exponent and the exponent of its canonical form ends
\* in zero, which argo_read_number_helper loses (argo.c:562-582).
NumberKept ==
  (Rewritten /\ storage[0].type = "number" /\ Len(input) <= Digits) =>
    \/ NumberValue(stdout) = NumberValue(input)
    \/ ~ExponentKept(NumberValue(input)) /\ ~storage[0].number.valid_int

\* Some number of the text has more characters than the parser keeps.
TooLong(text) ==
  \E i \in DOMAIN text : /\ i + Digits \in DOMAIN text
                         /\ \A j \in i..(i + Digits) : InNumber(text[j])

\* Canonical output is a fixed point: argo accepts what it has printed and prints
\* it again, unless the output has a number longer than the nine characters
\* that are kept (argo.c:338-353), lacks one that was too long (argo.c:902-905), or
\* has the byte 255, which is read as the end of the input (argo.c:182, 227).  And
\* it is accepted but not the same where a number from 0.1 to 1 was read with an
\* exponent: 5e-1 is printed as 0.5, and that as 0.500000 (argo.c:414, 894-901),
\* although the handout of hw1, 963-966, wants all canonical output to stay the same.
SecondReading == /\ first # NoText /\ pc = "exit" /\ first.whole
                 /\ ~TooLong(first.text) /\ EOF \notin ToSet(first.text)

RoundTrip == SecondReading => status = "success" /\ (stdout = first.text \/ first.twoforms)
=============================================================================
