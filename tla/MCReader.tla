------------------------------- MODULE MCReader -------------------------------
(* The texts that the shell reads, for TLC: expressions of four operands   *)
(* without and with parentheses and negations; lines of any three tokens;  *)
(* programs of two lines that are listed; and lines that edit, run and     *)
(* source in any order, with or without an end to the last.                *)
EXTENDS Reader, TLC

CONSTANTS Length  \* the longest script of the last kind

Typewritten(lexemes) == Joined([i \in DOMAIN lexemes |-> <<lexemes[i]>>], <<Blank>>) \o <<Eol>>

Echo == Name("echo")

(* Expressions *)

Operators == {"-", "<", "&&"}

Typed(n) == {<<Number(n)>>, <<Op("!"), Number(n)>>, <<Op("("), Number(n), Op("+"), Op("#"), Name("X"), Op(")")>>}

Chains == {Typewritten(<<Key("set"), Name("X"), Op("=")>> \o a \o <<Op(o)>> \o b \o <<Op(p)>> \o c \o <<Op(q)>> \o d) :
             a \in Typed(1), b \in Typed(2), c \in Typed(3), d \in Typed(4),
             o \in Operators, p \in Operators, q \in Operators}

(* Errors *)

Lexemes == {Number(0), Number(7), Number(40), Op("<"), Op("!"), Op("("), Op(")"), Key("goto"), Key("wait"),
            Op("#"), Name("X"), Op("|"), Op("&"), Quoted(<<>>)}

Garbled == {Typewritten(<<a, b, c>>) \o Typewritten(<<Number(10), Key("stop")>>) : a \in Lexemes, b \in Lexemes, c \in Lexemes}

(* Programs *)

Literal == {<<Number(5)>>, <<Word("a.b")>>, <<Quoted(<<Name("f")>>)>>, <<Quoted(<<>>)>>,
            <<Quoted(<<Name("f"), Blank, Name("g")>>)>>, <<Quoted(<<Key("stop")>>)>>}

Variable == {<<Op("#"), Name("X")>>, <<Op("$"), Name("Y")>>}

Parenthesized == {<<Op("("), Number(1), Op("<"), Name("f"), Op(")")>>, <<Op("("), Op("!"), Op("#"), Name("X"), Op(")")>>,
             <<Op("("), Op("("), Number(1), Op("+"), Number(2), Op(")"), Op(")")>>}

Redirection == {<<>>, <<Op("<"), Name("f")>>, <<Op(">"), Quoted(<<Word("a.b")>>)>>,
                <<Op(">"), Op("@"), Op("<"), Name("f")>>}

Pipelines == {a \o b \o c \o r \o e : a \in {<<Echo>>} \cup Literal \cup Parenthesized,
                b \in {<<>>} \cup Literal \cup Variable \cup Parenthesized, c \in {<<>>, <<Op("|"), Echo>>},
                r \in Redirection, e \in {<<>>, <<Op("&")>>}}

Inner == {<<Op("("), Number(1), Op(o), Op("#"), Name("X"), Op(")")>> : o \in Operators} \cup Literal \cup Variable
           \cup {<<Op("("), Op("!"), Quoted(<<Op("+")>>), Op(")")>>}

Expressions == Inner \cup {<<Op("!")>> \o a : a \in Inner} \cup {a \o <<Op(o)>> \o b : a \in Inner, b \in Inner, o \in Operators}

Stored == Pipelines
            \cup {<<Key("set"), Name("X"), Op("=")>> \o e : e \in Expressions}
            \cup {<<Key(k)>> \o e : k \in {"wait", "poll", "cancel"}, e \in Literal \cup Variable}
            \cup {<<Key("if")>> \o e \o <<Key("goto"), Number(n)>> : e \in Inner, n \in {20, 64, 74}}
            \cup {<<Key("goto"), Number(n)>> : n \in {20, 40, 74}}
            \cup {<<Key("source"), f>> : f \in {Name("f"), Quoted(<<Word("a.b")>>)}}
            \cup {<<Key("pause")>>, <<Key("unset"), Name("X")>>}

Listings == {Typewritten(<<Number(20), Key("stop")>>) \o Typewritten(<<Number(10)>> \o s)
               \o Typewritten(<<Key("goto"), Number(20)>>) \o Typewritten(<<Key("list")>>) : s \in Stored}
              \cup {Typewritten(<<Number(n), Key("stop")>>) \o Typewritten(<<Key("list")>>) : n \in {20, 40, 64, 74}}

(* Files *)

MCSource == (<<Name("f")>> :> (Typewritten(<<Number(10), Key("source"), Name("g")>>) \o Typewritten(<<Key("source"), Name("g")>>) \o Typewritten(<<Echo>>)))
              @@ (<<Name("g")>> :> SubSeq(Typewritten(<<Number(30), Echo>>), 1, 3))

Lines3 == {Typewritten(<<Key("source"), Name("f")>>), Typewritten(<<Number(20), Key("source"), Name("f")>>),
           Typewritten(<<Number(10), Key("goto"), Number(30)>>), Typewritten(<<Number(10), Key("if"), Number(1), Key("goto"), Number(20)>>),
           Typewritten(<<Number(30), Key("stop")>>), Typewritten(<<Number(40), Key("stop")>>), Typewritten(<<Key("run")>>), Typewritten(<<Key("cont")>>), Typewritten(<<Key("goto"), Number(20)>>),
           Typewritten(<<Key("delete"), Number(10), Op(","), Number(20)>>), Typewritten(<<Key("list")>>),
           Typewritten(<<Key("source"), Name("h")>>), Typewritten(<<Key("if"), Number(1), Key("goto"), Number(20)>>)}

Sourcing == {Seqs!FlattenSeq(s) : s \in UNION {[1 .. n -> Lines3] : n \in 0 .. Length}}

MCScript == Chains \cup Garbled \cup Listings \cup Sourcing \cup {Seqs!Front(text) : text \in Sourcing \ {<<>>}}
=============================================================================
