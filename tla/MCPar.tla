------------------------------- MODULE MCPar --------------------------------
(* Module Par for TLC.  Three families of runs: one line of up to five      *)
(* words of one to three letters, in every mode and three widths (the       *)
(* choice of line breaks); three lines out of eight that are blank, indented *)
(* or share a prefix or a suffix (the reader and the defaults); and up to   *)
(* two options, good and bad ones, with a fixed text.                       *)
EXTENDS Par

Opt(name, arg) == [name |-> name, arg |-> arg]

Letters(n) == [i \in 1..n |-> "a"]

Mode == {<<Opt("w", <<w>>), Opt("l", <<l>>), Opt("m", <<m>>)>> : w \in {4, 6, 9}, l \in 0..1, m \in 0..1}

WordLines == {FoldLeft(LAMBDA s, n : s \o <<" ">> \o Letters(n), Letters(Head(w)), Tail(w)) :
                w \in UNION {[1..n -> 1..3] : n \in 1..5}}

LineSet == {<<>>, <<" ">>, <<"a">>, <<" ", " ", "a", "b", "b">>, <<">", " ", "a">>, <<">", " ", "b", " ", " ", ">">>,
            <<"b", "b", "b", " ", " ", ">">>, <<">", "a", " ", ">">>}

Settings == {<<>>, <<Opt("w", <<4>>)>>, <<Opt("w", <<6>>), Opt("h", NoArg), Opt("last", NoArg)>>,
             <<Opt("w", <<5>>), Opt("p", <<0>>), Opt("s", <<1>>)>>,
             <<Opt("p", <<1>>), Opt("h", <<3>>), Opt("w", <<7>>), Opt("min", NoArg)>>}

Texts == {t \in [1..3 -> LineSet] : TRUE} \cup {<<l, <<>>>> : l \in LineSet}

SomeOptions == {Opt("w", <<2>>), Opt("w", <<>>), Opt("w", <<1, 0, 0, 0, 0>>), Opt("w", <<9, 9, 9, 9>>),
                Opt("p", <<1, 10>>), Opt("p", <<0>>), Opt("s", <<0, 2>>), Opt("h", NoArg), Opt("l", <<2>>),
                Opt("l", <<1>>), Opt("m", <<0>>), Opt("nolast", NoArg), Opt("nomin", NoArg), Opt("version", NoArg),
                Opt("unknown", NoArg)}

MCInputs ==
  {<<m, <<l>>>> : m \in Mode, l \in WordLines}
    \cup {<<s, t>> : s \in Settings, t \in Texts}
    \cup {<<o, << <<"a", "a">>, <<"b">>, <<>> >> >> : o \in BoundedSeq(SomeOptions, 2)}
=============================================================================
