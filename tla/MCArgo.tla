------------------------------- MODULE MCArgo -------------------------------
(* Module Argo for TLC.  Every text over the alphabet of a run, up to its   *)
(* length, is an input: brackets, names and separators; numbers; strings    *)
(* with escapes and bytes beyond 127; literals; and the argument vectors.   *)
EXTENDS Argo

ASCII ==
  [c \in {"h", "v", "c", "p", "-", "x", "7", "256"} |->
     CASE c = "h" -> <<45, 104>> [] c = "v" -> <<45, 118>> [] c = "c" -> <<45, 99>> [] c = "p" -> <<45, 112>>
       [] c = "-" -> <<45>> [] c = "x" -> <<120>> [] c = "7" -> <<55>> [] OTHER -> <<50, 53, 54>>]

Args(names) == [i \in DOMAIN names |-> ASCII[names[i]]]

Canonical == Args(<<"c">>)

Pretty == <<ASCII["c"], ASCII["p"], <<49>>>>

ArgoRun(argv, prefix, alphabet, length) ==
  [argv |-> argv, prefix |-> prefix, alphabet |-> alphabet, more |-> length]

Brackets == {ARGO_LBRACK, ARGO_RBRACK, ARGO_COMMA, 49, ARGO_LF}

Braces == {ARGO_LBRACE, ARGO_RBRACE, ARGO_QUOTE, ARGO_COLON, ARGO_COMMA, 50, ARGO_SPACE}

Numbers == {48, 49, ARGO_PERIOD, ARGO_MINUS, ARGO_PLUS, ARGO_E}

Strings == {ARGO_QUOTE, ARGO_BSLASH, ARGO_U, ARGO_N, 48, 102, ARGO_LF, -23}

Name(c) == <<ARGO_QUOTE, c, ARGO_QUOTE, ARGO_COLON>>

MCArgoRuns ==
  {ArgoRun(Canonical, <<>>, Brackets, 7), ArgoRun(Canonical, <<ARGO_LBRACE>>, Braces, 5), ArgoRun(Pretty, <<ARGO_LBRACK>>, Brackets, 5),
   ArgoRun(Canonical, <<ARGO_LBRACE>> \o Name(97) \o <<49>>, Braces \cup {ARGO_LF}, 6),
   ArgoRun(Pretty, <<ARGO_LBRACE>> \o Name(97) \o <<ARGO_LBRACK>>, Braces \cup Brackets, 4),
   ArgoRun(Canonical, <<>>, Numbers, 5), ArgoRun(Canonical, <<49, ARGO_PERIOD, 48, 53>>, Numbers \cup {57}, 4),
   ArgoRun(Pretty, <<ARGO_LBRACK, 49, 50, 51, 52, 53, ARGO_E, 49>>, {49, ARGO_PERIOD, ARGO_RBRACK}, 5),
   ArgoRun(Canonical, <<49, 50, 51, 52, ARGO_PERIOD, 53, 54, 55>>, {48, ARGO_E}, 3),
   ArgoRun(Canonical, <<ARGO_QUOTE>>, Strings, 4), ArgoRun(Pretty, <<ARGO_QUOTE, ARGO_BSLASH, ARGO_U, 48>>, {48, 49, 70, 102}, 4),
   ArgoRun(Canonical, <<ARGO_LBRACK, ARGO_DIGIT0, EOF>>, {ARGO_QUOTE, ARGO_RBRACK, ARGO_LF}, 3)}
    \cup {ArgoRun(Canonical, SubSeq(Literals[w], 1, n), {ARGO_U, ARGO_E, 108, 115}, 3) : w \in DOMAIN Literals, n \in 1..4}
    \cup {ArgoRun(Args(names), <<49>>, {}, 0) : names \in
            {<<>>, <<"h">>, <<"v">>, <<"v", "x">>, <<"c", "x">>, <<"c", "p", "7">>, <<"c", "p", "256">>,
             <<"c", "p">>, <<"c", "p", "x">>, <<"-">>, <<"x">>}}
=============================================================================
