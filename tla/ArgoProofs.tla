------------------------------ MODULE ArgoProofs ------------------------------
(***************************************************************************)
(* Proofs about the parser of argo (module Argo), for any pool, any input  *)
(* and any length of it.                                                   *)
(*                                                                         *)
(* PositionsExact says where the parser is in its input.  It is not        *)
(* inductive: what a push-back does to the counters depends on the         *)
(* character that was read last, which is in the frame of the function     *)
(* that is running, and which functions there are below that one decides   *)
(* who reads next.  Parsing, the inductive invariant, says both.           *)
(*                                                                         *)
(* ListsSound says that the lists of the pool are rings.  Pooled, which is *)
(* inductive beside Parsing, says which values of the pool the pending     *)
(* calls hold (LinkIn), that no two calls hold the same (Apart), and that  *)
(* the rest of the pool is unused (Spare).  The elements of a ring are a   *)
(* recursive function, which exists because the links only go up.          *)
(***************************************************************************)
EXTENDS Argo, FiniteSetTheorems, SequenceTheorems, WellFoundedInduction, TLAPS

USE ValuesAssumption

-----------------------------------------------------------------------------
(* Recursive functions.  The library's theorems on recursion take          *)
(* operators; here sets and functions stand for them.                      *)

\* Every set of natural numbers has a least element.
LEMMA LeastNatural ==
    ASSUME NEW T \in SUBSET Nat, T # {}
    PROVE  \E x \in T : \A y \in T : x <= y
<1>1. PICK x \in T : \A y \in T : ~(<<y, x>> \in OpToRel(<, Nat))
  BY NatLessThanWellFounded, WFMin
<1>2. ASSUME NEW y \in T
      PROVE  x <= y
  <2>1. x \in Nat /\ y \in Nat
    OBVIOUS
  <2>2. <<y, x>> \in Nat \X Nat /\ ~(<<y, x>> \in OpToRel(<, Nat))
    BY <1>1, <2>1
  <2>3. ~(y < x)
    BY <2>2 DEF OpToRel
  <2> QED
    BY <2>1, <2>3
<1> QED
  BY <1>2

\* Every set of elements of S has one that has none of them below it.
Founded(S, below) ==
  /\ below \in [S -> SUBSET S]
  /\ \A T \in SUBSET S : T # {} => \E x \in T : below[x] \cap T = {}

\* D, which takes functions to functions, computes a value from those below.
Local(S, V, below, D) ==
  /\ D \in [[S -> V] -> [S -> V]]
  /\ \A f, g \in [S -> V] : \A x \in S :
       (\A y \in below[x] : f[y] = g[y]) => D[f][x] = D[g][x]

\* Two functions that both satisfy the definition, each on a set that has all
\* that is below its elements, agree where both do.
Attempt(S, V, below, D, f, A) ==
  /\ f \in [S -> V] /\ A \in SUBSET S
  /\ \A x \in A : below[x] \subseteq A /\ f[x] = D[f][x]

LEMMA AttemptsAgree ==
    ASSUME NEW S, NEW V, NEW below, NEW D, Founded(S, below), Local(S, V, below, D),
           NEW f, NEW A, Attempt(S, V, below, D, f, A),
           NEW g, NEW B, Attempt(S, V, below, D, g, B)
    PROVE  \A x \in A \cap B : f[x] = g[x]
<1> DEFINE T == {x \in A \cap B : f[x] # g[x]}
<1> SUFFICES ASSUME T # {} PROVE FALSE
  OBVIOUS
<1>1. T \in SUBSET S
  BY DEF Attempt
<1>2. PICK x \in T : below[x] \cap T = {}
  BY <1>1 DEF Founded
<1>3. x \in A /\ x \in B /\ x \in S /\ f[x] # g[x] /\ f \in [S -> V] /\ g \in [S -> V]
  BY DEF Attempt
<1>4. \A y \in below[x] : f[y] = g[y]
  BY <1>2, <1>3 DEF Attempt
<1>5. D[f][x] = D[g][x]
  BY <1>3, <1>4 DEF Local
<1> QED
  BY <1>3, <1>5 DEF Attempt

\* Recursion: there is a function that satisfies the definition everywhere.
LEMMA RecursiveFunctionExists ==
    ASSUME NEW S, NEW V, NEW below, NEW D, Founded(S, below), Local(S, V, below, D), V # {}
    PROVE  \E f \in [S -> V] : f = D[f]
<1> DEFINE Is(f, A) == Attempt(S, V, below, D, f, A)
           G == {x \in S : \E f \in [S -> V], A \in SUBSET S : Is(f, A) /\ x \in A}
<1>1. PICK d \in V : TRUE
  OBVIOUS
<1> DEFINE F == [x \in S |-> IF x \in G
                             THEN CHOOSE v \in V : \E f \in [S -> V], A \in SUBSET S :
                                                     Is(f, A) /\ x \in A /\ v = f[x]
                             ELSE d]
<1>2. ASSUME NEW f \in [S -> V], NEW A \in SUBSET S, Is(f, A), NEW x \in A
      PROVE  x \in G /\ x \in S /\ F[x] = f[x]
  <2>1. x \in G /\ x \in S
    BY <1>2
  <2> DEFINE v == CHOOSE v \in V : \E h \in [S -> V], B \in SUBSET S :
                                     Is(h, B) /\ x \in B /\ v = h[x]
  <2>2. F[x] = v
    BY <2>1
  <2>3. \E w \in V : \E h \in [S -> V], B \in SUBSET S : Is(h, B) /\ x \in B /\ w = h[x]
    <3>1. f[x] \in V
      BY <2>1
    <3> QED
      BY <1>2, <3>1
  <2>4. PICK h \in [S -> V], B \in SUBSET S : Is(h, B) /\ x \in B /\ v = h[x]
    BY <2>3
  <2>5. \A y \in A \cap B : f[y] = h[y]
    BY <1>2, <2>4, AttemptsAgree
  <2> QED
    BY <2>1, <2>2, <2>4, <2>5
<1>3. F \in [S -> V]
  <2> SUFFICES ASSUME NEW x \in S
               PROVE  F[x] \in V
    OBVIOUS
  <2>1. CASE x \in G
    <3>1. PICK f \in [S -> V], A \in SUBSET S : Is(f, A) /\ x \in A
      BY <2>1
    <3>2. F[x] = f[x]
      BY <1>2, <3>1
    <3> QED
      BY <3>2
  <2>2. CASE x \notin G
    BY <2>2
  <2> QED
    BY <2>1, <2>2
<1>4. Is(F, G)
  <2> SUFFICES ASSUME NEW x \in G
               PROVE  below[x] \subseteq G /\ F[x] = D[F][x]
    BY <1>3 DEF Attempt
  <2>1. PICK f \in [S -> V], A \in SUBSET S : Is(f, A) /\ x \in A
    OBVIOUS
  <2>2. below[x] \subseteq A /\ f[x] = D[f][x] /\ x \in S
    BY <2>1 DEF Attempt
  <2>3. \A y \in A : y \in G /\ F[y] = f[y]
    BY <1>2, <2>1
  <2> HIDE DEF F, G
  <2>4. D[F][x] = D[f][x]
    BY <1>3, <2>2, <2>3 DEF Local
  <2> QED
    BY <2>1, <2>2, <2>3, <2>4
<1>5. G = S
  <2> SUFFICES ASSUME S \ G # {}
               PROVE  FALSE
    OBVIOUS
  <2>1. PICK x \in S \ G : below[x] \cap (S \ G) = {}
    <3>1. S \ G \in SUBSET S
      OBVIOUS
    <3> HIDE DEF G
    <3> QED
      BY <3>1 DEF Founded
  <2>2. below[x] \subseteq G /\ x \in S /\ x \notin G /\ G \subseteq S
    BY <2>1 DEF Founded
  <2> DEFINE f == [F EXCEPT ![x] = D[F][x]]
             A == G \cup {x}
  <2>3. D[F][x] \in V /\ f \in [S -> V] /\ f[x] = D[F][x] /\ \A y \in G : f[y] = F[y]
    <3> HIDE DEF F, G
    <3> QED
      BY <1>3, <2>2 DEF Local
  <2> HIDE DEF f
  <2>4. ASSUME NEW y \in A
        PROVE  below[y] \subseteq A /\ f[y] = D[f][y]
    <3>1. below[y] \subseteq G
      BY <1>4, <2>2 DEF Attempt
    <3>2. f[y] = D[F][y]
      <4>1. y = x \/ y \in G
        OBVIOUS
      <4>2. CASE y = x
        BY <2>3, <4>2
      <4>3. CASE y \in G
        <5> HIDE DEF F, G
        <5> QED
          BY <1>4, <2>3, <4>3 DEF Attempt
      <4> QED
        BY <4>1, <4>2, <4>3
    <3>3. D[F][y] = D[f][y]
      <4>1. y \in S /\ \A z \in below[y] : F[z] = f[z]
        BY <2>2, <2>3, <3>1
      <4> HIDE DEF F, G, A
      <4> QED
        BY <1>3, <2>3, <4>1 DEF Local
    <3> QED
      BY <3>1, <3>2, <3>3
  <2>5. A \in SUBSET S /\ Is(f, A)
    BY <2>2, <2>3, <2>4 DEF Attempt
  <2> QED
    BY <2>2, <2>3, <2>5
<1>6. F = D[F]
  <2> HIDE DEF F, G
  <2>1. \A x \in S : F[x] = D[F][x]
    BY <1>4, <1>5 DEF Attempt
  <2>2. D[F] \in [S -> V]
    BY <1>3 DEF Local
  <2> QED
    BY <1>3, <2>1, <2>2
<1> QED
  BY <1>3, <1>6

-----------------------------------------------------------------------------
(* Sequences from their last element. *)

LEMMA FrontLast ==
    ASSUME NEW S, NEW s \in Seq(S), s # <<>>
    PROVE  /\ Front(s) \in Seq(S) /\ Last(s) \in S
           /\ Len(Front(s)) = Len(s) - 1
           /\ \A i \in 1..Len(Front(s)) : Front(s)[i] = s[i]
           /\ Append(Front(s), Last(s)) = s
<1>1. Len(s) \in Nat \ {0} /\ Len(s) - 1 \in Nat
  BY EmptySeq
<1>2. /\ Front(s) \in Seq(S)
      /\ Len(Front(s)) = Len(s) - 1
      /\ \A i \in 1..Len(Front(s)) : Front(s)[i] = s[i]
  <2>1. PICK n \in Nat : n = Len(s) - 1
    BY <1>1
  <2>2. \A i \in 1..n : s[i] \in S
    BY <1>1, <2>1, ElementOfSeq
  <2>3. /\ SubSeq(s, 1, n) \in Seq(S)
        /\ Len(SubSeq(s, 1, n)) = IF 1 <= n THEN n - 1 + 1 ELSE 0
        /\ \A i \in 1..(n - 1 + 1) : SubSeq(s, 1, n)[i] = s[1 + i - 1]
    BY <2>2, SubSeqProperties
  <2>4. Front(s) = SubSeq(s, 1, n)
    BY <2>1 DEF Front
  <2> QED
    BY <2>1, <2>3, <2>4
<1>3. Last(s) \in S
  BY <1>1 DEF Last
<1>4. Append(Front(s), Last(s)) = s
  <2> DEFINE t == Append(Front(s), Last(s))
  <2>1. t \in Seq(S) /\ Len(t) = Len(s)
    BY <1>1, <1>2, <1>3, AppendProperties
  <2>2. \A i \in 1..Len(s) : t[i] = s[i]
    <3> SUFFICES ASSUME NEW i \in 1..Len(s)
                 PROVE  t[i] = s[i]
      OBVIOUS
    <3>1. CASE i = Len(s)
      BY <1>1, <1>2, <1>3, <3>1 DEF Last
    <3>2. CASE i # Len(s)
      BY <1>1, <1>2, <1>3, <3>2
    <3> QED
      BY <3>1, <3>2
  <2> QED
    BY <2>1, <2>2, SeqEqual
<1> QED
  BY <1>2, <1>3, <1>4

LEMMA AppendLast ==
    ASSUME NEW S, NEW s \in Seq(S), NEW x \in S
    PROVE  /\ Append(s, x) \in Seq(S) /\ Append(s, x) # <<>>
           /\ Front(Append(s, x)) = s /\ Last(Append(s, x)) = x
<1> DEFINE t == Append(s, x)
<1>1. /\ t \in Seq(S) /\ Len(t) = Len(s) + 1 /\ Len(s) \in Nat
      /\ \A i \in 1..Len(s) : t[i] = s[i]
      /\ t[Len(s) + 1] = x
  BY AppendProperties
<1>2. t # <<>>
  BY <1>1, EmptySeq
<1>3. Last(t) = x
  BY <1>1 DEF Last
<1>4. Front(t) = s
  <2>1. /\ Front(t) \in Seq(S) /\ Len(Front(t)) = Len(s)
        /\ \A i \in 1..Len(s) : Front(t)[i] = s[i]
    <3> HIDE DEF t
    <3>1. /\ Front(t) \in Seq(S) /\ Len(Front(t)) = Len(t) - 1
          /\ \A i \in 1..Len(Front(t)) : Front(t)[i] = t[i]
      BY <1>1, <1>2, FrontLast
    <3> QED
      BY <1>1, <3>1
  <2> QED
    BY <2>1, SeqEqual
<1> QED
  BY <1>1, <1>2, <1>3, <1>4

-----------------------------------------------------------------------------
(* Lines and columns of a text. *)

LEMMA LastNewline ==
    ASSUME NEW s \in Seq(Int), Newlines(s) # {}
    PROVE  /\ Max(Newlines(s)) \in Newlines(s)
           /\ \A i \in Newlines(s) : i <= Max(Newlines(s))
<1> DEFINE N == Newlines(s)
           T == {k \in Nat : Len(s) - k \in N}
<1>1. N \subseteq 1..Len(s) /\ Len(s) \in Nat
  BY DEF Newlines
<1>2. PICK i \in N : TRUE
  OBVIOUS
<1> HIDE DEF N
<1>3. Len(s) - i \in T
  <2>1. i \in 1..Len(s)
    BY <1>1, <1>2
  <2>2. Len(s) - i \in Nat /\ Len(s) - (Len(s) - i) = i
    BY <1>1, <2>1
  <2> QED
    BY <1>2, <2>2
<1>4. PICK k \in T : \A j \in T : k <= j
  <2>1. T \in SUBSET Nat /\ T # {}
    BY <1>3
  <2> HIDE DEF T
  <2> QED
    BY <2>1, LeastNatural
<1>5. \A j \in N : Len(s) - k >= j
  <2> SUFFICES ASSUME NEW j \in N
               PROVE  Len(s) - k >= j
    OBVIOUS
  <2>1. j \in 1..Len(s)
    BY <1>1
  <2>2. Len(s) - j \in Nat /\ Len(s) - (Len(s) - j) = j
    BY <1>1, <2>1
  <2>3. k <= Len(s) - j /\ k \in Nat
    BY <1>4, <2>2
  <2> QED
    BY <1>1, <2>1, <2>3
<1>6. \E m \in N : \A j \in N : m >= j
  BY <1>4, <1>5
<1>7. Max(N) \in N /\ \A j \in N : Max(N) >= j
  BY <1>6 DEF Max
<1>8. \A j \in N : j <= Max(N)
  BY <1>1, <1>7
<1> QED
  BY <1>7, <1>8 DEF N

LEMMA NewlinesCount ==
    ASSUME NEW s \in Seq(Int)
    PROVE  /\ IsFiniteSet(Newlines(s))
           /\ Cardinality(Newlines(s)) \in Nat
           /\ Column(s) \in Nat
<1>1. Newlines(s) \subseteq 1..Len(s) /\ Len(s) \in Nat
  BY DEF Newlines
<1>2. IsFiniteSet(1..Len(s))
  BY <1>1, FS_Interval
<1>3. IsFiniteSet(Newlines(s)) /\ Cardinality(Newlines(s)) \in Nat
  BY <1>1, <1>2, FS_Subset, FS_CardinalityType
<1>4. CASE Newlines(s) = {}
  BY <1>1, <1>3, <1>4 DEF Column
<1>5. CASE Newlines(s) # {}
  <2>1. Max(Newlines(s)) \in 1..Len(s)
    BY <1>1, <1>5, LastNewline
  <2>2. Column(s) = Len(s) - Max(Newlines(s))
    BY <1>5 DEF Column
  <2> QED
    BY <1>1, <1>3, <2>1, <2>2
<1> QED
  BY <1>4, <1>5

(* What one more character does to the position at the end of a text.      *)
LEMMA OneMore ==
    ASSUME NEW s \in Seq(Int), NEW c \in Int
    PROVE  /\ Cardinality(Newlines(Append(s, c))) =
                 Cardinality(Newlines(s)) + IF c = ARGO_LF THEN 1 ELSE 0
           /\ Column(Append(s, c)) = IF c = ARGO_LF THEN 0 ELSE Column(s) + 1
<1> DEFINE t == Append(s, c)
<1>1. /\ t \in Seq(Int) /\ Len(t) = Len(s) + 1 /\ Len(s) \in Nat
      /\ \A i \in 1..Len(s) : t[i] = s[i]
      /\ t[Len(s) + 1] = c
  BY AppendProperties
<1> HIDE DEF t
<1>2. DOMAIN t = 1..(Len(s) + 1) /\ DOMAIN s = 1..Len(s)
  BY <1>1
<1>3. CASE c = ARGO_LF
  <2>1. Newlines(t) = Newlines(s) \cup {Len(s) + 1}
    BY <1>1, <1>2, <1>3 DEF Newlines
  <2>2. Len(s) + 1 \notin Newlines(s)
    BY <1>1, <1>2 DEF Newlines
  <2>3. Cardinality(Newlines(t)) = Cardinality(Newlines(s)) + 1
    BY <2>1, <2>2, NewlinesCount, FS_AddElement
  <2>4. Max(Newlines(t)) = Len(s) + 1
    <3>1. Len(s) + 1 \in Newlines(t) /\ Newlines(t) # {}
      BY <2>1
    <3>2. /\ Max(Newlines(t)) \in Newlines(t)
          /\ Len(s) + 1 <= Max(Newlines(t))
      BY <1>1, <3>1, LastNewline
    <3>3. Max(Newlines(t)) \in 1..(Len(s) + 1)
      BY <1>2, <3>2 DEF Newlines
    <3> QED
      BY <1>1, <3>2, <3>3
  <2>5. Column(t) = Len(t) - (Len(s) + 1)
    BY <2>1, <2>4 DEF Column
  <2> QED
    BY <1>1, <1>3, <2>3, <2>5 DEF t
<1>4. CASE c # ARGO_LF
  <2>1. Newlines(t) = Newlines(s)
    BY <1>1, <1>2, <1>4 DEF Newlines
  <2>2. Column(t) = Column(s) + 1
    <3>1. CASE Newlines(s) = {}
      BY <1>1, <2>1, <3>1 DEF Column
    <3>2. CASE Newlines(s) # {}
      <4>1. Max(Newlines(s)) \in Newlines(s)
        BY <3>2, LastNewline
      <4>2. Max(Newlines(s)) \in Int
        BY <1>1, <1>2, <4>1 DEF Newlines
      <4> QED
        BY SMTT(60), <1>1, <2>1, <3>2, <4>2 DEF Column
    <3> QED
      BY <3>1, <3>2
  <2> QED
    BY <1>4, <2>1, <2>2, NewlinesCount DEF t
<1> QED
  BY <1>3, <1>4

-----------------------------------------------------------------------------
(* The input. *)

(* The types of the input and of the counters. *)
StreamOK ==
  /\ run \in ArgoRuns
  /\ stdin \in Seq(Int \ {EOF}) /\ more \in Nat /\ input \in Seq(Int)
  /\ pos \in [lines : Int, chars : Int, prev : Int]

AtEnd == stdin = <<>> /\ more = 0

Exact == pos.lines = Cardinality(Newlines(input)) /\ pos.chars = Column(input)

(* The position when the character read last is c.  The column before a    *)
(* newline is what argo_get_prev_char restores.                            *)
Position(c) ==
  IF c = EOF THEN AtEnd
  ELSE /\ input # <<>> /\ Last(input) = c
       /\ Exact
       /\ c = ARGO_LF => pos.prev = Column(Front(input))

(* The end of the input is counted as a column, until it is pushed back.   *)
Beyond == pos.lines = Cardinality(Newlines(input)) /\ pos.chars = Column(input) + 1

LEMMA PositionType ==
    ASSUME NEW c \in Int, pos \in [lines : Int, chars : Int, prev : Int]
    PROVE  /\ After(pos, c) \in [lines : Int, chars : Int, prev : Int]
           /\ Before(pos, c) \in [lines : Int, chars : Int, prev : Int]
BY DEF After, Before

(* A character is counted.                                                 *)
LEMMA CharacterCounted ==
    ASSUME NEW c \in Int \ {EOF}, input \in Seq(Int), Exact,
           input' = Append(input, c), pos' = After(pos, c)
    PROVE  input' \in Seq(Int) /\ Position(c)'
<1>1. /\ input' \in Seq(Int) /\ input' # <<>>
      /\ Last(input') = c /\ Front(input') = input
  BY AppendLast
<1>2. /\ Cardinality(Newlines(input')) =
           Cardinality(Newlines(input)) + IF c = ARGO_LF THEN 1 ELSE 0
      /\ Column(input') = IF c = ARGO_LF THEN 0 ELSE Column(input) + 1
  BY OneMore
<1>3. /\ pos'.lines = IF c = ARGO_LF THEN pos.lines + 1 ELSE pos.lines
      /\ pos'.chars = IF c = ARGO_LF THEN 0 ELSE pos.chars + 1
      /\ pos'.prev = pos.chars
  BY DEF After
<1>4. Cardinality(Newlines(input)) \in Nat
  BY NewlinesCount
<1>5. Exact'
  BY <1>2, <1>3, <1>4 DEF Exact
<1>6. pos'.prev = Column(Front(input'))
  BY <1>1, <1>3 DEF Exact
<1> QED
  BY <1>1, <1>5, <1>6 DEF Position

(* argo_get_next_char from an exact position, or at the end of the input.  *)
LEMMA NextCharacter ==
    ASSUME NEW c, StreamOK, Exact \/ AtEnd, GetNextChar(c), run' = run
    PROVE  /\ c \in Int /\ StreamOK' /\ Position(c)'
           /\ Exact /\ c = EOF => Beyond'
<1>1. c \in Arriving /\ Fetch(c) /\ pos' = After(pos, c)
  BY DEF GetNextChar
<1>2. EOF \in Int /\ ARGO_LF \in Int /\ EOF # ARGO_LF
  BY DEF EOF, ARGO_LF
<1>3. run.alphabet \subseteq Int \ {EOF}
  BY RunsAssumption DEF StreamOK
<1>4. /\ stdin' \in Seq(Int \ {EOF}) /\ more' \in Nat /\ c \in Int
      /\ c = EOF => AtEnd'
      /\ c # EOF => ~AtEnd
  <2>1. CASE stdin # <<>>
    <3>1. c = Head(stdin) /\ stdin' = Tail(stdin) /\ more' = more
      BY <1>1, <2>1 DEF Arriving, Fetch
    <3> QED
      BY <2>1, <3>1, HeadTailProperties DEF StreamOK, AtEnd
  <2>2. CASE stdin = <<>>
    <3>1. stdin' = <<>> /\ more' = IF c = EOF THEN 0 ELSE more - 1
      BY <1>1, <2>2 DEF Fetch
    <3>2. c \in {EOF} \cup (IF more > 0 THEN run.alphabet ELSE {})
      BY <1>1, <2>2 DEF Arriving
    <3> QED
      BY <1>2, <1>3, <2>2, <3>1, <3>2 DEF StreamOK, AtEnd
  <2> QED
    BY <2>1, <2>2
<1>5. pos' \in [lines : Int, chars : Int, prev : Int]
  BY <1>1, <1>4, PositionType DEF StreamOK
<1>6. CASE c = EOF
  <2>1. input' = input /\ AtEnd'
    BY <1>1, <1>4, <1>6 DEF Fetch
  <2>2. Exact => Beyond'
    BY <1>1, <1>2, <1>6, <2>1 DEF Exact, Beyond, After
  <2> QED
    BY <1>4, <1>5, <1>6, <2>1, <2>2 DEF StreamOK, Position
<1>7. CASE c # EOF
  <2>1. input' = Append(input, c) /\ Exact
    BY <1>1, <1>4, <1>7 DEF Fetch
  <2>2. input' \in Seq(Int) /\ Position(c)'
    BY <1>1, <1>4, <1>7, <2>1, CharacterCounted DEF StreamOK
  <2> QED
    BY <1>4, <1>5, <1>7, <2>2 DEF StreamOK
<1> QED
  BY <1>6, <1>7

(* argo_get_prev_char undoes what reading the character c has done.        *)
LEMMA BackAgain ==
    ASSUME NEW c \in Int \ {EOF}, StreamOK, Position(c)
    PROVE  /\ Front(input) \in Seq(Int) /\ input = Append(Front(input), c)
           /\ Before(pos, c).lines = Cardinality(Newlines(Front(input)))
           /\ Before(pos, c).chars = Column(Front(input))
<1>1. /\ input # <<>> /\ Last(input) = c /\ Exact
      /\ c = ARGO_LF => pos.prev = Column(Front(input))
  BY DEF Position
<1>2. Front(input) \in Seq(Int) /\ input = Append(Front(input), c)
  BY <1>1, FrontLast DEF StreamOK
<1>3. PICK text \in Seq(Int) : text = Front(input)
  BY <1>2
<1>4. /\ Cardinality(Newlines(Append(text, c))) =
           Cardinality(Newlines(text)) + IF c = ARGO_LF THEN 1 ELSE 0
      /\ Column(Append(text, c)) = IF c = ARGO_LF THEN 0 ELSE Column(text) + 1
  BY OneMore
<1>5. Cardinality(Newlines(text)) \in Nat /\ Column(text) \in Nat
  BY NewlinesCount
<1>6. /\ pos.lines = Cardinality(Newlines(Append(text, c)))
      /\ pos.chars = Column(Append(text, c))
  BY <1>1, <1>2, <1>3 DEF Exact
<1>7. Before(pos, c).lines = Cardinality(Newlines(text))
  BY <1>4, <1>5, <1>6 DEF Before
<1>8. Before(pos, c).chars = Column(text)
  BY <1>1, <1>3, <1>4, <1>5, <1>6 DEF Before
<1> QED
  BY <1>2, <1>3, <1>7, <1>8

(* A character is pushed back for good.                                    *)
LEMMA PreviousCharacter ==
    ASSUME NEW c \in Int, StreamOK, Position(c), c = EOF => Beyond,
           GetPrevChar(c), run' = run
    PROVE  StreamOK' /\ Exact'
<1>1. /\ stdin' = IF c = EOF THEN stdin ELSE <<c>> \o stdin
      /\ input' = IF c = EOF THEN input ELSE Front(input)
      /\ pos' = Before(pos, c) /\ more' = more
  BY DEF GetPrevChar
<1>2. pos' \in [lines : Int, chars : Int, prev : Int]
  BY <1>1, PositionType DEF StreamOK
<1>3. EOF # ARGO_LF
  BY DEF EOF, ARGO_LF
<1>4. CASE c = EOF
  <2>1. pos'.lines = pos.lines /\ pos'.chars = pos.chars - 1
    BY <1>1, <1>3, <1>4 DEF Before
  <2>2. Column(input) \in Nat
    BY NewlinesCount DEF StreamOK
  <2>3. Exact'
    BY <1>1, <1>4, <2>1, <2>2 DEF Beyond, Exact
  <2> QED
    BY <1>1, <1>2, <1>4, <2>3 DEF StreamOK
<1>5. CASE c # EOF
  <2>1. stdin' \in Seq(Int \ {EOF})
    <3>1. stdin' = <<c>> \o stdin /\ <<c>> \in Seq(Int \ {EOF})
      BY <1>1, <1>5
    <3> QED
      BY <3>1, ConcatProperties DEF StreamOK
  <2>2. input' \in Seq(Int) /\ Exact'
    BY <1>1, <1>5, BackAgain DEF Exact
  <2> QED
    BY <1>1, <1>2, <2>1, <2>2 DEF StreamOK
<1> QED
  BY <1>4, <1>5

(* A character is pushed back, and the callee reads the same one.          *)
LEMMA CharacterAgain ==
    ASSUME NEW c \in Int, NEW d, StreamOK, Position(c), ReadAgain(c, d), run' = run
    PROVE  d \in Int /\ StreamOK' /\ Position(d)'
<1>1. pos' = After(Before(pos, c), d)
  BY DEF ReadAgain
<1>2. Before(pos, c) \in [lines : Int, chars : Int, prev : Int]
  BY PositionType DEF StreamOK
<1>3. PICK p \in [lines : Int, chars : Int, prev : Int] : p = Before(pos, c)
  BY <1>2
<1>4. \A x \in Int : After(p, x) \in [lines : Int, chars : Int, prev : Int]
  BY DEF After
<1>5. CASE c = EOF
  <2>1. AtEnd /\ d \in Arriving /\ Fetch(d)
    BY <1>5 DEF Position, ReadAgain
  <2>2. d = EOF
    BY <2>1 DEF AtEnd, Arriving
  <2>3. AtEnd' /\ input' = input
    BY <2>1, <2>2 DEF AtEnd, Fetch
  <2> QED
    BY <1>1, <1>3, <1>4, <1>5, <2>1, <2>2, <2>3 DEF StreamOK, Position, AtEnd
<1>6. CASE c # EOF
  <2>1. d = c /\ UNCHANGED stream
    BY <1>6 DEF ReadAgain
  <2>2. stdin' = stdin /\ more' = more /\ input' = input
    BY <2>1 DEF stream
  <2>3. /\ p.lines = Cardinality(Newlines(Front(input)))
        /\ p.chars = Column(Front(input))
        /\ Front(input) \in Seq(Int) /\ input = Append(Front(input), c)
    BY <1>3, <1>6, BackAgain
  <2>4. PICK text \in Seq(Int) : text = Front(input)
    BY <2>3
  <2>5. /\ Cardinality(Newlines(Append(text, c))) =
             Cardinality(Newlines(text)) + IF c = ARGO_LF THEN 1 ELSE 0
        /\ Column(Append(text, c)) = IF c = ARGO_LF THEN 0 ELSE Column(text) + 1
    BY OneMore
  <2>6. Cardinality(Newlines(text)) \in Nat
    BY NewlinesCount
  <2>7. pos' = After(p, c)
    BY <1>1, <1>3, <2>1
  <2>8. pos'.prev = Column(text)
    BY <2>3, <2>4, <2>7 DEF After
  <2>9. Exact'
    <3>1. p.lines = Cardinality(Newlines(text)) /\ p.chars = Column(text) /\ input' = Append(text, c)
      BY <2>2, <2>3, <2>4
    <3>2. /\ pos'.lines = IF c = ARGO_LF THEN p.lines + 1 ELSE p.lines
          /\ pos'.chars = IF c = ARGO_LF THEN 0 ELSE p.chars + 1
      BY <2>7 DEF After
    <3> QED
      BY <2>5, <2>6, <3>1, <3>2 DEF Exact
  <2>10. Position(d)'
    BY <1>6, <2>1, <2>2, <2>4, <2>8, <2>9 DEF Position
  <2> QED
    BY <1>4, <2>1, <2>2, <2>7, <2>10 DEF StreamOK
<1> QED
  BY <1>5, <1>6

(* The same, of the first process with an input that has no byte 255.      *)
Known == first = NoText /\ NoByte255

Streaming == run \in ArgoRuns /\ (Known => StreamOK)

Here == Known => Exact \/ AtEnd

Sharp == Known => Exact

Looking(c) == Known => c \in Int /\ Position(c)

Past == Known => Beyond

LEMMA NextKnown ==
    ASSUME NEW c, Streaming, Here, GetNextChar(c), run' = run, first' = first
    PROVE  /\ Streaming' /\ Looking(c)'
           /\ Sharp /\ c = EOF => Past'
<1>1. Known' = Known
  BY DEF Known, NoByte255
<1>2. CASE ~Known
  BY <1>1, <1>2 DEF Streaming, Looking, Past
<1>3. CASE Known
  BY <1>1, <1>3, NextCharacter DEF Streaming, Here, Sharp, Looking, Past
<1> QED
  BY <1>2, <1>3

LEMMA PreviousKnown ==
    ASSUME NEW c, Streaming, Looking(c), c = EOF => Past, GetPrevChar(c), run' = run, first' = first
    PROVE  Streaming' /\ Sharp'
<1>1. Known' = Known
  BY DEF Known, NoByte255
<1>2. CASE ~Known
  BY <1>1, <1>2 DEF Streaming, Sharp
<1>3. CASE Known
  BY <1>1, <1>3, PreviousCharacter DEF Streaming, Sharp, Looking, Past
<1> QED
  BY <1>2, <1>3

LEMMA AgainKnown ==
    ASSUME NEW c, NEW d, Streaming, Looking(c), ReadAgain(c, d), run' = run, first' = first
    PROVE  Streaming' /\ Looking(d)'
<1>1. Known' = Known
  BY DEF Known, NoByte255
<1>2. CASE ~Known
  BY <1>1, <1>2 DEF Streaming, Looking
<1>3. CASE Known
  BY <1>1, <1>3, CharacterAgain DEF Streaming, Looking
<1> QED
  BY <1>2, <1>3

LEMMA SamePosition ==
    ASSUME UNCHANGED <<run, first, stream, pos>>
    PROVE  /\ Streaming' = Streaming /\ Here' = Here /\ Sharp' = Sharp
           /\ \A c : Looking(c)' = Looking(c)
BY DEF Streaming, Here, Sharp, Looking, Known, NoByte255, StreamOK, Exact, AtEnd, Position, stream

-----------------------------------------------------------------------------
(* The pending calls. *)

StringPlaces == {"string", "escape", "hex"}

ListPlaces == {"top", "name", "colon", "element", "after"}

(* A frame has a place, a value and a character, and what the functions    *)
(* for strings and for lists keep besides.                                 *)
IsFrame(f) ==
  /\ {"at", "v", "c"} \subseteq DOMAIN f
  /\ f.at \in {"value", "number", "literal"} \cup StringPlaces \cup ListPlaces
  /\ f.v \in Values
  /\ f.at \in StringPlaces => "field" \in DOMAIN f /\ f.field \in {"string", "name"}
  /\ f.at \in ListPlaces => {"starter", "prev", "next"} \subseteq DOMAIN f /\ f.next \in Values

IsName(f) == f.at \in StringPlaces /\ f.field = "name"

(* Frame f may call on top of the calls s: argo_read_value is called by    *)
(* main or for an element of a list, argo_read_string for a name or by     *)
(* argo_read_value, and the other functions by argo_read_value.            *)
Fits(s, f) ==
  IF f.at = "value" THEN s # <<>> => Last(s).at = "element"
  ELSE s # <<>> /\ Last(s).at = IF IsName(f) THEN "name" ELSE "value"

Stacked(s) ==
  /\ \E S : s \in Seq(S)
  /\ \A i \in 1..Len(s) : IsFrame(s[i]) /\ Fits(SubSeq(s, 1, i - 1), s[i])

LEMMA Pushed ==
    ASSUME NEW s, NEW f, Stacked(s), IsFrame(f), Fits(s, f)
    PROVE  /\ Stacked(Append(s, f)) /\ Append(s, f) # <<>>
           /\ Last(Append(s, f)) = f
<1>1. PICK S : s \in Seq(S)
  BY DEF Stacked
<1>2. PICK T : T = S \cup {f}
  OBVIOUS
<1>3. s \in Seq(T) /\ f \in T
  BY <1>1, <1>2, SeqMonotonic
<1> DEFINE t == Append(s, f)
<1>4. t \in Seq(T) /\ t # <<>> /\ Front(t) = s /\ Last(t) = f
  BY <1>3, AppendLast
<1>5. /\ Len(t) = Len(s) + 1 /\ Len(s) \in Nat
      /\ \A i \in 1..Len(s) : t[i] = s[i]
      /\ t[Len(s) + 1] = f
  BY <1>3, AppendProperties
<1>6. ASSUME NEW i \in 1..(Len(s) + 1)
      PROVE  SubSeq(t, 1, i - 1) = SubSeq(s, 1, i - 1)
  <2> HIDE DEF t
  <2>1. PICK n \in Nat : n = i - 1 /\ n <= Len(s)
    BY <1>5, <1>6
  <2>2. /\ \A j \in 1..n : t[j] \in T
        /\ \A j \in 1..n : s[j] \in T
    BY <1>3, <1>4, <1>5, <2>1, ElementOfSeq
  <2>3. /\ SubSeq(t, 1, n) \in Seq(T)
        /\ Len(SubSeq(t, 1, n)) = IF 1 <= n THEN n - 1 + 1 ELSE 0
        /\ \A j \in 1..(n - 1 + 1) : SubSeq(t, 1, n)[j] = t[1 + j - 1]
    BY <2>2, SubSeqProperties
  <2>4. /\ SubSeq(s, 1, n) \in Seq(T)
        /\ Len(SubSeq(s, 1, n)) = IF 1 <= n THEN n - 1 + 1 ELSE 0
        /\ \A j \in 1..(n - 1 + 1) : SubSeq(s, 1, n)[j] = s[1 + j - 1]
    BY <2>2, SubSeqProperties
  <2>5. \A j \in 1..Len(SubSeq(t, 1, n)) : SubSeq(t, 1, n)[j] = SubSeq(s, 1, n)[j]
    BY <1>5, <2>1, <2>3, <2>4
  <2> QED
    BY <2>1, <2>3, <2>4, <2>5, SeqEqual
<1>7. SubSeq(t, 1, Len(s)) = s
  BY <1>4, <1>5 DEF Front
<1>8. \A i \in 1..Len(t) : IsFrame(t[i]) /\ Fits(SubSeq(t, 1, i - 1), t[i])
  <2> SUFFICES ASSUME NEW i \in 1..Len(t)
               PROVE  IsFrame(t[i]) /\ Fits(SubSeq(t, 1, i - 1), t[i])
    OBVIOUS
  <2> HIDE DEF t
  <2>1. CASE i = Len(s) + 1
    <3>1. i - 1 = Len(s)
      BY <1>5, <2>1
    <3> QED
      BY <1>5, <1>7, <2>1, <3>1
  <2>2. CASE i # Len(s) + 1
    <3>1. i \in 1..Len(s)
      BY <1>5, <2>2
    <3> QED
      BY <1>5, <1>6, <3>1 DEF Stacked
  <2> QED
    BY <2>1, <2>2
<1>9. Stacked(t)
  <2> HIDE DEF t
  <2> QED
    BY <1>4, <1>8 DEF Stacked
<1> QED
  BY <1>4, <1>9

LEMMA Popped ==
    ASSUME NEW s, Stacked(s), s # <<>>
    PROVE  /\ Stacked(Front(s))
           /\ IsFrame(Last(s)) /\ Fits(Front(s), Last(s))
<1>1. PICK S : s \in Seq(S)
  BY DEF Stacked
<1>2. Len(s) \in Nat \ {0}
  BY <1>1, EmptySeq
<1>3. /\ Front(s) \in Seq(S)
      /\ Len(Front(s)) = Len(s) - 1
      /\ \A i \in 1..Len(Front(s)) : Front(s)[i] = s[i]
  BY <1>1, FrontLast
<1>4. IsFrame(Last(s)) /\ Fits(Front(s), Last(s))
  <2>1. IsFrame(s[Len(s)]) /\ Fits(SubSeq(s, 1, Len(s) - 1), s[Len(s)])
    BY <1>2 DEF Stacked
  <2> QED
    BY <2>1 DEF Last, Front
<1>5. ASSUME NEW i \in 1..Len(Front(s))
      PROVE  IsFrame(Front(s)[i]) /\ Fits(SubSeq(Front(s), 1, i - 1), Front(s)[i])
  <2>1. i \in 1..Len(s)
    BY <1>2, <1>3
  <2>2. SubSeq(Front(s), 1, i - 1) = SubSeq(s, 1, i - 1)
    <3>1. PICK n \in Nat : n = i - 1 /\ n < Len(Front(s))
      BY <1>2, <1>3
    <3>2. /\ \A j \in 1..n : Front(s)[j] \in S
          /\ \A j \in 1..n : s[j] \in S
      BY <1>1, <1>2, <1>3, <3>1, ElementOfSeq
    <3>3. /\ SubSeq(s, 1, n) \in Seq(S)
          /\ Len(SubSeq(s, 1, n)) = IF 1 <= n THEN n - 1 + 1 ELSE 0
          /\ \A j \in 1..(n - 1 + 1) : SubSeq(s, 1, n)[j] = s[1 + j - 1]
      BY <3>2, SubSeqProperties
    <3>4. /\ SubSeq(Front(s), 1, n) \in Seq(S)
          /\ Len(SubSeq(Front(s), 1, n)) = IF 1 <= n THEN n - 1 + 1 ELSE 0
          /\ \A j \in 1..(n - 1 + 1) : SubSeq(Front(s), 1, n)[j] = Front(s)[1 + j - 1]
      BY <3>2, SubSeqProperties
    <3>5. \A j \in 1..Len(SubSeq(s, 1, n)) : SubSeq(s, 1, n)[j] = SubSeq(Front(s), 1, n)[j]
      BY <1>3, <3>1, <3>3, <3>4
    <3> QED
      BY <3>1, <3>3, <3>4, <3>5, SeqEqual
  <2> QED
    BY <1>3, <2>1, <2>2 DEF Stacked
<1> QED
  BY <1>3, <1>4, <1>5 DEF Stacked

(* Every function but argo_read_value has a caller.                        *)
LEMMA PoppedTwice ==
    ASSUME NEW s, Stacked(s), s # <<>>, Last(s).at # "value"
    PROVE  /\ Front(s) # <<>> /\ Stacked(Front(Front(s)))
           /\ Front(Front(s)) = SubSeq(s, 1, Len(s) - 2)
           /\ Last(Front(s)) = s[Len(s) - 1]
           /\ IsFrame(Last(Front(s))) /\ Fits(Front(Front(s)), Last(Front(s)))
           /\ Last(Front(s)).at = IF IsName(Last(s)) THEN "name" ELSE "value"
<1>1. PICK S : s \in Seq(S)
  BY DEF Stacked
<1>2. Stacked(Front(s)) /\ Fits(Front(s), Last(s))
  BY Popped
<1>3. /\ Front(s) # <<>>
      /\ Last(Front(s)).at = IF IsName(Last(s)) THEN "name" ELSE "value"
  BY <1>2 DEF Fits
<1>4. /\ Front(s) \in Seq(S) /\ Len(s) \in Nat
      /\ Len(Front(s)) = Len(s) - 1
      /\ \A i \in 1..Len(Front(s)) : Front(s)[i] = s[i]
  BY <1>1, FrontLast
<1>5. PICK t \in Seq(S) : t = Front(s)
  BY <1>4
<1>6. /\ Front(t) \in Seq(S) /\ Len(t) \in Nat \ {0}
      /\ Len(Front(t)) = Len(t) - 1
      /\ \A i \in 1..Len(Front(t)) : Front(t)[i] = t[i]
  BY <1>3, <1>5, FrontLast, EmptySeq
<1>7. Last(Front(s)) = s[Len(s) - 1]
  BY <1>4, <1>5, <1>6 DEF Last
<1>8. Front(t) = SubSeq(s, 1, Len(s) - 2)
  <2>1. PICK n \in Nat : n = Len(s) - 2
    BY <1>4, <1>5, <1>6
  <2>2. \A j \in 1..n : s[j] \in S
    BY <1>1, <1>4, <2>1, ElementOfSeq
  <2>3. /\ SubSeq(s, 1, n) \in Seq(S)
        /\ Len(SubSeq(s, 1, n)) = IF 1 <= n THEN n - 1 + 1 ELSE 0
        /\ \A j \in 1..(n - 1 + 1) : SubSeq(s, 1, n)[j] = s[1 + j - 1]
    BY <2>2, SubSeqProperties
  <2>4. Len(Front(t)) = n
    BY <1>4, <1>5, <1>6, <2>1
  <2>5. \A j \in 1..Len(Front(t)) : Front(t)[j] = SubSeq(s, 1, n)[j]
    BY <1>4, <1>5, <1>6, <2>1, <2>3, <2>4
  <2> QED
    BY SMTT(60), <1>6, <2>1, <2>3, <2>4, <2>5, SeqEqual
<1>9. Stacked(Front(t)) /\ IsFrame(Last(t)) /\ Fits(Front(t), Last(t))
  BY <1>2, <1>3, <1>5, Popped
<1> QED
  BY <1>3, <1>5, <1>7, <1>8, <1>9

-----------------------------------------------------------------------------
(* The invariant of the parser. *)

Members == {"type", "next", "prev", "name", "string", "number", "list", "basic"}

PoolOK(memory) == DOMAIN memory = Values /\ \A i \in Values : DOMAIN memory[i] = Members

(* The function that is running has read its character, or returned a      *)
(* value to one that reads an element.  At the end of the input only a     *)
(* number is ended by a character that is pushed back.                     *)
Reading ==
  /\ Streaming /\ next_value \in Nat /\ PoolOK(storage) /\ Stacked(stack)
  /\ IF result = Null
     THEN /\ stack # <<>> /\ Looking(top.c)
          /\ top.at = "number" /\ top.c = EOF => Past
     ELSE /\ result \in Values
          /\ Here /\ (storage[result].type = "number" => Sharp)
          /\ stack # <<>> => top.at = "element"

Unread ==
  /\ Streaming /\ next_value \in Nat /\ PoolOK(storage)
  /\ Sharp /\ stack = <<>> /\ result = Null

Parsing ==
  /\ run \in ArgoRuns
  /\ pc = "validargs" => Unread
  /\ pc = "reading" => Reading

LEMMA PoolKept ==
    ASSUME NEW memory, NEW v, NEW r, PoolOK(memory), v \in Values => DOMAIN r = Members
    PROVE  PoolOK([memory EXCEPT ![v] = r])
BY DEF PoolOK

LEMMA TopFrame ==
    ASSUME Reading, stack # <<>>
    PROVE  /\ IsFrame(top) /\ Stacked(Front(stack)) /\ Fits(Front(stack), top)
           /\ result = Null => Looking(top.c) /\ Here
           /\ result # Null => top.at = "element" /\ Here
BY Popped DEF Reading, Looking, Position, Here, top

(* A function begins, or goes on, with the frame f on the calls s.         *)
LEMMA Running ==
    ASSUME NEW s, NEW f, Stacked(s), IsFrame(f), Fits(s, f), Streaming',
           (next_value \in Nat)', PoolOK(storage)', stack' = Append(s, f), result' = Null,
           Looking(f.c)', f.at = "number" /\ f.c = EOF => Past'
    PROVE  Reading'
<1>1. Stacked(stack') /\ stack' # <<>> /\ top' = f
  BY Pushed DEF top
<1>2. Looking(top.c)'
  BY <1>1
<1> QED
  BY <1>1, <1>2 DEF Reading

(* The same, with the next character.                                      *)
LEMMA RunningNext ==
    ASSUME NEW s, NEW f, NEW c, Stacked(s), IsFrame(f), Fits(s, f),
           Streaming, Here, GetNextChar(c), run' = run, first' = first,
           (next_value \in Nat)', PoolOK(storage)', stack' = Append(s, [f EXCEPT !.c = c]),
           result' = Null, f.at = "number" => Sharp
    PROVE  Reading'
<1> DEFINE g == [f EXCEPT !.c = c]
<1>1. /\ Streaming' /\ Looking(c)'
      /\ Sharp /\ c = EOF => Past'
  BY NextKnown
<1>2. /\ g.c = c /\ g.at = f.at /\ g.v = f.v /\ DOMAIN g = DOMAIN f
      /\ \A x \in DOMAIN f : x # "c" => g[x] = f[x]
  BY DEF IsFrame
<1>3. IsFrame(g) /\ Fits(s, g)
  <2>1. /\ f.at \in StringPlaces => g.field = f.field
        /\ f.at \in ListPlaces => g.next = f.next
    BY <1>2 DEF IsFrame
  <2> HIDE DEF g
  <2> QED
    BY <1>1, <1>2, <2>1 DEF IsFrame, Fits, IsName
<1>4. Looking(g.c)'
  BY <1>1, <1>2
<1> HIDE DEF g
<1> QED
  BY <1>1, <1>2, <1>3, <1>4, Running DEF g

(* The running function takes the next character and goes on as f.         *)
LEMMA GoesOn ==
    ASSUME NEW f, Reading, stack # <<>>, IsFrame(f),
           f.at = "value" <=> top.at = "value", IsName(f) <=> IsName(top),
           Getting(f), run' = run, first' = first, (next_value \in Nat)', PoolOK(storage)',
           result' = Null, f.at = "number" => Sharp
    PROVE  Reading'
<1>1. /\ Stacked(Front(stack)) /\ Fits(Front(stack), top)
      /\ Here
  BY TopFrame
<1>2. PICK c \in Arriving : GetNextChar(c) /\ stack' = Append(Front(stack), [f EXCEPT !.c = c])
  BY DEF Getting, Replaced
<1>3. Fits(Front(stack), f)
  BY <1>1 DEF Fits
<1> QED
  BY <1>1, <1>2, <1>3, RunningNext DEF Reading

(* A function that argo_read_value called returns, and argo_read_value     *)
(* returns the value.                                                      *)
LEMMA Returning ==
    ASSUME NEW type, NEW memory, Reading, stack # <<>>, result = Null,
           top.at # "value", ~IsName(top), PoolOK(memory),
           ReturnValue(top.v, type, memory), Streaming', (next_value \in Nat)',
           Here', type = "number" => Sharp'
    PROVE  Reading'
<1>1. IsFrame(top)
  BY TopFrame
<1>2. top.v \in Values /\ Null \notin Values
  BY <1>1 DEF IsFrame, Values, Null
<1>3. /\ storage' = [memory EXCEPT ![top.v].type = type]
      /\ result' = top.v /\ stack' = SubSeq(stack, 1, Len(stack) - 2)
  BY DEF ReturnValue
<1>4. storage'[top.v].type = type /\ PoolOK(storage')
  BY <1>2, <1>3 DEF PoolOK, Members
<1>5. /\ Stacked(Front(Front(stack))) /\ stack' = Front(Front(stack))
      /\ Fits(Front(Front(stack)), Last(Front(stack)))
      /\ Last(Front(stack)).at = "value"
  BY <1>3, PoppedTwice DEF Reading, top
<1>6. Stacked(stack') /\ (stack' # <<>> => Last(stack').at = "element")
  BY <1>5 DEF Fits
<1> QED
  BY <1>2, <1>3, <1>4, <1>6 DEF Reading, top

-----------------------------------------------------------------------------
(* The steps of the parser. *)

(* A step of the parser reads on or ends the run.                          *)
Parsed == (Reading' /\ pc' = pc /\ run' = run /\ first' = first) \/ (pc' = "exit" /\ run' = run)

LEMMA AtFacts ==
    ASSUME NEW place, Reading, At(place)
    PROVE  /\ result = Null /\ top.at = place /\ stack # <<>>
           /\ IsFrame(top) /\ Stacked(Front(stack)) /\ Fits(Front(stack), top)
           /\ Looking(top.c) /\ Here
           /\ top.v \in Values
           /\ place = "number" /\ top.c = EOF => Past
BY TopFrame DEF At, Reading, IsFrame

(* A function that argo_read_value calls, or one for its list.             *)
LEMMA FromValue ==
    ASSUME NEW f, Reading, At("value"), f.at # "value", ~IsName(f)
    PROVE  Fits(stack, f)
BY AtFacts DEF Fits, top

LEMMA FailOK == ASSUME NEW messages, Fail(messages) PROVE Parsed
BY DEF Fail, Parsed

LEMMA ValueSpaceOK == ASSUME Reading, ValueSpace PROVE Parsed
<1>1. At("value") /\ Getting(top) /\ UNCHANGED <<kept, heap, result>>
  BY DEF ValueSpace
<1>2. /\ result = Null /\ top.at = "value" /\ stack # <<>> /\ IsFrame(top)
  BY <1>1, AtFacts
<1>3. Reading'
  BY <1>1, <1>2, GoesOn DEF Reading, kept, heap
<1> QED
  BY <1>1, <1>3 DEF Parsed, kept

LEMMA ValueNumberOK == ASSUME Reading, ValueNumber PROVE Parsed
<1>1. PICK c : c = top.c
  OBVIOUS
<1>2. PICK f : f = [at |-> "number", v |-> top.v, c |-> c, n |-> NumberStart]
  OBVIOUS
<1>3. /\ At("value") /\ ReadAgain(c, c)
      /\ IsDigit(c) \/ c = ARGO_MINUS
      /\ stack' = Append(stack, f) /\ UNCHANGED <<kept, heap, result>>
  BY <1>1, <1>2 DEF ValueNumber
<1>4. /\ result = Null /\ Looking(c) /\ top.v \in Values
  BY <1>1, <1>3, AtFacts
<1>5. c # EOF
  BY <1>3 DEF IsDigit, ARGO_MINUS, EOF
<1>6. Streaming' /\ Looking(c)'
  BY <1>3, <1>4, AgainKnown DEF Reading, kept
<1>7. IsFrame(f) /\ Fits(stack, f) /\ f.c = c
  BY <1>2, <1>3, <1>4, FromValue DEF IsFrame, IsName, StringPlaces, ListPlaces
<1>8. Looking(f.c)'
  BY <1>6, <1>7
<1>9. Reading'
  BY <1>3, <1>4, <1>5, <1>6, <1>7, <1>8, Running DEF Reading, kept, heap
<1> QED
  BY <1>3, <1>9 DEF Parsed, kept

(* argo_read_value calls a function that takes a character first.          *)
LEMMA Calling ==
    ASSUME NEW f, Reading, At("value"), IsFrame(f), f.at \notin {"value", "number"}, ~IsName(f),
           CallGetting(stack, f), UNCHANGED kept,
           (next_value \in Nat)', PoolOK(storage)', result' = Null
    PROVE  Parsed
<1>1. PICK c \in Arriving : GetNextChar(c) /\ stack' = Append(stack, [f EXCEPT !.c = c])
  BY DEF CallGetting
<1>2. Fits(stack, f) /\ Here
  BY AtFacts, FromValue
<1>3. Reading'
  BY <1>1, <1>2, RunningNext DEF Reading, kept
<1> QED
  BY <1>3 DEF Parsed, kept

LEMMA ValueStringOK == ASSUME Reading, ValueString PROVE Parsed
<1>1. PICK f : f = [at |-> "string", v |-> top.v, field |-> "string", c |-> 0]
  OBVIOUS
<1>2. /\ At("value") /\ CallGetting(stack, f) /\ UNCHANGED <<kept, heap, result>>
  BY <1>1 DEF ValueString
<1>3. result = Null /\ top.v \in Values
  BY <1>2, AtFacts
<1>4. IsFrame(f) /\ f.at = "string" /\ ~IsName(f)
  BY <1>1, <1>3 DEF IsFrame, IsName, StringPlaces, ListPlaces
<1> QED
  BY <1>2, <1>3, <1>4, Calling DEF Reading, kept, heap

LEMMA ValueLiteralOK == ASSUME Reading, ValueLiteral PROVE Parsed
<1>1. PICK word \in DOMAIN Literals :
        /\ At("value")
        /\ CallGetting(stack, [at |-> "literal", v |-> top.v, c |-> 0,
                               rest |-> Tail(Literals[word]), word |-> word])
        /\ UNCHANGED <<kept, heap, result>>
  BY DEF ValueLiteral
<1>2. PICK f : f = [at |-> "literal", v |-> top.v, c |-> 0, rest |-> Tail(Literals[word]), word |-> word]
  OBVIOUS
<1>3. result = Null /\ top.v \in Values
  BY <1>1, AtFacts
<1>4. IsFrame(f) /\ f.at = "literal" /\ ~IsName(f)
  BY <1>2, <1>3 DEF IsFrame, IsName, StringPlaces, ListPlaces
<1>5. CallGetting(stack, f)
  BY <1>1, <1>2
<1> QED
  BY <1>1, <1>3, <1>4, <1>5, Calling DEF Reading, kept, heap

LEMMA ValueListOK == ASSUME Reading, ValueList PROVE Parsed
<1>1. PICK f : f = [at |-> "top", v |-> top.v, c |-> 0, object |-> top.c = ARGO_LBRACE,
                    starter |-> next_value, prev |-> next_value, next |-> next_value + 1]
  OBVIOUS
<1>2. /\ At("value") /\ Room(2) /\ next_value' = next_value + 2
      /\ storage' = [storage EXCEPT ![next_value] = [@ EXCEPT !.next = next_value, !.prev = next_value],
                                    ![top.v].list = next_value]
      /\ CallGetting(stack, f) /\ UNCHANGED <<kept, result>>
  BY <1>1 DEF ValueList
<1>3. result = Null /\ top.v \in Values /\ next_value \in Nat /\ PoolOK(storage)
  BY <1>2, AtFacts DEF Reading
<1>4. next_value + 1 \in Values
  BY <1>2, <1>3 DEF Room, Values
<1>5. IsFrame(f) /\ f.at = "top" /\ ~IsName(f)
  BY <1>1, <1>3, <1>4 DEF IsFrame, IsName, StringPlaces, ListPlaces
<1>6. PoolOK(storage')
  BY <1>2, <1>3 DEF PoolOK
<1>7. next_value' \in Nat /\ result' = Null
  BY <1>2, <1>3
<1> QED
  BY <1>2, <1>5, <1>6, <1>7, Calling

LEMMA NumberCharOK == ASSUME Reading, NumberChar PROVE Parsed
<1>1. PICK f : f = [top EXCEPT !.n = NumberNext(top.n, top.c)]
  OBVIOUS
<1>2. /\ At("number") /\ InNumber(top.c)
      /\ Getting(f) /\ UNCHANGED <<kept, heap, result>>
  BY <1>1 DEF NumberChar
<1>3. /\ result = Null /\ top.at = "number" /\ stack # <<>> /\ IsFrame(top) /\ Looking(top.c)
  BY <1>2, AtFacts
<1>4. IsFrame(f) /\ f.at = "number" /\ ~IsName(f) /\ ~IsName(top)
  BY <1>1, <1>3 DEF IsFrame, IsName, StringPlaces, ListPlaces
<1>5. top.c # EOF
  BY <1>2 DEF InNumber, IsDigit, IsExponent, ARGO_MINUS, ARGO_PLUS, ARGO_PERIOD, ARGO_E, EOF
<1>6. Sharp
  BY <1>3, <1>5 DEF Looking, Position, Sharp
<1>7. Reading'
  BY <1>2, <1>3, <1>4, <1>6, GoesOn DEF Reading, kept, heap
<1> QED
  BY <1>2, <1>7 DEF Parsed, kept

LEMMA NumberEndOK == ASSUME Reading, NumberEnd PROVE Parsed
<1>1. At("number") /\ ~InNumber(top.c) /\ Room(1) /\ next_value' = next_value + 1
      /\ run' = run /\ first' = first
  BY DEF NumberEnd
<1>2. /\ result = Null /\ top.at = "number" /\ stack # <<>> /\ Looking(top.c)
      /\ top.v \in Values /\ next_value \in Nat /\ PoolOK(storage)
      /\ top.c = EOF => Past
  BY <1>1, AtFacts DEF Reading
<1>3. CASE Decimal(top.n.text).ok
  <2>1. PICK memory : memory = [storage EXCEPT ![top.v].number = NumberOf(top.n),
                                               ![next_value].string = NumberOf(top.n).string_value]
    OBVIOUS
  <2>2. ReturnValue(top.v, "number", memory) /\ GetPrevChar(top.c) /\ pc' = pc
    BY <1>3, <2>1 DEF NumberEnd
  <2>3. PoolOK(memory)
    BY <1>2, <2>1 DEF PoolOK
  <2>4. Streaming' /\ Sharp' /\ Here'
    BY <1>1, <1>2, <2>2, PreviousKnown DEF Reading, Sharp, Here
  <2>5. ~IsName(top)
    BY <1>2 DEF IsName, StringPlaces
  <2>6. Reading'
    BY <1>1, <1>2, <2>2, <2>3, <2>4, <2>5, Returning
  <2> QED
    BY <1>1, <2>2, <2>6 DEF Parsed
<1>4. CASE ~Decimal(top.n.text).ok
  BY <1>1, <1>4 DEF NumberEnd, Parsed
<1> QED
  BY <1>3, <1>4

LEMMA LiteralCharOK == ASSUME Reading, LiteralChar PROVE Parsed
<1>1. At("literal") /\ UNCHANGED <<kept, next_value>>
  BY DEF LiteralChar
<1>2. /\ result = Null /\ top.at = "literal" /\ stack # <<>> /\ IsFrame(top)
      /\ Here
      /\ top.v \in Values /\ next_value \in Nat /\ PoolOK(storage)
  BY <1>1, AtFacts DEF Reading
<1>3. ~IsName(top)
  BY <1>2 DEF IsName, StringPlaces
<1>4. CASE Len(top.rest) > 1
  <2>1. PICK f : f = [top EXCEPT !.rest = Tail(@)]
    OBVIOUS
  <2>2. Getting(f) /\ UNCHANGED <<storage, result>>
    BY <1>4, <2>1 DEF LiteralChar
  <2>3. IsFrame(f) /\ f.at = "literal" /\ ~IsName(f)
    BY <1>2, <2>1 DEF IsFrame, IsName, StringPlaces, ListPlaces
  <2>4. Reading'
    BY <1>1, <1>2, <1>3, <2>2, <2>3, GoesOn DEF kept
  <2> QED
    BY <1>1, <2>4 DEF Parsed, kept
<1>5. CASE ~(Len(top.rest) > 1)
  <2>1. PICK memory : memory = [storage EXCEPT ![top.v].basic = top.word]
    OBVIOUS
  <2>2. ReturnValue(top.v, "basic", memory) /\ UNCHANGED <<stream, pos>>
    BY <1>5, <2>1 DEF LiteralChar
  <2>3. PoolOK(memory)
    BY <1>2, <2>1 DEF PoolOK
  <2>4. Streaming' /\ Here'
    BY <1>1, <1>2, <2>2, SamePosition DEF Reading, kept
  <2>5. Reading'
    BY <1>1, <1>2, <1>3, <2>2, <2>3, <2>4, Returning
  <2> QED
    BY <1>1, <2>5 DEF Parsed, kept
<1> QED
  BY <1>4, <1>5

LEMMA GrownOK ==
    ASSUME NEW c, PoolOK(storage)
    PROVE  PoolOK(Grown(c))
BY DEF PoolOK, Grown

(* A string takes another character.                                       *)
LEMMA StringGoesOn ==
    ASSUME NEW place \in StringPlaces, NEW f, Reading, At(place), IsFrame(f), f.at \in StringPlaces,
           f.field = top.field, Getting(f), UNCHANGED <<kept, next_value, result>>,
           storage' = storage \/ \E c : storage' = Grown(c)
    PROVE  Parsed
<1>1. /\ result = Null /\ top.at = place /\ stack # <<>>
      /\ next_value \in Nat /\ PoolOK(storage)
  BY AtFacts DEF Reading
<1>2. PoolOK(storage')
  BY <1>1, GrownOK
<1>3. f.at \notin {"value", "number"} /\ top.at # "value" /\ (IsName(f) <=> IsName(top))
  BY <1>1 DEF StringPlaces, IsName
<1>4. Reading'
  BY <1>1, <1>2, <1>3, GoesOn DEF kept
<1> QED
  BY <1>4 DEF Parsed, kept

LEMMA StringCharOK == ASSUME Reading, StringChar PROVE Parsed
<1>1. At("string") /\ UNCHANGED <<kept, next_value, result>>
  BY DEF StringChar
<1>2. IsFrame(top) /\ top.at = "string" /\ "string" \in StringPlaces
  BY <1>1, AtFacts DEF StringPlaces
<1>3. CASE top.c = ARGO_BSLASH
  <2>1. PICK f : f = [top EXCEPT !.at = "escape"]
    OBVIOUS
  <2>2. IsFrame(f) /\ f.at \in StringPlaces /\ f.field = top.field
    BY <1>2, <2>1 DEF IsFrame, StringPlaces, ListPlaces
  <2>3. Getting(f) /\ storage' = storage
    BY <1>3, <2>1 DEF StringChar
  <2> QED
    BY <1>1, <1>2, <2>2, <2>3, StringGoesOn
<1>4. CASE top.c # ARGO_BSLASH
  <2>1. PICK f : f = top
    OBVIOUS
  <2>2. Getting(f) /\ storage' = Grown(top.c)
    BY <1>4, <2>1 DEF StringChar
  <2> QED
    BY <1>1, <1>2, <2>1, <2>2, StringGoesOn DEF StringPlaces
<1> QED
  BY <1>3, <1>4

LEMMA StringEscapeOK == ASSUME Reading, StringEscape PROVE Parsed
<1>1. At("escape") /\ UNCHANGED <<kept, next_value, result>>
  BY DEF StringEscape
<1>2. /\ IsFrame(top) /\ top.at = "escape" /\ "escape" \in StringPlaces
      /\ top.v \in Values
  BY <1>1, AtFacts DEF StringPlaces
<1>3. CASE top.c = ARGO_U
  <2>1. PICK f : f = [at |-> "hex", v |-> top.v, field |-> top.field, c |-> 0, i |-> 0, value |-> 0]
    OBVIOUS
  <2>2. IsFrame(f) /\ f.at \in StringPlaces /\ f.field = top.field
    BY <1>2, <2>1 DEF IsFrame, StringPlaces, ListPlaces
  <2>3. Getting(f) /\ storage' = storage
    BY <1>3, <2>1 DEF StringEscape
  <2> QED
    BY <1>1, <1>2, <2>2, <2>3, StringGoesOn
<1>4. CASE top.c # ARGO_U
  <2>1. PICK f : f = [top EXCEPT !.at = "string"]
    OBVIOUS
  <2>2. IsFrame(f) /\ f.at \in StringPlaces /\ f.field = top.field
    BY <1>2, <2>1 DEF IsFrame, StringPlaces, ListPlaces
  <2>3. Getting(f) /\ storage' = Grown(Unescaped(top.c))
    BY <1>4, <2>1 DEF StringEscape
  <2> QED
    BY <1>1, <1>2, <2>2, <2>3, StringGoesOn
<1> QED
  BY <1>3, <1>4

LEMMA StringHexOK == ASSUME Reading, StringHex PROVE Parsed
<1>1. At("hex") /\ UNCHANGED <<kept, next_value, result>>
  BY DEF StringHex
<1>2. /\ IsFrame(top) /\ top.at = "hex" /\ "hex" \in StringPlaces
      /\ top.v \in Values
  BY <1>1, AtFacts DEF StringPlaces
<1>3. PICK value : value = top.value * 16 + HexValue(top.c)
  OBVIOUS
<1>4. CASE top.i < 3
  <2>1. PICK f : f = [top EXCEPT !.i = @ + 1, !.value = value]
    OBVIOUS
  <2>2. IsFrame(f) /\ f.at \in StringPlaces /\ f.field = top.field
    BY <1>2, <2>1 DEF IsFrame, StringPlaces, ListPlaces
  <2>3. Getting(f) /\ storage' = storage
    BY <1>3, <1>4, <2>1 DEF StringHex
  <2> QED
    BY <1>1, <1>2, <2>2, <2>3, StringGoesOn
<1>5. CASE ~(top.i < 3)
  <2>1. PICK f : f = [at |-> "string", v |-> top.v, field |-> top.field, c |-> 0]
    OBVIOUS
  <2>2. IsFrame(f) /\ f.at \in StringPlaces /\ f.field = top.field
    BY <1>2, <2>1 DEF IsFrame, StringPlaces, ListPlaces
  <2>3. Getting(f) /\ storage' = Grown(value)
    BY <1>3, <1>5, <2>1 DEF StringHex
  <2> QED
    BY <1>1, <1>2, <2>2, <2>3, StringGoesOn
<1> QED
  BY <1>4, <1>5

LEMMA StringEndOK == ASSUME Reading, StringEnd PROVE Parsed
<1>1. At("string") /\ UNCHANGED <<kept, next_value>>
  BY DEF StringEnd
<1>2. /\ result = Null /\ top.at = "string" /\ stack # <<>> /\ IsFrame(top)
      /\ Here
      /\ top.v \in Values /\ next_value \in Nat /\ PoolOK(storage)
  BY <1>1, AtFacts DEF Reading
<1>3. CASE top.field = "string"
  <2>1. ReturnValue(top.v, "string", storage) /\ UNCHANGED <<stream, pos>>
    BY <1>3 DEF StringEnd
  <2>2. Streaming' /\ Here'
    BY <1>1, <1>2, <2>1, SamePosition DEF Reading, kept
  <2>3. ~IsName(top)
    BY <1>3 DEF IsName
  <2>4. Reading'
    BY <1>1, <1>2, <2>1, <2>2, <2>3, Returning
  <2> QED
    BY <1>1, <2>4 DEF Parsed, kept
<1>4. CASE top.field # "string"
  <2>1. PICK f : f = [stack[Len(stack) - 1] EXCEPT !.at = "colon"]
    OBVIOUS
  <2>2. PICK s : s = SubSeq(stack, 1, Len(stack) - 2)
    OBVIOUS
  <2>3. CallGetting(s, f) /\ UNCHANGED <<storage, result>>
    BY <1>4, <2>1, <2>2 DEF StringEnd
  <2>4. /\ Stacked(s)
        /\ IsFrame(stack[Len(stack) - 1]) /\ Fits(s, stack[Len(stack) - 1])
        /\ stack[Len(stack) - 1].at = "name"
    BY <1>2, <1>4, <2>2, PoppedTwice DEF Reading, top, IsName, IsFrame, StringPlaces
  <2>5. IsFrame(f) /\ f.at = "colon" /\ Fits(s, f)
    BY <2>1, <2>4 DEF IsFrame, Fits, IsName, StringPlaces, ListPlaces
  <2>6. PICK c \in Arriving : GetNextChar(c) /\ stack' = Append(s, [f EXCEPT !.c = c])
    BY <2>3 DEF CallGetting
  <2>7. Reading'
    BY <1>1, <1>2, <2>3, <2>4, <2>5, <2>6, RunningNext DEF Reading, kept
  <2> QED
    BY <1>1, <2>7 DEF Parsed, kept
<1> QED
  BY <1>3, <1>4

(* A list goes on with the next character.                                 *)
LEMMA ListGoesOn ==
    ASSUME NEW place \in ListPlaces, NEW f, Reading, At(place), IsFrame(f), f.at \in ListPlaces,
           Getting(f), UNCHANGED <<kept, heap, result>>
    PROVE  Parsed
<1>1. result = Null /\ top.at = place /\ stack # <<>>
  BY AtFacts
<1>2. /\ f.at \notin {"value", "number"} /\ top.at # "value" /\ ~IsName(f) /\ ~IsName(top)
  BY <1>1 DEF StringPlaces, ListPlaces, IsName
<1>3. Reading'
  BY <1>1, <1>2, GoesOn DEF Reading, kept, heap
<1> QED
  BY <1>3 DEF Parsed, kept

LEMMA ListSpaceOK == ASSUME Reading, ListSpace PROVE Parsed
<1>1. PICK place \in {"top", "colon", "after"} : At(place)
  BY DEF ListSpace
<1>2. PICK f : f = top
  OBVIOUS
<1>3. Getting(f) /\ UNCHANGED <<kept, heap, result>>
  BY <1>2 DEF ListSpace
<1>4. place \in ListPlaces /\ IsFrame(f) /\ f.at \in ListPlaces
  BY <1>1, <1>2, AtFacts DEF ListPlaces
<1> QED
  BY <1>1, <1>3, <1>4, ListGoesOn

LEMMA ListEndOK == ASSUME Reading, ListEnd PROVE Parsed
<1>1. PICK place \in {"top", "after"} : At(place)
  BY DEF ListEnd
<1>2. PICK type \in {"object", "array"} : ReturnValue(top.v, type, storage)
  BY DEF ListEnd
<1>3. UNCHANGED <<kept, stream, pos, next_value>>
  BY DEF ListEnd
<1>4. /\ result = Null /\ top.at = place /\ stack # <<>> /\ Here
      /\ next_value \in Nat /\ PoolOK(storage)
  BY <1>1, AtFacts DEF Reading
<1>5. top.at # "value" /\ ~IsName(top)
  BY <1>4 DEF IsName, StringPlaces
<1>6. Streaming' /\ Here' /\ next_value' \in Nat
  BY <1>3, <1>4, SamePosition DEF Reading, kept
<1>7. Reading'
  BY <1>2, <1>4, <1>5, <1>6, Returning
<1> QED
  BY <1>3, <1>7 DEF Parsed, kept

(* A list calls argo_read_value for its next element, on the character d.  *)
LEMMA CallingValue ==
    ASSUME NEW d, NEW f, Reading, stack # <<>>, result = Null,
           top.at \in ListPlaces, f = [top EXCEPT !.at = "element"],
           CallValue(Replaced(f), d), Streaming', Looking(d)', result' = Null
    PROVE  Reading'
<1>1. /\ IsFrame(top) /\ Stacked(Front(stack)) /\ Fits(Front(stack), top)
      /\ next_value \in Nat /\ PoolOK(storage)
  BY TopFrame DEF Reading
<1>2. IsFrame(f) /\ f.at = "element" /\ Fits(Front(stack), f)
  BY <1>1 DEF IsFrame, Fits, IsName, StringPlaces, ListPlaces
<1>3. PICK s : s = Append(Front(stack), f)
  OBVIOUS
<1>4. Stacked(s) /\ s # <<>> /\ Last(s) = f
  BY <1>1, <1>2, <1>3, Pushed
<1>5. PICK g : g = [at |-> "value", v |-> next_value, c |-> d]
  OBVIOUS
<1>6. /\ Room(1) /\ next_value' = next_value + 1
      /\ stack' = Append(s, g) /\ storage' = storage
  BY <1>3, <1>5 DEF CallValue, Replaced
<1>7. next_value \in Values
  BY <1>1, <1>6 DEF Room, Values
<1>8. IsFrame(g) /\ Fits(s, g) /\ g.c = d /\ g.at = "value"
  BY <1>2, <1>4, <1>5, <1>7 DEF IsFrame, Fits, StringPlaces, ListPlaces
<1>9. Looking(g.c)' /\ next_value' \in Nat /\ PoolOK(storage')
  BY <1>1, <1>6, <1>8
<1> QED
  BY <1>4, <1>6, <1>8, <1>9, Running

LEMMA ArrayElementOK == ASSUME Reading, ArrayElement PROVE Parsed
<1>1. PICK c : c = top.c
  OBVIOUS
<1>2. PICK f : f = [top EXCEPT !.at = "element"]
  OBVIOUS
<1>3. At("top") /\ UNCHANGED <<kept, result>>
  BY DEF ArrayElement
<1>4. PICK d : ReadAgain(c, d) /\ CallValue(Replaced(f), d)
  BY <1>1, <1>2 DEF ArrayElement
<1>5. result = Null /\ top.at = "top" /\ stack # <<>> /\ Looking(c)
  BY <1>1, <1>3, AtFacts
<1>6. Streaming' /\ Looking(d)'
  BY <1>3, <1>4, <1>5, AgainKnown DEF Reading, kept
<1>7. Reading'
  BY <1>2, <1>3, <1>4, <1>5, <1>6, CallingValue DEF ListPlaces
<1> QED
  BY <1>3, <1>7 DEF Parsed, kept

LEMMA ObjectColonOK == ASSUME Reading, ObjectColon PROVE Parsed
<1>1. PICK f : f = [top EXCEPT !.at = "element"]
  OBVIOUS
<1>2. At("colon") /\ UNCHANGED <<kept, result>>
  BY DEF ObjectColon
<1>3. PICK d : GetNextChar(d) /\ CallValue(Replaced(f), d)
  BY <1>1 DEF ObjectColon
<1>4. result = Null /\ top.at = "colon" /\ stack # <<>> /\ Here
  BY <1>2, AtFacts
<1>5. Streaming' /\ Looking(d)'
  BY <1>2, <1>3, <1>4, NextKnown DEF Reading, kept
<1>6. Reading'
  BY <1>1, <1>2, <1>3, <1>4, <1>5, CallingValue DEF ListPlaces
<1> QED
  BY <1>2, <1>6 DEF Parsed, kept

LEMMA ObjectNameOK == ASSUME Reading, ObjectName PROVE Parsed
<1>1. PICK f : f = [top EXCEPT !.at = "name"]
  OBVIOUS
<1>2. PICK g : g = [at |-> "string", v |-> top.next, field |-> "name", c |-> 0]
  OBVIOUS
<1>3. PICK s : s = Append(Front(stack), f)
  OBVIOUS
<1>4. At("top") /\ CallGetting(s, g) /\ UNCHANGED <<kept, heap, result>>
  BY <1>1, <1>2, <1>3 DEF ObjectName, Replaced
<1>5. /\ result = Null /\ top.at = "top" /\ IsFrame(top) /\ Here
      /\ Stacked(Front(stack)) /\ Fits(Front(stack), top)
      /\ next_value \in Nat /\ PoolOK(storage)
  BY <1>4, AtFacts DEF Reading
<1>6. IsFrame(f) /\ f.at = "name" /\ Fits(Front(stack), f)
  BY <1>1, <1>5 DEF IsFrame, Fits, IsName, StringPlaces, ListPlaces
<1>7. Stacked(s) /\ s # <<>> /\ Last(s) = f
  BY <1>3, <1>5, <1>6, Pushed
<1>8. IsFrame(g) /\ g.at = "string" /\ Fits(s, g)
  BY <1>2, <1>5, <1>6, <1>7 DEF IsFrame, Fits, IsName, StringPlaces, ListPlaces
<1>9. PICK c \in Arriving : GetNextChar(c) /\ stack' = Append(s, [g EXCEPT !.c = c])
  BY <1>4 DEF CallGetting
<1>10. Reading'
  BY <1>4, <1>5, <1>7, <1>8, <1>9, RunningNext DEF Reading, kept, heap
<1> QED
  BY <1>4, <1>10 DEF Parsed, kept

LEMMA ElementOK == ASSUME Reading, Element PROVE Parsed
<1>1. PICK f : f = [top EXCEPT !.at = "after", !.prev = top.next, !.next = next_value]
  OBVIOUS
<1>2. /\ result # Null /\ stack # <<>> /\ Room(1)
      /\ storage' = Linked(top) /\ next_value' = next_value + 1 /\ result' = Null
      /\ Getting(f) /\ UNCHANGED kept
  BY <1>1 DEF Element
<1>3. /\ IsFrame(top) /\ top.at = "element"
      /\ next_value \in Nat /\ PoolOK(storage) /\ result \in Values
  BY <1>2, TopFrame DEF Reading
<1>4. next_value \in Values
  BY <1>2, <1>3 DEF Room, Values
<1>5. IsFrame(f) /\ f.at = "after" /\ ~IsName(f) /\ ~IsName(top)
  BY <1>1, <1>3, <1>4 DEF IsFrame, IsName, StringPlaces, ListPlaces
<1>6. PoolOK(storage')
  BY <1>2, <1>3 DEF PoolOK, Linked
<1>7. next_value' \in Nat
  BY <1>2, <1>3
<1>8. Reading'
  BY <1>2, <1>3, <1>5, <1>6, <1>7, GoesOn DEF kept
<1> QED
  BY <1>2, <1>8 DEF Parsed, kept

LEMMA ListAfterOK == ASSUME Reading, ListAfter PROVE Parsed
<1>1. PICK f : f = [top EXCEPT !.at = "top"]
  OBVIOUS
<1>2. At("after") /\ UNCHANGED <<kept, heap, result>>
  BY DEF ListAfter
<1>3. /\ result = Null /\ top.at = "after" /\ IsFrame(top) /\ Looking(top.c)
      /\ Stacked(Front(stack)) /\ Fits(Front(stack), top)
      /\ next_value \in Nat /\ PoolOK(storage)
  BY <1>2, AtFacts DEF Reading
<1>4. IsFrame(f) /\ f.at = "top" /\ f.c = top.c /\ Fits(Front(stack), f)
  BY <1>1, <1>3 DEF IsFrame, Fits, IsName, StringPlaces, ListPlaces
<1>5. CASE top.c = ARGO_COMMA
  <2>1. Getting(f)
    BY <1>1, <1>5 DEF ListAfter
  <2> QED
    BY <1>2, <1>4, <2>1, ListGoesOn DEF ListPlaces
<1>6. CASE top.c # ARGO_COMMA
  <2>1. stack' = Append(Front(stack), f) /\ UNCHANGED <<stream, pos>>
    BY <1>1, <1>6 DEF ListAfter, Replaced
  <2>2. Looking(f.c)
    BY <1>3, <1>4
  <2>3. Streaming' /\ Looking(f.c)'
    BY <1>2, <2>1, <2>2, SamePosition DEF Reading, kept
  <2>4. Reading'
    BY <1>2, <1>3, <1>4, <2>1, <2>3, Running DEF kept, heap
  <2> QED
    BY <1>2, <2>4 DEF Parsed, kept
<1> QED
  BY <1>5, <1>6

(* Every step of the parser and of the writer.                             *)
LEMMA ParserStep ==
    ASSUME Reading, pc = "reading", Next
    PROVE  Parsed
<1>1. ASSUME ValueError PROVE Parsed
  BY <1>1, FailOK DEF ValueError
<1>2. ASSUME NumberFails PROVE Parsed
  BY <1>2, FailOK DEF NumberFails
<1>3. ASSUME LiteralFails PROVE Parsed
  BY <1>3, FailOK DEF LiteralFails
<1>4. ASSUME StringFails PROVE Parsed
  BY <1>4, FailOK DEF StringFails
<1>5. ASSUME ObjectError PROVE Parsed
  BY <1>5, FailOK DEF ObjectError
<1>6. ASSUME Abort PROVE Parsed
  BY <1>6 DEF Abort, Parsed
<1>7. ASSUME Write PROVE Parsed
  BY <1>7 DEF Write, Exit, Parsed
<1>8. ~Start /\ ~Again
  BY DEF Start, Again
<1> QED
  BY <1>1, <1>2, <1>3, <1>4, <1>5, <1>6, <1>7, <1>8, ValueSpaceOK, ValueNumberOK,
     ValueStringOK, ValueLiteralOK, ValueListOK, NumberCharOK, NumberEndOK, LiteralCharOK,
     StringCharOK, StringEscapeOK, StringHexOK, StringEndOK, ListSpaceOK, ListEndOK,
     ArrayElementOK, ObjectNameOK, ObjectColonOK, ElementOK, ListAfterOK
  DEF Next

(* argo_read_value on the first character of the input.                    *)
LEMMA StartOK ==
    ASSUME Unread, Start
    PROVE  (Reading' /\ pc' = "reading") \/ pc' = "exit"
<1>1. CASE \E code : Exit(code)
  BY <1>1 DEF Exit
<1>2. CASE ~ \E code : Exit(code)
  <2>1. PICK c : GetNextChar(c) /\ CallValue(<<>>, c) /\ pc' = "reading" /\ UNCHANGED <<run, first, result>>
    BY <1>2 DEF Start
  <2>2. Streaming' /\ Looking(c)'
    BY <2>1, NextKnown DEF Unread, Sharp, Here
  <2>3. PICK f : f = [at |-> "value", v |-> next_value, c |-> c]
    OBVIOUS
  <2>4. /\ Room(1) /\ next_value' = next_value + 1 /\ stack' = Append(<<>>, f)
        /\ storage' = storage
    BY <2>1, <2>3 DEF CallValue
  <2>5. next_value \in Values /\ next_value' \in Nat
    BY <2>4 DEF Room, Values, Unread
  <2>6. IsFrame(f) /\ Fits(<<>>, f) /\ f.c = c /\ f.at = "value"
    BY <2>3, <2>5 DEF IsFrame, Fits, StringPlaces, ListPlaces
  <2>7. Stacked(<<>>)
    BY EmptySeq DEF Stacked
  <2>8. PoolOK(storage') /\ result' = Null /\ Looking(f.c)'
    BY <2>1, <2>2, <2>4, <2>6 DEF Unread
  <2>9. Reading'
    BY <2>2, <2>4, <2>5, <2>6, <2>7, <2>8, Running
  <2> QED
    BY <2>1, <2>9
<1> QED
  BY <1>1, <1>2

LEMMA FreshPool == PoolOK([i \in Values |-> Fresh])
<1>1. DOMAIN Fresh = Members
  BY DEF Fresh, Members
<1> QED
  BY <1>1 DEF PoolOK

LEMMA ParsingInit == Init => Parsing
<1> SUFFICES ASSUME Init
             PROVE  Unread /\ run \in ArgoRuns
  BY DEF Init, Parsing
<1>1. run \in ArgoRuns /\ stdin = run.prefix /\ more = run.more /\ first = NoText
  BY DEF Init
<1>2. stdin \in Seq(Int) /\ more \in Nat
  BY <1>1, RunsAssumption
<1>3. ASSUME Known
      PROVE  stdin \in Seq(Int \ {EOF})
  <2>1. DOMAIN stdin = 1..Len(stdin)
    BY <1>2
  <2>2. \A i \in 1..Len(stdin) : stdin[i] \in Int \ {EOF}
    BY <1>1, <1>2, <1>3, <2>1, ElementOfSeq DEF Known, NoByte255, ToSet
  <2> QED
    BY <1>2, <2>2
<1>4. input = <<>> /\ input \in Seq(Int) /\ pos = [lines |-> 0, chars |-> 0, prev |-> 0]
  BY DEF Init
<1>5. Newlines(input) = {} /\ Len(input) = 0
  BY <1>4 DEF Newlines
<1>6. Exact
  BY <1>4, <1>5, FS_EmptySet DEF Exact, Column
<1>7. PoolOK(storage)
  BY FreshPool DEF Init
<1> QED
  BY <1>1, <1>2, <1>3, <1>4, <1>6, <1>7 DEF Init, Unread, Streaming, StreamOK, Sharp

(* Only another process has another input.                                 *)
LEMMA SameProcess ==
    ASSUME Next
    PROVE  run' = run /\ (first' = first \/ Again)
BY DEF Next, Start, ValueSpace, ValueNumber, ValueString, ValueLiteral, ValueList, ValueError,
       NumberChar, NumberEnd, NumberFails, LiteralChar, LiteralFails, StringChar, StringEscape,
       StringHex, StringFails, StringEnd, ListSpace, ListEnd, ArrayElement, ObjectName,
       ObjectColon, ObjectError, Element, ListAfter, Abort, Write, Again, Exit, Fail, kept

(* Only Start and Again are not steps of the parser or the writer.         *)
LEMMA ReadingSteps ==
    ASSUME Next
    PROVE  pc = "reading" \/ (pc = "validargs" /\ Start) \/ Again
BY DEF Next, Start, ValueSpace, ValueNumber, ValueString, ValueLiteral, ValueList,
       ValueError, NumberChar, NumberEnd, NumberFails, LiteralChar, LiteralFails, StringChar,
       StringEscape, StringHex, StringFails, StringEnd, ListSpace, ListEnd, ArrayElement,
       ObjectName, ObjectColon, ObjectError, Element, ListAfter, Abort, Write, At

LEMMA ParsingStep ==
    ASSUME Parsing, [Next]_vars
    PROVE  Parsing'
<1>1. CASE UNCHANGED vars
  <2>1. UNCHANGED <<pc, run, first, stream, stdin, more, input, pos, storage, next_value, stack, result>>
    BY <1>1 DEF vars, stream, heap
  <2>2. Known' = Known /\ Past' = Past
    BY <2>1 DEF Known, NoByte255, Past, Beyond
  <2>3. top' = top
    BY <2>1 DEF top
  <2>4. Looking(top.c)' = Looking(top.c)
    BY <2>1, <2>3 DEF Looking, Known, NoByte255, Position, Exact, AtEnd
  <2> QED
    BY <2>1, <2>2, <2>3, <2>4, SamePosition DEF Parsing, Unread, Reading
<1>2. CASE Next /\ Again
  <2>1. first' # NoText
    BY <1>2 DEF Again, Printed, NoText
  <2>2. ~Known'
    BY <2>1 DEF Known
  <2>3. run' = run /\ run \in ArgoRuns
    BY <1>2, SameProcess DEF Parsing
  <2>4. PoolOK(storage')
    BY <1>2, FreshPool DEF Again
  <2>5. pc' = "validargs" /\ next_value' \in Nat /\ stack' = <<>> /\ result' = Null
    BY <1>2 DEF Again
  <2> QED
    BY <2>2, <2>3, <2>4, <2>5 DEF Parsing, Unread, Streaming, Sharp
<1>3. CASE Next /\ ~Again
  <2>1. run' = run /\ run \in ArgoRuns
    BY <1>3, SameProcess DEF Parsing
  <2>2. CASE pc = "reading"
    BY <1>3, <2>1, <2>2, ParserStep DEF Parsing, Parsed
  <2>3. CASE pc = "validargs" /\ Start
    BY <2>1, <2>3, StartOK DEF Parsing
  <2> QED
    BY <1>3, <2>2, <2>3, ReadingSteps
<1> QED
  BY <1>1, <1>2, <1>3

(* The counters always name the position of the last character that was    *)
(* read and not pushed back: argo_get_prev_char undoes what                *)
(* argo_get_next_char did, in whatever order the parser calls them, for    *)
(* any input without the byte 255 and any size of the pool.  (A second     *)
(* process, which reads what this one printed, is left to TLC: that what   *)
(* the writer prints is a sequence of characters is an induction.)         *)
THEOREM PositionsAreExact == Spec => [](first = NoText => PositionsExact)
<1>1. Init => Parsing
  BY ParsingInit
<1>2. Parsing /\ [Next]_vars => Parsing'
  BY ParsingStep
<1>3. Parsing => (first = NoText => PositionsExact)
  BY DEF Parsing, Reading, Known, Looking, Position, Sharp, Exact, PositionsExact
<1> QED
  BY <1>1, <1>2, <1>3, PTL DEF Spec

-----------------------------------------------------------------------------
(* Rings. *)

InRing(m) == {i \in Values : m[i].next # Null}

Heads(m) == {i \in InRing(m) : m[i].type = "none"}

(* The links are inverse to each other, lead to a greater value until they *)
(* come back to a head, and stay in the ring of one head.                  *)
Rings(m) ==
  /\ \A i \in InRing(m) : /\ m[i].next \in InRing(m) /\ m[m[i].next].prev = i
                          /\ m[i].prev \in InRing(m) /\ m[m[i].prev].next = i
  /\ \A i \in InRing(m) : m[i].next \notin Heads(m) => i < m[i].next
  /\ \E owner \in [Values -> Values] :
       \A i \in InRing(m) : /\ owner[m[i].next] = owner[i]
                            /\ i \in Heads(m) => owner[i] = i

LEMMA GreatestValue ==
    ASSUME NEW T \in SUBSET Values, T # {}
    PROVE  \E x \in T : \A y \in T : y <= x
<1> DEFINE U == {k \in Nat : NumValues - k \in T}
<1>1. \A y \in T : y \in Nat /\ NumValues - y \in Nat /\ NumValues - (NumValues - y) = y
  BY DEF Values
<1>2. U \in SUBSET Nat /\ U # {}
  <2>1. PICK y \in T : TRUE
    OBVIOUS
  <2>2. NumValues - y \in U
    BY <1>1
  <2> QED
    BY <2>2
<1>3. PICK k \in U : \A j \in U : k <= j
  <2> HIDE DEF U
  <2> QED
    BY <1>2, LeastNatural
<1>4. ASSUME NEW y \in T
      PROVE  y <= NumValues - k
  <2>1. NumValues - y \in U
    BY <1>1, <1>4
  <2>2. k <= NumValues - y /\ k \in Nat
    BY <1>3, <2>1
  <2> QED
    BY <1>1, <1>4, <2>2
<1> QED
  BY <1>3, <1>4

(* The elements of t are those of s from the second on.                    *)
Shifted(s, t) == \A k \in 1..Len(t) : s[k + 1] = t[k]

(* The recursion of ElementsFrom ends, as the links only go up.            *)
LEMMA ElementsComputed ==
    ASSUME Rings(storage)
    PROVE  /\ ElementsFrom \in [Values -> Seq(Values)]
           /\ \A i \in Values :
                ElementsFrom[i] =
                  IF storage[i].next = Null \/ storage[storage[i].next].type = "none" THEN <<>>
                  ELSE Cons(storage[i].next, ElementsFrom[storage[i].next])
<1> DEFINE V == Seq(Values)
           ends(i) == storage[i].next = Null \/ storage[storage[i].next].type = "none"
           below == [i \in Values |-> IF ends(i) THEN {} ELSE {storage[i].next}]
           D == [f \in [Values -> V] |->
                  [i \in Values |-> IF ends(i) THEN <<>> ELSE <<storage[i].next>> \o f[storage[i].next]]]
<1>1. ASSUME NEW i \in Values, ~ends(i)
      PROVE  storage[i].next \in Values /\ i < storage[i].next
  <2>1. i \in InRing(storage) /\ storage[i].next \notin Heads(storage)
    BY <1>1 DEF InRing, Heads
  <2> QED
    BY <2>1 DEF Rings, InRing
<1> HIDE DEF ends
<1>2. Founded(Values, below)
  <2>1. below \in [Values -> SUBSET Values]
    BY <1>1
  <2>2. ASSUME NEW T \in SUBSET Values, T # {}
        PROVE  \E x \in T : below[x] \cap T = {}
    <3>1. PICK x \in T : \A y \in T : y <= x
      BY <2>2, GreatestValue
    <3>2. \A y \in below[x] : x < y /\ y \in Values
      BY <1>1
    <3>3. ASSUME NEW y \in below[x] \cap T
          PROVE  FALSE
      <4> HIDE DEF below
      <4>1. x < y /\ y <= x /\ x \in Values /\ y \in Values
        BY <3>1, <3>2, <3>3
      <4> QED
        BY <4>1 DEF Values
    <3> QED
      BY <3>3
  <2> QED
    BY <2>1, <2>2 DEF Founded
<1>3. <<>> \in V
  BY EmptySeq
<1>4. D \in [[Values -> V] -> [Values -> V]]
  <2> SUFFICES ASSUME NEW f \in [Values -> V], NEW i \in Values, ~ends(i)
               PROVE  <<storage[i].next>> \o f[storage[i].next] \in V
    BY <1>3
  <2>1. storage[i].next \in Values
    BY <1>1
  <2>2. <<storage[i].next>> \in Seq(Values) /\ f[storage[i].next] \in Seq(Values)
    BY <2>1
  <2> QED
    BY <2>2, ConcatProperties
<1>5. Local(Values, V, below, D)
  <2>1. ASSUME NEW f \in [Values -> V], NEW g \in [Values -> V], NEW i \in Values,
               \A j \in below[i] : f[j] = g[j]
        PROVE  D[f][i] = D[g][i]
    BY <2>1
  <2> QED
    BY <1>4, <2>1 DEF Local
<1>6. PICK f \in [Values -> V] : f = D[f]
  <2> HIDE DEF V, below, D
  <2> QED
    BY <1>2, <1>3, <1>5, RecursiveFunctionExists
<1>7. f = [i \in Values |-> IF ends(i) THEN <<>> ELSE <<storage[i].next>> \o f[storage[i].next]]
  BY <1>6
<1> DEFINE g == CHOOSE g : g = [i \in Values |-> IF ends(i) THEN <<>>
                                                 ELSE <<storage[i].next>> \o g[storage[i].next]]
<1>8. g = [i \in Values |-> IF ends(i) THEN <<>> ELSE <<storage[i].next>> \o g[storage[i].next]]
  BY <1>7
<1>9. ElementsFrom = g
  BY DEF ElementsFrom, ends
<1> HIDE DEF g
<1>10. \A i \in Values : g[i] = IF ends(i) THEN <<>> ELSE <<storage[i].next>> \o g[storage[i].next]
  BY <1>8
<1>11. ASSUME {i \in Values : g[i] \notin V} # {}
       PROVE  FALSE
  <2>1. PICK i \in {i \in Values : g[i] \notin V} :
          below[i] \cap {j \in Values : g[j] \notin V} = {}
    <3> DEFINE T == {j \in Values : g[j] \notin V}
    <3>1. T \in SUBSET Values /\ T # {}
      BY <1>11
    <3> HIDE DEF T, below
    <3>2. \E x \in T : below[x] \cap T = {}
      BY <1>2, <3>1 DEF Founded
    <3> QED
      BY <3>2 DEF T
  <2>2. CASE ends(i)
    BY <1>3, <1>10, <2>1, <2>2
  <2>3. CASE ~ends(i)
    <3>1. storage[i].next \in Values /\ g[storage[i].next] \in V
      BY <1>1, <2>1, <2>3
    <3>2. <<storage[i].next>> \in Seq(Values)
      BY <3>1
    <3>3. <<storage[i].next>> \o g[storage[i].next] \in V
      BY <3>1, <3>2, ConcatProperties
    <3> QED
      BY <1>10, <2>1, <2>3, <3>3
  <2> QED
    BY <2>2, <2>3
<1>12. g \in [Values -> V]
  BY <1>8, <1>11
<1> QED
  BY <1>9, <1>10, <1>12 DEF ends, Cons

LEMMA OneBefore ==
    ASSUME NEW n \in Values, NEW t \in Seq(Values), NEW s, s = Cons(n, t)
    PROVE  /\ s \in Seq(Values) /\ s # <<>> /\ Len(s) = Len(t) + 1 /\ Len(t) \in Nat
           /\ s[1] = n /\ Shifted(s, t)
           /\ Last(s) = IF t = <<>> THEN n ELSE Last(t)
           /\ ToSet(s) = {n} \cup ToSet(t)
<1>1. <<n>> \in Seq(Values) /\ Len(<<n>>) = 1 /\ <<n>>[1] = n
  OBVIOUS
<1>2. /\ s \in Seq(Values) /\ Len(s) = 1 + Len(t)
      /\ \A i \in 1..(1 + Len(t)) : s[i] = IF i <= 1 THEN <<n>>[i] ELSE t[i - 1]
  BY <1>1, ConcatProperties DEF Cons
<1>3. Len(t) \in Nat
  OBVIOUS
<1>4. s[1] = n
  BY <1>1, <1>2, <1>3
<1>5. \A k \in 1..Len(t) : s[k + 1] = t[k]
  <2> SUFFICES ASSUME NEW k \in 1..Len(t)
               PROVE  s[k + 1] = t[k]
    OBVIOUS
  <2>1. k + 1 \in 1..(1 + Len(t)) /\ ~(k + 1 <= 1) /\ (k + 1) - 1 = k
    BY <1>3
  <2> QED
    BY <1>2, <2>1
<1>6. s # <<>>
  BY <1>2, <1>3, EmptySeq
<1>7. Last(s) = IF t = <<>> THEN n ELSE Last(t)
  <2>1. CASE t = <<>>
    BY <1>2, <1>4, <2>1, EmptySeq DEF Last
  <2>2. CASE t # <<>>
    <3>1. Len(t) \in 1..Len(t)
      BY <2>2, EmptySeq
    <3> QED
      BY <1>2, <1>5, <2>2, <3>1 DEF Last
  <2> QED
    BY <2>1, <2>2
<1>8. DOMAIN s = 1..(Len(t) + 1) /\ DOMAIN t = 1..Len(t)
  BY <1>2, <1>3
<1>9. ToSet(s) \subseteq {n} \cup ToSet(t)
  <2> SUFFICES ASSUME NEW k \in 1..(Len(t) + 1), k # 1
               PROVE  s[k] \in ToSet(t)
    BY <1>4, <1>8 DEF ToSet
  <2>1. k - 1 \in 1..Len(t) /\ (k - 1) + 1 = k
    BY <1>3
  <2> QED
    BY <1>5, <1>8, <2>1 DEF ToSet
<1>10. {n} \cup ToSet(t) \subseteq ToSet(s)
  <2>1. 1 \in DOMAIN s /\ \A k \in DOMAIN t : k + 1 \in DOMAIN s /\ s[k + 1] = t[k]
    BY <1>3, <1>5, <1>8
  <2> QED
    BY <1>4, <2>1 DEF ToSet
<1> QED
  BY <1>2, <1>3, <1>4, <1>5, <1>6, <1>7, <1>9, <1>10 DEF Shifted

(* The last value of the ring, from x on.                                  *)
End(x) == IF ElementsFrom[x] = <<>> THEN x ELSE Last(ElementsFrom[x])

Ended(owner, x) ==
  /\ End(x) \in InRing(storage) /\ storage[End(x)].next \in Heads(storage)
  /\ owner[End(x)] = owner[x]

Upwards(x) ==
  LET e == ElementsFrom[x]
  IN /\ e # <<>> => e[1] = storage[x].next
     /\ \A k \in 2..Len(e) : e[k - 1] < e[k]
     /\ \A p \in ToSet(e) : /\ p \in InRing(storage)
                            /\ storage[p].next \notin Heads(storage) => storage[p].next \in ToSet(e)

(* The elements after x are those of the ring, in order, up to its head.   *)
LEMMA ElementsOfRing ==
    ASSUME Rings(storage), NEW owner \in [Values -> Values],
           \A i \in InRing(storage) : owner[storage[i].next] = owner[i]
    PROVE  \A x \in InRing(storage) : Ended(owner, x) /\ Upwards(x)
<1> DEFINE T == {x \in InRing(storage) : ~(Ended(owner, x) /\ Upwards(x))}
<1> SUFFICES ASSUME T # {} PROVE FALSE
  OBVIOUS
<1>1. T \in SUBSET Values
  BY DEF InRing
<1>2. PICK x \in T : \A y \in T : y <= x
  <2> HIDE DEF T
  <2> QED
    BY <1>1, GreatestValue
<1>3. PICK n : n = storage[x].next
  OBVIOUS
<1>4. /\ x \in InRing(storage) /\ x \in Values /\ n \in InRing(storage) /\ n \in Values /\ n # Null
      /\ owner[n] = owner[x]
  BY <1>2, <1>3 DEF Rings, InRing, Null, Values
<1>5. CASE n \in Heads(storage)
  <2>1. ElementsFrom[x] = <<>>
    BY <1>3, <1>4, <1>5, ElementsComputed DEF Heads
  <2>2. Ended(owner, x)
    BY <1>3, <1>4, <1>5, <2>1 DEF Ended, End
  <2>3. Upwards(x)
    BY <2>1, EmptySeq DEF Upwards, ToSet
  <2> QED
    BY <1>2, <2>2, <2>3
<1>6. CASE n \notin Heads(storage)
  <2>1. PICK t \in Seq(Values) : t = ElementsFrom[n]
    BY <1>4, ElementsComputed
  <2>2. PICK s : s = Cons(n, t)
    OBVIOUS
  <2>3. ElementsFrom[x] = s
    BY <1>3, <1>4, <1>6, <2>1, <2>2, ElementsComputed DEF Heads
  <2>4. x < n
    BY <1>3, <1>4, <1>6 DEF Rings
  <2>5. n \notin T
    BY <1>2, <1>4, <2>4 DEF Values
  <2>6. Ended(owner, n) /\ Upwards(n)
    BY <1>4, <2>5
  <2>7. /\ s \in Seq(Values) /\ s # <<>> /\ Len(s) = Len(t) + 1 /\ Len(t) \in Nat
        /\ s[1] = n /\ Shifted(s, t)
        /\ Last(s) = IF t = <<>> THEN n ELSE Last(t)
        /\ ToSet(s) = {n} \cup ToSet(t)
    <3>1. n \in Values
      BY <1>4
    <3> HIDE DEF T
    <3> QED
      BY <2>2, <3>1, OneBefore
  <2>8. Ended(owner, x)
    <3>1. End(x) = End(n)
      BY <2>1, <2>3, <2>7 DEF End
    <3> QED
      BY <1>4, <2>6, <3>1 DEF Ended
  <2>9. t # <<>> => t[1] = storage[n].next
    BY <2>1, <2>6 DEF Upwards
  <2>10. t # <<>> => n < t[1]
    <3> SUFFICES ASSUME t # <<>>
                 PROVE  n < t[1]
      OBVIOUS
    <3>1. storage[n].next \notin Heads(storage)
      BY <1>4, <2>1, ElementsComputed DEF Heads
    <3> QED
      BY <1>4, <2>9, <3>1 DEF Rings
  <2>11. ASSUME NEW k \in 2..Len(s)
         PROVE  s[k - 1] < s[k]
    <3>1. CASE k = 2
      <4>1. 1 \in 1..Len(t) /\ t # <<>>
        BY <2>7, <3>1, EmptySeq
      <4>2. s[2] = t[1]
        BY <2>7, <4>1 DEF Shifted
      <4> QED
        BY <2>7, <2>10, <3>1, <4>1, <4>2
    <3>2. CASE k # 2
      <4>1. /\ k - 1 \in 2..Len(t) /\ k - 2 \in 1..Len(t) /\ k - 1 \in 1..Len(t)
            /\ (k - 2) + 1 = k - 1 /\ (k - 1) + 1 = k /\ (k - 1) - 1 = k - 2
        BY <2>7, <3>2
      <4>2. s[k - 1] = t[k - 2] /\ s[k] = t[k - 1]
        BY <2>7, <4>1 DEF Shifted
      <4>3. t[k - 2] < t[k - 1]
        BY <2>1, <2>6, <4>1 DEF Upwards
      <4> QED
        BY <4>2, <4>3
    <3> QED
      BY <3>1, <3>2
  <2>12. ASSUME NEW p \in ToSet(s)
         PROVE  /\ p \in InRing(storage)
                /\ storage[p].next \notin Heads(storage) => storage[p].next \in ToSet(s)
    <3>1. CASE p = n
      <4>1. ASSUME storage[n].next \notin Heads(storage)
            PROVE  storage[n].next \in ToSet(t)
        <5>1. storage[n].next \in InRing(storage)
          BY <1>4 DEF Rings
        <5>2. storage[n].next # Null /\ storage[storage[n].next].type # "none"
          BY SMTT(60), <4>1, <5>1 DEF Heads, InRing, Null, Values
        <5>3. t = Cons(storage[n].next, ElementsFrom[storage[n].next])
          BY <1>4, <2>1, <5>2, ElementsComputed
        <5>4. PICK r \in Values : r = storage[n].next
          BY <5>1 DEF InRing
        <5>5. PICK u \in Seq(Values) : u = ElementsFrom[r]
          BY ElementsComputed
        <5>6. t = Cons(r, u)
          BY <5>3, <5>4, <5>5
        <5>7. r \in ToSet(t)
          BY <5>6, OneBefore
        <5> QED
          BY <5>4, <5>7
      <4> QED
        BY <1>4, <2>7, <3>1, <4>1
    <3>2. CASE p # n
      BY <2>1, <2>6, <2>7, <2>12, <3>2 DEF Upwards
    <3> QED
      BY <3>1, <3>2
  <2>13. Upwards(x)
    BY <1>3, <2>3, <2>7, <2>11, <2>12 DEF Upwards
  <2> QED
    BY <1>2, <2>8, <2>13
<1> QED
  BY <1>5, <1>6

LEMMA RingsSound ==
    ASSUME Rings(storage)
    PROVE  ListsSound
<1>1. PICK owner \in [Values -> Values] :
        \A i \in InRing(storage) : /\ owner[storage[i].next] = owner[i]
                                   /\ i \in Heads(storage) => owner[i] = i
  BY DEF Rings
<1>2. \A x \in InRing(storage) : Ended(owner, x) /\ Upwards(x)
  BY <1>1, ElementsOfRing
<1>3. \A i \in InRing(storage) :
        /\ storage[i].next \in InRing(storage) /\ storage[storage[i].next].prev = i
        /\ storage[i].prev \in InRing(storage) /\ storage[storage[i].prev].next = i
        /\ storage[i].next \notin Heads(storage) => i < storage[i].next
  BY DEF Rings
<1>4. ASSUME NEW i \in InRing(storage) \ Heads(storage),
             \A h \in Heads(storage) : i \notin ToSet(ElementsFrom[h])
      PROVE  FALSE
  <2> DEFINE T == {j \in InRing(storage) \ Heads(storage) :
                     \A h \in Heads(storage) : j \notin ToSet(ElementsFrom[h])}
  <2>1. T \in SUBSET Nat /\ T # {}
    BY SMTT(60), <1>4 DEF InRing, Values
  <2>2. PICK j \in T : \A y \in T : j <= y
    <3> HIDE DEF T
    <3> QED
      BY <2>1, LeastNatural
  <2>3. PICK p : p = storage[j].prev
    OBVIOUS
  <2>4. p \in InRing(storage) /\ storage[p].next = j /\ p < j /\ j \in Nat /\ p \in Nat
    <3>1. j \in InRing(storage) /\ j \notin Heads(storage)
      BY <2>2
    <3>2. p \in InRing(storage) /\ storage[p].next = j
      BY <1>3, <2>3, <3>1
    <3>3. p < j
      BY <1>3, <3>1, <3>2
    <3>4. InRing(storage) \subseteq Nat
      BY DEF InRing, Values
    <3> QED
      BY <3>1, <3>2, <3>3, <3>4
  <2>5. CASE p \in Heads(storage)
    <3>1. j \in Values /\ j # Null /\ storage[j].type # "none" /\ p \in Values
      BY <2>2, <2>4 DEF InRing, Heads, Values, Null
    <3>2. PICK u \in Seq(Values) : u = ElementsFrom[j]
      BY <3>1, ElementsComputed
    <3>3. PICK s : s = ElementsFrom[p]
      OBVIOUS
    <3>4. s = Cons(j, u)
      BY <2>4, <3>1, <3>2, <3>3, ElementsComputed
    <3>5. j \in ToSet(s)
      BY <3>1, <3>4, OneBefore
    <3> QED
      BY <2>2, <2>5, <3>3, <3>5
  <2>6. CASE p \notin Heads(storage)
    <3>1. p \notin T
      BY <2>2, <2>4
    <3>2. PICK h \in Heads(storage) : p \in ToSet(ElementsFrom[h])
      BY <2>4, <2>6, <3>1
    <3>3. h \in InRing(storage)
      BY DEF Heads
    <3>4. j \in ToSet(ElementsFrom[h])
      BY <1>2, <2>2, <2>4, <3>2, <3>3 DEF Upwards
    <3> QED
      BY <2>2, <3>4
  <2> QED
    BY <2>5, <2>6
<1>5. ASSUME NEW h \in Heads(storage)
      PROVE  /\ storage[h].prev = End(h)
             /\ \A k \in 2..Len(ElementsFrom[h]) : ElementsFrom[h][k - 1] < ElementsFrom[h][k]
  <2>1. h \in InRing(storage)
    BY DEF Heads
  <2>2. PICK g : g = storage[End(h)].next
    OBVIOUS
  <2>3. /\ End(h) \in InRing(storage) /\ g \in Heads(storage)
        /\ owner[End(h)] = owner[h] /\ owner[g] = owner[End(h)] /\ storage[g].prev = End(h)
    BY <1>1, <1>2, <1>3, <2>1, <2>2 DEF Ended
  <2>4. g \in InRing(storage)
    BY <2>3 DEF Heads
  <2>5. owner[g] = g /\ owner[h] = h
    BY <1>1, <2>1, <2>3, <2>4
  <2>6. g = h
    BY <2>3, <2>5
  <2> QED
    BY <1>2, <2>1, <2>3, <2>6 DEF Upwards
<1> QED
  BY <1>3, <1>4, <1>5 DEF ListsSound, InRing, Heads, End

(* What is not a link or the type of a value may change.                   *)
Alike(m, q) ==
  \A i \in Values : /\ q[i].next = m[i].next /\ q[i].prev = m[i].prev
                    /\ i \in InRing(m) => (q[i].type = "none" <=> m[i].type = "none")

LEMMA SameRings ==
    ASSUME NEW m, NEW q, Alike(m, q)
    PROVE  /\ InRing(q) = InRing(m) /\ Heads(q) = Heads(m)
           /\ Rings(m) => Rings(q)
<1>1. InRing(q) = InRing(m)
  BY DEF Alike, InRing
<1>2. Heads(q) = Heads(m)
  BY <1>1 DEF Alike, Heads, InRing
<1>3. \A i \in Values : q[i].next = m[i].next /\ q[i].prev = m[i].prev
  BY DEF Alike
<1>4. InRing(m) \subseteq Values
  BY DEF InRing
<1> QED
  BY <1>1, <1>2, <1>3, <1>4 DEF Rings

(* A new ring, of the head h alone.                                        *)
LEMMA NewHead ==
    ASSUME NEW m, NEW q, NEW h \in Values, Rings(m), h \notin InRing(m),
           q[h].next = h, q[h].prev = h, q[h].type = "none",
           \A i \in Values \ {h} : q[i].next = m[i].next /\ q[i].prev = m[i].prev /\ q[i].type = m[i].type
    PROVE  Rings(q) /\ InRing(q) = InRing(m) \cup {h} /\ Heads(q) = Heads(m) \cup {h}
<1>1. h # Null
  BY DEF Values, Null
<1>2. InRing(q) = InRing(m) \cup {h}
  BY <1>1 DEF InRing
<1>3. Heads(q) = Heads(m) \cup {h}
  BY <1>2 DEF Heads, InRing
<1>4. \A i \in InRing(m) : i \in Values /\ i # h
  BY DEF InRing
<1>5. ASSUME NEW i \in InRing(q)
      PROVE  /\ q[i].next \in InRing(q) /\ q[q[i].next].prev = i
             /\ q[i].prev \in InRing(q) /\ q[q[i].prev].next = i
             /\ q[i].next \notin Heads(q) => i < q[i].next
  <2>1. CASE i = h
    BY <1>2, <1>3, <2>1
  <2>2. CASE i # h
    <3>1. i \in InRing(m)
      BY <1>2, <2>2
    <3>2. /\ m[i].next \in InRing(m) /\ m[m[i].next].prev = i
          /\ m[i].prev \in InRing(m) /\ m[m[i].prev].next = i
          /\ m[i].next \notin Heads(m) => i < m[i].next
      BY <3>1 DEF Rings
    <3>3. q[i].next = m[i].next /\ q[i].prev = m[i].prev
      BY <1>4, <3>1
    <3> QED
      BY <1>2, <1>3, <1>4, <3>2, <3>3
  <2> QED
    BY <2>1, <2>2
<1>6. PICK owner \in [Values -> Values] :
        \A i \in InRing(m) : /\ owner[m[i].next] = owner[i]
                             /\ i \in Heads(m) => owner[i] = i
  BY DEF Rings
<1>7. PICK o : o = [owner EXCEPT ![h] = h]
  OBVIOUS
<1>8. o \in [Values -> Values] /\ o[h] = h /\ \A i \in Values \ {h} : o[i] = owner[i]
  BY <1>6, <1>7
<1>9. ASSUME NEW i \in InRing(q)
      PROVE  o[q[i].next] = o[i] /\ (i \in Heads(q) => o[i] = i)
  <2>1. CASE i = h
    BY <1>8, <2>1
  <2>2. CASE i # h
    <3>1. i \in InRing(m) /\ m[i].next \in InRing(m)
      BY <1>2, <2>2 DEF Rings
    <3>2. q[i].next = m[i].next
      BY <1>4, <3>1
    <3> QED
      BY <1>3, <1>4, <1>6, <1>8, <2>2, <3>1, <3>2
  <2> QED
    BY <2>1, <2>2
<1>10. \E w \in [Values -> Values] :
         \A i \in InRing(q) : /\ w[q[i].next] = w[i]
                              /\ i \in Heads(q) => w[i] = i
  BY <1>8, <1>9
<1> QED
  BY <1>2, <1>3, <1>5, <1>10 DEF Rings

(* From m to q, e is linked between p and s.                               *)
Between(m, q, p, e, s) ==
  /\ q[e].prev = p /\ q[e].next = s /\ q[e].type # "none"
  /\ q[p].next = e /\ q[s].prev = e
  /\ \A i \in Values \ {e} : /\ i # p => q[i].next = m[i].next
                             /\ i # s => q[i].prev = m[i].prev
                             /\ q[i].type = m[i].type

(* A new element e at the end of the ring of s, whose last value was p.    *)
LEMMA NewElement ==
    ASSUME NEW m, NEW q, NEW s, NEW p, NEW e, s \in Heads(m), e \in Values, Rings(m),
           p = m[s].prev, e \notin InRing(m), p < e, Between(m, q, p, e, s)
    PROVE  Rings(q) /\ InRing(q) = InRing(m) \cup {e} /\ Heads(q) = Heads(m)
<1> USE DEF Between
<1>1. /\ s \in InRing(m) /\ p \in InRing(m) /\ m[p].next = s
      /\ \A i \in InRing(m) : i \in Values /\ i # e
      /\ Heads(m) \subseteq InRing(m)
  BY DEF Rings, Heads, InRing
<1>2. e # Null /\ s # Null
  BY <1>1 DEF Values, Null
<1>3. InRing(q) = InRing(m) \cup {e}
  BY <1>1, <1>2 DEF InRing
<1>4. Heads(q) = Heads(m)
  BY <1>1, <1>3 DEF Heads
<1>5. ASSUME NEW i \in InRing(q)
      PROVE  /\ q[i].next \in InRing(q) /\ q[q[i].next].prev = i
             /\ q[i].prev \in InRing(q) /\ q[q[i].prev].next = i
             /\ q[i].next \notin Heads(q) => i < q[i].next
  <2>1. CASE i = e
    BY <1>1, <1>3, <1>4, <2>1
  <2>2. CASE i # e
    <3>1. i \in InRing(m)
      BY <1>3, <2>2
    <3>2. /\ m[i].next \in InRing(m) /\ m[m[i].next].prev = i
          /\ m[i].prev \in InRing(m) /\ m[m[i].prev].next = i
          /\ m[i].next \notin Heads(m) => i < m[i].next
      BY <3>1 DEF Rings
    <3>3. /\ q[i].next \in InRing(q) /\ q[q[i].next].prev = i
          /\ q[i].next \notin Heads(q) => i < q[i].next
      <4>1. CASE i = p
        BY <1>1, <1>3, <4>1
      <4>2. CASE i # p
        <5>1. q[i].next = m[i].next /\ m[i].next # s
          BY <1>1, <3>1, <3>2, <4>2
        <5> QED
          BY <1>1, <1>3, <1>4, <3>2, <5>1
      <4> QED
        BY <4>1, <4>2
    <3>4. q[i].prev \in InRing(q) /\ q[q[i].prev].next = i
      <4>1. CASE i = s
        BY <1>3, <4>1
      <4>2. CASE i # s
        <5>1. q[i].prev = m[i].prev /\ m[i].prev # p
          BY <1>1, <3>1, <3>2, <4>2
        <5> QED
          BY <1>1, <1>3, <3>2, <5>1
      <4> QED
        BY <4>1, <4>2
    <3> QED
      BY <3>3, <3>4
  <2> QED
    BY <2>1, <2>2
<1>6. PICK owner \in [Values -> Values] :
        \A i \in InRing(m) : /\ owner[m[i].next] = owner[i]
                             /\ i \in Heads(m) => owner[i] = i
  BY DEF Rings
<1>7. PICK o : o = [owner EXCEPT ![e] = s]
  OBVIOUS
<1>8. o \in [Values -> Values] /\ o[e] = s /\ \A i \in Values \ {e} : o[i] = owner[i]
  BY <1>1, <1>6, <1>7
<1>9. owner[s] = s /\ owner[p] = s
  BY <1>1, <1>6
<1>10. ASSUME NEW i \in InRing(q)
       PROVE  o[q[i].next] = o[i] /\ (i \in Heads(q) => o[i] = i)
  <2>1. CASE i = e
    BY <1>1, <1>4, <1>8, <1>9, <2>1
  <2>2. CASE i = p
    BY <1>1, <1>4, <1>6, <1>8, <1>9, <2>2
  <2>3. CASE i # e /\ i # p
    <3>1. i \in InRing(m) /\ m[i].next \in InRing(m)
      BY <1>3, <2>3 DEF Rings
    <3>2. q[i].next = m[i].next
      BY <1>1, <2>3, <3>1
    <3> QED
      BY <1>1, <1>4, <1>6, <1>8, <2>3, <3>1, <3>2
  <2> QED
    BY <2>1, <2>2, <2>3
<1>11. \E w \in [Values -> Values] :
         \A i \in InRing(q) : /\ w[q[i].next] = w[i]
                              /\ i \in Heads(q) => w[i] = i
  BY <1>8, <1>10
<1> QED
  BY <1>3, <1>4, <1>5, <1>11 DEF Rings

-----------------------------------------------------------------------------
(* The rings and the pending calls. *)

(* No value of the pool from n on has been used.                           *)
Spare(m, n) == \A i \in Values : i >= n => m[i].next = Null /\ m[i].type = "none"

(* Frame f on the rings of memory m: a value that is being read is no head,*)
(* and a list has its head, the last element before and, out of the ring,  *)
(* the value of its next element.                                          *)
LinkIn(m, n, f) ==
  /\ f.v < n /\ f.v \notin Heads(m)
  /\ f.at \in ListPlaces =>
       /\ f.starter \in Heads(m) /\ f.prev = m[f.starter].prev
       /\ f.starter < f.next /\ f.prev < f.next /\ f.next < n
       /\ f.next \notin InRing(m)

(* Frame g is above frame f.  A list inside a list is later in the pool.   *)
Apart(f, g) == f.at \in ListPlaces /\ g.at \in ListPlaces => f.next < g.starter

LinksIn(m, n, s) ==
  \A i \in 1..Len(s) : LinkIn(m, n, s[i]) /\ \A j \in 1..(i - 1) : Apart(s[j], s[i])

(* What PositionsExact does not need of the parser: its lists.             *)
Chained ==
  /\ Rings(storage) /\ Spare(storage, next_value) /\ LinksIn(storage, next_value, stack)
  /\ result # Null => storage[result].type # "none"

Pooled ==
  /\ Rings(storage)
  /\ pc = "validargs" => Spare(storage, next_value)
  /\ pc = "reading" => Chained

(* The frames g and f hold the same values of the pool.                    *)
SameLinks(f, g) ==
  /\ g.v = f.v /\ (g.at \in ListPlaces <=> f.at \in ListPlaces)
  /\ f.at \in ListPlaces => g.starter = f.starter /\ g.prev = f.prev /\ g.next = f.next

LEMMA LinksBelow ==
    ASSUME NEW m, NEW n, NEW s, Stacked(s), s # <<>>, LinksIn(m, n, s)
    PROVE  /\ LinksIn(m, n, Front(s)) /\ LinkIn(m, n, Last(s))
           /\ \A j \in 1..Len(Front(s)) : Apart(Front(s)[j], Last(s))
<1>1. PICK S : s \in Seq(S)
  BY DEF Stacked
<1>2. /\ Len(s) \in Nat \ {0} /\ Len(Front(s)) = Len(s) - 1
      /\ \A i \in 1..Len(Front(s)) : Front(s)[i] = s[i]
  BY <1>1, FrontLast, EmptySeq
<1>3. ASSUME NEW i \in 1..Len(Front(s))
      PROVE  /\ LinkIn(m, n, Front(s)[i]) /\ Apart(Front(s)[i], Last(s))
             /\ \A j \in 1..(i - 1) : Apart(Front(s)[j], Front(s)[i])
  <2>1. /\ i \in 1..Len(s) /\ Len(s) \in 1..Len(s) /\ i \in 1..(Len(s) - 1)
        /\ \A j \in 1..(i - 1) : j \in 1..Len(Front(s))
    BY <1>2
  <2> QED
    BY <1>2, <2>1 DEF LinksIn, Last
<1>4. LinkIn(m, n, Last(s))
  BY <1>2 DEF LinksIn, Last
<1> QED
  BY <1>3, <1>4 DEF LinksIn

LEMMA LinksAbove ==
    ASSUME NEW m, NEW n, NEW s, NEW f, Stacked(s), LinksIn(m, n, s), LinkIn(m, n, f),
           \A j \in 1..Len(s) : Apart(s[j], f)
    PROVE  LinksIn(m, n, Append(s, f))
<1>1. PICK S : s \in Seq(S)
  BY DEF Stacked
<1>2. PICK T : T = S \cup {f}
  OBVIOUS
<1>3. s \in Seq(T) /\ f \in T
  BY <1>1, <1>2, SeqMonotonic
<1>4. PICK t : t = Append(s, f)
  OBVIOUS
<1>5. /\ Len(t) = Len(s) + 1 /\ Len(s) \in Nat
      /\ \A i \in 1..Len(s) : t[i] = s[i]
      /\ t[Len(s) + 1] = f
  BY <1>3, <1>4, AppendProperties
<1>6. ASSUME NEW i \in 1..Len(t)
      PROVE  LinkIn(m, n, t[i]) /\ \A j \in 1..(i - 1) : Apart(t[j], t[i])
  <2>1. \A j \in 1..(i - 1) : j \in 1..Len(s)
    BY <1>5
  <2>2. CASE i = Len(s) + 1
    BY <1>5, <2>1, <2>2
  <2>3. CASE i # Len(s) + 1
    <3>1. i \in 1..Len(s)
      BY <1>5, <2>3
    <3> QED
      BY <1>5, <2>1, <3>1 DEF LinksIn
  <2> QED
    BY <2>2, <2>3
<1> QED
  BY <1>4, <1>6 DEF LinksIn

(* The frame of the running function changes, but not its values.          *)
LEMMA LinksReplaced ==
    ASSUME NEW m, NEW n, NEW s, NEW f, Stacked(s), s # <<>>, LinksIn(m, n, s), SameLinks(Last(s), f)
    PROVE  LinksIn(m, n, Append(Front(s), f))
<1>1. /\ LinksIn(m, n, Front(s)) /\ LinkIn(m, n, Last(s))
      /\ \A j \in 1..Len(Front(s)) : Apart(Front(s)[j], Last(s))
  BY LinksBelow
<1>2. LinkIn(m, n, f) /\ \A j \in 1..Len(Front(s)) : Apart(Front(s)[j], f)
  BY <1>1 DEF LinkIn, Apart, SameLinks
<1>3. Stacked(Front(s))
  BY Popped
<1> QED
  BY <1>1, <1>2, <1>3, LinksAbove

(* A function with a frame of no list is called.                           *)
LEMMA LinksCalled ==
    ASSUME NEW m, NEW n, NEW s, NEW f, Stacked(s), LinksIn(m, n, s),
           f.at \notin ListPlaces, f.v < n, f.v \notin Heads(m)
    PROVE  LinksIn(m, n, Append(s, f))
BY LinksAbove DEF LinkIn, Apart

(* More of the pool is in use, and no ring has changed.                    *)
LEMMA LinksKept ==
    ASSUME NEW m, NEW q, NEW n \in Nat, NEW k \in Nat, NEW s, Stacked(s), LinksIn(m, n, s), Rings(m),
           Alike(m, q), n <= k
    PROVE  LinksIn(q, k, s)
<1>1. InRing(q) = InRing(m) /\ Heads(q) = Heads(m)
  BY SameRings
<1>2. ASSUME NEW i \in 1..Len(s)
      PROVE  LinkIn(q, k, s[i])
  <2>1. PICK f : f = s[i]
    OBVIOUS
  <2>2. LinkIn(m, n, f) /\ IsFrame(f)
    BY <2>1 DEF LinksIn, Stacked
  <2>3. f.v \in Nat /\ (f.at \in ListPlaces => f.next \in Nat)
    BY <2>2 DEF IsFrame, Values
  <2>4. ASSUME f.at \in ListPlaces
        PROVE  q[f.starter].prev = m[f.starter].prev
    <3>1. f.starter \in Values
      BY <2>2, <2>4 DEF LinkIn, Heads, InRing
    <3> QED
      BY <3>1 DEF Alike
  <2>5. LinkIn(q, k, f)
    BY <1>1, <2>2, <2>3, <2>4 DEF LinkIn
  <2> QED
    BY <2>1, <2>5
<1> QED
  BY <1>2 DEF LinksIn

(* Only the contents of values differ.                                     *)
Unlinked(m, q) ==
  \A i \in Values : q[i].next = m[i].next /\ q[i].prev = m[i].prev /\ q[i].type = m[i].type

LEMMA UnlinkedAlike ==
    ASSUME NEW m, NEW q, Unlinked(m, q)
    PROVE  Alike(m, q) /\ \A n : Spare(m, n) => Spare(q, n)
BY DEF Unlinked, Alike, Spare

(* The values of the running function.                                     *)
LEMMA TopLinks ==
    ASSUME Reading, Chained, stack # <<>>
    PROVE  /\ IsFrame(top) /\ LinkIn(storage, next_value, top) /\ next_value \in Nat /\ top.v \in Nat
           /\ Stacked(stack) /\ Stacked(Front(stack)) /\ LinksIn(storage, next_value, stack)
BY TopFrame, LinksBelow DEF Reading, Chained, top, IsFrame, Values

(* The next value of the pool is in no ring.                               *)
LEMMA NextSpare ==
    ASSUME NEW m, NEW n \in Nat, Spare(m, n)
    PROVE  n \notin InRing(m) /\ n \notin Heads(m)
BY DEF Spare, InRing, Heads

LEMMA ChainGoesOn ==
    ASSUME NEW f, Reading, Chained, stack # <<>>, IsFrame(f), SameLinks(top, f), Getting(f),
           Unlinked(storage, storage'), next_value' = next_value, result' = Null
    PROVE  Chained'
<1>1. PICK c : stack' = Append(Front(stack), [f EXCEPT !.c = c])
  BY DEF Getting, Replaced
<1>2. PICK g : g = [f EXCEPT !.c = c]
  OBVIOUS
<1>3. g.v = f.v /\ g.at = f.at /\ (f.at \in ListPlaces => g.starter = f.starter /\ g.prev = f.prev /\ g.next = f.next)
  BY <1>2 DEF IsFrame
<1>4. SameLinks(top, g)
  BY <1>3 DEF SameLinks
<1>5. PICK q : q = storage'
  OBVIOUS
<1>6. Stacked(stack) /\ LinksIn(storage, next_value, stack) /\ next_value \in Nat /\ Rings(storage)
  BY TopLinks DEF Chained
<1>7. Alike(storage, q) /\ Spare(q, next_value)
  BY <1>5, UnlinkedAlike DEF Chained
<1>8. LinksIn(q, next_value, stack) /\ Rings(q)
  BY <1>6, <1>7, LinksKept, SameRings
<1>9. LinksIn(q, next_value, stack')
  BY <1>1, <1>2, <1>4, <1>6, <1>8, LinksReplaced DEF top
<1> QED
  BY <1>5, <1>7, <1>8, <1>9 DEF Chained

(* argo_read_value calls a function for its value.                         *)
LEMMA ChainCalls ==
    ASSUME NEW f, Reading, Chained, stack # <<>>, stack' = Append(stack, f), f.at \notin ListPlaces,
           f.v = top.v, UNCHANGED heap, result' = Null
    PROVE  Chained'
<1>1. f.v < next_value /\ f.v \notin Heads(storage)
  BY TopLinks DEF LinkIn
<1>2. LinksIn(storage, next_value, stack')
  BY <1>1, TopLinks, LinksCalled
<1> QED
  BY <1>2 DEF Chained, heap

(* A list goes on as f and calls a function for a value, with frame g.     *)
LEMMA ChainListCalls ==
    ASSUME NEW f, NEW g, NEW k \in Nat, Reading, Chained, stack # <<>>, IsFrame(f), SameLinks(top, f),
           Fits(Front(stack), f),
           stack' = Append(Append(Front(stack), f), g), g.at \notin ListPlaces,
           g.v < k, g.v \notin Heads(storage), storage' = storage, next_value' = k, next_value <= k,
           result' = Null
    PROVE  Chained'
<1>1. /\ Stacked(stack) /\ Stacked(Front(stack)) /\ LinksIn(storage, next_value, stack)
      /\ next_value \in Nat /\ Rings(storage) /\ Spare(storage, next_value)
  BY TopLinks DEF Chained
<1>2. Alike(storage, storage)
  BY DEF Alike
<1>3. LinksIn(storage, k, stack)
  BY <1>1, <1>2, LinksKept
<1>4. PICK s : s = Append(Front(stack), f)
  OBVIOUS
<1>5. LinksIn(storage, k, s)
  BY <1>1, <1>3, <1>4, LinksReplaced DEF top
<1>6. Stacked(s)
  BY <1>1, <1>4, Pushed
<1>7. LinksIn(storage, k, stack')
  BY <1>4, <1>5, <1>6, LinksCalled
<1>8. Spare(storage, k)
  BY <1>1 DEF Spare, Values
<1> QED
  BY <1>1, <1>7, <1>8 DEF Chained

(* A value is returned to the list it is for.                              *)
LEMMA ChainReturns ==
    ASSUME NEW type, NEW memory, NEW k \in Nat, Reading, Chained, stack # <<>>, top.at # "value",
           type # "none", PoolOK(memory), Unlinked(storage, memory), ReturnValue(top.v, type, memory),
           next_value' = k, next_value <= k
    PROVE  Chained'
<1>1. /\ Stacked(stack) /\ LinksIn(storage, next_value, stack) /\ next_value \in Nat
      /\ top.v < next_value /\ top.v \notin Heads(storage) /\ top.v \in Values
      /\ Rings(storage) /\ Spare(storage, next_value)
  BY TopLinks DEF Chained, LinkIn, IsFrame
<1>2. PICK q : q = storage'
  OBVIOUS
<1>3. PICK v : v = top.v
  OBVIOUS
<1>4. /\ result' = v /\ stack' = SubSeq(stack, 1, Len(stack) - 2)
      /\ q = [memory EXCEPT ![v].type = type]
  BY <1>2, <1>3 DEF ReturnValue
<1>5. q[v].type = type /\ \A i \in Values : /\ q[i].next = memory[i].next /\ q[i].prev = memory[i].prev
                                            /\ i # v => q[i].type = memory[i].type
  BY <1>1, <1>3, <1>4 DEF PoolOK, Members
<1>6. Alike(storage, q)
  BY <1>1, <1>3, <1>5 DEF Alike, Unlinked, Heads
<1>7. Spare(q, k)
  <2> SUFFICES ASSUME NEW i \in Values, i >= k
               PROVE  q[i].next = Null /\ q[i].type = "none"
    BY DEF Spare
  <2>1. i >= next_value /\ i # v
    BY <1>1, <1>3 DEF Values
  <2> QED
    BY <1>1, <1>5, <2>1 DEF Spare, Unlinked
<1>8. LinksIn(q, k, stack) /\ Rings(q)
  BY <1>1, <1>6, LinksKept, SameRings
<1>9. /\ Front(stack) # <<>> /\ Stacked(Front(stack))
      /\ Front(Front(stack)) = SubSeq(stack, 1, Len(stack) - 2)
  BY <1>1, Popped, PoppedTwice DEF top
<1>10. LinksIn(q, k, Front(stack))
  BY <1>1, <1>8, LinksBelow
<1>11. LinksIn(q, k, stack')
  BY <1>4, <1>9, <1>10, LinksBelow
<1> QED
  BY <1>2, <1>4, <1>5, <1>7, <1>8, <1>11 DEF Chained

-----------------------------------------------------------------------------
(* The steps of the parser on its lists. *)

(* What every step at a place knows.                                       *)
LEMMA AtLinks ==
    ASSUME NEW place, Reading, Chained, At(place)
    PROVE  /\ result = Null /\ top.at = place /\ stack # <<>> /\ IsFrame(top)
           /\ LinkIn(storage, next_value, top) /\ next_value \in Nat /\ PoolOK(storage)
           /\ top.v \in Values
BY AtFacts, TopLinks DEF Reading

LEMMA SameContents == Unlinked(storage, storage)
BY DEF Unlinked

LEMMA ValueSpaceLinks == ASSUME Reading, Chained, ValueSpace PROVE Chained'
<1>1. At("value") /\ Getting(top) /\ UNCHANGED <<kept, heap, result>>
  BY DEF ValueSpace
<1>2. PICK f : f = top
  OBVIOUS
<1>3. SameLinks(top, f)
  BY <1>2 DEF SameLinks
<1>4. Unlinked(storage, storage')
  BY <1>1, SameContents DEF heap
<1> QED
  BY <1>1, <1>2, <1>3, <1>4, AtLinks, ChainGoesOn DEF heap

LEMMA ValueNumberLinks == ASSUME Reading, Chained, ValueNumber PROVE Chained'
<1>1. PICK f : f = [at |-> "number", v |-> top.v, c |-> top.c, n |-> NumberStart]
  OBVIOUS
<1>2. At("value") /\ stack' = Append(stack, f) /\ UNCHANGED <<kept, heap, result>>
  BY <1>1 DEF ValueNumber
<1>3. f.at \notin ListPlaces /\ f.v = top.v
  BY <1>1 DEF ListPlaces
<1> QED
  BY <1>2, <1>3, AtLinks, ChainCalls

LEMMA ValueStringLinks == ASSUME Reading, Chained, ValueString PROVE Chained'
<1>1. PICK f : f = [at |-> "string", v |-> top.v, field |-> "string", c |-> 0]
  OBVIOUS
<1>2. At("value") /\ CallGetting(stack, f) /\ UNCHANGED <<kept, heap, result>>
  BY <1>1 DEF ValueString
<1>3. PICK c, g : g = [f EXCEPT !.c = c] /\ stack' = Append(stack, g)
  BY <1>2 DEF CallGetting
<1>4. g.at \notin ListPlaces /\ g.v = top.v
  BY <1>1, <1>3 DEF ListPlaces
<1> QED
  BY <1>2, <1>3, <1>4, AtLinks, ChainCalls

LEMMA ValueLiteralLinks == ASSUME Reading, Chained, ValueLiteral PROVE Chained'
<1>1. PICK word : /\ At("value") /\ UNCHANGED <<kept, heap, result>>
                  /\ CallGetting(stack, [at |-> "literal", v |-> top.v, c |-> 0,
                                         rest |-> Tail(Literals[word]), word |-> word])
  BY DEF ValueLiteral
<1>2. PICK f : f = [at |-> "literal", v |-> top.v, c |-> 0, rest |-> Tail(Literals[word]), word |-> word]
  OBVIOUS
<1>3. PICK c, g : g = [f EXCEPT !.c = c] /\ stack' = Append(stack, g)
  BY <1>1, <1>2 DEF CallGetting
<1>4. g.at \notin ListPlaces /\ g.v = top.v
  BY <1>2, <1>3 DEF ListPlaces
<1> QED
  BY <1>1, <1>3, <1>4, AtLinks, ChainCalls

(* A list is begun: its head is a ring of its own.                         *)
LEMMA ValueListLinks == ASSUME Reading, Chained, ValueList PROVE Chained'
<1>1. PICK h : h = next_value
  OBVIOUS
<1>2. PICK f : f = [at |-> "top", v |-> top.v, c |-> 0, object |-> top.c = ARGO_LBRACE,
                    starter |-> h, prev |-> h, next |-> h + 1]
  OBVIOUS
<1>3. PICK q : q = storage'
  OBVIOUS
<1>4. /\ At("value") /\ Room(2) /\ next_value' = h + 2 /\ result' = result
      /\ q = [storage EXCEPT ![h] = [@ EXCEPT !.next = h, !.prev = h], ![top.v].list = h]
      /\ CallGetting(stack, f)
  BY <1>1, <1>2, <1>3 DEF ValueList
<1>5. /\ result = Null /\ stack # <<>> /\ top.v \in Values /\ PoolOK(storage) /\ h \in Nat
      /\ top.v < h /\ top.v \notin Heads(storage)
      /\ Rings(storage) /\ Spare(storage, h) /\ LinksIn(storage, h, stack) /\ Stacked(stack)
  BY <1>1, <1>4, AtLinks, TopLinks DEF Chained, LinkIn
<1>6. h \in Values /\ h + 1 \in Values /\ top.v # h
  BY <1>1, <1>4, <1>5 DEF Room, Values
<1>7. h \notin InRing(storage) /\ storage[h].type = "none"
  BY <1>5, <1>6, NextSpare DEF Spare
<1>8. /\ q[h].next = h /\ q[h].prev = h /\ q[h].type = "none"
      /\ \A i \in Values \ {h} : /\ q[i].next = storage[i].next /\ q[i].prev = storage[i].prev
                                 /\ q[i].type = storage[i].type
  BY <1>4, <1>5, <1>6, <1>7 DEF PoolOK, Members
<1>9. Rings(q) /\ InRing(q) = InRing(storage) \cup {h} /\ Heads(q) = Heads(storage) \cup {h}
  BY <1>5, <1>6, <1>7, <1>8, NewHead
<1>10. PICK k \in Nat : k = h + 2
  BY <1>5
<1>11. Spare(q, k)
  <2> SUFFICES ASSUME NEW i \in Values, i >= k
               PROVE  q[i].next = Null /\ q[i].type = "none"
    BY DEF Spare
  <2>1. i # h /\ i >= h
    BY <1>5, <1>10 DEF Values
  <2> QED
    BY <1>5, <1>8, <2>1 DEF Spare
<1>12. ASSUME NEW i \in 1..Len(stack)
       PROVE  LinkIn(q, k, stack[i]) /\ (stack[i].at \in ListPlaces => stack[i].next < h)
  <2>1. PICK g : g = stack[i]
    OBVIOUS
  <2>2. LinkIn(storage, h, g) /\ IsFrame(g)
    BY <1>5, <2>1 DEF LinksIn, Stacked
  <2>3. g.v \in Nat /\ g.v # h /\ (g.at \in ListPlaces => g.next \in Nat /\ g.next # h)
    BY <1>5, <2>2 DEF IsFrame, LinkIn, Values
  <2>4. g.at \in ListPlaces => g.starter \in Values /\ g.starter # h
    BY <1>7, <2>2 DEF LinkIn, Heads, InRing
  <2>5. g.v < k /\ g.v \notin Heads(q)
    BY <1>5, <1>9, <1>10, <2>2, <2>3 DEF LinkIn
  <2>6. ASSUME g.at \in ListPlaces
        PROVE  /\ g.starter \in Heads(q) /\ g.prev = q[g.starter].prev
               /\ g.starter < g.next /\ g.prev < g.next /\ g.next < k
               /\ g.next \notin InRing(q) /\ g.next < h
    BY <1>5, <1>8, <1>9, <1>10, <2>2, <2>3, <2>4, <2>6 DEF LinkIn
  <2> QED
    BY <2>1, <2>5, <2>6 DEF LinkIn
<1>13. LinksIn(q, k, stack)
  BY <1>5, <1>12 DEF LinksIn
<1>14. PICK c, g : g = [f EXCEPT !.c = c] /\ stack' = Append(stack, g)
  BY <1>4 DEF CallGetting
<1>15. g.at = "top" /\ g.v = top.v /\ g.starter = h /\ g.prev = h /\ g.next = h + 1
  BY <1>2, <1>14
<1>16. LinkIn(q, k, g)
  <2>1. h + 1 \notin InRing(q)
    BY <1>5, <1>6, <1>9 DEF Spare, InRing
  <2>2. h < h + 1 /\ h + 1 < k /\ top.v < k /\ top.v \notin Heads(q)
    BY <1>5, <1>6, <1>9, <1>10 DEF Values
  <2> QED
    BY <1>8, <1>9, <1>15, <2>1, <2>2 DEF LinkIn
<1>17. \A j \in 1..Len(stack) : Apart(stack[j], g)
  BY <1>12, <1>15 DEF Apart
<1>18. LinksIn(q, k, stack')
  BY <1>5, <1>13, <1>14, <1>16, <1>17, LinksAbove
<1> QED
  BY <1>3, <1>4, <1>5, <1>9, <1>10, <1>11, <1>18 DEF Chained

LEMMA NumberCharLinks == ASSUME Reading, Chained, NumberChar PROVE Chained'
<1>1. PICK f : f = [top EXCEPT !.n = NumberNext(top.n, top.c)]
  OBVIOUS
<1>2. At("number") /\ Getting(f) /\ UNCHANGED <<kept, heap, result>>
  BY <1>1 DEF NumberChar
<1>3. IsFrame(f) /\ SameLinks(top, f)
  BY <1>1, <1>2, AtLinks DEF IsFrame, SameLinks, StringPlaces, ListPlaces
<1>4. Unlinked(storage, storage')
  BY <1>2, SameContents DEF heap
<1> QED
  BY <1>2, <1>3, <1>4, AtLinks, ChainGoesOn DEF heap

LEMMA NumberEndLinks ==
    ASSUME Reading, Chained, NumberEnd
    PROVE  IF pc' = "exit" THEN storage' = storage ELSE Chained'
<1>1. At("number") /\ next_value' = next_value + 1
  BY DEF NumberEnd
<1>2. /\ stack # <<>> /\ top.at = "number" /\ top.v \in Values
      /\ next_value \in Nat /\ PoolOK(storage)
  BY <1>1, AtLinks
<1>3. CASE Decimal(top.n.text).ok
  <2>1. PICK memory : memory = [storage EXCEPT ![top.v].number = NumberOf(top.n),
                                               ![next_value].string = NumberOf(top.n).string_value]
    OBVIOUS
  <2>2. ReturnValue(top.v, "number", memory) /\ pc' = pc
    BY <1>3, <2>1 DEF NumberEnd
  <2>3. PoolOK(memory) /\ Unlinked(storage, memory)
    BY <1>2, <2>1 DEF PoolOK, Unlinked, Members
  <2>4. pc = "reading"
    BY <1>1 DEF At
  <2>5. next_value + 1 \in Nat /\ next_value <= next_value + 1
    BY <1>2
  <2>6. Chained'
    BY <1>1, <1>2, <2>2, <2>3, <2>5, ChainReturns
  <2> QED
    BY <2>2, <2>4, <2>6
<1>4. CASE ~Decimal(top.n.text).ok
  BY <1>4 DEF NumberEnd
<1> QED
  BY <1>3, <1>4

LEMMA LiteralCharLinks == ASSUME Reading, Chained, LiteralChar PROVE Chained'
<1>1. At("literal") /\ next_value' = next_value
  BY DEF LiteralChar
<1>2. /\ result = Null /\ stack # <<>> /\ top.at = "literal" /\ top.v \in Values /\ IsFrame(top)
      /\ next_value \in Nat /\ PoolOK(storage)
  BY <1>1, AtLinks
<1>3. CASE Len(top.rest) > 1
  <2>1. PICK f : f = [top EXCEPT !.rest = Tail(@)]
    OBVIOUS
  <2>2. Getting(f) /\ UNCHANGED <<storage, result>>
    BY <1>3, <2>1 DEF LiteralChar
  <2>3. IsFrame(f) /\ SameLinks(top, f)
    BY <1>2, <2>1 DEF IsFrame, SameLinks, StringPlaces, ListPlaces
  <2>4. Unlinked(storage, storage')
    BY <2>2, SameContents
  <2> QED
    BY <1>1, <1>2, <2>2, <2>3, <2>4, ChainGoesOn
<1>4. CASE ~(Len(top.rest) > 1)
  <2>1. PICK memory : memory = [storage EXCEPT ![top.v].basic = top.word]
    OBVIOUS
  <2>2. ReturnValue(top.v, "basic", memory)
    BY <1>4, <2>1 DEF LiteralChar
  <2>3. PoolOK(memory) /\ Unlinked(storage, memory)
    BY <1>2, <2>1 DEF PoolOK, Unlinked, Members
  <2>4. next_value <= next_value
    BY <1>2
  <2> QED
    BY <1>1, <1>2, <2>2, <2>3, <2>4, ChainReturns
<1> QED
  BY <1>3, <1>4

LEMMA GrownUnlinked ==
    ASSUME NEW c, PoolOK(storage)
    PROVE  Unlinked(storage, Grown(c))
BY DEF Unlinked, Grown, PoolOK, Members

(* A string goes on with the next character.                               *)
LEMMA StringLinks ==
    ASSUME NEW f, Reading, Chained, At("string") \/ At("escape") \/ At("hex"), IsFrame(f),
           f.at \in StringPlaces, f.v = top.v, Getting(f), UNCHANGED <<next_value, result>>,
           storage' = storage \/ \E c : storage' = Grown(c)
    PROVE  Chained'
<1>1. result = Null /\ stack # <<>> /\ PoolOK(storage) /\ top.at \in StringPlaces
  BY AtLinks DEF StringPlaces
<1>2. Unlinked(storage, storage')
  BY <1>1, SameContents, GrownUnlinked
<1>3. SameLinks(top, f)
  BY <1>1 DEF SameLinks, StringPlaces, ListPlaces
<1> QED
  BY <1>1, <1>2, <1>3, ChainGoesOn

LEMMA StringCharLinks == ASSUME Reading, Chained, StringChar PROVE Chained'
<1>1. At("string") /\ UNCHANGED <<kept, next_value, result>>
  BY DEF StringChar
<1>2. IsFrame(top) /\ top.at = "string"
  BY <1>1, AtLinks
<1>3. CASE top.c = ARGO_BSLASH
  <2>1. PICK f : f = [top EXCEPT !.at = "escape"]
    OBVIOUS
  <2>2. IsFrame(f) /\ f.at \in StringPlaces /\ f.v = top.v
    BY <1>2, <2>1 DEF IsFrame, StringPlaces, ListPlaces
  <2>3. Getting(f) /\ storage' = storage
    BY <1>3, <2>1 DEF StringChar
  <2> QED
    BY <1>1, <2>2, <2>3, StringLinks
<1>4. CASE top.c # ARGO_BSLASH
  <2>1. PICK f : f = top
    OBVIOUS
  <2>2. Getting(f) /\ storage' = Grown(top.c)
    BY <1>4, <2>1 DEF StringChar
  <2> QED
    BY <1>1, <1>2, <2>1, <2>2, StringLinks DEF StringPlaces
<1> QED
  BY <1>3, <1>4

LEMMA StringEscapeLinks == ASSUME Reading, Chained, StringEscape PROVE Chained'
<1>1. At("escape") /\ UNCHANGED <<kept, next_value, result>>
  BY DEF StringEscape
<1>2. IsFrame(top) /\ top.at = "escape" /\ top.v \in Values
  BY <1>1, AtLinks
<1>3. CASE top.c = ARGO_U
  <2>1. PICK f : f = [at |-> "hex", v |-> top.v, field |-> top.field, c |-> 0, i |-> 0, value |-> 0]
    OBVIOUS
  <2>2. IsFrame(f) /\ f.at \in StringPlaces /\ f.v = top.v
    BY <1>2, <2>1 DEF IsFrame, StringPlaces, ListPlaces
  <2>3. Getting(f) /\ storage' = storage
    BY <1>3, <2>1 DEF StringEscape
  <2> QED
    BY <1>1, <2>2, <2>3, StringLinks
<1>4. CASE top.c # ARGO_U
  <2>1. PICK f : f = [top EXCEPT !.at = "string"]
    OBVIOUS
  <2>2. IsFrame(f) /\ f.at \in StringPlaces /\ f.v = top.v
    BY <1>2, <2>1 DEF IsFrame, StringPlaces, ListPlaces
  <2>3. Getting(f) /\ storage' = Grown(Unescaped(top.c))
    BY <1>4, <2>1 DEF StringEscape
  <2> QED
    BY <1>1, <2>2, <2>3, StringLinks
<1> QED
  BY <1>3, <1>4

LEMMA StringHexLinks == ASSUME Reading, Chained, StringHex PROVE Chained'
<1>1. At("hex") /\ UNCHANGED <<kept, next_value, result>>
  BY DEF StringHex
<1>2. IsFrame(top) /\ top.at = "hex" /\ top.v \in Values
  BY <1>1, AtLinks
<1>3. PICK value : value = top.value * 16 + HexValue(top.c)
  OBVIOUS
<1>4. CASE top.i < 3
  <2>1. PICK f : f = [top EXCEPT !.i = @ + 1, !.value = value]
    OBVIOUS
  <2>2. IsFrame(f) /\ f.at \in StringPlaces /\ f.v = top.v
    BY <1>2, <2>1 DEF IsFrame, StringPlaces, ListPlaces
  <2>3. Getting(f) /\ storage' = storage
    BY <1>3, <1>4, <2>1 DEF StringHex
  <2> QED
    BY <1>1, <2>2, <2>3, StringLinks
<1>5. CASE ~(top.i < 3)
  <2>1. PICK f : f = [at |-> "string", v |-> top.v, field |-> top.field, c |-> 0]
    OBVIOUS
  <2>2. IsFrame(f) /\ f.at \in StringPlaces /\ f.v = top.v
    BY <1>2, <2>1 DEF IsFrame, StringPlaces, ListPlaces
  <2>3. Getting(f) /\ storage' = Grown(value)
    BY <1>3, <1>5, <2>1 DEF StringHex
  <2> QED
    BY <1>1, <2>2, <2>3, StringLinks
<1> QED
  BY <1>4, <1>5

LEMMA StringEndLinks == ASSUME Reading, Chained, StringEnd PROVE Chained'
<1>1. At("string") /\ next_value' = next_value
  BY DEF StringEnd
<1>2. /\ result = Null /\ stack # <<>> /\ top.at = "string" /\ IsFrame(top)
      /\ next_value \in Nat /\ PoolOK(storage)
  BY <1>1, AtLinks
<1>3. CASE top.field = "string"
  <2>1. ReturnValue(top.v, "string", storage)
    BY <1>3 DEF StringEnd
  <2>2. next_value <= next_value
    BY <1>2
  <2> QED
    BY <1>1, <1>2, <2>1, <2>2, SameContents, ChainReturns
<1>4. CASE top.field # "string"
  <2>1. PICK e : e = stack[Len(stack) - 1]
    OBVIOUS
  <2>2. PICK f : f = [e EXCEPT !.at = "colon"]
    OBVIOUS
  <2>3. /\ CallGetting(SubSeq(stack, 1, Len(stack) - 2), f)
        /\ UNCHANGED <<storage, result>>
    BY <1>4, <2>1, <2>2 DEF StringEnd
  <2>4. PICK t : t = Front(stack)
    OBVIOUS
  <2>5. /\ t # <<>> /\ Stacked(t) /\ Front(t) = SubSeq(stack, 1, Len(stack) - 2)
        /\ Last(t) = e /\ IsFrame(e) /\ e.at = "name"
    BY <1>2, <1>4, <2>1, <2>4, Popped, PoppedTwice DEF Reading, top, IsName, IsFrame, StringPlaces
  <2>6. LinksIn(storage, next_value, t)
    BY <1>2, <2>4, TopLinks, LinksBelow
  <2>7. PICK c, g : g = [f EXCEPT !.c = c] /\ stack' = Append(Front(t), g)
    BY <2>3, <2>5 DEF CallGetting
  <2>8. SameLinks(e, g)
    BY <2>2, <2>5, <2>7 DEF SameLinks, IsFrame, ListPlaces
  <2>9. LinksIn(storage, next_value, stack')
    BY <2>5, <2>6, <2>7, <2>8, LinksReplaced
  <2> QED
    BY <1>1, <1>2, <2>3, <2>9 DEF Chained
<1> QED
  BY <1>3, <1>4

LEMMA ListSpaceLinks == ASSUME Reading, Chained, ListSpace PROVE Chained'
<1>1. At("top") \/ At("colon") \/ At("after")
  BY DEF ListSpace
<1>2. Getting(top) /\ UNCHANGED <<heap, result>>
  BY DEF ListSpace
<1>3. PICK f : f = top
  OBVIOUS
<1>4. SameLinks(top, f)
  BY <1>3 DEF SameLinks
<1>5. Unlinked(storage, storage')
  BY <1>2, SameContents DEF heap
<1> QED
  BY <1>1, <1>2, <1>3, <1>4, <1>5, AtLinks, ChainGoesOn DEF heap

LEMMA ListEndLinks == ASSUME Reading, Chained, ListEnd PROVE Chained'
<1>1. At("top") \/ At("after")
  BY DEF ListEnd
<1>2. PICK type \in {"object", "array"} : ReturnValue(top.v, type, storage)
  BY DEF ListEnd
<1>3. next_value' = next_value
  BY DEF ListEnd
<1>4. stack # <<>> /\ top.at # "value" /\ next_value \in Nat /\ PoolOK(storage) /\ next_value <= next_value
  BY <1>1, AtLinks
<1> QED
  BY <1>2, <1>3, <1>4, SameContents, ChainReturns

LEMMA ListAfterLinks == ASSUME Reading, Chained, ListAfter PROVE Chained'
<1>1. PICK f : f = [top EXCEPT !.at = "top"]
  OBVIOUS
<1>2. At("after") /\ UNCHANGED <<heap, result>>
  BY DEF ListAfter
<1>3. result = Null /\ stack # <<>> /\ top.at = "after" /\ IsFrame(top)
  BY <1>2, AtLinks
<1>4. IsFrame(f) /\ SameLinks(top, f)
  BY <1>1, <1>3 DEF IsFrame, SameLinks, StringPlaces, ListPlaces
<1>5. CASE top.c = ARGO_COMMA
  <2>1. Getting(f) /\ Unlinked(storage, storage')
    BY <1>1, <1>2, <1>5, SameContents DEF ListAfter, heap
  <2> QED
    BY <1>2, <1>3, <1>4, <2>1, ChainGoesOn DEF heap
<1>6. CASE top.c # ARGO_COMMA
  <2>1. stack' = Append(Front(stack), f)
    BY <1>1, <1>6 DEF ListAfter, Replaced
  <2>2. LinksIn(storage, next_value, stack')
    BY <1>3, <1>4, <2>1, TopLinks, LinksReplaced DEF top
  <2> QED
    BY <1>2, <1>3, <2>2 DEF Chained, heap
<1> QED
  BY <1>5, <1>6

(* A list takes a value of the pool for its next element.                  *)
LEMMA CallValueLinks ==
    ASSUME NEW f, NEW d, Reading, Chained, stack # <<>>, result = Null, result' = result,
           top.at \in ListPlaces, f = [top EXCEPT !.at = "element"], CallValue(Replaced(f), d)
    PROVE  Chained'
<1>1. /\ IsFrame(top) /\ Fits(Front(stack), top) /\ next_value \in Nat /\ Spare(storage, next_value)
  BY TopFrame, TopLinks DEF Chained
<1>2. IsFrame(f) /\ SameLinks(top, f) /\ Fits(Front(stack), f)
  BY <1>1 DEF IsFrame, SameLinks, Fits, IsName, StringPlaces, ListPlaces
<1>3. PICK g : g = [at |-> "value", v |-> next_value, c |-> d]
  OBVIOUS
<1>4. PICK k \in Nat : k = next_value + 1
  BY <1>1
<1>5. stack' = Append(Append(Front(stack), f), g) /\ storage' = storage /\ next_value' = k
  BY <1>3, <1>4 DEF CallValue, Replaced
<1>6. g.at \notin ListPlaces /\ g.v < k /\ next_value <= k /\ g.v \notin Heads(storage)
  BY <1>1, <1>3, <1>4, NextSpare DEF ListPlaces
<1> QED
  BY <1>2, <1>5, <1>6, ChainListCalls

LEMMA ArrayElementLinks == ASSUME Reading, Chained, ArrayElement PROVE Chained'
<1>1. PICK f : f = [top EXCEPT !.at = "element"]
  OBVIOUS
<1>2. At("top") /\ result' = result
  BY DEF ArrayElement
<1>3. PICK d : CallValue(Replaced(f), d)
  BY <1>1 DEF ArrayElement
<1> QED
  BY <1>1, <1>2, <1>3, AtLinks, CallValueLinks DEF ListPlaces

LEMMA ObjectColonLinks == ASSUME Reading, Chained, ObjectColon PROVE Chained'
<1>1. PICK f : f = [top EXCEPT !.at = "element"]
  OBVIOUS
<1>2. At("colon") /\ result' = result
  BY DEF ObjectColon
<1>3. PICK d : CallValue(Replaced(f), d)
  BY <1>1 DEF ObjectColon
<1> QED
  BY <1>1, <1>2, <1>3, AtLinks, CallValueLinks DEF ListPlaces

LEMMA ObjectNameLinks == ASSUME Reading, Chained, ObjectName PROVE Chained'
<1>1. PICK f : f = [top EXCEPT !.at = "name"]
  OBVIOUS
<1>2. PICK e : e = [at |-> "string", v |-> top.next, field |-> "name", c |-> 0]
  OBVIOUS
<1>3. /\ At("top") /\ CallGetting(Append(Front(stack), f), e) /\ UNCHANGED <<heap, result>>
  BY <1>1, <1>2 DEF ObjectName, Replaced
<1>4. PICK c, g : g = [e EXCEPT !.c = c] /\ stack' = Append(Append(Front(stack), f), g)
  BY <1>3 DEF CallGetting
<1>5. /\ result = Null /\ stack # <<>> /\ top.at = "top" /\ IsFrame(top) /\ next_value \in Nat
      /\ top.next < next_value /\ top.next \notin Heads(storage)
  BY <1>3, AtLinks DEF LinkIn, Heads, ListPlaces
<1>6. Fits(Front(stack), top)
  BY <1>5, TopFrame
<1>7. IsFrame(f) /\ SameLinks(top, f) /\ Fits(Front(stack), f)
  BY <1>1, <1>5, <1>6 DEF IsFrame, SameLinks, Fits, IsName, StringPlaces, ListPlaces
<1>8. g.at \notin ListPlaces /\ g.v = top.next
  BY <1>2, <1>4 DEF ListPlaces
<1>9. PICK k \in Nat : k = next_value /\ next_value <= k
  BY <1>5
<1> QED
  BY <1>3, <1>4, <1>5, <1>7, <1>8, <1>9, ChainListCalls DEF heap

(* An element is linked: the ring of the list, and no other, is one longer.*)
LEMMA ElementLinks == ASSUME Reading, Chained, Element PROVE Chained'
<1>1. PICK q : q = storage'
  OBVIOUS
<1>2. PICK n \in Nat : n = next_value
  BY DEF Reading
<1>3. PICK s : s = top.starter
  OBVIOUS
<1>4. PICK p : p = top.prev
  OBVIOUS
<1>5. PICK e : e = top.next
  OBVIOUS
<1>6. PICK f : f = [top EXCEPT !.at = "after", !.prev = e, !.next = n]
  OBVIOUS
<1>7. PICK r : r = storage[result]
  OBVIOUS
<1>8. /\ result # Null /\ stack # <<>> /\ Room(1) /\ next_value' = n + 1 /\ result' = Null
      /\ q = [storage EXCEPT ![e] = [r EXCEPT !.name = storage[e].name, !.prev = p, !.next = s],
                             ![p].next = e, ![s].prev = e]
      /\ Getting(f)
  BY <1>1, <1>2, <1>3, <1>4, <1>5, <1>6, <1>7 DEF Element, Linked
<1>9. /\ IsFrame(top) /\ top.at = "element" /\ PoolOK(storage) /\ Stacked(stack) /\ Stacked(Front(stack))
      /\ Rings(storage) /\ Spare(storage, n) /\ LinksIn(storage, n, stack)
      /\ DOMAIN r = Members /\ r.type # "none"
      /\ top.v < n /\ top.v \notin Heads(storage) /\ top.v \in Nat
  BY <1>2, <1>7, <1>8, TopFrame, TopLinks DEF Reading, Chained, PoolOK, LinkIn
<1>10. /\ s \in Heads(storage) /\ p = storage[s].prev /\ s < e /\ p < e /\ e < n
       /\ e \notin InRing(storage) /\ e \in Values
  BY <1>2, <1>3, <1>4, <1>5, <1>8, <1>9, TopLinks DEF LinkIn, ListPlaces, IsFrame
<1>11. /\ s \in InRing(storage) /\ s \in Values /\ p \in InRing(storage) /\ p \in Values
       /\ n \in Values /\ p # e /\ s # e
  <2>1. s \in InRing(storage) /\ s \in Values
    BY <1>10 DEF Heads, InRing
  <2>2. p \in InRing(storage) /\ p \in Values
    BY <1>9, <1>10, <2>1 DEF Rings, InRing
  <2>3. n \in Values
    BY <1>2, <1>8 DEF Room, Values
  <2> QED
    BY <1>10, <2>1, <2>2, <2>3
<1>12. /\ q[e].prev = p /\ q[e].next = s /\ q[e].type # "none"
       /\ q[p].next = e /\ q[s].prev = e
       /\ \A i \in Values \ {e} : /\ i # p => q[i].next = storage[i].next
                                  /\ i # s => q[i].prev = storage[i].prev
                                  /\ q[i].type = storage[i].type
  <2>1. PICK a : a = [r EXCEPT !.name = storage[e].name, !.prev = p, !.next = s]
    OBVIOUS
  <2>2. a.prev = p /\ a.next = s /\ a.type # "none" /\ DOMAIN a = Members
    BY <1>9, <2>1 DEF Members
  <2>3. q = [storage EXCEPT ![e] = a, ![p].next = e, ![s].prev = e]
    BY <1>8, <2>1
  <2>4. \A i \in Values : DOMAIN storage[i] = Members
    BY <1>9 DEF PoolOK
  <2>5. q[e] = a
    BY <1>9, <1>10, <1>11, <2>3 DEF PoolOK
  <2>6. q[p].next = e
    BY <1>9, <1>10, <1>11, <2>3, <2>4 DEF PoolOK, Members
  <2>7. q[s].prev = e
    BY <1>9, <1>10, <1>11, <2>3, <2>4 DEF PoolOK, Members
  <2>8. ASSUME NEW i \in Values \ {e}
        PROVE  /\ i # p => q[i].next = storage[i].next
               /\ i # s => q[i].prev = storage[i].prev
               /\ q[i].type = storage[i].type
    BY <1>9, <1>10, <1>11, <2>3, <2>4 DEF PoolOK, Members
  <2> QED
    BY <2>2, <2>5, <2>6, <2>7, <2>8
<1>13. Rings(q) /\ InRing(q) = InRing(storage) \cup {e} /\ Heads(q) = Heads(storage)
  <2>1. Between(storage, q, p, e, s)
    BY <1>12 DEF Between
  <2> QED
    BY <1>9, <1>10, <2>1, NewElement
<1>14. PICK k \in Nat : k = n + 1
  OBVIOUS
<1>15. Spare(q, k)
  <2> SUFFICES ASSUME NEW i \in Values, i >= k
               PROVE  q[i].next = Null /\ q[i].type = "none"
    BY DEF Spare
  <2>1. i # e /\ i >= n
    BY <1>10, <1>14 DEF Values
  <2>2. storage[i].next = Null /\ storage[i].type = "none" /\ i # p
    BY <1>9, <1>11, <2>1 DEF Spare, InRing
  <2> QED
    BY <1>12, <2>1, <2>2
<1>16. PICK t : t = Front(stack)
  OBVIOUS
<1>17. LinksIn(storage, n, t) /\ Stacked(t) /\ \A j \in 1..Len(t) : Apart(t[j], top)
  BY <1>8, <1>9, <1>16, LinksBelow DEF top
<1>18. ASSUME NEW i \in 1..Len(t)
       PROVE  LinkIn(q, k, t[i])
  <2>1. PICK g : g = t[i]
    OBVIOUS
  <2>2. LinkIn(storage, n, g) /\ IsFrame(g) /\ Apart(g, top)
    BY <1>17, <2>1 DEF LinksIn, Stacked
  <2>3. g.v \in Nat /\ g.v < k /\ g.v \notin Heads(q)
    BY <1>13, <1>14, <2>2 DEF LinkIn, IsFrame, Values
  <2>4. ASSUME g.at \in ListPlaces
        PROVE  /\ g.starter \in Heads(q) /\ g.prev = q[g.starter].prev
               /\ g.starter < g.next /\ g.prev < g.next /\ g.next < k
               /\ g.next \notin InRing(q)
    <3>1. /\ g.starter \in Heads(storage) /\ g.prev = storage[g.starter].prev
          /\ g.starter < g.next /\ g.prev < g.next /\ g.next < n /\ g.next \notin InRing(storage)
          /\ g.next \in Nat /\ g.next < s
      BY <1>3, <1>9, <2>2, <2>4 DEF LinkIn, IsFrame, Apart, ListPlaces, Values
    <3>2. g.starter \in Values
      BY <3>1 DEF Heads, InRing
    <3>3. g.starter # s /\ g.starter # e /\ g.next # e /\ g.next < k
      BY <1>10, <1>11, <1>14, <3>1, <3>2 DEF Values
    <3> QED
      BY <1>12, <1>13, <3>1, <3>2, <3>3
  <2> QED
    BY <2>1, <2>3, <2>4 DEF LinkIn
<1>19. LinksIn(q, k, t)
  BY <1>17, <1>18 DEF LinksIn
<1>20. PICK c, g : g = [f EXCEPT !.c = c] /\ stack' = Append(t, g)
  BY <1>8, <1>16 DEF Getting, Replaced
<1>21. g.at = "after" /\ g.v = top.v /\ g.starter = s /\ g.prev = e /\ g.next = n
  BY <1>3, <1>6, <1>9, <1>20 DEF IsFrame, ListPlaces
<1>22. LinkIn(q, k, g)
  <2>1. n \notin InRing(q)
    BY <1>9, <1>10, <1>13, NextSpare
  <2>2. s < n /\ e < n /\ n < k /\ top.v < k
    BY <1>9, <1>10, <1>11, <1>14 DEF Values
  <2> QED
    BY <1>9, <1>10, <1>12, <1>13, <1>21, <2>1, <2>2 DEF LinkIn
<1>23. \A j \in 1..Len(t) : Apart(t[j], g)
  BY <1>3, <1>9, <1>17, <1>21 DEF Apart, ListPlaces
<1>24. LinksIn(q, k, stack')
  BY <1>17, <1>19, <1>20, <1>22, <1>23, LinksAbove
<1> QED
  BY <1>1, <1>8, <1>13, <1>14, <1>15, <1>24 DEF Chained

(* A step of the parser keeps the lists, or ends the run as they are.      *)
LEMMA ChainedStep ==
    ASSUME Reading, Chained, pc = "reading", Next
    PROVE  IF pc' = "exit" THEN storage' = storage ELSE Chained'
<1>1. ASSUME NEW messages, Fail(messages) PROVE pc' = "exit" /\ storage' = storage
  BY <1>1 DEF Fail, heap
<1>2. ValueError \/ NumberFails \/ LiteralFails \/ StringFails \/ ObjectError
        => pc' = "exit" /\ storage' = storage
  BY <1>1 DEF ValueError, NumberFails, LiteralFails, StringFails, ObjectError
<1>3. Abort \/ Write => pc' = "exit" /\ storage' = storage
  BY DEF Abort, Write, Exit, heap
<1>4. ~Start /\ ~Again
  BY DEF Start, Again
<1>5. ValueSpace \/ ValueNumber \/ ValueString \/ ValueLiteral \/ ValueList \/ NumberChar
        \/ LiteralChar \/ StringChar \/ StringEscape \/ StringHex \/ StringEnd \/ ListSpace
        \/ ListEnd \/ ArrayElement \/ ObjectName \/ ObjectColon \/ Element \/ ListAfter
        => pc' # "exit"
  BY DEF ValueSpace, ValueNumber, ValueString, ValueLiteral, ValueList, NumberChar,
         LiteralChar, StringChar, StringEscape, StringHex, StringEnd, ListSpace, ListEnd,
         ArrayElement, ObjectName, ObjectColon, Element, ListAfter, kept
<1>6. ValueSpace \/ ValueNumber \/ ValueString \/ ValueLiteral \/ ValueList \/ NumberChar
        \/ LiteralChar \/ StringChar \/ StringEscape \/ StringHex \/ StringEnd \/ ListSpace
        \/ ListEnd \/ ArrayElement \/ ObjectName \/ ObjectColon \/ Element \/ ListAfter
        => Chained'
  BY ValueSpaceLinks, ValueNumberLinks, ValueStringLinks, ValueLiteralLinks, ValueListLinks,
     NumberCharLinks, LiteralCharLinks, StringCharLinks, StringEscapeLinks, StringHexLinks,
     StringEndLinks, ListSpaceLinks, ListEndLinks, ArrayElementLinks, ObjectNameLinks,
     ObjectColonLinks, ElementLinks, ListAfterLinks
<1> QED
  BY <1>2, <1>3, <1>4, <1>5, <1>6, NumberEndLinks DEF Next

LEMMA StartLinks ==
    ASSUME Unread, Rings(storage), Spare(storage, next_value), Start
    PROVE  IF pc' = "exit" THEN storage' = storage ELSE Chained'
<1>1. CASE \E code : Exit(code)
  BY <1>1 DEF Exit, heap
<1>2. CASE ~ \E code : Exit(code)
  <2>1. PICK c : CallValue(<<>>, c) /\ pc' = "reading" /\ result' = result
    BY <1>2 DEF Start
  <2>2. PICK f : f = [at |-> "value", v |-> next_value, c |-> c]
    OBVIOUS
  <2>3. /\ next_value' = next_value + 1 /\ stack' = Append(<<>>, f) /\ storage' = storage
        /\ result' = Null /\ next_value \in Nat
    BY <2>1, <2>2 DEF CallValue, Unread
  <2>4. Stacked(<<>>) /\ LinksIn(storage, next_value + 1, <<>>)
    BY EmptySeq DEF Stacked, LinksIn
  <2>5. f.at \notin ListPlaces /\ f.v < next_value + 1 /\ f.v \notin Heads(storage)
    BY <2>2, <2>3, NextSpare DEF ListPlaces
  <2>6. LinksIn(storage, next_value + 1, stack')
    BY <2>3, <2>4, <2>5, LinksCalled
  <2>7. Spare(storage, next_value + 1)
    BY <2>3 DEF Spare, Values
  <2> QED
    BY <2>1, <2>3, <2>6, <2>7 DEF Chained
<1> QED
  BY <1>1, <1>2

LEMMA FreshRings ==
    ASSUME NEW m, m = [i \in Values |-> Fresh]
    PROVE  Rings(m) /\ Spare(m, 0)
<1>1. \A i \in Values : m[i].next = Null /\ m[i].type = "none"
  BY DEF Fresh
<1>2. InRing(m) = {}
  BY <1>1 DEF InRing
<1>3. [i \in Values |-> i] \in [Values -> Values]
  OBVIOUS
<1> QED
  BY <1>1, <1>2, <1>3 DEF Rings, Spare

LEMMA PooledStep ==
    ASSUME Parsing, Pooled, [Next]_vars
    PROVE  Pooled'
<1>1. CASE UNCHANGED vars
  BY <1>1 DEF vars, heap, Pooled, Chained
<1>2. CASE Next /\ Again
  <2>1. storage' = [i \in Values |-> Fresh] /\ next_value' = 0 /\ pc' = "validargs"
    BY <1>2 DEF Again
  <2> QED
    BY <2>1, FreshRings DEF Pooled
<1>3. CASE Next /\ ~Again
  <2>1. IF pc' = "exit" THEN storage' = storage ELSE Chained'
    BY <1>3, ReadingSteps, ChainedStep, StartLinks DEF Parsing, Pooled
  <2>2. pc' # "validargs"
    <3>1. CASE pc = "reading"
      BY <1>3, <3>1, ParserStep DEF Parsing, Parsed
    <3>2. CASE pc = "validargs" /\ Start
      BY <3>2, StartOK DEF Parsing
    <3> QED
      BY <1>3, <3>1, <3>2, ReadingSteps
  <2> QED
    BY <2>1, <2>2 DEF Pooled, Chained
<1> QED
  BY <1>1, <1>2, <1>3

(* The rings of the pool are whole at every step, of the parser and of     *)
(* both processes: whatever the input and however deep its lists, a list   *)
(* is a cycle through its head that holds its elements in the order in     *)
(* which they were read, and no call in progress has a value of another's. *)
THEOREM ListsAreSound == Spec => []ListsSound
<1>1. Init => Parsing /\ Pooled
  BY ParsingInit, FreshRings DEF Init, Pooled
<1>2. Parsing /\ Pooled /\ [Next]_vars => Parsing' /\ Pooled'
  BY ParsingStep, PooledStep
<1>3. Pooled => ListsSound
  BY RingsSound DEF Pooled
<1> QED
  BY <1>1, <1>2, <1>3, PTL DEF Spec

=============================================================================
