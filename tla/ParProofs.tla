------------------------------- MODULE ParProofs -------------------------------
(***************************************************************************)
(* The program par (module Par), for any runs: its reader keeps every      *)
(* paragraph and every blank line, and each of its steps takes something   *)
(* from what is left to do.                                                *)
(*                                                                         *)
(* The inductive invariant ParInv says which line the reader is at.        *)
(* Between paragraphs what is left of the input is what comes from the jth *)
(* line on, except that the white characters of a blank jth line may be    *)
(* gone; within a paragraph it is just that, and the paragraph is the      *)
(* lines from the kth to the one before.  What is printed is what Upto     *)
(* gives for the lines before: how a paragraph is laid out, what its       *)
(* defaults are, and whether that fails, plays no part.                    *)
(***************************************************************************)
EXTENDS Par, SequenceTheorems, WellFoundedInduction, TLAPS

Line == Seq(STRING)

-----------------------------------------------------------------------------
(* Induction over numbers, with a set for what holds of them.              *)

\* Every set of natural numbers has a least element.
LEMMA LeastNatural ==
    ASSUME NEW T \in SUBSET Nat, T # {}
    PROVE  \E x \in T : \A y \in T : x <= y
<1>1. PICK x \in T : \A y \in T : ~(<<y, x>> \in OpToRel(<, Nat))
  BY NatLessThanWellFounded, WFMin
<1>2. ASSUME NEW y \in T
      PROVE  x <= y
  <2>1. x \in Nat /\ y \in Nat
    OBVIOUS
  <2>2. <<y, x>> \in Nat \X Nat /\ ~(<<y, x>> \in OpToRel(<, Nat))
    BY <1>1, <2>1
  <2>3. ~(y < x)
    BY <2>2 DEF OpToRel
  <2> QED
    BY <2>1, <2>3
<1> QED
  BY <1>2

\* What holds of 0, and of n + 1 if of n, holds of every natural number.
LEMMA SetInduction ==
    ASSUME NEW S, 0 \in S, \A n \in Nat : n \in S => n + 1 \in S
    PROVE  Nat \subseteq S
<1> DEFINE T == Nat \ S
<1> SUFFICES ASSUME T # {} PROVE FALSE
  OBVIOUS
<1>1. T \in SUBSET Nat
  OBVIOUS
<1>2. PICK x \in T : \A y \in T : x <= y
  <2> HIDE DEF T
  <2> QED
    BY <1>1, LeastNatural
<1>3. x \in Nat /\ x \notin S
  OBVIOUS
<1>4. x # 0
  BY <1>3
<1>5. x - 1 \in Nat /\ ~(x <= x - 1) /\ (x - 1) + 1 = x
  BY <1>3, <1>4
<1>6. x - 1 \in S
  BY <1>2, <1>5
<1>7. (x - 1) + 1 \in S
  BY <1>5, <1>6
<1> QED
  BY <1>3, <1>5, <1>7

-----------------------------------------------------------------------------
(* Upto and Size satisfy the equations that define them. *)

\* What is printed for the first k lines is what the kth adds to it for k - 1.
LEMMA UptoSteps ==
    ASSUME NEW lines \in Seq(Line), NEW v
    PROVE  /\ Upto(lines, v)[0] = <<>>
           /\ \A k \in 1..Len(lines) :
                Upto(lines, v)[k] = WithLine(lines, v, k, Upto(lines, v)[k - 1])
<1> DEFINE Entry(k, before) == WithLine(lines, v, k, before)
           Is(f, m) == f = [k \in 0..m |-> IF k = 0 THEN <<>> ELSE Entry(k, f[k - 1])]
           S == {m \in Nat : \E f : Is(f, m)}
<1> HIDE DEF Entry
<1>1. 0 \in S
  <2>1. Is([k \in 0..0 |-> <<>>], 0)
    OBVIOUS
  <2> QED
    BY <2>1
<1>2. ASSUME NEW m \in Nat, m \in S
      PROVE  m + 1 \in S
  <2>1. PICK f : Is(f, m)
    BY <1>2
  <2> DEFINE g == [k \in 0..(m + 1) |-> IF k = m + 1 THEN Entry(m + 1, f[m]) ELSE f[k]]
             h == [k \in 0..(m + 1) |-> IF k = 0 THEN <<>> ELSE Entry(k, g[k - 1])]
  <2>2. \A k \in 0..m : g[k] = f[k] /\ f[k] = IF k = 0 THEN <<>> ELSE Entry(k, f[k - 1])
    BY <2>1
  <2>3. ASSUME NEW k \in 0..(m + 1)
        PROVE  g[k] = h[k]
    <3>1. CASE k = 0
      <4>1. k \in 0..m /\ k - 1 \notin 0..m
        BY <3>1
      <4>2. g[k] = <<>>
        BY <2>2, <3>1, <4>1
      <4> QED
        BY <3>1, <4>2
    <3>2. CASE k # 0
      <4>1. k - 1 \in 0..m
        BY <3>2
      <4>2. g[k - 1] = f[k - 1]
        BY <2>2, <4>1
      <4>3. g[k] = Entry(k, f[k - 1])
        <5>1. CASE k = m + 1
          BY <5>1
        <5>2. CASE k # m + 1
          <6>1. k \in 0..m
            BY <5>2
          <6> HIDE DEF g
          <6> QED
            BY <2>2, <3>2, <6>1
        <5> QED
          BY <5>1, <5>2
      <4> QED
        BY <3>2, <4>2, <4>3
    <3> QED
      BY <3>1, <3>2
  <2>4. g = h
    BY <2>3
  <2>5. Is(g, m + 1)
    <3> HIDE DEF g
    <3> QED
      BY <2>4
  <2>6. \E fn : Is(fn, m + 1)
    <3> HIDE DEF g
    <3> QED
      BY <2>5
  <2> QED
    BY <2>6
<1>3. Len(lines) \in S
  <2> HIDE DEF S
  <2> QED
    BY <1>1, <1>2, SetInduction, LenProperties
<1>4. \E f : Is(f, Len(lines))
  BY <1>3
<1>5. Upto(lines, v) = CHOOSE f : Is(f, Len(lines))
  BY DEF Upto, Entry
<1>6. Is(Upto(lines, v), Len(lines))
  BY <1>4, <1>5
<1>7. Len(lines) \in Nat
  BY LenProperties
<1> HIDE DEF S
<1>8. Upto(lines, v)[0] = <<>>
  BY <1>6, <1>7
<1>9. \A k \in 1..Len(lines) : Upto(lines, v)[k] = Entry(k, Upto(lines, v)[k - 1])
  BY <1>6, <1>7
<1> QED
  BY <1>8, <1>9 DEF Entry

\* A run starts where no line since is blank and the line before is.
Start(lines, k) == k = 1 \/ Blank(lines[k - 1])

Run(lines, k, j) == \A i \in k..j : ~ Blank(lines[i])

LEMMA RunStartIs ==
    ASSUME NEW lines, NEW j \in Nat, NEW k \in 1..j, Run(lines, k, j), Start(lines, k)
    PROVE  RunStart(lines, j) = k
<1> DEFINE S == {i \in 1..j : \A l \in i..j : ~ Blank(lines[l])}
<1>1. k \in S
  BY DEF Run
<1>2. ASSUME NEW i \in S
      PROVE  k <= i
  <2> SUFFICES ASSUME i < k
               PROVE  FALSE
    OBVIOUS
  <2>1. k # 1 /\ k - 1 \in i..j
    OBVIOUS
  <2> QED
    BY <2>1 DEF Start
<1>3. RunStart(lines, j) = CHOOSE x \in S : \A y \in S : x <= y
  BY DEF RunStart, Min
<1>4. S \subseteq Nat
  OBVIOUS
<1> HIDE DEF S
<1>5. k \in S /\ \A y \in S : k <= y
  BY <1>1, <1>2
<1>6. ASSUME NEW x \in S, \A y \in S : x <= y
      PROVE  x = k
  <2>1. x <= k /\ k <= x /\ x \in Nat
    BY <1>4, <1>5, <1>6
  <2> QED
    BY <2>1
<1> QED
  BY <1>3, <1>5, <1>6

-----------------------------------------------------------------------------
(* The size of an input. *)

\* The sum of the first lines satisfies its definition.
LEMMA SizeSteps ==
    ASSUME NEW lines \in Seq(Line)
    PROVE  \E size : /\ size[0] = 0 /\ size[Len(lines)] = Size(lines)
                    /\ \A k \in 1..Len(lines) : size[k] = size[k - 1] + Len(lines[k]) + 1
<1> DEFINE Entry(k, before) == before + Len(lines[k]) + 1
           Is(f, m) == f = [k \in 0..m |-> IF k = 0 THEN 0 ELSE Entry(k, f[k - 1])]
           S == {m \in Nat : \E f : Is(f, m)}
<1> HIDE DEF Entry
<1>1. 0 \in S
  <2>1. Is([k \in 0..0 |-> 0], 0)
    OBVIOUS
  <2> QED
    BY <2>1
<1>2. ASSUME NEW m \in Nat, m \in S
      PROVE  m + 1 \in S
  <2>1. PICK f : Is(f, m)
    BY <1>2
  <2> DEFINE g == [k \in 0..(m + 1) |-> IF k = m + 1 THEN Entry(m + 1, f[m]) ELSE f[k]]
             h == [k \in 0..(m + 1) |-> IF k = 0 THEN 0 ELSE Entry(k, g[k - 1])]
  <2>2. \A k \in 0..m : g[k] = f[k] /\ f[k] = IF k = 0 THEN 0 ELSE Entry(k, f[k - 1])
    BY <2>1
  <2>3. ASSUME NEW k \in 0..(m + 1)
        PROVE  g[k] = h[k]
    <3>1. CASE k = 0
      <4>1. k \in 0..m /\ k - 1 \notin 0..m
        BY <3>1
      <4>2. g[k] = 0
        BY <2>2, <3>1, <4>1
      <4> QED
        BY <3>1, <4>2
    <3>2. CASE k # 0
      <4>1. k - 1 \in 0..m
        BY <3>2
      <4>2. g[k - 1] = f[k - 1]
        BY <2>2, <4>1
      <4>3. g[k] = Entry(k, f[k - 1])
        <5>1. CASE k = m + 1
          BY <5>1
        <5>2. CASE k # m + 1
          <6>1. k \in 0..m
            BY <5>2
          <6> HIDE DEF g
          <6> QED
            BY <2>2, <3>2, <6>1
        <5> QED
          BY <5>1, <5>2
      <4> QED
        BY <3>2, <4>2, <4>3
    <3> QED
      BY <3>1, <3>2
  <2>4. g = h
    BY <2>3
  <2>5. Is(g, m + 1)
    <3> HIDE DEF g
    <3> QED
      BY <2>4
  <2>6. \E fn : Is(fn, m + 1)
    <3> HIDE DEF g
    <3> QED
      BY <2>5
  <2> QED
    BY <2>6
<1>3. Len(lines) \in S
  <2> HIDE DEF S
  <2> QED
    BY <1>1, <1>2, SetInduction, LenProperties
<1> DEFINE size == CHOOSE f : Is(f, Len(lines))
<1>4. \E f : Is(f, Len(lines))
  BY <1>3
<1>5. Size(lines) = size[Len(lines)]
  BY DEF Size, Entry
<1>6. Is(size, Len(lines))
  BY <1>4
<1>7. Len(lines) \in Nat
  BY LenProperties
<1> HIDE DEF S, size
<1>8. size[0] = 0
  BY <1>6, <1>7
<1>9. \A k \in 1..Len(lines) : size[k] = size[k - 1] + Len(lines[k]) + 1
  BY <1>6, <1>7 DEF Entry
<1> QED
  BY <1>5, <1>8, <1>9

\* It is a natural number.
LEMMA SizeNat ==
    ASSUME NEW lines \in Seq(Line), NEW size, size[0] = 0,
           \A k \in 1..Len(lines) : size[k] = size[k - 1] + Len(lines[k]) + 1
    PROVE  \A k \in 0..Len(lines) : size[k] \in Nat
<1> DEFINE S == {k \in Nat : k <= Len(lines) => size[k] \in Nat}
<1>1. Len(lines) \in Nat /\ \A k \in 1..Len(lines) : lines[k] \in Line
  BY LenProperties, ElementOfSeq
<1>2. \A ln \in Line : Len(ln) \in Nat
  BY LenProperties DEF Line
<1>3. 0 \in S
  OBVIOUS
<1>4. ASSUME NEW m \in Nat, m \in S
      PROVE  m + 1 \in S
  <2> SUFFICES ASSUME m + 1 <= Len(lines)
               PROVE  size[m + 1] \in Nat
    OBVIOUS
  <2>1. m + 1 \in 1..Len(lines) /\ size[m] \in Nat /\ (m + 1) - 1 = m
    BY <1>1, <1>4
  <2>2. size[m + 1] = size[m] + Len(lines[m + 1]) + 1
    BY <2>1
  <2>3. Len(lines[m + 1]) \in Nat
    BY <1>1, <1>2, <2>1
  <2> QED
    BY <2>1, <2>2, <2>3
<1>5. Nat \subseteq S
  <2> HIDE DEF S
  <2> QED
    BY <1>3, <1>4, SetInduction
<1> QED
  BY <1>1, <1>5

LEMMA SizeType ==
    ASSUME NEW lines \in Seq(Line)
    PROVE  Size(lines) \in Nat
<1>1. PICK size : /\ size[0] = 0 /\ size[Len(lines)] = Size(lines)
                  /\ \A k \in 1..Len(lines) : size[k] = size[k - 1] + Len(lines[k]) + 1
  BY SizeSteps
<1>2. \A k \in 0..Len(lines) : size[k] \in Nat
  BY <1>1, SizeNat
<1>3. Len(lines) \in 0..Len(lines)
  BY LenProperties
<1> QED
  BY <1>1, <1>2, <1>3

\* The first line and its newline are the size of the whole less that of the tail.
LEMMA SizeOfTail ==
    ASSUME NEW s \in Seq(Line), s # <<>>
    PROVE  Size(s) = Size(Tail(s)) + Len(s[1]) + 1
<1> DEFINE t == Tail(s)
<1>1. /\ t \in Seq(Line) /\ Len(t) = Len(s) - 1
      /\ \A i \in 1..Len(t) : t[i] = s[i + 1]
  BY HeadTailProperties
<1>2. Len(s) \in Nat /\ Len(s) >= 1 /\ Len(t) \in Nat
  BY <1>1, LenProperties, EmptySeq
<1> HIDE DEF t
<1>3. PICK f : /\ f[0] = 0 /\ f[Len(s)] = Size(s)
               /\ \A k \in 1..Len(s) : f[k] = f[k - 1] + Len(s[k]) + 1
  BY SizeSteps
<1>4. PICK g : /\ g[0] = 0 /\ g[Len(t)] = Size(t)
               /\ \A k \in 1..Len(t) : g[k] = g[k - 1] + Len(t[k]) + 1
  BY <1>1, SizeSteps
<1>5. \A k \in 0..Len(t) : g[k] \in Nat
  BY <1>1, <1>4, SizeNat
<1>6. \A k \in 1..Len(s) : Len(s[k]) \in Nat
  BY ElementOfSeq, LenProperties DEF Line
<1> DEFINE S == {k \in Nat : k <= Len(t) => f[k + 1] = g[k] + Len(s[1]) + 1}
<1>7. 0 \in S
  <2>1. 1 \in 1..Len(s) /\ Len(s[1]) \in Nat
    BY <1>2, <1>6
  <2>2. f[1] = f[1 - 1] + Len(s[1]) + 1
    BY <1>3, <2>1
  <2> QED
    BY <1>3, <1>4, <2>1, <2>2
<1>8. ASSUME NEW m \in Nat, m \in S
      PROVE  m + 1 \in S
  <2> SUFFICES ASSUME m + 1 <= Len(t)
               PROVE  f[m + 1 + 1] = g[m + 1] + Len(s[1]) + 1
    OBVIOUS
  <2>1. /\ m + 1 \in 1..Len(t) /\ m + 1 + 1 \in 1..Len(s) /\ 1 \in 1..Len(s)
        /\ m \in 0..Len(t) /\ m <= Len(t) /\ (m + 1) - 1 = m /\ (m + 1 + 1) - 1 = m + 1
    BY <1>1, <1>2
  <2>2. f[m + 1] = g[m] + Len(s[1]) + 1
    BY <1>8, <2>1
  <2>3. g[m + 1] = g[m] + Len(t[m + 1]) + 1
    BY <1>4, <2>1
  <2>4. f[m + 1 + 1] = f[m + 1] + Len(s[m + 1 + 1]) + 1
    BY <1>3, <2>1
  <2>5. t[m + 1] = s[m + 1 + 1]
    BY <1>1, <2>1
  <2>6. g[m] \in Nat /\ Len(s[1]) \in Nat /\ Len(s[m + 1 + 1]) \in Nat
    BY <1>5, <1>6, <2>1
  <2> QED
    BY <2>2, <2>3, <2>4, <2>5, <2>6
<1>9. Len(t) \in S
  <2> HIDE DEF S
  <2> QED
    BY <1>2, <1>7, <1>8, SetInduction
<1>10. f[Len(t) + 1] = g[Len(t)] + Len(s[1]) + 1 /\ Len(t) + 1 = Len(s)
  BY <1>1, <1>2, <1>9
<1> QED
  BY <1>3, <1>4, <1>10 DEF t

\* What is left when the first line is taken, and when it is only emptied.
Taken(rest) == IF Len(rest) > 1 THEN Tail(rest) ELSE <<<<>>>>

Emptying(rest) == IF Len(rest) > 1 THEN <<<<>>>> \o Tail(rest) ELSE <<<<>>>>

LEMMA SizeOfEmpty == Size(<<<<>>>>) = 1
<1>1. <<<<>>>> \in Seq(Line) /\ <<<<>>>> # <<>> /\ <<<<>>>>[1] = <<>> /\ Len(<<<<>>>>) = 1
  BY DEF Line
<1>2. PICK size : /\ size[0] = 0 /\ size[1] = Size(<<<<>>>>)
                  /\ \A k \in 1..1 : size[k] = size[k - 1] + Len(<<<<>>>>[k]) + 1
  BY <1>1, SizeSteps
<1>3. size[1] = size[1 - 1] + Len(<<>>) + 1
  BY <1>1, <1>2
<1> QED
  BY <1>2, <1>3

LEMMA SizeTaken ==
    ASSUME NEW rest \in Seq(Line), rest # <<>>, Len(rest) > 1 \/ rest[1] # <<>>
    PROVE  /\ Taken(rest) \in Seq(Line) /\ Taken(rest) # <<>>
           /\ Size(Taken(rest)) \in Nat /\ Size(rest) \in Nat /\ Size(Taken(rest)) < Size(rest)
<1>1. /\ Tail(rest) \in Seq(Line) /\ Len(Tail(rest)) = Len(rest) - 1 /\ Size(Tail(rest)) \in Nat
      /\ Len(rest) \in Nat /\ Len(rest) >= 1 /\ Size(rest) \in Nat
  <2>1. Tail(rest) \in Seq(Line) /\ Len(Tail(rest)) = Len(rest) - 1
    BY HeadTailProperties
  <2>2. Len(rest) \in Nat /\ Len(rest) >= 1
    BY LenProperties, EmptySeq
  <2> QED
    BY <2>1, <2>2, SizeType
<1>2. rest[1] \in Line /\ Len(rest[1]) \in Nat
  BY <1>1, ElementOfSeq, LenProperties DEF Line
<1>3. Size(rest) = Size(Tail(rest)) + Len(rest[1]) + 1
  BY SizeOfTail
<1>4. CASE Len(rest) > 1
  <2>1. Taken(rest) = Tail(rest)
    BY <1>4 DEF Taken
  <2>2. Tail(rest) # <<>>
    <3>1. PICK t \in Seq(Line) : t = Tail(rest) /\ Len(t) = Len(rest) - 1
      BY <1>1
    <3>2. Len(t) # 0
      BY <1>1, <1>4, <3>1
    <3>3. t # <<>>
      BY <3>2
    <3> QED
      BY <3>1, <3>3
  <2> QED
    BY <1>1, <1>2, <1>3, <2>1, <2>2
<1>5. CASE ~ (Len(rest) > 1)
  <2>1. Taken(rest) = <<<<>>>>
    BY <1>5 DEF Taken
  <2>2. Len(rest[1]) > 0
    BY <1>2, <1>5, EmptySeq, LenProperties DEF Line
  <2>3. <<<<>>>> \in Seq(Line) /\ <<<<>>>> # <<>>
    BY DEF Line
  <2> QED
    BY <1>1, <1>2, <1>3, <2>1, <2>2, <2>3, SizeOfEmpty
<1> QED
  BY <1>4, <1>5

LEMMA SizeEmptying ==
    ASSUME NEW rest \in Seq(Line), rest # <<>>
    PROVE  /\ Emptying(rest) \in Seq(Line) /\ Emptying(rest) # <<>>
           /\ Size(Emptying(rest)) \in Nat /\ Size(rest) \in Nat
           /\ Size(Emptying(rest)) <= Size(rest)
           /\ rest[1] # <<>> => Size(Emptying(rest)) < Size(rest)
<1>1. /\ Tail(rest) \in Seq(Line) /\ Len(Tail(rest)) = Len(rest) - 1 /\ Size(Tail(rest)) \in Nat
      /\ Len(rest) \in Nat /\ Len(rest) >= 1 /\ Size(rest) \in Nat
  <2>1. Tail(rest) \in Seq(Line) /\ Len(Tail(rest)) = Len(rest) - 1
    BY HeadTailProperties
  <2>2. Len(rest) \in Nat /\ Len(rest) >= 1
    BY LenProperties, EmptySeq
  <2> QED
    BY <2>1, <2>2, SizeType
<1>2. rest[1] \in Line /\ Len(rest[1]) \in Nat /\ (rest[1] # <<>> => Len(rest[1]) > 0)
  BY <1>1, ElementOfSeq, LenProperties, EmptySeq DEF Line
<1>3. Size(rest) = Size(Tail(rest)) + Len(rest[1]) + 1
  BY SizeOfTail
<1>4. <<<<>>>> \in Seq(Line) /\ <<<<>>>> # <<>>
  BY DEF Line
<1>5. CASE Len(rest) > 1
  <2> DEFINE e == <<<<>>>> \o Tail(rest)
  <2>1. Emptying(rest) = e
    BY <1>5 DEF Emptying
  <2>2. e \in Seq(Line) /\ Len(e) = Len(rest) /\ e[1] = <<>> /\ Tail(e) = Tail(rest)
    <3>1. PICK t \in Seq(Line) : t = Tail(rest)
      BY <1>1
    <3>2. <<<<>>>> \o t \in Seq(Line) /\ Len(<<<<>>>> \o t) = 1 + Len(t) /\ (<<<<>>>> \o t)[1] = <<>>
      BY <1>4, ConcatProperties
    <3>3. Tail(<<<<>>>> \o t) = t
      BY <1>4
    <3> QED
      BY <1>1, <3>1, <3>2, <3>3
  <2>3. e # <<>>
    BY <1>1, <2>2
  <2> HIDE DEF e
  <2>4. Size(e) = Size(Tail(e)) + Len(e[1]) + 1
    BY <2>2, <2>3, SizeOfTail
  <2>5. Len(<<>>) = 0
    OBVIOUS
  <2>6. Size(e) = Size(Tail(rest)) + 0 + 1
    BY <2>2, <2>4, <2>5
  <2>7. Emptying(rest) \in Seq(Line) /\ Emptying(rest) # <<>>
    BY <2>1, <2>2, <2>3
  <2>8. Size(Emptying(rest)) = Size(Tail(rest)) + 1
    BY <1>1, <2>1, <2>6
  <2> QED
    BY <1>1, <1>2, <1>3, <2>7, <2>8
<1>6. CASE ~ (Len(rest) > 1)
  <2>1. Emptying(rest) = <<<<>>>>
    BY <1>6 DEF Emptying
  <2> QED
    BY <1>1, <1>2, <1>3, <1>4, <2>1, SizeOfEmpty
<1> QED
  BY <1>5, <1>6

-----------------------------------------------------------------------------
(* Where the reader is. *)

(* What is left of the input is what comes from the jth line on, but for   *)
(* its first line, and nothing but an empty line after the last one.       *)
From(lines, j, rest) ==
  /\ j \in 1..(Len(lines) + 1)
  /\ rest \in Seq(Line)
  /\ Len(rest) = IF j = Len(lines) + 1 THEN 1 ELSE Len(lines) + 1 - j
  /\ \A i \in 2..Len(rest) : rest[i] = lines[j + i - 1]

(* The first line is the jth, or what the end of a paragraph leaves of it. *)
Unread(lines, j, rest) == rest[1] = IF j = Len(lines) + 1 THEN <<>> ELSE lines[j]

Emptied(lines, j, rest) == rest[1] = <<>> /\ (j = Len(lines) + 1 \/ Blank(lines[j]))

LEMMA EmptyIsBlank == Blank(<<>>)
BY DEF Blank, ToSet

\* The kth line to the jth.
LEMMA SomeLines ==
    ASSUME NEW lines \in Seq(Line), NEW j \in 1..Len(lines), NEW k \in 1..j
    PROVE  /\ SubSeq(lines, k, j) \in Seq(Line) /\ Len(SubSeq(lines, k, j)) = (j - k) + 1
           /\ \A i \in 1..((j - k) + 1) : SubSeq(lines, k, j)[i] = lines[k + i - 1]
<1>1. j \in Int /\ k \in Int /\ k <= j /\ \A i \in k..j : i \in 1..Len(lines)
  BY LenProperties
<1>2. \A i \in k..j : lines[i] \in Line
  BY <1>1, ElementOfSeq
<1>3. /\ SubSeq(lines, k, j) \in Seq(Line)
      /\ Len(SubSeq(lines, k, j)) = IF k <= j THEN j - k + 1 ELSE 0
      /\ \A i \in 1..(j - k + 1) : SubSeq(lines, k, j)[i] = lines[k + i - 1]
  BY <1>1, <1>2, SubSeqProperties
<1> QED
  BY <1>1, <1>3

\* Taking the first line moves the reader to the next one.
LEMMA TakenMoves ==
    ASSUME NEW lines \in Seq(Line), NEW j \in Nat, NEW rest, From(lines, j, rest), j <= Len(lines)
    PROVE  From(lines, j + 1, Taken(rest)) /\ Unread(lines, j + 1, Taken(rest))
<1>1. Len(lines) \in Nat /\ rest \in Seq(Line) /\ Len(rest) = Len(lines) + 1 - j /\ j >= 1
  BY LenProperties DEF From
<1>2. CASE Len(rest) > 1
  <2>1. PICK t \in Seq(Line) : /\ t = Tail(rest) /\ Len(t) = Len(rest) - 1
                               /\ \A i \in 1..Len(t) : t[i] = rest[i + 1]
    <3>1. rest # <<>>
      BY <1>2
    <3> QED
      BY ZenonT(60), <1>1, <3>1, HeadTailProperties
  <2>2. Taken(rest) = t
    BY <1>2, <2>1 DEF Taken
  <2>3. \A i \in 1..Len(t) : t[i] = lines[j + i]
    <3> SUFFICES ASSUME NEW i \in 1..Len(t)
                 PROVE  t[i] = lines[j + i]
      OBVIOUS
    <3>1. i + 1 \in 2..Len(rest) /\ j + (i + 1) - 1 = j + i
      BY <1>1, <2>1
    <3> QED
      BY <2>1, <3>1 DEF From
  <2>4. j + 1 # Len(lines) + 1 /\ j + 1 \in 1..(Len(lines) + 1) /\ 1 \in 1..Len(t)
    BY <1>1, <1>2, <2>1
  <2>5. \A i \in 2..Len(t) : i \in 1..Len(t) /\ (j + 1) + i - 1 = j + i
    BY <1>1, <2>1
  <2>6. From(lines, j + 1, t)
    BY <1>1, <2>1, <2>3, <2>4, <2>5 DEF From
  <2>7. Unread(lines, j + 1, t)
    BY <2>3, <2>4 DEF Unread
  <2> QED
    BY <2>2, <2>6, <2>7
<1>3. CASE ~ (Len(rest) > 1)
  <2>1. Taken(rest) = <<<<>>>> /\ j = Len(lines)
    BY <1>1, <1>3 DEF Taken
  <2>2. <<<<>>>> \in Seq(Line) /\ Len(<<<<>>>>) = 1 /\ <<<<>>>>[1] = <<>>
    BY DEF Line
  <2> QED
    BY <1>1, <2>1, <2>2 DEF From, Unread
<1> QED
  BY <1>2, <1>3

\* Emptying it does not.
LEMMA EmptyingStays ==
    ASSUME NEW lines \in Seq(Line), NEW j \in Nat, NEW rest, From(lines, j, rest),
           Unread(lines, j, rest), Blank(rest[1])
    PROVE  From(lines, j, Emptying(rest)) /\ Emptied(lines, j, Emptying(rest))
<1>1. Len(lines) \in Nat /\ rest \in Seq(Line) /\ Len(rest) \in Nat
  BY LenProperties DEF From
<1>2. j = Len(lines) + 1 \/ Blank(lines[j])
  BY DEF Unread
<1>3. CASE Len(rest) > 1
  <2>1. PICK t \in Seq(Line) : /\ t = Tail(rest) /\ Len(t) = Len(rest) - 1
                               /\ \A i \in 1..Len(t) : t[i] = rest[i + 1]
    <3>1. rest # <<>>
      BY <1>3
    <3> QED
      BY <1>1, <3>1, HeadTailProperties
  <2>2. PICK e \in Seq(Line) : /\ e = <<<<>>>> \o t /\ Len(e) = 1 + Len(t) /\ e[1] = <<>>
                               /\ \A i \in 2..Len(e) : e[i] = t[i - 1]
    <3>1. <<<<>>>> \in Seq(Line) /\ Len(<<<<>>>>) = 1 /\ <<<<>>>>[1] = <<>>
      BY DEF Line
    <3> DEFINE b == <<<<>>>>
               e == b \o t
    <3>2. b \in Seq(Line) /\ Len(b) = 1 /\ b[1] = <<>>
      BY <3>1
    <3> HIDE DEF b
    <3>3. /\ e \in Seq(Line) /\ Len(e) = Len(b) + Len(t)
          /\ \A i \in 1..Len(e) : e[i] = IF i <= Len(b) THEN b[i] ELSE t[i - Len(b)]
      BY ZenonT(60), <3>2, ConcatProperties
    <3>4. Len(e) = 1 + Len(t) /\ Len(t) \in Nat
      BY <3>2, <3>3, <2>1, LenProperties
    <3>5. e[1] = <<>> /\ \A i \in 2..Len(e) : e[i] = t[i - 1]
      BY <3>2, <3>3, <3>4
    <3> QED
      BY <3>3, <3>4, <3>5 DEF b
  <2>3. Emptying(rest) = e
    BY <1>3, <2>1, <2>2 DEF Emptying
  <2>4. \A i \in 2..Len(e) : e[i] = rest[i]
    <3> SUFFICES ASSUME NEW i \in 2..Len(e)
                 PROVE  e[i] = rest[i]
      OBVIOUS
    <3>1. i - 1 \in 1..Len(t) /\ (i - 1) + 1 = i
      BY <1>1, <2>1, <2>2
    <3> QED
      BY <2>1, <2>2, <3>1
  <2>5. Len(e) = Len(rest)
    BY <1>1, <2>1, <2>2
  <2>6. From(lines, j, e)
    BY <2>4, <2>5 DEF From
  <2> QED
    BY <1>2, <2>2, <2>3, <2>6 DEF Emptied
<1>4. CASE ~ (Len(rest) > 1)
  <2>0. Len(rest) = 1
    BY <1>1, <1>4 DEF From
  <2>1. Emptying(rest) = <<<<>>>>
    BY <1>4 DEF Emptying
  <2>2. <<<<>>>> \in Seq(Line) /\ Len(<<<<>>>>) = 1 /\ <<<<>>>>[1] = <<>>
    BY DEF Line
  <2> DEFINE e == <<<<>>>>
  <2>3. e \in Seq(Line) /\ Len(e) = 1 /\ e[1] = <<>> /\ Emptying(rest) = e
    BY <2>1, <2>2
  <2> HIDE DEF e
  <2>4. From(lines, j, e)
    <3>1. \A i \in 2..Len(e) : FALSE
      BY <2>3
    <3> QED
      BY <1>1, <2>0, <2>3, <3>1 DEF From
  <2>5. Emptied(lines, j, e)
    BY <1>2, <2>3 DEF Emptied
  <2> QED
    BY <2>3, <2>4, <2>5
<1> QED
  BY <1>3, <1>4

-----------------------------------------------------------------------------
(* What each stage of the loop keeps. *)

(* Before the jth line, no paragraph being read. *)
Between(lines, v, out, j, rest) ==
  /\ From(lines, j, rest)
  /\ out = Upto(lines, v)[j - 1]
  /\ Emptied(lines, j, rest) \/ (Unread(lines, j, rest) /\ rest[1] # <<>> /\ Start(lines, j))

(* Before the jth line, the paragraph being read having started at the kth. *)
Within(lines, v, out, para, k, j, rest) ==
  /\ From(lines, j, rest) /\ Unread(lines, j, rest)
  /\ k \in 1..Len(lines) /\ k <= j
  /\ Start(lines, k) /\ Run(lines, k, j - 1)
  /\ IF j = k THEN para = <<>> /\ rest[1] # <<>> ELSE para # <<>> /\ para = SubSeq(lines, k, j - 1)
  /\ out = Upto(lines, v)[IF j = k THEN k - 1 ELSE j - 2]

(* Before the jth line, the paragraph before it not yet printed. *)
After(lines, v, out, para, j, rest) ==
  /\ From(lines, j, rest) /\ Emptied(lines, j, rest)
  /\ Upto(lines, v)[j - 1] = out \o ReformatPar(para, Setdefaults(para, v)).out

LEMMA SkipKept ==
    ASSUME NEW lines \in Seq(Line), NEW v, NEW out, NEW j \in Nat, NEW rest,
           Between(lines, v, out, j, rest), Len(rest) > 1, rest[1] = <<>>
    PROVE  Between(lines, v, Append(out, <<>>), j + 1, Tail(rest))
<1>1. Len(lines) \in Nat /\ j \in 1..Len(lines) /\ j < Len(lines) /\ From(lines, j, rest)
  BY LenProperties DEF Between, From
<1>2. Blank(lines[j]) /\ out = Upto(lines, v)[j - 1]
  BY <1>1 DEF Between, Emptied
<1>3. Upto(lines, v)[j] = Append(out, <<>>)
  <2>1. Upto(lines, v)[j] = WithLine(lines, v, j, out)
    BY <1>1, <1>2, UptoSteps
  <2> QED
    BY <1>1, <1>2, <2>1 DEF WithLine
<1>4. From(lines, j + 1, Tail(rest)) /\ Unread(lines, j + 1, Tail(rest))
  BY <1>1, TakenMoves DEF Taken
<1>5. PICK t : t = Tail(rest)
  OBVIOUS
<1>6. Emptied(lines, j + 1, t) \/ (t[1] # <<>> /\ Start(lines, j + 1))
  <2>1. CASE t[1] = <<>>
    <3>1. lines[j + 1] = <<>> /\ j + 1 # Len(lines) + 1
      BY <1>1, <1>4, <1>5, <2>1 DEF Unread
    <3> QED
      BY <2>1, <3>1, EmptyIsBlank DEF Emptied
  <2>2. CASE t[1] # <<>>
    <3>1. (j + 1) - 1 = j
      BY <1>1
    <3> QED
      BY <1>2, <2>2, <3>1 DEF Start
  <2> QED
    BY <2>1, <2>2
<1>7. (j + 1) - 1 = j
  BY <1>1
<1> QED
  BY <1>3, <1>4, <1>5, <1>6, <1>7 DEF Between

\* At the end of the input everything is printed.
LEMMA EofDone ==
    ASSUME NEW lines \in Seq(Line), NEW v, NEW out, NEW j \in Nat, NEW rest,
           Between(lines, v, out, j, rest), Len(rest) = 1, rest[1] = <<>>
    PROVE  out = Expected(lines, v)
<1>1. Len(lines) \in Nat /\ (j = Len(lines) \/ j = Len(lines) + 1) /\ j \in 1..(Len(lines) + 1)
  <2>1. Len(lines) \in Nat
    BY LenProperties
  <2>2. j \in 1..(Len(lines) + 1) /\ 1 = IF j = Len(lines) + 1 THEN 1 ELSE Len(lines) + 1 - j
    BY DEF Between, From
  <2> QED
    BY <2>1, <2>2
<1>2. out = Upto(lines, v)[j - 1] /\ Emptied(lines, j, rest)
  BY DEF Between
<1>3. CASE j = Len(lines) + 1
  <2>1. j - 1 = Len(lines)
    BY <1>1, <1>3
  <2> QED
    BY <1>2, <2>1 DEF Expected
<1>4. CASE j = Len(lines)
  <2>1. Blank(lines[j]) /\ j \in 1..Len(lines) /\ ~ (j < Len(lines))
    BY <1>1, <1>2, <1>4 DEF Emptied
  <2>2. Upto(lines, v)[j] = WithLine(lines, v, j, out)
    BY <1>2, <2>1, UptoSteps
  <2> QED
    BY <1>4, <2>1, <2>2 DEF WithLine, Expected
<1> QED
  BY <1>1, <1>3, <1>4

LEMMA BeginKept ==
    ASSUME NEW lines \in Seq(Line), NEW v, NEW out, NEW j \in Nat, NEW rest,
           Between(lines, v, out, j, rest), rest[1] # <<>>
    PROVE  j \in 1..Len(lines) /\ Within(lines, v, out, <<>>, j, j, rest)
<1>1. Len(lines) \in Nat /\ j \in 1..(Len(lines) + 1) /\ From(lines, j, rest)
  BY LenProperties DEF Between, From
<1>2. Unread(lines, j, rest) /\ Start(lines, j)
  BY DEF Between, Emptied
<1>3. j \in 1..Len(lines)
  BY <1>1, <1>2 DEF Unread
<1>4. Run(lines, j, j - 1)
  BY <1>1 DEF Run
<1>5. out = Upto(lines, v)[j - 1]
  BY DEF Between
<1> QED
  BY <1>1, <1>2, <1>3, <1>4, <1>5 DEF Within

LEMMA ReadKept ==
    ASSUME NEW lines \in Seq(Line), NEW v, NEW out, NEW para, NEW k \in Nat, NEW j \in Nat, NEW rest,
           Within(lines, v, out, para, k, j, rest), ~ Blank(rest[1])
    PROVE  Within(lines, v, out, Append(para, rest[1]), k, j + 1, Taken(rest))
<1>1. /\ Len(lines) \in Nat /\ j \in 1..(Len(lines) + 1) /\ k \in 1..Len(lines) /\ k <= j
      /\ From(lines, j, rest) /\ Unread(lines, j, rest) /\ Start(lines, k) /\ Run(lines, k, j - 1)
  BY LenProperties DEF Within, From
<1>2. j \in 1..Len(lines) /\ rest[1] = lines[j] /\ ~ Blank(lines[j])
  BY <1>1, EmptyIsBlank DEF Unread
<1>3. From(lines, j + 1, Taken(rest)) /\ Unread(lines, j + 1, Taken(rest))
  BY <1>1, <1>2, TakenMoves
<1>4. Run(lines, k, (j + 1) - 1)
  <2> SUFFICES ASSUME NEW i \in k..((j + 1) - 1)
               PROVE  ~ Blank(lines[i])
    BY DEF Run
  <2>1. i = j \/ i \in k..(j - 1)
    BY <1>1
  <2> QED
    BY <1>1, <1>2, <2>1 DEF Run
<1>5. Append(para, rest[1]) # <<>> /\ Append(para, rest[1]) = SubSeq(lines, k, (j + 1) - 1)
  <2>1. lines[j] \in Line
    BY <1>2, ElementOfSeq
  <2>2. CASE j = k
    <3>1. para = <<>>
      BY <2>2 DEF Within
    <3>2. SubSeq(lines, k, k) = <<lines[k]>>
      <4>1. PICK p \in Seq(Line) : p = SubSeq(lines, k, k) /\ Len(p) = 1 /\ p[1] = lines[k]
        <5> DEFINE p == SubSeq(lines, k, k)
        <5>1. k \in 1..k /\ k \in 1..Len(lines)
          BY <1>1
        <5>2. /\ p \in Seq(Line) /\ Len(p) = (k - k) + 1
              /\ \A i \in 1..((k - k) + 1) : p[i] = lines[k + i - 1]
          BY <5>1, SomeLines
        <5> HIDE DEF p
        <5>3. Len(p) = 1 /\ p[1] = lines[k]
          <6>1. (k - k) + 1 = 1 /\ k + 1 - 1 = k /\ 1 \in 1..1
            BY <1>1
          <6> QED
            BY <5>2, <6>1
        <5> QED
          BY <5>2, <5>3 DEF p
      <4>2. PICK q \in Seq(Line) : q = <<lines[k]>> /\ Len(q) = 1 /\ q[1] = lines[k]
        <5> DEFINE q == <<lines[k]>>
        <5>1. q \in Seq(Line) /\ Len(q) = 1 /\ q[1] = lines[k]
          BY <2>1, <2>2
        <5> HIDE DEF q
        <5> QED
          BY <5>1 DEF q
      <4>3. p = q
        <5>1. \A i \in 1..Len(p) : i = 1
          BY <4>1
        <5> QED
          BY <4>1, <4>2, <5>1, SeqEqual
      <4> QED
        BY <4>1, <4>2, <4>3
    <3>3. (j + 1) - 1 = k
      BY <1>1, <2>2
    <3>4. Append(<<>>, lines[k]) = <<lines[k]>> /\ <<lines[k]>> # <<>>
      OBVIOUS
    <3> QED
      BY <1>2, <2>2, <3>1, <3>2, <3>3, <3>4
  <2>3. CASE j # k
    <3>1. para = SubSeq(lines, k, j - 1) /\ j - 1 \in k..Len(lines) /\ (j + 1) - 1 = j
      BY <1>1, <2>3 DEF Within
    <3>2. para \in Seq(Line) /\ Len(para) = j - k /\ \A i \in 1..(j - k) : para[i] = lines[k + i - 1]
      <4>1. j - 1 \in 1..Len(lines) /\ k \in 1..(j - 1) /\ ((j - 1) - k) + 1 = j - k
        BY <1>1, <2>3, <3>1
      <4> QED
        BY <3>1, <4>1, SomeLines
    <3>3. PICK q \in Seq(Line) : /\ q = Append(para, lines[j]) /\ Len(q) = (j - k) + 1
                                 /\ \A i \in 1..(j - k) : q[i] = para[i]
                                 /\ q[(j - k) + 1] = lines[j]
      <4> DEFINE q == Append(para, lines[j])
      <4>1. /\ q \in Seq(Line) /\ Len(q) = Len(para) + 1
            /\ \A i \in 1..Len(para) : q[i] = para[i]
            /\ q[Len(para) + 1] = lines[j]
        BY <2>1, <3>2, AppendProperties
      <4> HIDE DEF q
      <4>2. /\ q \in Seq(Line) /\ Len(q) = (j - k) + 1
            /\ \A i \in 1..(j - k) : q[i] = para[i]
            /\ q[(j - k) + 1] = lines[j]
        BY <3>2, <4>1
      <4> QED
        BY <4>2 DEF q
    <3>4. PICK p \in Seq(Line) : /\ p = SubSeq(lines, k, j) /\ Len(p) = (j - k) + 1
                                 /\ \A i \in 1..((j - k) + 1) : p[i] = lines[k + i - 1]
      <4>1. k \in 1..j
        BY <1>1
      <4> QED
        BY <1>2, <4>1, SomeLines
    <3>5. ASSUME NEW i \in 1..Len(q)
          PROVE  q[i] = p[i]
      <4>1. CASE i = (j - k) + 1
        <5>1. k + i - 1 = j /\ i \in 1..((j - k) + 1)
          BY <1>1, <4>1
        <5> QED
          BY <3>3, <3>4, <4>1, <5>1
      <4>2. CASE i # (j - k) + 1
        <5>1. i \in 1..(j - k) /\ i \in 1..((j - k) + 1)
          BY <1>1, <3>3, <4>2
        <5> QED
          BY <3>2, <3>3, <3>4, <5>1
      <4> QED
        BY <4>1, <4>2
    <3>6. q = p
      BY <3>3, <3>4, <3>5, SeqEqual
    <3>7. q # <<>>
      BY <1>1, <3>3
    <3> QED
      BY <1>2, <3>1, <3>3, <3>4, <3>6, <3>7
  <2> QED
    BY <2>2, <2>3
<1>6. out = Upto(lines, v)[(j + 1) - 2]
  <2>1. CASE j = k
    BY <1>1, <2>1 DEF Within
  <2>2. CASE j # k
    <3>1. j - 1 \in 1..Len(lines) /\ j - 1 < Len(lines) /\ ~ Blank(lines[j - 1]) /\ (j - 1) + 1 = j
      BY <1>1, <1>2, <2>2 DEF Run
    <3>2. out = Upto(lines, v)[(j - 1) - 1] /\ (j + 1) - 2 = j - 1
      BY <1>1, <2>2 DEF Within
    <3>3. Upto(lines, v)[j - 1] = WithLine(lines, v, j - 1, out)
      BY <3>1, <3>2, UptoSteps
    <3> QED
      BY <1>2, <3>1, <3>2, <3>3 DEF WithLine
  <2> QED
    BY <2>1, <2>2
<1>7. j + 1 # k /\ k <= j + 1
  BY <1>1
<1> QED
  BY <1>1, <1>3, <1>4, <1>5, <1>6, <1>7 DEF Within

LEMMA EndKept ==
    ASSUME NEW lines \in Seq(Line), NEW v, NEW out, NEW para, NEW k \in Nat, NEW j \in Nat, NEW rest,
           Within(lines, v, out, para, k, j, rest), Blank(rest[1])
    PROVE  /\ para = <<>> => Between(lines, v, out, j, Emptying(rest))
           /\ para # <<>> => After(lines, v, out, para, j, Emptying(rest))
<1>1. /\ Len(lines) \in Nat /\ j \in 1..(Len(lines) + 1) /\ k \in 1..Len(lines) /\ k <= j
      /\ From(lines, j, rest) /\ Unread(lines, j, rest) /\ Start(lines, k) /\ Run(lines, k, j - 1)
  BY LenProperties DEF Within, From
<1>2. From(lines, j, Emptying(rest)) /\ Emptied(lines, j, Emptying(rest))
  BY <1>1, EmptyingStays
<1>3. CASE j = k
  <2>1. para = <<>> /\ out = Upto(lines, v)[j - 1]
    BY <1>3 DEF Within
  <2> QED
    BY <1>2, <2>1 DEF Between
<1>4. CASE j # k
  <2>1. /\ para # <<>> /\ para = SubSeq(lines, k, j - 1)
        /\ out = Upto(lines, v)[(j - 1) - 1]
    BY <1>1, <1>4 DEF Within
  <2>2. /\ j - 1 \in 1..Len(lines) /\ k \in 1..(j - 1) /\ ~ Blank(lines[j - 1])
        /\ j - 1 < Len(lines) => (j - 1) + 1 = j /\ Blank(lines[j])
    BY <1>1, <1>2, <1>4 DEF Run, Emptied
  <2>3. RunStart(lines, j - 1) = k
    BY <1>1, <2>2, RunStartIs
  <2>4. Upto(lines, v)[j - 1] = WithLine(lines, v, j - 1, out)
    BY <2>1, <2>2, UptoSteps
  <2>5. WithLine(lines, v, j - 1, out) = out \o ReformatPar(para, Setdefaults(para, v)).out
    BY <2>1, <2>2, <2>3 DEF WithLine
  <2> QED
    BY <1>2, <2>1, <2>4, <2>5 DEF After
<1> QED
  BY <1>3, <1>4

LEMMA PrintKept ==
    ASSUME NEW lines, NEW v, NEW out, NEW para, NEW j, NEW rest,
           After(lines, v, out, para, j, rest)
    PROVE  Between(lines, v, out \o ReformatPar(para, Setdefaults(para, v)).out, j, rest)
BY DEF After, Between

-----------------------------------------------------------------------------
(* The inductive invariant. *)

(* par runs with one of its inputs, of which there is always a line left. *)
RunOK ==
  /\ pc \in {"main", "options", "skip", "read", "format", "print", "endless", "cleanup", "exited"}
  /\ pc # "main" => run \in ParInputs /\ stdin \in Seq(Line) \ {<<>>}
  /\ pc = "options" => options \in Seq(Option)

(* Nothing has failed as long as par is not cleaning up. *)
NoFailure ==
  /\ pc \in {"main", "options"} => inlines = <<>> /\ stdout = <<>>
  /\ pc \in {"main", "options", "skip", "read", "format", "print"} => errmsg = "none" /\ option_code = 1

(* The place of the reader, and what is about to be printed. *)
Place ==
  /\ pc = "options" => stdin = run[2]
  /\ pc = "skip" => \E j \in Nat : Between(run[2], set, stdout, j, stdin)
  /\ pc = "read" => \E k, j \in Nat : Within(run[2], set, stdout, inlines, k, j, stdin)
  /\ pc \in {"format", "print"} => /\ val = Setdefaults(inlines, set)
                                  /\ \E j \in Nat : After(run[2], set, stdout, inlines, j, stdin)
  /\ pc = "print" => outlines = ReformatPar(inlines, val).out

ParInv == RunOK /\ NoFailure /\ Place /\ ParagraphsKept

LEMMA InputOK ==
    ASSUME RunOK, pc # "main"
    PROVE  run[1] \in Seq(Option) /\ run[2] \in Seq(Line) /\ run[2] # <<>>
BY InputsAssumption DEF RunOK, Line

LEMMA InitParInv == Init => ParInv
BY DEF Init, ParInv, RunOK, NoFailure, Place, ParagraphsKept

LEMMA MainKept == ParInv /\ Main => ParInv'
<1> SUFFICES ASSUME ParInv, Main
             PROVE  ParInv'
  OBVIOUS
<1>1. /\ pc = "main" /\ pc' = "options" /\ run' \in ParInputs /\ options' = run'[1] /\ stdin' = run'[2]
      /\ UNCHANGED <<inlines, stdout, errmsg, option_code>>
  BY DEF Main
<1>2. run'[1] \in Seq(Option) /\ run'[2] \in Seq(Line) \ {<<>>}
  BY <1>1, InputsAssumption DEF Line
<1>3. RunOK'
  BY <1>1, <1>2 DEF RunOK
<1>4. NoFailure' /\ Place' /\ ParagraphsKept'
  BY <1>1 DEF ParInv, NoFailure, Place, ParagraphsKept
<1> QED
  BY <1>3, <1>4 DEF ParInv

\* An option that ends par leaves another code than 1.
LEMMA SetOptionKept == ParInv /\ SetOption => ParInv'
<1> SUFFICES ASSUME ParInv, SetOption
             PROVE  ParInv'
  OBVIOUS
<1>1. /\ pc = "options" /\ options # <<>> /\ options' = Tail(options) /\ TakeOption(Head(options))
      /\ pc' = IF option_code' = 1 THEN pc ELSE "cleanup"
      /\ UNCHANGED <<stdin, inlines, stdout, run>>
  BY DEF SetOption
<1>2. /\ errmsg = "none" /\ option_code = 1 /\ inlines = <<>> /\ stdout = <<>>
      /\ stdin = run[2] /\ options \in Seq(Option) /\ run \in ParInputs /\ stdin \in Seq(Line) \ {<<>>}
  BY <1>1 DEF ParInv, RunOK, NoFailure, Place
<1>3. option_code' = 1 => errmsg' = "none"
  <2>1. \/ option_code' = IF IsError(errmsg') THEN 0 ELSE option_code
        \/ UNCHANGED <<errmsg, option_code>>
        \/ option_code' = 2
    <3>1. PICK opt : opt = Head(options)
      OBVIOUS
    <3>2. TakeOption(opt)
      BY <1>1, <3>1
    <3> QED
      BY <3>2, Zenon DEF TakeOption
  <2> QED
    BY <1>2, <2>1 DEF IsError
<1>4. options' \in Seq(Option)
  BY <1>1, <1>2, HeadTailProperties
<1>5. RunOK'
  BY <1>1, <1>2, <1>4 DEF RunOK
<1>6. NoFailure' /\ Place' /\ ParagraphsKept'
  BY <1>1, <1>2, <1>3 DEF NoFailure, Place, ParagraphsKept
<1> QED
  BY <1>5, <1>6 DEF ParInv

LEMMA OptionsSetKept == ParInv /\ OptionsSet => ParInv'
<1> SUFFICES ASSUME ParInv, OptionsSet
             PROVE  ParInv'
  OBVIOUS
<1>1. /\ pc = "options" /\ pc' = "skip"
      /\ UNCHANGED <<options, set, option_code, stdin, inlines, val, outlines, stdout, errmsg, status, run>>
  BY DEF OptionsSet
<1>2. /\ errmsg = "none" /\ option_code = 1 /\ stdout = <<>> /\ stdin = run[2]
      /\ run \in ParInputs /\ stdin \in Seq(Line) \ {<<>>}
  BY <1>1 DEF ParInv, RunOK, NoFailure, Place
<1>3. Between(run[2], set, stdout, 1, stdin)
  <2>1. PICK lines \in Seq(Line) : lines = run[2] /\ lines # <<>>
    BY <1>1, InputOK DEF ParInv
  <2>2. Len(lines) \in Nat /\ Len(lines) >= 1
    BY <2>1, EmptySeq
  <2>3. \A i \in 2..Len(lines) : 1 + i - 1 = i
    BY <2>2
  <2>4. From(lines, 1, lines)
    BY <2>2, <2>3 DEF From
  <2>5. Unread(lines, 1, lines)
    BY <2>2 DEF Unread
  <2>6. Emptied(lines, 1, lines) \/ (Unread(lines, 1, lines) /\ lines[1] # <<>> /\ Start(lines, 1))
    BY <2>5, EmptyIsBlank DEF Emptied, Start
  <2>7. <<>> = Upto(lines, set)[1 - 1]
    BY UptoSteps
  <2> QED
    BY <1>2, <2>1, <2>4, <2>6, <2>7 DEF Between
<1>4. RunOK' /\ NoFailure' /\ ParagraphsKept'
  BY <1>1, <1>2 DEF RunOK, NoFailure, ParagraphsKept
<1>5. Place'
  BY <1>1, <1>3 DEF Place
<1> QED
  BY <1>4, <1>5 DEF ParInv

LEMMA SkipNewlineKept == ParInv /\ SkipNewline => ParInv'
<1> SUFFICES ASSUME ParInv, SkipNewline
             PROVE  ParInv'
  OBVIOUS
<1>1. /\ pc = "skip" /\ Len(stdin) > 1 /\ Head(stdin) = <<>>
      /\ stdin' = Tail(stdin) /\ stdout' = Append(stdout, <<>>)
      /\ UNCHANGED <<pc, options, set, option_code, inlines, val, outlines, errmsg, status, run>>
  BY DEF SkipNewline
<1>2. /\ run[2] \in Seq(Line) /\ stdin \in Seq(Line) /\ stdin # <<>> /\ run \in ParInputs
      /\ errmsg = "none" /\ option_code = 1
  BY <1>1, InputOK DEF ParInv, RunOK, NoFailure
<1>3. PICK j \in Nat : Between(run[2], set, stdout, j, stdin)
  BY <1>1 DEF ParInv, Place
<1>4. Between(run[2], set, stdout', j + 1, stdin')
  BY <1>1, <1>2, <1>3, SkipKept
<1>5. stdin' \in Seq(Line) \ {<<>>}
  <2>1. Taken(stdin) = stdin'
    BY <1>1 DEF Taken
  <2> QED
    BY <1>1, <1>2, <2>1, SizeTaken
<1>6. RunOK' /\ NoFailure' /\ ParagraphsKept'
  BY <1>1, <1>2, <1>5 DEF RunOK, NoFailure, ParagraphsKept
<1>7. Place'
  <2>1. j + 1 \in Nat
    OBVIOUS
  <2> QED
    BY <1>1, <1>4, <2>1 DEF Place
<1> QED
  BY <1>6, <1>7 DEF ParInv

LEMMA EofKept == ParInv /\ Eof => ParInv'
<1> SUFFICES ASSUME ParInv, Eof
             PROVE  ParInv'
  OBVIOUS
<1>1. /\ pc = "skip" /\ stdin = <<<<>>>> /\ pc' = "cleanup"
      /\ UNCHANGED <<options, set, option_code, stdin, inlines, val, outlines, stdout, errmsg, status, run>>
  BY DEF Eof
<1>2. /\ run[2] \in Seq(Line) /\ stdin \in Seq(Line) \ {<<>>} /\ run \in ParInputs
      /\ errmsg = "none"
  BY <1>1, InputOK DEF ParInv, RunOK, NoFailure
<1>3. PICK j \in Nat : Between(run[2], set, stdout, j, stdin)
  BY <1>1 DEF ParInv, Place
<1>4. Len(stdin) = 1 /\ stdin[1] = <<>>
  BY <1>1
<1>5. stdout = Expected(run[2], set)
  BY <1>2, <1>3, <1>4, EofDone
<1>6. RunOK' /\ NoFailure' /\ Place'
  BY <1>1, <1>2 DEF RunOK, NoFailure, Place
<1>7. ParagraphsKept'
  BY <1>1, <1>2, <1>5 DEF ParagraphsKept
<1> QED
  BY <1>6, <1>7 DEF ParInv

LEMMA BeginParagraphKept == ParInv /\ BeginParagraph => ParInv'
<1> SUFFICES ASSUME ParInv, BeginParagraph
             PROVE  ParInv'
  OBVIOUS
<1>1. /\ pc = "skip" /\ Head(stdin) # <<>> /\ pc' = "read" /\ inlines' = <<>>
      /\ UNCHANGED <<options, set, option_code, stdin, val, outlines, stdout, errmsg, status, run>>
  BY DEF BeginParagraph
<1>2. /\ run[2] \in Seq(Line) /\ stdin \in Seq(Line) \ {<<>>} /\ run \in ParInputs
      /\ errmsg = "none" /\ option_code = 1
  BY <1>1, InputOK DEF ParInv, RunOK, NoFailure
<1>3. PICK j \in Nat : Between(run[2], set, stdout, j, stdin)
  BY <1>1 DEF ParInv, Place
<1>4. stdin[1] # <<>>
  BY <1>1
<1>5. Within(run[2], set, stdout, <<>>, j, j, stdin)
  BY <1>2, <1>3, <1>4, BeginKept
<1>6. RunOK' /\ NoFailure' /\ ParagraphsKept'
  BY <1>1, <1>2 DEF RunOK, NoFailure, ParagraphsKept
<1>7. Place'
  BY <1>1, <1>5 DEF Place
<1> QED
  BY <1>6, <1>7 DEF ParInv

LEMMA ReadLineKept == ParInv /\ ReadLine => ParInv'
<1> SUFFICES ASSUME ParInv, ReadLine
             PROVE  ParInv'
  OBVIOUS
<1>1. /\ pc = "read" /\ ~ Blank(stdin[1])
      /\ inlines' = Append(inlines, stdin[1]) /\ stdin' = Taken(stdin)
      /\ UNCHANGED <<pc, options, set, option_code, val, outlines, stdout, errmsg, status, run>>
  BY DEF ReadLine, Rest, Taken
<1>2. /\ run[2] \in Seq(Line) /\ stdin \in Seq(Line) /\ stdin # <<>> /\ run \in ParInputs
      /\ errmsg = "none" /\ option_code = 1
  BY <1>1, InputOK DEF ParInv, RunOK, NoFailure
<1>3. PICK k, j \in Nat : Within(run[2], set, stdout, inlines, k, j, stdin)
  BY <1>1 DEF ParInv, Place
<1>4. Within(run[2], set, stdout, inlines', k, j + 1, stdin')
  BY <1>1, <1>2, <1>3, ReadKept
<1>5. stdin' \in Seq(Line) \ {<<>>}
  BY <1>1, <1>2, EmptyIsBlank, SizeTaken
<1>6. RunOK' /\ NoFailure' /\ ParagraphsKept'
  BY <1>1, <1>2, <1>5 DEF RunOK, NoFailure, ParagraphsKept
<1>7. Place'
  <2>1. j + 1 \in Nat
    OBVIOUS
  <2> QED
    BY <1>1, <1>4, <2>1 DEF Place
<1> QED
  BY <1>6, <1>7 DEF ParInv

LEMMA EndParagraphKept == ParInv /\ EndParagraph => ParInv'
<1> SUFFICES ASSUME ParInv, EndParagraph
             PROVE  ParInv'
  OBVIOUS
<1>1. /\ pc = "read" /\ Blank(stdin[1]) /\ stdin' = Emptying(stdin)
      /\ IF inlines = <<>> THEN pc' = "skip" ELSE pc' = "format" /\ val' = Setdefaults(inlines, set)
      /\ UNCHANGED <<options, set, option_code, inlines, outlines, stdout, errmsg, status, run>>
  BY DEF EndParagraph, Emptying
<1>2. /\ run[2] \in Seq(Line) /\ stdin \in Seq(Line) /\ stdin # <<>> /\ run \in ParInputs
      /\ errmsg = "none" /\ option_code = 1
  BY <1>1, InputOK DEF ParInv, RunOK, NoFailure
<1>3. PICK k, j \in Nat : Within(run[2], set, stdout, inlines, k, j, stdin)
  BY <1>1 DEF ParInv, Place
<1>4. /\ inlines = <<>> => Between(run[2], set, stdout, j, stdin')
      /\ inlines # <<>> => After(run[2], set, stdout, inlines, j, stdin')
  BY <1>1, <1>2, <1>3, EndKept
<1>5. stdin' \in Seq(Line) \ {<<>>}
  BY <1>1, <1>2, SizeEmptying
<1>6. RunOK' /\ NoFailure' /\ ParagraphsKept'
  BY <1>1, <1>2, <1>5 DEF RunOK, NoFailure, ParagraphsKept
<1>7. Place'
  BY <1>1, <1>4 DEF Place
<1> QED
  BY <1>6, <1>7 DEF ParInv

LEMMA FormatParagraphKept == ParInv /\ FormatParagraph => ParInv'
<1> SUFFICES ASSUME ParInv, FormatParagraph
             PROVE  ParInv'
  OBVIOUS
<1>1. /\ pc = "format"
      /\ errmsg' = ReformatPar(inlines, val).errmsg /\ outlines' = ReformatPar(inlines, val).out
      /\ pc' = IF IsError(errmsg') THEN "cleanup" ELSE "print"
      /\ UNCHANGED <<options, set, option_code, stdin, inlines, val, stdout, status, run>>
  BY DEF FormatParagraph
<1>2. /\ stdin \in Seq(Line) \ {<<>>} /\ run \in ParInputs /\ option_code = 1
      /\ val = Setdefaults(inlines, set)
  BY <1>1 DEF ParInv, RunOK, NoFailure, Place
<1>3. PICK j \in Nat : After(run[2], set, stdout, inlines, j, stdin)
  BY <1>1 DEF ParInv, Place
<1>4. RunOK' /\ NoFailure'
  BY <1>1, <1>2 DEF RunOK, NoFailure, IsError
<1>5. ParagraphsKept'
  BY <1>1, <1>2 DEF ParagraphsKept, IsError
<1>6. Place'
  BY <1>1, <1>2, <1>3 DEF Place
<1> QED
  BY <1>4, <1>5, <1>6 DEF ParInv

LEMMA PrintParagraphKept == ParInv /\ PrintParagraph => ParInv'
<1> SUFFICES ASSUME ParInv, PrintParagraph
             PROVE  ParInv'
  OBVIOUS
<1>1. /\ pc = "print" /\ stdout' = stdout \o outlines /\ pc' = "skip"
      /\ UNCHANGED <<options, set, option_code, stdin, val, errmsg, status, run>>
  BY DEF PrintParagraph
<1>2. /\ stdin \in Seq(Line) \ {<<>>} /\ run \in ParInputs /\ option_code = 1 /\ errmsg = "none"
      /\ outlines = ReformatPar(inlines, Setdefaults(inlines, set)).out
  BY <1>1 DEF ParInv, RunOK, NoFailure, Place
<1>3. PICK j \in Nat : After(run[2], set, stdout, inlines, j, stdin)
  BY <1>1 DEF ParInv, Place
<1>4. Between(run[2], set, stdout', j, stdin)
  BY <1>1, <1>2, <1>3, PrintKept
<1>5. RunOK' /\ NoFailure' /\ ParagraphsKept'
  BY <1>1, <1>2 DEF RunOK, NoFailure, ParagraphsKept
<1>6. Place'
  BY <1>1, <1>4 DEF Place
<1> QED
  BY <1>5, <1>6 DEF ParInv

\* Leaving the loop changes nothing ParagraphsKept speaks of.
LEMMA EndsKept == ParInv /\ (SplitForEver \/ Cleanup) => ParInv'
<1>1. ASSUME ParInv, SplitForEver
      PROVE  ParInv'
  BY <1>1 DEF ParInv, RunOK, NoFailure, Place, ParagraphsKept, SplitForEver
<1>2. ASSUME ParInv, Cleanup
      PROVE  ParInv'
  BY <1>2 DEF ParInv, RunOK, NoFailure, Place, ParagraphsKept, Cleanup
<1> QED
  BY <1>1, <1>2

LEMMA NextParInv == ParInv /\ [Next]_vars => ParInv'
<1>1. ASSUME ParInv, UNCHANGED vars
      PROVE  ParInv'
  BY <1>1 DEF ParInv, RunOK, NoFailure, Place, ParagraphsKept, vars
<1> QED
  BY <1>1, MainKept, SetOptionKept, OptionsSetKept, SkipNewlineKept, EofKept, BeginParagraphKept,
     ReadLineKept, EndParagraphKept, FormatParagraphKept, PrintParagraphKept, EndsKept
     DEF Next

(* The invariant is inductive: it holds for any runs of par. *)
THEOREM ParInvariance == Spec => []ParInv
<1>1. Init => ParInv
  BY InitParInv
<1>2. ParInv /\ [Next]_vars => ParInv'
  BY NextParInv
<1> QED
  BY <1>1, <1>2, PTL DEF Spec

(* Whatever the lines and the options, when par ends without an error it   *)
(* has printed an empty line for each blank line and, in its place, every  *)
(* paragraph as it is laid out alone; when it ends on an error, that error *)
(* is the one of the paragraph it was at (par.c:154-245, 563-608).         *)
THEOREM ParagraphsAreKept == Spec => []ParagraphsKept
<1>1. ParInv => ParagraphsKept
  BY DEF ParInv
<1> QED
  BY <1>1, ParInvariance, PTL

-----------------------------------------------------------------------------
(* Progress: the two parts of Left, and that every step lessens it. *)

Rank == CASE pc = "options" -> 8 + Len(options)
          [] pc = "read" -> IF inlines = <<>> THEN 2 ELSE 7
          [] pc = "format" -> 6 [] pc = "print" -> 5 [] pc = "skip" -> 3
          [] pc = "cleanup" -> 1 [] OTHER -> 0

LEMMA LeftIs == Left = Rank + 10 * Size(stdin)
BY DEF Left, Rank

RankOfPlace ==
  /\ Rank \in Nat
  /\ pc = "options" => Rank = 8 + Len(options) /\ Len(options) \in Nat
  /\ pc = "read" => Rank = IF inlines = <<>> THEN 2 ELSE 7
  /\ pc = "format" => Rank = 6
  /\ pc = "print" => Rank = 5
  /\ pc = "skip" => Rank = 3
  /\ pc = "cleanup" => Rank = 1
  /\ pc \in {"endless", "exited"} => Rank = 0

LEMMA RankIs == ParInv => RankOfPlace
<1> SUFFICES ASSUME ParInv
             PROVE  RankOfPlace
  OBVIOUS
<1>1. pc = "options" => Len(options) \in Nat
  BY LenProperties DEF ParInv, RunOK
<1> QED
  BY <1>1 DEF Rank, RankOfPlace, ParInv, RunOK

\* A step that leaves the input alone lessens Rank; one that takes from it may add 7.
LEMMA LeftLessens ==
    ASSUME ParInv, ParInv', pc # "main", pc' # "main", RankOfPlace, RankOfPlace',
           \/ Size(stdin') <= Size(stdin) /\ Rank' < Rank
           \/ Size(stdin') < Size(stdin) /\ Rank' <= Rank + 7
    PROVE  Left' < Left
<1>1. Size(stdin) \in Nat /\ Size(stdin') \in Nat
  BY SizeType DEF ParInv, RunOK
<1>2. Rank \in Nat /\ Rank' \in Nat
  BY DEF RankOfPlace
<1>3. Left = Rank + 10 * Size(stdin) /\ Left' = Rank' + 10 * Size(stdin')
  <2>1. (Left = Rank + 10 * Size(stdin))'
    BY LeftIs, PTL
  <2> QED
    BY LeftIs, <2>1
<1> HIDE DEF Rank, Left, Size
<1> QED
  BY <1>1, <1>2, <1>3

(* par comes to an end: after main has begun every step lessens Left, a    *)
(* natural number, and a step is the last one if it finds that a word will *)
(* be split for ever, which only happens when there is no room for one.    *)
(* The newline that is pushed back after a paragraph makes no difference:  *)
(* readlines is called at a line that is not empty (par.c:154-245,         *)
(* 563-608).                                                               *)
THEOREM ParMakesProgress == Spec => ParProgress
<1> DEFINE Step == pc # "main" => Left' < Left /\ (pc' = "endless" => LineWidth(val) <= 0)
<1>1. ASSUME ParInv, ParInv', Next
      PROVE  Step
  <2> SUFFICES ASSUME pc # "main"
               PROVE  Left' < Left /\ (pc' = "endless" => LineWidth(val) <= 0)
    OBVIOUS
  <2>1. /\ stdin \in Seq(Line) /\ stdin # <<>> /\ Size(stdin) \in Nat
        /\ pc \in {"options", "skip", "read", "format", "print", "endless", "cleanup", "exited"}
    BY <1>1, SizeType DEF ParInv, RunOK
  <2>2. RankOfPlace /\ RankOfPlace'
    <3>1. (ParInv => RankOfPlace)'
      BY RankIs, PTL
    <3> QED
      BY <1>1, <3>1, RankIs
  <2>3. CASE Main
    BY <2>3 DEF Main
  <2>4. CASE SetOption
    <3>1. /\ pc = "options" /\ options # <<>> /\ options' = Tail(options) /\ stdin' = stdin
          /\ pc' \in {"options", "cleanup"}
      BY <2>4 DEF SetOption
    <3>2. Len(options') = Len(options) - 1 /\ Len(options) \in Nat \ {0}
      BY <1>1, <3>1, HeadTailProperties, EmptySeq DEF ParInv, RunOK
    <3>3. Rank' < Rank
      BY <2>2, <3>1, <3>2 DEF RankOfPlace
    <3> QED
      BY <1>1, <2>1, <2>2, <3>1, <3>3, LeftLessens
  <2>5. CASE OptionsSet
    <3>1. pc = "options" /\ pc' = "skip" /\ stdin' = stdin
      BY <2>5 DEF OptionsSet
    <3>2. Rank' < Rank
      BY <2>2, <3>1 DEF RankOfPlace
    <3> QED
      BY <1>1, <2>1, <2>2, <3>1, <3>2, LeftLessens
  <2>6. CASE SkipNewline
    <3>1. pc = "skip" /\ pc' = "skip" /\ Len(stdin) > 1 /\ stdin' = Taken(stdin)
      BY <2>6 DEF SkipNewline, Taken
    <3>2. Size(stdin') < Size(stdin) /\ Rank' <= Rank + 7
      BY <2>1, <2>2, <3>1, SizeTaken DEF RankOfPlace
    <3> QED
      BY <1>1, <2>1, <2>2, <3>1, <3>2, LeftLessens
  <2>7. CASE Eof
    <3>1. pc = "skip" /\ pc' = "cleanup" /\ stdin' = stdin
      BY <2>7 DEF Eof
    <3>2. Rank' < Rank
      BY <2>2, <3>1 DEF RankOfPlace
    <3> QED
      BY <1>1, <2>1, <2>2, <3>1, <3>2, LeftLessens
  <2>8. CASE BeginParagraph
    <3>1. pc = "skip" /\ pc' = "read" /\ inlines' = <<>> /\ stdin' = stdin
      BY <2>8 DEF BeginParagraph
    <3>2. Rank' < Rank
      BY <2>2, <3>1 DEF RankOfPlace
    <3> QED
      BY <1>1, <2>1, <2>2, <3>1, <3>2, LeftLessens
  <2>9. CASE ReadLine
    <3>1. pc = "read" /\ pc' = "read" /\ ~ Blank(stdin[1]) /\ stdin' = Taken(stdin)
      BY <2>9 DEF ReadLine, Rest, Taken
    <3>2. Size(stdin') < Size(stdin) /\ Rank' <= Rank + 7
      BY <2>1, <2>2, <3>1, EmptyIsBlank, SizeTaken DEF RankOfPlace
    <3> QED
      BY <1>1, <2>1, <2>2, <3>1, <3>2, LeftLessens
  <2>10. CASE EndParagraph
    <3>1. /\ pc = "read" /\ stdin' = Emptying(stdin) /\ inlines' = inlines
          /\ pc' = IF inlines = <<>> THEN "skip" ELSE "format"
      BY <2>10 DEF EndParagraph, Emptying
    <3>2. CASE inlines = <<>>
      <4>1. stdin[1] # <<>>
        BY <1>1, <3>1, <3>2 DEF ParInv, Place, Within
      <4>2. Size(stdin') < Size(stdin) /\ Rank' <= Rank + 7
        BY <2>1, <2>2, <3>1, <3>2, <4>1, SizeEmptying DEF RankOfPlace
      <4> QED
        BY <1>1, <2>1, <2>2, <3>1, <3>2, <4>2, LeftLessens
    <3>3. CASE inlines # <<>>
      <4>1. Size(stdin') <= Size(stdin) /\ Rank' < Rank
        BY <2>1, <2>2, <3>1, <3>3, SizeEmptying DEF RankOfPlace
      <4> QED
        BY <1>1, <2>1, <2>2, <3>1, <3>3, <4>1, LeftLessens
    <3> QED
      BY <3>2, <3>3
  <2>11. CASE SplitForEver
    <3>1. pc = "format" /\ pc' = "endless" /\ stdin' = stdin /\ LineWidth(val) <= 0
      BY <2>11 DEF SplitForEver, Endless
    <3>2. Rank' < Rank
      BY <2>2, <3>1 DEF RankOfPlace
    <3> QED
      BY <1>1, <2>1, <2>2, <3>1, <3>2, LeftLessens
  <2>12. CASE FormatParagraph
    <3>1. pc = "format" /\ pc' \in {"cleanup", "print"} /\ stdin' = stdin
      BY <2>12 DEF FormatParagraph
    <3>2. Rank' < Rank
      BY <2>2, <3>1 DEF RankOfPlace
    <3> QED
      BY <1>1, <2>1, <2>2, <3>1, <3>2, LeftLessens
  <2>13. CASE PrintParagraph
    <3>1. pc = "print" /\ pc' = "skip" /\ stdin' = stdin
      BY <2>13 DEF PrintParagraph
    <3>2. Rank' < Rank
      BY <2>2, <3>1 DEF RankOfPlace
    <3> QED
      BY <1>1, <2>1, <2>2, <3>1, <3>2, LeftLessens
  <2>14. CASE Cleanup
    <3>1. pc = "cleanup" /\ pc' = "exited" /\ stdin' = stdin
      BY <2>14 DEF Cleanup
    <3>2. Rank' < Rank
      BY <2>2, <3>1 DEF RankOfPlace
    <3> QED
      BY <1>1, <2>1, <2>2, <3>1, <3>2, LeftLessens
  <2> QED
    BY <1>1, <2>3, <2>4, <2>5, <2>6, <2>7, <2>8, <2>9, <2>10, <2>11, <2>12, <2>13, <2>14 DEF Next
<1>2. ParInv /\ ParInv' /\ [Next]_vars => [Step]_vars
  BY <1>1
<1>3. Spec => [][Step]_vars
  <2> HIDE DEF Step
  <2> QED
    BY <1>2, ParInvariance, PTL DEF Spec
<1> QED
  BY <1>3 DEF ParProgress

================================================================================
