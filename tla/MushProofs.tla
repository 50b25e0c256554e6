------------------------------ MODULE MushProofs ------------------------------
(***************************************************************************)
(* Proofs about the shell of hw4, for any number of lines, nodes and jobs, *)
(* any variables, expressions and widths of an int: the list of program.c, *)
(* its invariant and its refinement of the program store; the interpreter, *)
(* which implements Program; and the variables, which keep the integers    *)
(* they are given.  What is stated of the list is local to a node and its  *)
(* neighbour, so that one node more or less disturbs it in one place only. *)
(***************************************************************************)
EXTENDS Mush, SequenceTheorems, WellFoundedInduction, TLAPS

(* What the types say of the nodes of the list.                            *)
LEMMA Ground ==
    ASSUME TypeOK
    PROVE  /\ ProgHead \notin Node /\ ProgHead \notin Live /\ ProgHead \in All
           /\ \A n \in Live : n \in Node /\ n \in All /\ line[n] \in Line /\ line[n] \in Nat \ {0}
           /\ \A n \in All : n \in Live \/ n = ProgHead
BY HeadAssumption, LineAssumption DEF TypeOK, Live, All

(* A jump has a line number to go to.                                      *)
LEMMA Target ==
    ASSUME NEW s \in Stmt \cup {NoStmt}, s[1] \in {"goto", "if"}
    PROVE  s[2] \in Line
<1>1. s \in Stmt
  BY DEF NoStmt
<1> QED
  BY <1>1, StmtAssumption

-----------------------------------------------------------------------------
(* Induction over numbers, and recursive functions.  The library's         *)
(* theorems take operators; here sets and functions stand for them.        *)

\* Every set of natural numbers has a least element.
LEMMA LeastNatural ==
    ASSUME NEW T \in SUBSET Nat, T # {}
    PROVE  \E x \in T : \A y \in T : x <= y
<1>1. PICK x \in T : \A y \in T : ~(<<y, x>> \in OpToRel(<, Nat))
  BY NatLessThanWellFounded, WFMin
<1>2. ASSUME NEW y \in T
      PROVE  x <= y
  <2>1. x \in Nat /\ y \in Nat
    OBVIOUS
  <2>2. <<y, x>> \in Nat \X Nat /\ ~(<<y, x>> \in OpToRel(<, Nat))
    BY <1>1, <2>1
  <2>3. ~(y < x)
    BY <2>2 DEF OpToRel
  <2> QED
    BY <2>1, <2>3
<1> QED
  BY <1>2

\* What holds of 0, and of n + 1 if of n, holds of every natural number.
LEMMA SetInduction ==
    ASSUME NEW S, 0 \in S, \A n \in Nat : n \in S => n + 1 \in S
    PROVE  Nat \subseteq S
<1> DEFINE T == Nat \ S
<1> SUFFICES ASSUME T # {} PROVE FALSE
  OBVIOUS
<1>1. T \in SUBSET Nat
  OBVIOUS
<1>2. PICK x \in T : \A y \in T : x <= y
  <2> HIDE DEF T
  <2> QED
    BY <1>1, LeastNatural
<1>3. x \in Nat /\ x \notin S
  OBVIOUS
<1>4. x # 0
  BY <1>3
<1>5. x - 1 \in Nat /\ ~(x <= x - 1) /\ (x - 1) + 1 = x
  BY <1>3, <1>4
<1>6. x - 1 \in S
  BY <1>2, <1>5
<1>7. (x - 1) + 1 \in S
  BY <1>5, <1>6
<1> QED
  BY <1>3, <1>5, <1>7

\* What holds of n whenever it holds of all that are less holds of every natural number.
LEMMA StrongInduction ==
    ASSUME NEW S, \A n \in Nat : (\A k \in Nat : k < n => k \in S) => n \in S
    PROVE  Nat \subseteq S
<1> DEFINE T == Nat \ S
<1> SUFFICES ASSUME T # {} PROVE FALSE
  OBVIOUS
<1>1. T \in SUBSET Nat
  OBVIOUS
<1>2. PICK x \in T : \A y \in T : x <= y
  <2> HIDE DEF T
  <2> QED
    BY <1>1, LeastNatural
<1>3. x \in Nat /\ x \notin S
  OBVIOUS
<1>4. \A k \in Nat : k < x => k \in S
  <2> SUFFICES ASSUME NEW k \in Nat, k < x, k \notin S
               PROVE  FALSE
    OBVIOUS
  <2>1. x <= k
    BY <1>2
  <2> QED
    BY <1>3, <2>1
<1> QED
  BY <1>3, <1>4


\* Every set of elements of S has one that has none of them below it.
Founded(S, below) ==
  /\ below \in [S -> SUBSET S]
  /\ \A T \in SUBSET S : T # {} => \E x \in T : below[x] \cap T = {}

\* D, which takes functions to functions, computes a value from those below.
Local(S, V, below, D) ==
  /\ D \in [[S -> V] -> [S -> V]]
  /\ \A f, g \in [S -> V] : \A x \in S :
       (\A y \in below[x] : f[y] = g[y]) => D[f][x] = D[g][x]

\* The natural numbers, with any that are less below one.
LEMMA NaturalsFounded ==
    ASSUME NEW S \in SUBSET Nat, NEW below \in [S -> SUBSET S],
           \A n \in S : \A k \in below[n] : k < n
    PROVE  Founded(S, below)
<1> SUFFICES ASSUME NEW T \in SUBSET S, T # {}
             PROVE  \E x \in T : below[x] \cap T = {}
  BY DEF Founded
<1>1. T \in SUBSET Nat
  OBVIOUS
<1>2. PICK x \in T : \A y \in T : x <= y
  BY <1>1, LeastNatural
<1>3. ASSUME NEW y \in below[x] \cap T
      PROVE  FALSE
  <2>1. y < x /\ x <= y /\ x \in Nat /\ y \in Nat
    BY <1>1, <1>2, <1>3
  <2> QED
    BY <2>1
<1> QED
  BY <1>3

\* Two functions that both satisfy the definition, each on a set that has all
\* that is below its elements, agree where both do.
Attempt(S, V, below, D, f, A) ==
  /\ f \in [S -> V] /\ A \in SUBSET S
  /\ \A x \in A : below[x] \subseteq A /\ f[x] = D[f][x]

LEMMA AttemptsAgree ==
    ASSUME NEW S, NEW V, NEW below, NEW D, Founded(S, below), Local(S, V, below, D),
           NEW f, NEW A, Attempt(S, V, below, D, f, A),
           NEW g, NEW B, Attempt(S, V, below, D, g, B)
    PROVE  \A x \in A \cap B : f[x] = g[x]
<1> DEFINE T == {x \in A \cap B : f[x] # g[x]}
<1> SUFFICES ASSUME T # {} PROVE FALSE
  OBVIOUS
<1>1. T \in SUBSET S
  BY DEF Attempt
<1>2. PICK x \in T : below[x] \cap T = {}
  BY <1>1 DEF Founded
<1>3. x \in A /\ x \in B /\ x \in S /\ f[x] # g[x] /\ f \in [S -> V] /\ g \in [S -> V]
  BY DEF Attempt
<1>4. \A y \in below[x] : f[y] = g[y]
  BY <1>2, <1>3 DEF Attempt
<1>5. D[f][x] = D[g][x]
  BY <1>3, <1>4 DEF Local
<1> QED
  BY <1>3, <1>5 DEF Attempt

\* Recursion: there is a function that satisfies the definition everywhere.
LEMMA RecursiveFunctionExists ==
    ASSUME NEW S, NEW V, NEW below, NEW D, Founded(S, below), Local(S, V, below, D), V # {}
    PROVE  \E f \in [S -> V] : f = D[f]
<1> DEFINE Is(f, A) == Attempt(S, V, below, D, f, A)
           G == {x \in S : \E f \in [S -> V], A \in SUBSET S : Is(f, A) /\ x \in A}
<1>1. PICK d \in V : TRUE
  OBVIOUS
<1> DEFINE F == [x \in S |-> IF x \in G
                             THEN CHOOSE v \in V : \E f \in [S -> V], A \in SUBSET S :
                                                     Is(f, A) /\ x \in A /\ v = f[x]
                             ELSE d]
<1>2. ASSUME NEW f \in [S -> V], NEW A \in SUBSET S, Is(f, A), NEW x \in A
      PROVE  x \in G /\ x \in S /\ F[x] = f[x]
  <2>1. x \in G /\ x \in S
    BY <1>2
  <2> DEFINE v == CHOOSE v \in V : \E h \in [S -> V], B \in SUBSET S :
                                     Is(h, B) /\ x \in B /\ v = h[x]
  <2>2. F[x] = v
    BY <2>1
  <2>3. \E w \in V : \E h \in [S -> V], B \in SUBSET S : Is(h, B) /\ x \in B /\ w = h[x]
    <3>1. f[x] \in V
      BY <2>1
    <3> QED
      BY <1>2, <3>1
  <2>4. PICK h \in [S -> V], B \in SUBSET S : Is(h, B) /\ x \in B /\ v = h[x]
    BY <2>3
  <2>5. \A y \in A \cap B : f[y] = h[y]
    BY <1>2, <2>4, AttemptsAgree
  <2> QED
    BY <2>1, <2>2, <2>4, <2>5
<1>3. F \in [S -> V]
  <2> SUFFICES ASSUME NEW x \in S
               PROVE  F[x] \in V
    OBVIOUS
  <2>1. CASE x \in G
    <3>1. PICK f \in [S -> V], A \in SUBSET S : Is(f, A) /\ x \in A
      BY <2>1
    <3>2. F[x] = f[x]
      BY <1>2, <3>1
    <3> QED
      BY <3>2
  <2>2. CASE x \notin G
    BY <2>2
  <2> QED
    BY <2>1, <2>2
<1>4. Is(F, G)
  <2> SUFFICES ASSUME NEW x \in G
               PROVE  below[x] \subseteq G /\ F[x] = D[F][x]
    BY <1>3 DEF Attempt
  <2>1. PICK f \in [S -> V], A \in SUBSET S : Is(f, A) /\ x \in A
    OBVIOUS
  <2>2. below[x] \subseteq A /\ f[x] = D[f][x] /\ x \in S
    BY <2>1 DEF Attempt
  <2>3. \A y \in A : y \in G /\ F[y] = f[y]
    BY <1>2, <2>1
  <2> HIDE DEF F, G
  <2>4. D[F][x] = D[f][x]
    BY <1>3, <2>2, <2>3 DEF Local
  <2> QED
    BY <2>1, <2>2, <2>3, <2>4
<1>5. G = S
  <2> SUFFICES ASSUME S \ G # {}
               PROVE  FALSE
    OBVIOUS
  <2>1. PICK x \in S \ G : below[x] \cap (S \ G) = {}
    <3>1. S \ G \in SUBSET S
      OBVIOUS
    <3> HIDE DEF G
    <3> QED
      BY <3>1 DEF Founded
  <2>2. below[x] \subseteq G /\ x \in S /\ x \notin G /\ G \subseteq S
    BY <2>1 DEF Founded
  <2> DEFINE f == [F EXCEPT ![x] = D[F][x]]
             A == G \cup {x}
  <2>3. D[F][x] \in V /\ f \in [S -> V] /\ f[x] = D[F][x] /\ \A y \in G : f[y] = F[y]
    <3> HIDE DEF F, G
    <3> QED
      BY <1>3, <2>2 DEF Local
  <2> HIDE DEF f
  <2>4. ASSUME NEW y \in A
        PROVE  below[y] \subseteq A /\ f[y] = D[f][y]
    <3>1. below[y] \subseteq G
      BY <1>4, <2>2 DEF Attempt
    <3>2. f[y] = D[F][y]
      <4>1. y = x \/ y \in G
        OBVIOUS
      <4>2. CASE y = x
        BY <2>3, <4>2
      <4>3. CASE y \in G
        <5> HIDE DEF F, G
        <5> QED
          BY <1>4, <2>3, <4>3 DEF Attempt
      <4> QED
        BY <4>1, <4>2, <4>3
    <3>3. D[F][y] = D[f][y]
      <4>1. y \in S /\ \A z \in below[y] : F[z] = f[z]
        BY <2>2, <2>3, <3>1
      <4> HIDE DEF F, G, A
      <4> QED
        BY <1>3, <2>3, <4>1 DEF Local
    <3> QED
      BY <3>1, <3>2, <3>3
  <2>5. A \in SUBSET S /\ Is(f, A)
    BY <2>2, <2>3, <2>4 DEF Attempt
  <2> QED
    BY <2>2, <2>3, <2>5
<1>6. F = D[F]
  <2> HIDE DEF F, G
  <2>1. \A x \in S : F[x] = D[F][x]
    BY <1>4, <1>5 DEF Attempt
  <2>2. D[F] \in [S -> V]
    BY <1>3 DEF Local
  <2> QED
    BY <1>3, <2>1, <2>2
<1> QED
  BY <1>3, <1>6

-----------------------------------------------------------------------------
(* Every step keeps the types of the variables.                            *)
LEMMA TypeStep == IInv /\ [Next]_vars => TypeOK'
<1> SUFFICES ASSUME IInv, [Next]_vars PROVE TypeOK'
  OBVIOUS
<1> USE DEF IInv, TypeOK, list, shell
<1>1. CASE Command
  <2>1. next[ProgHead] \in Node \cup {ProgHead}
    OBVIOUS
  <2> QED
    BY <1>1, <2>1 DEF Command, Call, NoStmt
<1>2. CASE Find
  BY <1>2 DEF Find
<1>3. CASE Replace
  BY <1>3, Ground DEF Replace, Return, Forget, Position, AtLine, All, Live
<1>4. CASE Insert
  <2> USE DEF Position, All
  <2>1. arg \in Line /\ new \in Stmt
    BY <1>4 DEF Insert
  <2> QED
    BY <1>4, <2>1 DEF Insert, Return, Forget
<1>5. CASE Delete
  BY <1>5, Ground DEF Delete, RemoveData, InRange
<1>6. CASE Deleted \/ Goto
  BY <1>6 DEF Deleted, Goto, Return, Fail, Forget
<1>7. CASE Run \/ Cont
  BY <1>7 DEF Run, Cont, Unmoved
<1>8. CASE Fetch
  BY <1>8 DEF Fetch
<1>9. CASE EndOfRun \/ Leave
  BY <1>9 DEF EndOfRun, Leave, Unmoved
<1>10. CASE Jump
  <2>1. new[2] \in Line
    BY <1>10, Target DEF Jump
  <2> QED
    BY <1>10, <2>1 DEF Jump, Call
<1>11. CASE Execute \/ Stop
  BY <1>11 DEF Execute, Stop, Return, Fail, Forget
<1>12. CASE Quit
  BY <1>12 DEF Quit
<1>13. CASE UNCHANGED vars
  BY <1>13 DEF vars
<1> QED
  BY <1>1, <1>2, <1>3, <1>4, <1>5, <1>6, <1>7, <1>8, <1>9, <1>10, <1>11, <1>12, <1>13
     DEF Next, Step

(* SIGQUIT is handled from the start of a run to its end.                  *)
LEMMA HandledStep == IInv /\ [Next]_vars => Handled'
<1> SUFFICES ASSUME IInv, [Next]_vars PROVE Handled'
  OBVIOUS
<1> USE DEF IInv, TypeOK, Handled, list, shell
<1>1. CASE Command \/ Jump
  BY <1>1 DEF Command, Jump, Call
<1>2. CASE Find \/ Delete \/ Fetch
  BY <1>2 DEF Find, Delete, RemoveData, Fetch
<1>3. CASE Replace \/ Insert \/ Deleted
  BY <1>3 DEF Replace, Insert, Deleted, Return
<1>4. CASE Goto \/ Execute \/ Stop
  BY <1>4 DEF Goto, Execute, Stop, Return, Fail
<1>5. CASE Run \/ Cont \/ EndOfRun \/ Leave
  BY <1>5 DEF Run, Cont, EndOfRun, Leave
<1>6. CASE Quit
  BY <1>6 DEF Quit
<1>7. CASE UNCHANGED vars
  BY <1>7 DEF vars
<1> QED
  BY <1>1, <1>2, <1>3, <1>4, <1>5, <1>6, <1>7 DEF Next, Step

-----------------------------------------------------------------------------
(* The other steps leave the list as it is, and the counter in it.         *)
LEMMA SameList ==
    ASSUME IInv, UNCHANGED <<next, prev, line>>, counter' \in All
    PROVE  Linked' /\ Sorted'
BY DEF IInv, Linked, Sorted, Live, All

(* What an insertion finds: its place is between a smaller line, or the    *)
(* head, and a greater one, or the head.                                   *)
LEMMA Place ==
    ASSUME IInv, pc = "found", op = "insert", ~AtLine
    PROVE  /\ ptr \in All /\ prev[ptr] \in All
           /\ next[prev[ptr]] = ptr
           /\ arg \in Line /\ arg \in Nat \ {0} /\ new \in Stmt
           /\ ptr \in Live => line[ptr] > arg
           /\ prev[ptr] \in Live => line[prev[ptr]] < arg
<1> USE DEF IInv
<1>1. ptr \in All /\ arg \in Line /\ arg \in Nat \ {0} /\ new \in Stmt
  BY LineAssumption DEF Position
<1>2. prev[ptr] \in All /\ next[prev[ptr]] = ptr
  BY <1>1 DEF Linked
<1>3. ASSUME ptr \in Live PROVE line[ptr] > arg
  BY <1>1, <1>3, Ground DEF Position, Found, AtLine
<1>4. ASSUME prev[ptr] \in Live PROVE line[prev[ptr]] < arg
  <2> SUFFICES ASSUME line[prev[ptr]] >= arg PROVE FALSE
    BY <1>1, <1>4, Ground
  <2>1. ptr \in Live /\ line[ptr] <= line[prev[ptr]]
    BY <1>4 DEF Position
  <2>2. line[prev[ptr]] < line[ptr]
    BY <1>2, <1>4, <2>1 DEF Sorted
  <2> QED
    BY <1>4, <2>1, <2>2, Ground
<1> QED
  BY <1>1, <1>2, <1>3, <1>4

(* The new node is linked in at its place.                                 *)
LEMMA InsertList == ASSUME IInv, Insert PROVE Linked' /\ Sorted'
<1> USE DEF IInv
<1> DEFINE p == prev[ptr]
<1>1. PICK n0 \in Node \ Live :
        /\ next' = [next EXCEPT ![n0] = ptr, ![p] = n0]
        /\ prev' = [prev EXCEPT ![n0] = p, ![ptr] = n0]
        /\ line' = [line EXCEPT ![n0] = arg]
  BY DEF Insert
<1>2. /\ ptr \in All /\ p \in All /\ next[p] = ptr
      /\ arg \in Nat \ {0}
      /\ ptr \in Live => line[ptr] > arg
      /\ p \in Live => line[p] < arg
  BY Place DEF Insert
<1>3. n0 \notin All /\ Live' = Live \cup {n0} /\ All' = All \cup {n0}
  BY <1>1, <1>2, Ground DEF TypeOK, Live, All
<1>4. /\ next'[n0] = ptr /\ next'[p] = n0
      /\ \A n \in All \ {p} : next'[n] = next[n]
  BY <1>1, <1>2, <1>3, Ground DEF TypeOK
<1>5. /\ prev'[n0] = p /\ prev'[ptr] = n0
      /\ \A n \in All \ {ptr} : prev'[n] = prev[n]
  BY <1>1, <1>2, <1>3, Ground DEF TypeOK
<1>6. line'[n0] = arg /\ \A n \in Live : line'[n] = line[n] /\ line[n] \in Nat
  BY <1>1, <1>3, Ground DEF TypeOK
<1>7. Linked'
  <2>1. counter' \in All'
    BY <1>3 DEF Insert, Linked
  <2>2. ASSUME NEW n \in All' PROVE next'[n] \in All' /\ prev'[next'[n]] = n
    BY <1>2, <1>3, <1>4, <1>5 DEF Linked
  <2>3. ASSUME NEW n \in All' PROVE prev'[n] \in All' /\ next'[prev'[n]] = n
    BY <1>2, <1>3, <1>4, <1>5 DEF Linked
  <2> QED
    BY <2>1, <2>2, <2>3 DEF Linked
<1>8. Sorted'
  <2> HIDE DEF p
  <2>1. ASSUME NEW n \in Live', next'[n] \in Live' PROVE line'[n] < line'[next'[n]]
    <3>1. CASE n = n0
      BY <1>2, <1>3, <1>4, <1>6, <2>1, <3>1 DEF All
    <3>2. CASE n = p
      BY <1>2, <1>3, <1>4, <1>6, <3>2
    <3>3. CASE n \in Live /\ n # p
      <4>1. next[n] \in All /\ next'[n] = next[n]
        BY <1>4, <3>3 DEF Linked, All
      <4> QED
        BY <1>3, <1>6, <2>1, <3>3, <4>1 DEF Sorted
    <3> QED
      BY <1>3, <3>1, <3>2, <3>3
  <2>2. ASSUME NEW m \in Live'
        PROVE  next'[ProgHead] \in Live' /\ line'[next'[ProgHead]] <= line'[m]
    BY <1>2, <1>3, <1>4, <1>6, Ground DEF Sorted, All
  <2>3. ASSUME NEW m \in Live', NEW n \in Live', line'[n] < line'[m]
        PROVE  next'[n] \in Live' /\ line'[next'[n]] <= line'[m]
    BY <1>2, <1>3, <1>4, <1>6, <2>3, Ground DEF Sorted, All
  <2>4. ASSUME NEW m \in Live', NEW n \in Live', line'[n] = line'[m] PROVE n = m
    <3>1. ASSUME NEW k \in Live PROVE line[k] # arg
      BY <1>2, <1>6, <3>1, Ground DEF Sorted, All
    <3> QED
      BY <1>3, <1>6, <2>4, <3>1 DEF Sorted
  <2> QED
    BY <2>1, <2>2, <2>3, <2>4 DEF Sorted
<1> QED
  BY <1>7, <1>8

(* A statement that is deleted leaves its neighbours linked to each other. *)
LEMMA DeleteList == ASSUME IInv, Delete PROVE Linked' /\ Sorted'
<1> USE DEF IInv
<1> DEFINE p == prev[ptr]
           q == next[ptr]
<1>1. /\ ptr \in Live
      /\ next' = [next EXCEPT ![p] = q]
      /\ prev' = [prev EXCEPT ![q] = p]
      /\ line' = [line EXCEPT ![ptr] = 0]
      /\ counter' = IF ptr = counter THEN q ELSE counter
  BY Ground DEF Delete, RemoveData, InRange, Position
<1>2. /\ p \in All \ {ptr} /\ q \in All \ {ptr}
      /\ next[p] = ptr /\ prev[q] = ptr
  BY <1>1, Ground DEF Linked, Sorted
<1>3. /\ Live' = Live \ {ptr} /\ All' = All \ {ptr}
      /\ \A n \in Live' : line'[n] = line[n] /\ line[n] \in Nat
  BY <1>1, Ground DEF TypeOK, Live, All
<1>4. next'[p] = q /\ \A n \in All \ {p} : next'[n] = next[n]
  BY <1>1, <1>2, Ground DEF TypeOK
<1>5. prev'[q] = p /\ \A n \in All \ {q} : prev'[n] = prev[n]
  BY <1>1, <1>2, Ground DEF TypeOK
<1>6. /\ \A n \in All \ {p} : next[n] # ptr
      /\ \A n \in All \ {q} : prev[n] # ptr
  BY <1>1, <1>2 DEF Linked
<1>7. /\ line[ptr] \in Nat
      /\ q \in Live => line[ptr] < line[q]
      /\ p \in Live => line[p] < line[ptr] /\ line[p] \in Nat
  BY <1>1, <1>2, Ground DEF Sorted
<1>8. ASSUME NEW m \in Live', line[ptr] <= line[m] PROVE q \in Live' /\ line[q] <= line[m]
  <2>1. line[ptr] < line[m]
    BY <1>1, <1>3, <1>7, <1>8 DEF Sorted
  <2> QED
    BY <1>1, <1>2, <1>3, <2>1 DEF Sorted
<1> HIDE DEF p, q
<1>9. Linked'
  <2>1. counter' \in All'
    BY <1>1, <1>2, <1>3 DEF Linked
  <2>2. ASSUME NEW n \in All' PROVE next'[n] \in All' /\ prev'[next'[n]] = n
    BY <1>2, <1>3, <1>4, <1>5, <1>6 DEF Linked
  <2>3. ASSUME NEW n \in All' PROVE prev'[n] \in All' /\ next'[prev'[n]] = n
    BY <1>2, <1>3, <1>4, <1>5, <1>6 DEF Linked
  <2> QED
    BY <2>1, <2>2, <2>3 DEF Linked
<1>10. Sorted'
  <2>1. ASSUME NEW n \in Live', next'[n] \in Live' PROVE line'[n] < line'[next'[n]]
    <3>1. CASE n = p
      BY <1>3, <1>4, <1>7, <2>1, <3>1
    <3>2. CASE n # p
      BY <1>3, <1>4, <1>6, <2>1, <3>2, Ground DEF Sorted
    <3> QED
      BY <3>1, <3>2
  <2>2. ASSUME NEW m \in Live'
        PROVE  next'[ProgHead] \in Live' /\ line'[next'[ProgHead]] <= line'[m]
    <3>1. next[ProgHead] \in Live /\ line[next[ProgHead]] <= line[m]
      BY <1>3 DEF Sorted
    <3>2. CASE p = ProgHead
      BY <1>2, <1>3, <1>4, <1>8, <3>1, <3>2
    <3>3. CASE p # ProgHead
      BY <1>3, <1>4, <1>6, <3>1, <3>3, Ground
    <3> QED
      BY <3>2, <3>3
  <2>3. ASSUME NEW m \in Live', NEW n \in Live', line'[n] < line'[m]
        PROVE  next'[n] \in Live' /\ line'[next'[n]] <= line'[m]
    <3>1. next[n] \in Live /\ line[next[n]] <= line[m]
      BY <1>3, <2>3 DEF Sorted
    <3>2. CASE n = p
      BY <1>2, <1>3, <1>4, <1>8, <3>1, <3>2
    <3>3. CASE n # p
      BY <1>3, <1>4, <1>6, <3>1, <3>3, Ground
    <3> QED
      BY <3>2, <3>3
  <2>4. ASSUME NEW m \in Live', NEW n \in Live', line'[n] = line'[m] PROVE n = m
    BY <1>3, <2>4 DEF Sorted
  <2> QED
    BY <2>1, <2>2, <2>3, <2>4 DEF Sorted
<1> QED
  BY <1>9, <1>10

(* Every step keeps the list linked and in order.                          *)
LEMMA ListStep == IInv /\ [Next]_vars => Linked' /\ Sorted'
<1> SUFFICES ASSUME IInv, [Next]_vars PROVE Linked' /\ Sorted'
  OBVIOUS
<1>1. CASE Insert
  BY <1>1, InsertList
<1>2. CASE Delete
  BY <1>2, DeleteList
<1>3. CASE ~Insert /\ ~Delete
  <2> USE DEF IInv
  <2>1. /\ UNCHANGED <<next, prev, line>>
        /\ \/ counter' \in {counter, next[ProgHead], next[counter]}
           \/ counter' = ptr /\ pc = "found"
    BY <1>3 DEF Next, Step, list, shell, vars, Find, Replace, Deleted, Goto, Cont, Fetch,
       EndOfRun, Jump, Execute, Stop, Leave, Command, Run, Quit
  <2>2. ProgHead \in All /\ counter \in All /\ next[ProgHead] \in All /\ next[counter] \in All
    BY Ground DEF Linked
  <2>3. counter' \in All
    BY <2>1, <2>2 DEF Position
  <2> QED
    BY <2>1, <2>3, SameList
<1> QED
  BY <1>1, <1>2, <1>3

(* A search is not past its line, wherever SIGQUIT finds it.               *)
LEMMA PositionStep == IInv /\ [Next]_vars => Position'
<1> SUFFICES ASSUME IInv, [Next]_vars PROVE Position'
  OBVIOUS
<1> USE DEF IInv
<1>1. ASSUME UNCHANGED list, NEW o \in {"insert", "delete", "goto"},
             NEW l \in Line, NEW m \in Line, NEW s, Call(o, l, m, s),
             o = "insert" => s \in Stmt
      PROVE  Position'
  <2>1. Live' = Live /\ All' = All /\ line' = line /\ next' = next
    BY <1>1 DEF list, Live, All
  <2>2. next[ProgHead] \in All
    BY Ground DEF Linked
  <2> QED
    BY <1>1, <2>1, <2>2 DEF Call, Position, Sorted
<1>2. CASE Command
  BY <1>1, <1>2 DEF Command
<1>3. CASE Jump
  <2>1. new[2] \in Line
    BY <1>3, Target DEF Jump, TypeOK
  <2> QED
    BY <1>1, <1>3, <2>1 DEF Jump
<1>4. CASE Find
  <2>1. Live' = Live /\ All' = All /\ line' = line
    BY <1>4 DEF Find, list, Live, All
  <2>2. CASE Found
    BY <1>4, <2>1, <2>2 DEF Find, Position, Found
  <2>3. CASE ~Found
    <3>1. /\ pc' = "find" /\ ptr' = next[ptr] /\ arg' = arg /\ last' = last
          /\ op' = op /\ new' = new
      BY <1>4, <2>3 DEF Find
    <3>2. ptr \in Live /\ line[ptr] < arg /\ arg \in Nat
      <4>1. ptr \in All /\ ptr # ProgHead /\ ~(line[ptr] >= arg) /\ arg \in Line
        BY <1>4, <2>3 DEF Find, Position, Found
      <4>2. arg \in Nat
        BY <4>1, LineAssumption
      <4> QED
        BY <4>1, <4>2, Ground
    <3>3. next[ptr] \in All
      BY <3>2, Ground DEF Linked
    <3>4. ASSUME NEW m \in Live, line[m] >= arg
          PROVE  next[ptr] \in Live /\ line[next[ptr]] <= line[m]
      BY <3>2, <3>4, Ground DEF Sorted
    <3> QED
      BY <1>4, <2>1, <3>1, <3>3, <3>4 DEF Find, Position
  <2> QED
    BY <2>2, <2>3
<1>5. CASE Delete
  <2>1. /\ ptr \in Live /\ line[ptr] >= arg /\ arg \in Nat
        /\ ptr' = next[ptr] /\ arg' = arg /\ last' = last /\ op' = op /\ new' = new
        /\ pc' = "found" /\ op = "delete" /\ arg \in Line /\ last \in Line
    BY <1>5, Ground, LineAssumption DEF Delete, RemoveData, InRange, Position, Found
  <2>2. /\ Live' = Live \ {ptr} /\ All' = All \ {ptr}
        /\ \A n \in Live' : line'[n] = line[n] /\ line[n] \in Nat
    BY <1>5, <2>1, Ground DEF Delete, RemoveData, TypeOK, Live, All
  <2>3. next[ptr] \in All'
    BY <2>1, <2>2, Ground DEF Linked, Sorted
  <2>4. ASSUME NEW m \in Live', line'[m] >= arg
        PROVE  next[ptr] \in Live' /\ line'[next[ptr]] <= line'[m]
    <3>1. line[ptr] < line[m]
      BY <1>5, <2>1, <2>2, <2>4, Ground DEF Delete, RemoveData, Position, Sorted
    <3> QED
      BY <2>1, <2>2, <2>3, <3>1, Ground DEF Sorted, All
  <2>5. next[ptr] = ProgHead \/ line'[next[ptr]] >= arg
    <3>1. CASE next[ptr] \in Live
      BY <2>1, <2>2, <2>3, <3>1, Ground DEF Sorted, All
    <3> QED
      BY <2>2, <2>3, <3>1, Ground
  <2> QED
    BY <2>1, <2>3, <2>4, <2>5 DEF Position, Found
<1>6. CASE Quit \/ UNCHANGED vars
  BY <1>6 DEF Quit, vars, list, shell, Position, Found, Live, All
<1>7. CASE pc' \notin {"find", "found"}
  BY <1>7 DEF Position
<1>8. CASE Replace \/ Insert \/ Deleted \/ Goto \/ Execute \/ Stop
  BY <1>7, <1>8 DEF Replace, Insert, Deleted, Goto, Execute, Stop, Return, Fail
<1>9. CASE Run \/ Cont \/ Fetch \/ EndOfRun \/ Leave
  BY <1>7, <1>9 DEF Run, Cont, Fetch, EndOfRun, Leave
<1> QED
  BY <1>2, <1>3, <1>4, <1>5, <1>6, <1>8, <1>9 DEF Next, Step

-----------------------------------------------------------------------------
(* program.c and the run loop keep the list linked and sorted, the counter *)
(* in it and every search on its way, for any number of lines and nodes.   *)
THEOREM Invariance == Spec => []IInv
<1>1. Init => IInv
  BY HeadAssumption
     DEF Init, IInv, TypeOK, Linked, Sorted, Position, Handled, Live, All
<1>2. IInv /\ [Next]_vars => IInv'
  BY TypeStep, HandledStep, ListStep, PositionStep DEF IInv
<1> QED
  BY <1>1, <1>2, PTL DEF Spec

(* A quit that came too late for its run is not kept for the next one      *)
(* (got_quit is reset with the handler, execution.c).                      *)
THEOREM QuitIsNotKept == Spec => []NoStaleQuit
<1>1. IInv => NoStaleQuit
  BY DEF IInv, Handled, NoStaleQuit
<1> QED
  BY <1>1, Invariance, PTL

-----------------------------------------------------------------------------
(* The position of a node, as the program store has it.                    *)
At(n) == IF n \in Live THEN line[n] ELSE ProgHead

(* The lines of the store are the lines of the list.                       *)
LEMMA StoreLines == Store!Lines = {line[n] : n \in Live}
<1> DEFINE P == {<<line[n], stmt[n]>> : n \in Live}
<1>1. ASSUME NEW n \in Live PROVE line[n] \in {entry[1] : entry \in P}
  <2>1. <<line[n], stmt[n]>> \in P /\ <<line[n], stmt[n]>>[1] = line[n]
    OBVIOUS
  <2> HIDE DEF P
  <2> QED
    BY <2>1
<1>2. ASSUME NEW entry \in P PROVE entry[1] \in {line[n] : n \in Live}
  OBVIOUS
<1>3. Store!Lines = {entry[1] : entry \in P}
  BY DEF Store!Lines
<1> HIDE DEF P
<1> QED
  BY <1>1, <1>2, <1>3

(* The next node of the list is the next line of the store.                *)
LEMMA NextFollows ==
    ASSUME IInv
    PROVE  /\ Store!Following(0, At(next[ProgHead]))
           /\ \A n \in Live : Store!Following(line[n], At(next[n]))
<1> USE DEF IInv
<1>1. Store!Following(0, At(next[ProgHead]))
  <2>1. CASE next[ProgHead] \in Live
    BY <2>1, Ground, StoreLines DEF Store!Following, At, Sorted
  <2>2. CASE next[ProgHead] \notin Live
    BY <2>2, Ground, StoreLines DEF Store!Following, At, Sorted
  <2> QED
    BY <2>1, <2>2
<1>2. ASSUME NEW n \in Live PROVE Store!Following(line[n], At(next[n]))
  <2>1. CASE next[n] \in Live
    BY <2>1, Ground, StoreLines DEF Store!Following, At, Sorted
  <2>2. CASE next[n] \notin Live
    <3>1. \A m \in Live : line[m] <= line[n]
      BY <2>2, Ground DEF Sorted
    <3> QED
      BY <2>2, <3>1, StoreLines DEF Store!Following, At
  <2> QED
    BY <2>1, <2>2
<1> QED
  BY <1>1, <1>2

(* A step that leaves the list and the counter alone, and does not begin   *)
(* or continue a delete, changes nothing of the store.                     *)
LEMMA Stutter ==
    ASSUME UNCHANGED <<list, counter>>,
           ~(pc = "found" /\ op = "delete"), ~(pc' = "found" /\ op' = "delete")
    PROVE  UNCHANGED Store!vars
BY DEF list, Live, Store!vars

(* A replacement or a new node is an insertion into the store.             *)
LEMMA ReplaceImplements == ASSUME IInv, Replace PROVE Store!Insert(arg, new)
<1> USE DEF IInv
<1>1. ptr \in Live /\ line[ptr] = arg
  BY Ground DEF Replace, AtLine, Position
<1>2. stmt' = [stmt EXCEPT ![ptr] = new] /\ line' = line /\ counter' = counter /\ Live' = Live
  BY DEF Replace, Live
<1>3. {<<line'[n], stmt'[n]>> : n \in Live'}
        = {e \in {<<line[n], stmt[n]>> : n \in Live} : e[1] # arg} \cup {<<arg, new>>}
  <2>1. \A n \in Live \ {ptr} : stmt'[n] = stmt[n] /\ line[n] # arg
    BY <1>1, <1>2, Ground DEF TypeOK, Sorted
  <2>2. stmt'[ptr] = new
    BY <1>1, <1>2, Ground DEF TypeOK
  <2> QED
    BY <1>1, <1>2, <2>1, <2>2
<1>4. ~(pc' = "found" /\ op' = "delete")
  BY DEF Replace, Return
<1> QED
  BY <1>2, <1>3, <1>4 DEF Store!Insert, Replace

LEMMA InsertImplements == ASSUME IInv, Insert PROVE Store!Insert(arg, new)
<1> USE DEF IInv
<1>1. PICK n0 \in Node \ Live :
        line' = [line EXCEPT ![n0] = arg] /\ stmt' = [stmt EXCEPT ![n0] = new]
  BY DEF Insert
<1>2. arg \in Nat \ {0} /\ \A n \in Live : line[n] # arg
  <2>1. /\ arg \in Nat \ {0}
        /\ ptr \in Live => line[ptr] > arg
    BY Place DEF Insert
  <2>2. \A m \in Live : line[m] >= arg => ptr \in Live /\ line[ptr] <= line[m]
    BY DEF Insert, Position
  <2> QED
    BY <2>1, <2>2, Ground
<1>3. /\ Live' = Live \cup {n0}
      /\ line'[n0] = arg /\ stmt'[n0] = new
      /\ \A n \in Live : line'[n] = line[n] /\ stmt'[n] = stmt[n]
  BY <1>1, <1>2, Ground DEF TypeOK, Live
<1>4. {<<line'[n], stmt'[n]>> : n \in Live'}
        = {e \in {<<line[n], stmt[n]>> : n \in Live} : e[1] # arg} \cup {<<arg, new>>}
  BY <1>2, <1>3
<1>5. ~(pc' = "found" /\ op' = "delete")
  BY DEF Insert, Return
<1>6. counter' = counter /\ counter # n0
  BY <1>1, Ground DEF Insert, Linked
<1> QED
  BY <1>3, <1>4, <1>5, <1>6 DEF Store!Insert, Insert

(* The lines that a delete has still to remove.                            *)
Doomed == {line[n] : n \in {n \in Live : arg <= line[n] /\ line[n] <= last}}

(* A turn of the loop of prog_delete removes one of the lines it was       *)
(* called for, and moves the counter off it.                               *)
LEMMA DeleteImplements == ASSUME IInv, Delete PROVE Store!Remove(line[ptr])
<1> USE DEF IInv
<1>1. /\ ptr \in Live /\ arg <= line[ptr] /\ line[ptr] <= last
      /\ arg' = arg /\ last' = last /\ pc' = "found" /\ op' = "delete" /\ op = "delete"
      /\ pc = "found"
  <2>1. ptr \in All /\ ptr # ProgHead /\ line[ptr] >= arg /\ line[ptr] <= last /\ arg \in Nat
    BY LineAssumption DEF Delete, RemoveData, InRange, Position, Found
  <2> QED
    BY <2>1, Ground DEF Delete, RemoveData
<1>2. /\ Live' = Live \ {ptr}
      /\ \A n \in Live' : line'[n] = line[n] /\ stmt'[n] = stmt[n]
      /\ \A n \in Live' : line[n] # line[ptr]
  BY <1>1, Ground DEF Delete, RemoveData, TypeOK, Live, Sorted
<1>3. {<<line'[n], stmt'[n]>> : n \in Live'}
        = {e \in {<<line[n], stmt[n]>> : n \in Live} : e[1] # line[ptr]}
  BY <1>1, <1>2
<1>4. Doomed' = Doomed \ {line[ptr]}
  BY <1>1, <1>2 DEF Doomed
<1>5. line[ptr] \in Doomed
  BY <1>1 DEF Doomed
<1>6. /\ ptr = counter => At(counter)' = At(next[ptr]) /\ counter \in Live
      /\ ptr # counter => At(counter)' = At(counter) /\ At(counter) # line[ptr]
  <2>1. next[ptr] # ptr
    BY <1>1, Ground DEF Sorted
  <2>2. CASE ptr = counter
    BY <1>1, <1>2, <2>1, <2>2 DEF Delete, RemoveData, At
  <2>3. CASE ptr # counter
    BY <1>1, <1>2, <2>3, Ground, HeadAssumption DEF Delete, RemoveData, At, Sorted
  <2> QED
    BY <2>2, <2>3
<1>7. Store!Following(line[ptr], At(next[ptr]))
  BY <1>1, NextFollows
<1>8. /\ At(counter) = IF counter \in Live THEN line[counter] ELSE ProgHead
      /\ At(counter)' = (IF counter \in Live THEN line[counter] ELSE ProgHead)'
      /\ Doomed = IF pc = "found" /\ op = "delete" THEN Doomed ELSE {}
  BY <1>1 DEF At
<1>9. IF At(counter) = line[ptr] THEN Store!Following(line[ptr], At(counter)')
                                ELSE At(counter)' = At(counter)
  BY <1>6, <1>7 DEF At
<1> QED
  BY <1>1, <1>3, <1>4, <1>5, <1>9 DEF Store!Remove, Doomed, At

(* A delete that is over has left no line of its range.                    *)
LEMMA DeletedImplements == ASSUME IInv, Deleted PROVE UNCHANGED Store!vars
<1> USE DEF IInv
<1>1. Doomed = {}
  <2> SUFFICES ASSUME NEW n \in Live, arg <= line[n], line[n] <= last PROVE FALSE
    BY DEF Doomed
  <2>1. ptr \in Live /\ line[ptr] <= line[n] /\ last \in Nat
    BY LineAssumption, Ground DEF Deleted, Position
  <2> QED
    BY <2>1, Ground DEF Deleted, InRange
<1>2. UNCHANGED <<list, counter>> /\ Live' = Live /\ ~(pc' = "found" /\ op' = "delete")
  BY DEF Deleted, Return, list, Live
<1> QED
  BY <1>1, <1>2 DEF Store!vars, list, Doomed, Deleted

(* The search of a delete ends: from now on its lines are doomed.          *)
LEMMA FindImplements ==
    ASSUME IInv, Find
    PROVE  Store!Delete(arg, last) \/ UNCHANGED Store!vars
<1>1. Live' = Live /\ UNCHANGED <<list, counter, op, arg, last>> /\ pc = "find"
  BY DEF Find, list, Live
<1>2. CASE pc' = "found" /\ op = "delete"
  <2>1. Doomed = {l \in Store!Lines : arg <= l /\ l <= last}
    BY StoreLines DEF Doomed
  <2>2. Doomed' = Doomed
    BY <1>1 DEF Doomed, list
  <2> QED
    BY <1>1, <1>2, <2>1, <2>2 DEF Store!Delete, Doomed, list
<1>3. CASE ~(pc' = "found" /\ op = "delete")
  BY <1>1, <1>3, Stutter
<1> QED
  BY <1>2, <1>3

(* The steps that move the counter. *)
LEMMA GotoImplements ==
    ASSUME IInv, Goto
    PROVE  Store!Goto(arg) \/ UNCHANGED Store!vars
<1> USE DEF IInv
<1>1. /\ Live' = Live /\ UNCHANGED list /\ pc = "found" /\ op = "goto"
      /\ ~(pc' = "found" /\ op' = "delete")
  BY DEF Goto, list, Live, Return, Fail
<1>2. CASE AtLine
  <2>1. ptr \in Live /\ line[ptr] = arg /\ counter' = ptr
    BY <1>1, <1>2, Ground DEF Goto, AtLine, Position
  <2> QED
    BY <1>1, <2>1, StoreLines DEF Store!Goto, list
<1>3. CASE ~AtLine
  BY <1>1, <1>3, Stutter DEF Goto
<1> QED
  BY <1>2, <1>3

LEMMA RunImplements == ASSUME IInv, Run PROVE Store!Reset
<1>1. /\ Live' = Live /\ UNCHANGED list /\ pc = "prompt" /\ pc' = "cont"
      /\ counter' = next[ProgHead]
  BY DEF Run, list, Live
<1>2. Store!Following(0, At(next[ProgHead]))
  BY NextFollows
<1> QED
  BY <1>1, <1>2 DEF Store!Reset, list, At

LEMMA FetchImplements == ASSUME IInv, Fetch PROVE Store!Advance
<1> USE DEF IInv
<1>1. /\ Live' = Live /\ UNCHANGED list /\ pc = "loop" /\ pc' = "exec"
      /\ counter' = next[counter]
  BY DEF Fetch, list, Live
<1>2. counter \in Live /\ line[counter] # ProgHead
  BY Ground, HeadAssumption DEF Fetch, Linked
<1>3. Store!Following(line[counter], At(next[counter]))
  BY <1>2, NextFollows
<1> QED
  BY <1>1, <1>2, <1>3 DEF Store!Advance, list, At

(* Every step of the shell is a step of the program store, or none.        *)
LEMMA StepImplements ==
    ASSUME IInv, IInv', [Next]_vars
    PROVE  [Store!Next]_(Store!vars)
<1> USE DEF IInv
<1>1. ASSUME pc = "found" PROVE arg \in Line /\ last \in Line /\ (op = "insert" => new \in Stmt)
  BY <1>1 DEF Position
<1>2. CASE Replace
  BY <1>1, <1>2, ReplaceImplements DEF Replace, Store!Next, Store!Insert
<1>3. CASE Insert
  BY <1>1, <1>3, InsertImplements DEF Insert, Store!Next, Store!Insert
<1>4. CASE Delete
  <2>1. line[ptr] \in Line
    BY <1>4, Ground DEF Delete, RemoveData, InRange, Position
  <2> QED
    BY <1>4, <2>1, DeleteImplements DEF Store!Next, Store!Remove, Store!Following
<1>5. CASE Deleted
  BY <1>5, DeletedImplements
<1>6. CASE Find
  <2>1. arg \in Line /\ last \in Line
    BY <1>6 DEF Find, Position
  <2> QED
    BY <1>6, <2>1, FindImplements DEF Store!Next, Store!Delete
<1>7. CASE Goto
  BY <1>1, <1>7, GotoImplements DEF Goto, Store!Next, Store!Goto
<1>8. CASE Run
  BY <1>8, RunImplements DEF Store!Next
<1>9. CASE Fetch
  BY <1>9, FetchImplements DEF Store!Next
<1>10. CASE Command \/ Jump
  BY <1>10, Stutter DEF Command, Jump, Call
<1>11. CASE Cont \/ EndOfRun \/ Leave
  BY <1>11, Stutter DEF Cont, EndOfRun, Leave
<1>12. CASE Execute \/ Stop
  BY <1>12, Stutter DEF Execute, Stop, Return, Fail
<1>13. CASE Quit \/ UNCHANGED vars
  BY <1>13 DEF Quit, vars, shell, list, Live, Store!vars
<1> QED
  BY <1>2, <1>3, <1>4, <1>5, <1>6, <1>7, <1>8, <1>9, <1>10, <1>11, <1>12, <1>13
     DEF Next, Step

(* The linked list and its counter are the program store that the comments *)
(* of program.c describe, for any number of lines and nodes.               *)
THEOREM Refinement == Spec => ImplementsStore
<1>1. Init => Store!Init
  BY HeadAssumption DEF Init, Store!Init, Live
<1>2. IInv /\ IInv' /\ [Next]_vars => [Store!Next]_(Store!vars)
  BY StepImplements
<1> QED
  BY <1>1, <1>2, Invariance, PTL DEF Spec, ImplementsStore, Store!Spec

-----------------------------------------------------------------------------
(* The interpreter. *)

(* A statement that waits is one of a program, or was given at the prompt. *)
Waiting ==
    blocked.what \in {"fg", "wait", "pause", "woken"} =>
        pc = "prompt" \/ (pc = "exec" /\ new[1] = "plain")

-----------------------------------------------------------------------------
(* A statement that is done is one that Program executes. *)
LEMMA Executed ==
    ASSUME Rest, UNCHANGED shell \/ (pc = "exec" /\ new[1] = "plain" /\ (Return \/ Fail))
    PROVE  [Next]_vars
<1>1. CASE UNCHANGED shell
  BY <1>1 DEF Rest, vars
<1>2. CASE pc = "exec" /\ new[1] = "plain" /\ Return
  BY <1>2 DEF Execute, Step, Next, Rest
<1>3. CASE pc = "exec" /\ new[1] = "plain" /\ Fail
  BY <1>3 DEF Stop, Step, Next, Rest
<1> QED
  BY <1>1, <1>2, <1>3

LEMMA Done ==
    ASSUME NEW s, Doing(s)
    PROVE  pc = "prompt" \/ (pc = "exec" /\ new[1] = "plain")
BY DEF Doing

(* What a statement that does not wait may do to the shell. *)
LEMMA Ends ==
    ASSUME pc = "prompt" \/ (pc = "exec" /\ new[1] = "plain"), Succeed \/ GiveUp
    PROVE  UNCHANGED shell \/ (pc = "exec" /\ new[1] = "plain" /\ (Return \/ Fail))
BY DEF Succeed, GiveUp

-----------------------------------------------------------------------------
(* Every statement is a step of Program. *)
LEMMA StatementStep ==
    ASSUME Waiting, Set \/ Unset \/ Background \/ Foreground \/ WaitStatement \/ WaitReturns
                    \/ Poll \/ Cancel \/ Pause \/ PauseReturns
    PROVE  [Next]_vars
<1>1. CASE Set
  <2>1. PICK var \in Var, e \in Expr :
           /\ Doing(<<"set", var, e>>) /\ Rest
           /\ \/ \E n \in NumericOf[e] : SetNumber(var, n)
              \/ SetText(var, StringOf[e])
    BY <1>1 DEF Set
  <2>2. Succeed \/ GiveUp \/ UNCHANGED shell
    BY <2>1 DEF SetNumber, SetText, Fails, Dies
  <2> QED
    BY <2>1, <2>2, Done, Ends, Executed
<1>2. CASE Unset
  BY <1>2, Done, Ends, Executed DEF Unset
<1>3. CASE Background
  BY <1>3, Done, Ends, Executed DEF Background
<1>4. CASE Foreground
  BY <1>4, Executed DEF Foreground
<1>5. CASE WaitStatement
  <2>1. PICK e \in Expr : /\ Doing(<<"wait", e>>) /\ Rest
                          /\ Fails \/ Dies \/ UNCHANGED shell
    BY <1>5 DEF WaitStatement
  <2> QED
    BY <2>1, Done, Ends, Executed DEF Fails, Dies
<1>6. CASE WaitReturns
  <2>1. Succeed /\ Rest /\ blocked.what \in {"fg", "wait"}
    BY <1>6 DEF WaitReturns
  <2> QED
    BY <2>1, Ends, Executed DEF Waiting
<1>7. CASE Poll
  <2>1. PICK e \in Expr : /\ Doing(<<"poll", e>>) /\ Rest
                          /\ Fails \/ Dies \/ Succeed
    BY <1>7 DEF Poll
  <2> QED
    BY <2>1, Done, Ends, Executed DEF Fails, Dies
<1>8. CASE Cancel
  <2>1. PICK e \in Expr : /\ Doing(<<"cancel", e>>) /\ Rest
                          /\ Fails \/ Dies \/ Succeed
    BY <1>8 DEF Cancel
  <2> QED
    BY <2>1, Done, Ends, Executed DEF Fails, Dies
<1>9. CASE Pause
  BY <1>9, Executed DEF Pause
<1>10. CASE PauseReturns
  <2>1. Succeed /\ Rest /\ blocked.what \in {"pause", "woken"}
    BY <1>10 DEF PauseReturns
  <2> QED
    BY <2>1, Ends, Executed DEF Waiting
<1> QED
  BY <1>1, <1>2, <1>3, <1>4, <1>5, <1>6, <1>7, <1>8, <1>9, <1>10

LEMMA MushStep == Waiting /\ [MushNext]_mushVars => [Next]_vars
<1> SUFFICES ASSUME Waiting, [MushNext]_mushVars PROVE [Next]_vars
  OBVIOUS
<1>1. CASE Set \/ Unset \/ Background \/ Foreground \/ WaitStatement \/ WaitReturns
           \/ Poll \/ Cancel \/ Pause \/ PauseReturns
  BY <1>1, StatementStep
<1>2. CASE JobEnds
  BY <1>2 DEF JobEnds, vars
<1>3. CASE IfStatement
  <2>1. \/ Rest /\ UNCHANGED shell
        \/ pc = "exec" /\ new[1] = "if" /\ (Jump \/ Stop \/ Execute)
    BY <1>3 DEF IfStatement, Dies
  <2> QED
    BY <2>1 DEF Rest, vars, Next, Step
<1>4. CASE ProgramStep
  BY <1>4 DEF ProgramStep, Next, Step
<1>5. CASE Prompt \/ Continue \/ QuitKey
  BY <1>5 DEF Prompt, Continue, QuitKey, Next
<1>6. CASE UNCHANGED mushVars
  BY <1>6 DEF mushVars, vars
<1> QED
  BY <1>1, <1>2, <1>3, <1>4, <1>5, <1>6 DEF MushNext

-----------------------------------------------------------------------------
LEMMA WaitingInit == MushInit => Waiting
BY DEF MushInit, Waiting, Awake

(* A statement begins to wait where it is, and nothing else moves meanwhile. *)
LEMMA WaitingStep == Waiting /\ [MushNext]_mushVars => Waiting'
<1> SUFFICES ASSUME Waiting, [MushNext]_mushVars PROVE Waiting'
  OBVIOUS
<1> DEFINE Quiet == blocked'.what \notin {"fg", "wait", "pause", "woken"}
<1>0. Quiet => Waiting'
  BY DEF Waiting
<1>a. Dies => Quiet
  BY DEF Dies, Waits
<1>b. Ready /\ UNCHANGED blocked => Quiet
  BY DEF Ready, Awake
<1>c. blocked' = Awake => Quiet
  BY DEF Awake
<1>d. ASSUME NEW s, Doing(s), UNCHANGED shell PROVE Waiting'
  BY <1>d, Done DEF Waiting, shell
<1>e. Fails => UNCHANGED blocked
  BY DEF Fails, mush
<1>1. CASE Set
  <2>1. PICK var \in Var, e \in Expr : /\ Ready
           /\ \/ \E n \in NumericOf[e] : SetNumber(var, n)
              \/ SetText(var, StringOf[e])
    BY <1>1 DEF Set
  <2>2. Dies \/ UNCHANGED blocked
    BY <2>1, <1>e DEF SetNumber, SetText
  <2> QED
    BY <2>1, <2>2, <1>0, <1>a, <1>b
<1>2. CASE Unset \/ Background
  BY <1>2, <1>0, <1>b DEF Unset, Background
<1>3. CASE Foreground
  BY <1>3, <1>d DEF Foreground
<1>4. CASE WaitStatement
  <2>1. PICK e \in Expr : /\ Doing(<<"wait", e>>) /\ Ready
                          /\ Fails \/ Dies \/ UNCHANGED shell
    BY <1>4 DEF WaitStatement
  <2> QED
    BY <2>1, <1>0, <1>a, <1>b, <1>d, <1>e
<1>5. CASE WaitReturns \/ PauseReturns
  BY <1>5, <1>0, <1>c DEF WaitReturns, PauseReturns
<1>6. CASE Poll \/ Cancel
  <2>1. Ready /\ (Fails \/ Dies \/ UNCHANGED blocked)
    BY <1>6 DEF Poll, Cancel
  <2> QED
    BY <2>1, <1>0, <1>a, <1>b, <1>e
<1>7. CASE Pause
  BY <1>7, <1>d DEF Pause
<1>8. CASE JobEnds
  <2>1. /\ UNCHANGED shell
        /\ UNCHANGED blocked \/ blocked.what = "pause"
    BY <1>8 DEF JobEnds
  <2> QED
    BY <2>1 DEF Waiting, shell
<1>9. CASE IfStatement
  <2>1. Ready /\ (Dies \/ UNCHANGED blocked)
    BY <1>9 DEF IfStatement, mush
  <2> QED
    BY <2>1, <1>0, <1>a, <1>b
<1>10. CASE ProgramStep \/ Prompt \/ Continue
  BY <1>10, <1>0, <1>b DEF ProgramStep, Prompt, Continue, mush
<1>11. CASE QuitKey \/ UNCHANGED mushVars
  <2>1. UNCHANGED <<shell, blocked>>
    BY <1>11 DEF QuitKey, Quit, mush, mushVars, vars
  <2> QED
    BY <2>1 DEF Waiting, shell
<1> QED
  BY <1>1, <1>2, <1>3, <1>4, <1>5, <1>6, <1>7, <1>8, <1>9, <1>10, <1>11 DEF MushNext

-----------------------------------------------------------------------------
(* The interpreter implements the program and its runs (execution.c        *)
(* 107-264), for all statements, variables and jobs.                       *)
THEOREM MushImplementsProgram == MushSpec => ImplementsProgram
<1>1. MushInit => Init
  BY DEF MushInit
<1>2. MushSpec => []Waiting
  BY WaitingInit, WaitingStep, PTL DEF MushSpec
<1> QED
  BY <1>1, <1>2, MushStep, PTL DEF MushSpec, ImplementsProgram, Spec

(* So the list is linked and in order, and the counter in it, whatever the *)
(* interpreter executes, and a quit is for the run it interrupts           *)
(* (program.c 43-234, execution.c 107-134).                                 *)
THEOREM MushKeepsProgram == MushSpec => [](IInv /\ NoStaleQuit)
BY MushImplementsProgram, Invariance, QuitIsNotKept, PTL DEF ImplementsProgram

-----------------------------------------------------------------------------
(* Conversions. *)

\* f is what the loop of store_get_int computes from the first k digits.
Computes(base, f, digits, k) ==
  /\ f \in [0..k -> Int] /\ f[0] = 0
  /\ \A i \in 1..k : f[i] = base * f[i - 1] + digits[i]

LEMMA NumberComputed ==
    ASSUME NEW base \in Int, NEW k \in Nat, NEW digits, \A i \in 1..k : digits[i] \in Int
    PROVE  \E f : Computes(base, f, digits, k) /\ Number(base, digits, k) = f[k]
<1> DEFINE S == 0..k
           below == [i \in S |-> IF i = 0 THEN {} ELSE {i - 1}]
           body(f, i) == IF i = 0 THEN 0 ELSE base * f[i - 1] + digits[i]
           D == [f \in [S -> Int] |-> [i \in S |-> body(f, i)]]
<1>1. Founded(S, below)
  <2>1. below \in [S -> SUBSET S] /\ S \in SUBSET Nat /\ \A n \in S : \A i \in below[n] : i < n
    OBVIOUS
  <2> HIDE DEF S, below
  <2> QED
    BY <2>1, NaturalsFounded
<1>2. \A f \in [S -> Int] : \A i \in S : body(f, i) \in Int
  <2> SUFFICES ASSUME NEW f \in [S -> Int], NEW i \in S
               PROVE  body(f, i) \in Int
    OBVIOUS
  <2>1. CASE i = 0
    BY <2>1
  <2>2. CASE i # 0
    <3>1. i - 1 \in S /\ i \in 1..k
      BY <2>2
    <3> QED
      BY <2>2, <3>1
  <2> QED
    BY <2>1, <2>2
<1>3. Local(S, Int, below, D)
  <2>1. D \in [[S -> Int] -> [S -> Int]]
    BY <1>2
  <2>2. ASSUME NEW f \in [S -> Int], NEW g \in [S -> Int], NEW i \in S, \A j \in below[i] : f[j] = g[j]
        PROVE  D[f][i] = D[g][i]
    BY <2>2
  <2> QED
    BY <2>1, <2>2 DEF Local
<1>4. PICK f \in [S -> Int] : f = D[f]
  <2> HIDE DEF S, below, D
  <2> QED
    BY <1>1, <1>3, RecursiveFunctionExists
<1>5. f = [i \in 0..k |-> IF i = 0 THEN 0 ELSE base * f[i - 1] + digits[i]]
  BY <1>4
<1> DEFINE g == CHOOSE g : g = [i \in 0..k |-> IF i = 0 THEN 0 ELSE base * g[i - 1] + digits[i]]
<1>6. g = [i \in 0..k |-> IF i = 0 THEN 0 ELSE base * g[i - 1] + digits[i]]
  BY <1>5
<1>7. Number(base, digits, k) = g[k]
  BY DEF Number
<1> HIDE DEF g
<1>8. g[0] = 0 /\ \A i \in 1..k : g[i] = base * g[i - 1] + digits[i]
  BY <1>6
<1>9. \A i \in 0..k : g[i] \in Int
  <2> DEFINE T == {i \in Nat : i <= k => g[i] \in Int}
  <2>1. 0 \in T
    BY <1>8
  <2>2. ASSUME NEW n \in Nat, n \in T
        PROVE  n + 1 \in T
    <3> SUFFICES ASSUME n + 1 <= k
                 PROVE  g[n + 1] \in Int
      OBVIOUS
    <3>1. n + 1 \in 1..k /\ (n + 1) - 1 = n /\ g[n] \in Int
      BY <2>2
    <3>2. g[n + 1] = base * g[n] + digits[n + 1]
      BY <1>8, <3>1
    <3> QED
      BY <3>1, <3>2
  <2>3. Nat \subseteq T
    <3> HIDE DEF T
    <3> QED
      BY <2>1, <2>2, SetInduction
  <2> QED
    BY <2>3
<1>10. g \in [0..k -> Int]
  BY <1>6, <1>9
<1> QED
  BY <1>7, <1>8, <1>10 DEF Computes

\* It is the same for the same digits.
LEMMA ComputedAlike ==
    ASSUME NEW base \in Int, NEW k \in Nat, NEW m \in Nat, k <= m, NEW d, NEW e, NEW f, NEW g,
           \A i \in 1..k : d[i] = e[i], Computes(base, f, d, k), Computes(base, g, e, m)
    PROVE  f[k] = g[k]
<1> DEFINE T == {i \in Nat : i <= k => f[i] = g[i]}
<1>1. 0 \in T
  BY DEF Computes
<1>2. ASSUME NEW i \in Nat, i \in T
      PROVE  i + 1 \in T
  <2> SUFFICES ASSUME i + 1 <= k
               PROVE  f[i + 1] = g[i + 1]
    OBVIOUS
  <2>1. i + 1 \in 1..k /\ i + 1 \in 1..m /\ (i + 1) - 1 = i /\ f[i] = g[i]
    BY <1>2
  <2>2. f[i + 1] = base * f[i] + d[i + 1] /\ g[i + 1] = base * g[i] + e[i + 1]
    BY <2>1 DEF Computes
  <2> QED
    BY <2>1, <2>2
<1>3. Nat \subseteq T
  <2> HIDE DEF T
  <2> QED
    BY <1>1, <1>2, SetInduction
<1> QED
  BY <1>3

LEMMA NumberStep ==
    ASSUME NEW d \in Seq(0..9), NEW c \in 0..9
    PROVE  /\ Number(10, d, Len(d)) \in Int
           /\ Number(10, <<c>>, Len(<<c>>)) = c
           /\ Number(10, Append(d, c), Len(d) + 1) = 10 * Number(10, d, Len(d)) + c
<1> DEFINE a == Append(d, c)
           k == Len(d)
<1>1. k \in Nat /\ \A i \in 1..k : d[i] \in 0..9 /\ d[i] \in Int
  BY LenProperties, ElementOfSeq
<1>2. k + 1 \in Nat /\ \A i \in 1..k : a[i] = d[i]
  BY <1>1, AppendProperties
<1>3. a[k + 1] = c
  BY <1>1, AppendProperties
<1>4. \A i \in 1..k + 1 : a[i] \in Int
  <2> SUFFICES ASSUME NEW i \in 1..k + 1
               PROVE  a[i] \in Int
    OBVIOUS
  <2>1. i \in 1..k \/ i = k + 1
    BY <1>1
  <2> QED
    BY <1>1, <1>2, <1>3, <2>1
<1> HIDE DEF a, k
<1>b. PICK base \in Int : base = 10
  OBVIOUS
<1>5. PICK f : Computes(10, f, d, k) /\ Number(10, d, k) = f[k]
  BY <1>b, <1>1, NumberComputed
<1>6. PICK g : Computes(10, g, a, k + 1) /\ Number(10, a, k + 1) = g[k + 1]
  BY <1>b, <1>2, <1>4, NumberComputed
<1>7. f[k] = g[k]
  <2>1. PICK m \in Nat : m = k + 1
    BY <1>2
  <2>2. k <= m /\ \A i \in 1..k : d[i] = a[i]
    BY <1>1, <1>2, <2>1
  <2>3. Computes(10, g, a, m)
    BY <1>6, <2>1
  <2>4. Computes(10, f, d, k) /\ k \in Nat
    BY <1>1, <1>5
  <2>5. k <= m /\ \A i \in 1..k : d[i] = a[i]
    BY <2>2
  <2> QED
    BY <2>3, <2>4, <2>5, ComputedAlike
<1>8. f[k] \in Int /\ g[k + 1] = 10 * g[k] + c
  <2>1. k \in 0..k /\ k + 1 \in 1..k + 1 /\ (k + 1) - 1 = k
    BY <1>1
  <2> QED
    BY <1>3, <1>5, <1>6, <2>1 DEF Computes
<1>9. Number(10, <<c>>, Len(<<c>>)) = c
  <2> DEFINE o == <<c>>
  <2>1. o[1] = c /\ \A i \in 1..1 : o[i] \in Int
    OBVIOUS
  <2> HIDE DEF o
  <2>2. PICK h : Computes(10, h, o, 1) /\ Number(10, o, 1) = h[1]
    BY <2>1, NumberComputed
  <2>3. h[1] = 10 * h[0] + c /\ h[0] = 0
    BY <2>1, <2>2 DEF Computes
  <2>4. Number(10, o, 1) = c /\ Len(o) = 1
    BY <2>2, <2>3 DEF o
  <2>5. Number(10, o, Len(o)) = c
    BY <2>4
  <2> QED
    BY <2>5 DEF o
<1> QED
  BY <1>5, <1>6, <1>7, <1>8, <1>9 DEF a, k

\* The digits of a number, which are never none.
LEMMA DigitsComputed ==
    \A k \in Nat : Digits[k] = IF k < 10 THEN <<k>> ELSE Append(Digits[k \div 10], k % 10)
<1> DEFINE V == Seq(0..9)
           below == [k \in Nat |-> IF k < 10 THEN {} ELSE {k \div 10}]
           D == [f \in [Nat -> V] |-> [k \in Nat |-> IF k < 10 THEN <<k>>
                                                     ELSE Append(f[k \div 10], k % 10)]]
<1>1. \A k \in Nat : k >= 10 => k \div 10 \in Nat /\ k \div 10 < k /\ k % 10 \in 0..9
  OBVIOUS
<1>2. Founded(Nat, below)
  <2>1. below \in [Nat -> SUBSET Nat] /\ \A n \in Nat : \A k \in below[n] : k < n
    BY <1>1
  <2> HIDE DEF below
  <2> QED
    BY <2>1, NaturalsFounded
<1>3. Local(Nat, V, below, D)
  <2>1. ASSUME NEW f \in [Nat -> V], NEW k \in Nat
        PROVE  (IF k < 10 THEN <<k>> ELSE Append(f[k \div 10], k % 10)) \in V
    <3>1. CASE k < 10
      BY <3>1
    <3>2. CASE ~(k < 10)
      <4>1. f[k \div 10] \in V /\ k % 10 \in 0..9
        BY <1>1, <3>2
      <4> QED
        BY <3>2, <4>1
    <3> QED
      BY <3>1, <3>2
  <2>2. D \in [[Nat -> V] -> [Nat -> V]]
    BY <2>1
  <2>3. ASSUME NEW f \in [Nat -> V], NEW g \in [Nat -> V], NEW x \in Nat,
               \A y \in below[x] : f[y] = g[y]
        PROVE  D[f][x] = D[g][x]
    BY <2>3
  <2> QED
    BY <2>2, <2>3 DEF Local
<1>4. PICK f \in [Nat -> V] : f = D[f]
  <2>1. <<>> \in V
    BY EmptySeq
  <2> HIDE DEF V, below, D
  <2> QED
    BY SMTT(60), <1>2, <1>3, <2>1, RecursiveFunctionExists
<1>5. f = [k \in Nat |-> IF k < 10 THEN <<k>> ELSE Append(f[k \div 10], k % 10)]
  BY <1>4
<1>6. Digits = [k \in Nat |-> IF k < 10 THEN <<k>> ELSE Append(Digits[k \div 10], k % 10)]
  BY <1>5 DEF Digits
<1> QED
  BY <1>6

\* Reading the digits gives the number.
LEMMA DigitsRead ==
    \A k \in Nat : /\ Digits[k] \in Seq(0..9) /\ Len(Digits[k]) > 0
                   /\ Number(10, Digits[k], Len(Digits[k])) = k
<1> DEFINE ok(k) == /\ Digits[k] \in Seq(0..9) /\ Len(Digits[k]) > 0
                    /\ Number(10, Digits[k], Len(Digits[k])) = k
           T == {k \in Nat : ok(k)}
<1>1. ASSUME NEW k \in Nat, \A i \in Nat : i < k => i \in T
      PROVE  k \in T
  <2>1. CASE k < 10
    <3>1. Digits[k] = <<k>>
      BY <2>1, DigitsComputed
    <3>2. PICK c \in 0..9 : c = k
      BY <2>1
    <3>3. <<>> \in Seq(0..9)
      BY EmptySeq
    <3>4. Number(10, <<c>>, Len(<<c>>)) = c
      BY <3>3, NumberStep
    <3>5. <<c>> \in Seq(0..9) /\ Len(<<c>>) = 1
      OBVIOUS
    <3>6. Digits[k] = <<c>>
      BY <3>1, <3>2
    <3>7. Len(Digits[k]) > 0 /\ Digits[k] \in Seq(0..9) /\ Number(10, Digits[k], Len(Digits[k])) = k
      BY <3>2, <3>4, <3>5, <3>6
    <3> QED
      BY <3>7
  <2>2. CASE ~(k < 10)
    <3>1. PICK q \in Nat, c \in 0..9 : q = k \div 10 /\ c = k % 10 /\ q < k /\ 10 * q + c = k
      BY <2>2
    <3> DEFINE d == Digits[q]
    <3>2. d \in Seq(0..9) /\ Number(10, d, Len(d)) = q
      BY <1>1, <3>1
    <3>3. Digits[k] = Append(d, c)
      BY <2>2, <3>1, DigitsComputed
    <3>4. Len(Digits[k]) = Len(d) + 1 /\ Digits[k] \in Seq(0..9) /\ Len(d) \in Nat
      BY SMTT(60), <3>1, <3>2, <3>3, AppendProperties, LenProperties
    <3>5. Number(10, Digits[k], Len(d) + 1) = 10 * q + c
      BY <3>1, <3>2, <3>3, NumberStep
    <3> QED
      BY <3>1, <3>4, <3>5
  <2> QED
    BY <2>1, <2>2
<1>2. Nat \subseteq T
  <2> HIDE DEF T
  <2> QED
    BY <1>1, StrongInduction
<1> QED
  BY <1>2

\* Reading the text of an integer gives the integer: store_set_int and
\* store_get_int.
LEMMA IntTextRead ==
    ASSUME NEW n \in Int
    PROVE  IntText(n) \in Seq(Nat) /\ IntOf(IntText(n)) = n
<1>1. PICK k \in Nat : k = IF n < 0 THEN -n ELSE n
  OBVIOUS
<1> DEFINE d == Digits[k]
<1>2. d \in Seq(0..9) /\ Len(d) > 0 /\ Number(10, d, Len(d)) = k
  BY DigitsRead
<1>3. d \in Seq(Nat) /\ \A i \in 1..Len(d) : d[i] \in 0..9
  BY <1>2, SMTT(60)
<1> HIDE DEF d
<1>4. CASE n < 0
  <2> DEFINE t == <<Dash>> \o d
  <2>1. IntText(n) = t
    BY <1>1, <1>4 DEF IntText, d
  <2>2. t \in Seq(Nat) /\ t # <<>> /\ Head(t) = Dash /\ Tail(t) = d
    BY <1>2, <1>3 DEF Dash
  <2>3. -k = n
    BY <1>1, <1>4
  <2> HIDE DEF t
  <2>4. IsNegative(t) /\ Unsigned(t) = d
    BY <2>2 DEF Unsigned, IsNegative
  <2>5. IntegerOf(10, t) = -k
    BY <1>2, <1>3, <2>4 DEF IntegerOf
  <2> QED
    BY <2>1, <2>2, <2>3, <2>5 DEF IntOf
<1>5. CASE ~(n < 0)
  <2>1. IntText(n) = d /\ k = n
    BY <1>1, <1>5 DEF IntText, d
  <2>2. Head(d) # Dash
    <3>1. Head(d) = d[1] /\ 1 \in 1..Len(d)
      BY <1>2, <1>3
    <3>2. Head(d) \in 0..9
      BY <1>3, <3>1
    <3> QED
      BY <3>2 DEF Dash
  <2> QED
    BY <1>2, <1>3, <2>1, <2>2 DEF IntOf, IntegerOf, Unsigned, IsNegative
<1> QED
  BY <1>4, <1>5

-----------------------------------------------------------------------------
(* The list of variables. *)

Text == Seq(Nat)

Stores == Seq(Var \X Text)

Has(s, var, text) == \E i \in DOMAIN s : s[i] = <<var, text>>

OneEach(s) == \A i, j \in DOMAIN s : s[i][1] = s[j][1] => i = j

(* What the types say of the list.                                        *)
LEMMA StoreType ==
    ASSUME NEW s \in Stores
    PROVE  /\ Len(s) \in Nat /\ DOMAIN s = 1..Len(s)
           /\ \A i \in DOMAIN s : s[i][1] \in Var /\ s[i][2] \in Text /\ s[i] = <<s[i][1], s[i][2]>>
<1>1. Len(s) \in Nat /\ DOMAIN s = 1..Len(s) /\ \A i \in DOMAIN s : s[i] \in Var \X Text
  BY LenProperties, ElementOfSeq DEF Stores
<1> QED
  BY <1>1

(* store_get_data finds an entry of the name, if there is one.            *)
LEMMA FirstIsEntry ==
    ASSUME NEW s \in Stores, NEW var, Entry(s, var) # {}
    PROVE  FirstEntry(s, var) \in DOMAIN s /\ s[FirstEntry(s, var)][1] = var
<1>1. Entry(s, var) \in SUBSET Nat
  BY StoreType DEF Entry
<1>2. \E i \in Entry(s, var) : \A j \in Entry(s, var) : i <= j
  BY <1>1, LeastNatural
<1>3. FirstEntry(s, var) \in Entry(s, var)
  BY <1>2 DEF FirstEntry
<1> QED
  BY <1>3 DEF Entry

\* What a variable has is what store_get_string finds.
LEMMA HasIsFound ==
    ASSUME NEW s \in Stores, NEW var, NEW text, OneEach(s), Has(s, var, text)
    PROVE  Entry(s, var) # {} /\ GetString(s, var) = text
<1>1. PICK i \in DOMAIN s : s[i] = <<var, text>>
  BY DEF Has
<1>2. i \in Entry(s, var)
  BY <1>1 DEF Entry
<1>3. FirstEntry(s, var) = i
  BY <1>1, <1>2, FirstIsEntry DEF OneEach
<1> QED
  BY <1>1, <1>2, <1>3 DEF GetString

\* store_set_string, on a variable that is there, or not.
LEMMA ReplacedOK ==
    ASSUME NEW s \in Stores, NEW var \in Var, NEW val \in Text, NEW k \in DOMAIN s,
           OneEach(s), s[k][1] = var
    PROVE  LET t == [s EXCEPT ![k] = <<var, val>>]
           IN /\ t \in Stores /\ OneEach(t) /\ Has(t, var, val)
              /\ \A v, x : v # var /\ Has(s, v, x) => Has(t, v, x)
<1> DEFINE t == [s EXCEPT ![k] = <<var, val>>]
<1>1. t \in Stores
  BY StoreType, ExceptSeq DEF Stores
<1>2. DOMAIN t = DOMAIN s /\ t[k] = <<var, val>> /\ \A i \in DOMAIN s : i # k => t[i] = s[i]
  BY DEF Stores
<1> HIDE DEF t
<1>3. \A i \in DOMAIN s : t[i][1] = s[i][1]
  BY <1>2
<1>4. OneEach(t)
  BY <1>2, <1>3 DEF OneEach
<1>5. Has(t, var, val)
  BY <1>2 DEF Has
<1>6. ASSUME NEW v, NEW x, v # var, Has(s, v, x)
      PROVE  Has(t, v, x)
  <2>1. PICK i \in DOMAIN s : s[i] = <<v, x>>
    BY <1>6 DEF Has
  <2>2. i # k
    BY <1>6, <2>1
  <2> QED
    BY <1>2, <2>1, <2>2 DEF Has
<1> QED
  BY <1>1, <1>4, <1>5, <1>6 DEF t

(* A new entry goes to the front, before those of other names.            *)
LEMMA AddedOK ==
    ASSUME NEW s \in Stores, NEW var \in Var, NEW val \in Text, OneEach(s), Entry(s, var) = {}
    PROVE  LET t == Added(s, var, val)
           IN /\ t \in Stores /\ OneEach(t) /\ Has(t, var, val)
              /\ \A v, x : v # var /\ Has(s, v, x) => Has(t, v, x)
<1> DEFINE o == <<<<var, val>>>>
           t == o \o s
<1>1. o \in Stores /\ Len(o) = 1 /\ o[1] = <<var, val>>
  BY DEF Stores
<1> HIDE DEF o
<1>2. t \in Stores /\ Len(t) = 1 + Len(s) /\ Len(s) \in Nat /\ DOMAIN s = 1..Len(s)
  BY SMTT(60), <1>1, ConcatProperties, StoreType DEF Stores
<1>3. t[1] = <<var, val>> /\ \A i \in DOMAIN s : t[i + 1] = s[i]
  BY <1>1, <1>2, ConcatProperties DEF Stores
<1>4. DOMAIN t = 1..Len(s) + 1
  BY <1>2, StoreType
<1> HIDE DEF t
<1>5. \A i \in DOMAIN t : i = 1 \/ (i - 1 \in DOMAIN s /\ t[i] = s[i - 1])
  <2> SUFFICES ASSUME NEW i \in DOMAIN t, i # 1
               PROVE  i - 1 \in DOMAIN s /\ t[i] = s[i - 1]
    OBVIOUS
  <2>1. i - 1 \in DOMAIN s /\ (i - 1) + 1 = i
    BY <1>2, <1>4
  <2> QED
    BY <1>3, <2>1
<1>6. \A i \in DOMAIN s : s[i][1] # var
  BY DEF Entry
<1>7. OneEach(t)
  <2> SUFFICES ASSUME NEW i \in DOMAIN t, NEW j \in DOMAIN t, t[i][1] = t[j][1]
               PROVE  i = j
    BY DEF OneEach
  <2>1. t[1][1] = var
    BY <1>3
  <2>2. i = 1 <=> j = 1
    BY <1>5, <1>6, <2>1
  <2>3. CASE i # 1 /\ j # 1
    <3>1. s[i - 1][1] = s[j - 1][1] /\ i - 1 \in DOMAIN s /\ j - 1 \in DOMAIN s
      BY <1>5, <2>3
    <3>2. i - 1 = j - 1
      BY <3>1 DEF OneEach
    <3> QED
      BY <1>2, <1>4, <3>2
  <2> QED
    BY <2>2, <2>3
<1>8. Has(t, var, val)
  BY <1>2, <1>3, <1>4 DEF Has
<1>9. ASSUME NEW v, NEW x, Has(s, v, x)
      PROVE  Has(t, v, x)
  <2>1. PICK i \in DOMAIN s : s[i] = <<v, x>>
    BY <1>9 DEF Has
  <2>2. i + 1 \in DOMAIN t /\ t[i + 1] = <<v, x>>
    BY <1>2, <1>3, <1>4, <2>1
  <2> QED
    BY <2>2 DEF Has
<1> QED
  BY <1>2, <1>7, <1>8, <1>9 DEF t, o, Added

(* Taking out an entry moves those behind it and changes none.            *)
LEMMA RemovedOK ==
    ASSUME NEW s \in Stores, NEW k \in DOMAIN s, OneEach(s)
    PROVE  LET t == Removed(s, k)
           IN /\ t \in Stores /\ OneEach(t)
              /\ \A v, x : v # s[k][1] /\ Has(s, v, x) => Has(t, v, x)
<1> DEFINE a == SubSeq(s, 1, k - 1)
           b == SubSeq(s, k + 1, Len(s))
           n == Len(s)
           t == a \o b
           from(i) == IF i < k THEN i ELSE i + 1
<1>1. n \in Nat /\ DOMAIN s = 1..n /\ k \in 1..n
  BY StoreType
<1>2. a \in Stores /\ Len(a) = k - 1 /\ \A i \in 1..k - 1 : a[i] = s[i]
  <2>1. PICK h \in Int : h = k - 1
    BY <1>1
  <2>2. 1 \in Int /\ \A i \in 1..h : s[i] \in Var \X Text
    BY <1>1, <2>1, ElementOfSeq DEF Stores
  <2>3. /\ SubSeq(s, 1, h) \in Seq(Var \X Text)
        /\ Len(SubSeq(s, 1, h)) = IF 1 <= h THEN h - 1 + 1 ELSE 0
        /\ \A i \in 1..h - 1 + 1 : SubSeq(s, 1, h)[i] = s[1 + i - 1]
    BY <2>2, SubSeqProperties
  <2>4. h - 1 + 1 = h /\ (IF 1 <= h THEN h - 1 + 1 ELSE 0) = h
    BY <1>1, <2>1
  <2>5. \A i \in 1..h : 1 + i - 1 = i
    BY <2>1
  <2> QED
    BY <2>1, <2>3, <2>4, <2>5 DEF Stores
<1>3. b \in Stores /\ Len(b) = n - k /\ \A i \in 1..n - k : b[i] = s[k + i]
  <2>1. PICK g \in Int : g = k + 1
    BY <1>1
  <2>2. n \in Int /\ \A i \in g..n : s[i] \in Var \X Text
    BY <1>1, <2>1, ElementOfSeq DEF Stores
  <2>3. /\ SubSeq(s, g, n) \in Seq(Var \X Text)
        /\ Len(SubSeq(s, g, n)) = IF g <= n THEN n - g + 1 ELSE 0
        /\ \A i \in 1..n - g + 1 : SubSeq(s, g, n)[i] = s[g + i - 1]
    <3> HIDE DEF n
    <3> QED
      BY <2>2, SubSeqProperties
  <2>4. n - g + 1 = n - k /\ (IF g <= n THEN n - g + 1 ELSE 0) = n - k
    BY <1>1, <2>1
  <2>5. \A i \in 1..n - k : g + i - 1 = k + i
    BY <1>1, <2>1
  <2>6. SubSeq(s, g, n) = b
    BY <2>1
  <2>7. b \in Seq(Var \X Text) /\ Len(b) = n - k
    <3> HIDE DEF b
    <3> QED
      BY <2>3, <2>4, <2>6
  <2>8. \A i \in 1..n - k : b[i] = s[k + i]
    <3> HIDE DEF b, n
    <3> QED
      BY <2>3, <2>4, <2>5, <2>6
  <2> QED
    BY <2>7, <2>8 DEF Stores
<1> HIDE DEF a, b
<1>4. /\ t \in Stores /\ Len(t) = n - 1
      /\ \A i \in 1..n - 1 : t[i] = IF i <= Len(a) THEN a[i] ELSE b[i - Len(a)]
  <2> HIDE DEF n
  <2>1. a \in Seq(Var \X Text) /\ b \in Seq(Var \X Text) /\ Len(a) + Len(b) = n - 1
    BY <1>1, <1>2, <1>3 DEF Stores
  <2>2. /\ Len(t) = Len(a) + Len(b)
        /\ \A i \in 1..Len(a) + Len(b) : t[i] = IF i <= Len(a) THEN a[i] ELSE b[i - Len(a)]
    BY <2>1, ConcatProperties
  <2>3. t \in Seq(Var \X Text)
    BY <2>1, ConcatProperties
  <2> QED
    BY <2>1, <2>2, <2>3 DEF Stores
<1>5. DOMAIN t = 1..n - 1
  BY <1>4, StoreType
<1>6. \A i \in 1..n - 1 : t[i] = s[from(i)]
  <2> SUFFICES ASSUME NEW i \in 1..n - 1
               PROVE  t[i] = s[from(i)]
    OBVIOUS
  <2>1. t[i] = IF i <= Len(a) THEN a[i] ELSE b[i - Len(a)]
    BY <1>4
  <2>2. CASE i < k
    BY <1>1, <1>2, <2>1, <2>2
  <2>3. CASE ~(i < k)
    <3>1. i - (k - 1) \in 1..n - k /\ k + (i - (k - 1)) = i + 1 /\ ~(i <= k - 1)
      BY <1>1, <2>3
    <3> QED
      BY <1>2, <1>3, <2>1, <2>3, <3>1
  <2> QED
    BY <2>2, <2>3
<1> HIDE DEF t
<1>7. OneEach(t)
  <2> SUFFICES ASSUME NEW i \in DOMAIN t, NEW j \in DOMAIN t, t[i][1] = t[j][1]
               PROVE  i = j
    BY DEF OneEach
  <2>1. from(i) \in DOMAIN s /\ from(j) \in DOMAIN s /\ s[from(i)][1] = s[from(j)][1]
    BY <1>1, <1>5, <1>6
  <2>2. from(i) = from(j)
    BY <2>1 DEF OneEach
  <2> QED
    BY <1>1, <1>5, <2>2
<1>8. ASSUME NEW v, NEW x, v # s[k][1], Has(s, v, x)
      PROVE  Has(t, v, x)
  <2>1. PICK i \in DOMAIN s : s[i] = <<v, x>>
    BY <1>8 DEF Has
  <2>2. i # k
    BY <1>8, <2>1
  <2>3. PICK j \in 1..n - 1 : from(j) = i
    <3>1. CASE i < k
      BY <1>1, <3>1
    <3>2. CASE i > k
      <4>1. i - 1 \in 1..n - 1 /\ from(i - 1) = i
        BY <1>1, <3>2
      <4> QED
        BY <4>1
    <3> QED
      BY <1>1, <2>2, <3>1, <3>2
  <2> QED
    BY <1>5, <1>6, <2>1, <2>3 DEF Has
<1> QED
  BY <1>4, <1>7, <1>8 DEF t, a, b, Removed, RemoveAt

\* store_set_string: a variable has what it was last given, and the others
\* what they had.
LEMMA SetStringOK ==
    ASSUME NEW s \in Stores, NEW var \in Var, NEW val \in Text \cup {NoValue}, OneEach(s)
    PROVE  LET t == SetString(s, var, val)
           IN /\ t \in Stores /\ OneEach(t)
              /\ val # NoValue => Has(t, var, val)
              /\ \A v, x : v # var /\ Has(s, v, x) => Has(t, v, x)
<1>1. CASE val = NoValue /\ Entry(s, var) = {}
  BY <1>1 DEF SetString
<1>2. CASE val = NoValue /\ Entry(s, var) # {}
  BY <1>2, FirstIsEntry, RemovedOK DEF SetString
<1>3. CASE val # NoValue /\ Entry(s, var) = {}
  BY <1>3, AddedOK DEF SetString
<1>4. CASE val # NoValue /\ Entry(s, var) # {}
  BY <1>4, FirstIsEntry, ReplacedOK DEF SetString
<1> QED
  BY <1>1, <1>2, <1>3, <1>4

LEMMA GetStringType ==
    ASSUME NEW s \in Stores, NEW var
    PROVE  GetString(s, var) \in Text \cup {NoValue}
BY FirstIsEntry, StoreType DEF GetString

-----------------------------------------------------------------------------
(* What expressions evaluate to. *)

Value == Int \cup {Error, Crash}

(* A text that is no integer is an error.                                  *)
LEMMA IntegerType ==
    ASSUME NEW base \in Nat, NEW text \in Text
    PROVE  IntegerOf(base, text) \in Int \cup {Error}
<1> DEFINE digits == Unsigned(text)
           ans    == Number(base, digits, Len(digits))
<1>1. digits \in Seq(Nat)
  <2>1. text # <<>> => Tail(text) \in Seq(Nat)
    BY HeadTailProperties DEF Text
  <2> QED
    BY <2>1 DEF Text, Unsigned, IsNegative
<1>2. CASE \A i \in 1..Len(digits) : digits[i] \in 0..base - 1
  <2> HIDE DEF digits
  <2>1. Len(digits) \in Nat /\ \A i \in 1..Len(digits) : digits[i] \in Int
    BY <1>1, <1>2, LenProperties
  <2>2. PICK f : Computes(base, f, digits, Len(digits)) /\ ans = f[Len(digits)]
    BY <2>1, NumberComputed
  <2>3. ans \in Int
    BY <2>1, <2>2 DEF Computes
  <2>4. IntegerOf(base, text) = IF IsNegative(text) THEN -ans ELSE ans
    BY <1>2 DEF IntegerOf, digits
  <2> QED
    BY <2>3, <2>4
<1>3. CASE ~ \A i \in 1..Len(digits) : digits[i] \in 0..base - 1
  BY <1>3 DEF IntegerOf
<1> QED
  BY <1>2, <1>3

LEMMA GetIntType ==
    ASSUME NEW s \in Stores, NEW var
    PROVE  GetInt(s, var, Garbage) \in SUBSET Value
<1>1. CASE Entry(s, var) = {}
  BY <1>1, NumbersAssumption DEF GetInt, Value
<1>2. CASE Entry(s, var) # {}
  <2>1. PICK text \in Text : text = GetString(s, var)
    BY <1>2, FirstIsEntry, StoreType DEF GetString
  <2>2. IntOf(text) \in Value
    BY IntegerType DEF IntOf, Value
  <2> QED
    BY <1>2, <2>1, <2>2 DEF GetInt
<1> QED
  BY <1>1, <1>2

LEMMA QuotientType ==
    ASSUME NEW a \in Int, NEW b \in Int, b # 0
    PROVE  Quotient(a, b) \in Int
<1>1. PICK c \in Nat, d \in Nat : c = (IF a < 0 THEN -a ELSE a) /\ d = (IF b < 0 THEN -b ELSE b)
  OBVIOUS
<1>2. d > 0
  BY <1>1
<1>3. c \div d \in Int
  BY <1>2
<1> QED
  BY <1>1, <1>3 DEF Quotient

LEMMA ApplyType ==
    ASSUME NEW oprtr \in Operator, NEW a \in Value, NEW b \in Value
    PROVE  Apply(oprtr, a, b) \in Value
<1>1. CASE a \in {Error, Crash} \/ b \in {Error, Crash}
  BY <1>1 DEF Apply
<1>2. CASE ~(a \in {Error, Crash} \/ b \in {Error, Crash})
  <2>1. a \in Int /\ b \in Int
    BY <1>2 DEF Value
  <2>2. b # 0 => Quotient(a, b) \in Int
    BY <2>1, QuotientType
  <2>3. b # 0 => a - b * Quotient(a, b) \in Int
    BY <2>1, <2>2
  <2> QED
    BY <1>2, <2>1, <2>2, <2>3 DEF Apply, Operator, Truth, Value
<1> QED
  BY <1>1, <1>2

Arguments(e) == CASE e[1] = "not" -> {e[3]} [] e[1] = "binary" -> {e[4], e[5]} [] OTHER -> {}

LEMMA ArgumentsFounded ==
    /\ \A e \in Expr : Arguments(e) \in SUBSET Expr
    /\ \A T \in SUBSET Expr : T # {} => \E e \in T : Arguments(e) \cap T = {}
<1>1. ASSUME NEW e \in Expr
      PROVE  Arguments(e) \in SUBSET Expr
  BY ExprAssumption DEF Arguments
<1>2. ASSUME NEW T \in SUBSET Expr, T # {}
      PROVE  \E e \in T : Arguments(e) \cap T = {}
  <2>1. PICK e \in T : /\ e[1] = "not" => e[3] \notin T
                       /\ e[1] = "binary" => {e[4], e[5]} \cap T = {}
    BY <1>2, ExprAssumption
  <2> QED
    BY <2>1 DEF Arguments
<1> QED
  BY <1>1, <1>2

\* The definition of StringOf, of another function.
StringBody(f, e) ==
  CASE e[1] = "lit" -> e[3]
    [] e[1] = "var" -> LET s == GetString(store, e[3]) IN IF s = NoValue THEN Error ELSE s
    [] e[1] = "not" -> IF f[e[3]] = Error THEN Error ELSE Crash
    [] OTHER        -> IF f[e[4]] = Error THEN Error
                       ELSE IF f[e[4]] # Crash /\ f[e[5]] = Error THEN Error ELSE Crash

(* Whatever its arguments are, an expression has a text or none, and it     *)
(* depends on nothing else than theirs.                                    *)
LEMMA StringBodyType ==
    ASSUME NEW e \in Expr, NEW f, store \in Stores
    PROVE  StringBody(f, e) \in Text \cup {Error, Crash}
<1>1. CASE e[1] = "lit"
  BY <1>1, ExprAssumption DEF StringBody, Text
<1>2. CASE e[1] = "var"
  BY <1>2, GetStringType DEF StringBody
<1>3. CASE e[1] \in {"not", "binary"}
  BY <1>3 DEF StringBody
<1> QED
  BY <1>1, <1>2, <1>3, ExprAssumption

LEMMA StringBodyLocal ==
    ASSUME NEW e \in Expr, NEW f, NEW g, \A x \in Arguments(e) : f[x] = g[x]
    PROVE  StringBody(f, e) = StringBody(g, e)
<1>1. CASE e[1] \in {"lit", "var"}
  BY <1>1 DEF StringBody
<1>2. CASE e[1] = "not"
  BY <1>2 DEF StringBody, Arguments
<1>3. CASE e[1] = "binary"
  BY <1>3 DEF StringBody, Arguments
<1> QED
  BY <1>1, <1>2, <1>3, ExprAssumption

\* eval_to_string gives a text, or fails, or the shell aborts.
LEMMA StringType ==
    ASSUME store \in Stores
    PROVE  \A e \in Expr : StringOf[e] \in Text \cup {Error, Crash}
<1> DEFINE V == Text \cup {Error, Crash}
           below == [e \in Expr |-> Arguments(e)]
           D == [f \in [Expr -> V] |-> [e \in Expr |-> StringBody(f, e)]]
<1>1. Founded(Expr, below)
  <2>1. below \in [Expr -> SUBSET Expr]
    BY ArgumentsFounded
  <2>2. \A T \in SUBSET Expr : T # {} => \E e \in T : below[e] \cap T = {}
    BY ArgumentsFounded
  <2> QED
    BY <2>1, <2>2 DEF Founded
<1>2. Local(Expr, V, below, D)
  <2>1. D \in [[Expr -> V] -> [Expr -> V]]
    BY StringBodyType
  <2>2. ASSUME NEW f \in [Expr -> V], NEW g \in [Expr -> V], NEW e \in Expr,
               \A y \in below[e] : f[y] = g[y]
        PROVE  D[f][e] = D[g][e]
    <3>1. StringBody(f, e) = StringBody(g, e)
      BY <2>2, StringBodyLocal
    <3> QED
      BY <3>1
  <2> QED
    BY <2>1, <2>2 DEF Local
<1>3. PICK f \in [Expr -> V] : f = D[f]
  <2>1. V # {}
    OBVIOUS
  <2> HIDE DEF V, below, D
  <2> QED
    BY <1>1, <1>2, <2>1, RecursiveFunctionExists
<1>4. f = [e \in Expr |-> StringBody(f, e)]
  BY <1>3
<1>5. StringOf = [e \in Expr |-> StringBody(StringOf, e)]
  <2> DEFINE g == CHOOSE g : g = [e \in Expr |-> StringBody(g, e)]
  <2>1. g = [e \in Expr |-> StringBody(g, e)]
    BY <1>4
  <2>2. StringOf = g
    BY DEF StringOf, StringBody
  <2> QED
    BY <2>1, <2>2
<1> QED
  BY <1>5, StringBodyType

\* The definition of NumericOf, of another function.
NumericBody(f, e) ==
  CASE e[1] = "lit" -> {Strtol(e[3])}
    [] e[1] = "var" -> GetInt(store, e[3], Garbage)
    [] e[1] = "not" -> {IF a \in {Error, Crash} THEN a ELSE Truth(a = 0) : a \in f[e[3]]}
    [] OTHER ->
         IF e[3] = "==" /\ ~(e[4][2] = "num" /\ e[5][2] = "num")
         THEN {Same(StringOf[e[4]], StringOf[e[5]])}
         ELSE {Apply(e[3], a, b) : a \in f[e[4]], b \in f[e[5]]}

(* An expression has a value if its arguments have, and it depends on      *)
(* nothing else than theirs.                                               *)
LEMMA BodyType ==
    ASSUME NEW e \in Expr, NEW f, store \in Stores, \A x \in Arguments(e) : f[x] \in SUBSET Value
    PROVE  NumericBody(f, e) \in SUBSET Value
<1>1. CASE e[1] = "lit"
  <2>1. IntegerOf(8, e[3]) \in Value /\ IntegerOf(10, e[3]) \in Value
    BY <1>1, ExprAssumption, IntegerType DEF Text, Value
  <2>2. Strtol(e[3]) \in Value
    BY <2>1 DEF Strtol, Value
  <2> QED
    BY <1>1, <2>2 DEF NumericBody
<1>2. CASE e[1] = "var"
  BY <1>2, GetIntType DEF NumericBody
<1>3. CASE e[1] = "not"
  <2>1. f[e[3]] \in SUBSET Value
    BY <1>3 DEF Arguments
  <2>2. \A a \in Value : (IF a \in {Error, Crash} THEN a ELSE Truth(a = 0)) \in Value
    BY DEF Truth, Value
  <2> QED
    BY <1>3, <2>1, <2>2 DEF NumericBody
<1>4. CASE e[1] = "binary"
  <2>1. f[e[4]] \in SUBSET Value /\ f[e[5]] \in SUBSET Value
    BY <1>4 DEF Arguments
  <2>2. e[3] \in Operator /\ e[4] \in Expr /\ e[5] \in Expr
    BY <1>4, ExprAssumption
  <2>3. \A a \in Value, b \in Value : Apply(e[3], a, b) \in Value
    BY <2>2, ApplyType
  <2>4. Same(StringOf[e[4]], StringOf[e[5]]) \in Value
    BY DEF Same, Truth, Value
  <2> QED
    BY <1>4, <2>1, <2>3, <2>4 DEF NumericBody
<1> QED
  BY <1>1, <1>2, <1>3, <1>4, ExprAssumption

LEMMA BodyLocal ==
    ASSUME NEW e \in Expr, NEW f, NEW g, \A x \in Arguments(e) : f[x] = g[x]
    PROVE  NumericBody(f, e) = NumericBody(g, e)
<1>1. CASE e[1] = "lit"
  BY <1>1 DEF NumericBody
<1>2. CASE e[1] = "var"
  BY <1>2 DEF NumericBody
<1>3. CASE e[1] = "not"
  BY <1>3 DEF NumericBody, Arguments
<1>4. CASE e[1] = "binary"
  <2>1. f[e[4]] = g[e[4]] /\ f[e[5]] = g[e[5]]
    BY <1>4 DEF Arguments
  <2> DEFINE B(X, Y) == IF e[3] = "==" /\ ~(e[4][2] = "num" /\ e[5][2] = "num")
                        THEN {Same(StringOf[e[4]], StringOf[e[5]])}
                        ELSE {Apply(e[3], m, n) : m \in X, n \in Y}
  <2>2. /\ NumericBody(f, e) = B(f[e[4]], f[e[5]])
        /\ NumericBody(g, e) = B(g[e[4]], g[e[5]])
    BY <1>4 DEF NumericBody
  <2> HIDE DEF B
  <2> QED
    BY <2>1, <2>2
<1> QED
  BY <1>1, <1>2, <1>3, <1>4, ExprAssumption

\* eval_to_numeric gives an integer, or fails, or the shell dies.
LEMMA NumericType ==
    ASSUME store \in Stores
    PROVE  \A e \in Expr : NumericOf[e] \in SUBSET Value
<1> DEFINE V == SUBSET Value
           below == [e \in Expr |-> Arguments(e)]
           D == [f \in [Expr -> V] |-> [e \in Expr |-> NumericBody(f, e)]]
<1>1. Founded(Expr, below)
  <2>1. below \in [Expr -> SUBSET Expr]
    BY ArgumentsFounded
  <2>2. \A T \in SUBSET Expr : T # {} => \E e \in T : below[e] \cap T = {}
    BY ArgumentsFounded
  <2> QED
    BY <2>1, <2>2 DEF Founded
<1>2. Local(Expr, V, below, D)
  <2>1. ASSUME NEW f \in [Expr -> V], NEW e \in Expr
        PROVE  NumericBody(f, e) \in V
    <3>1. \A x \in Arguments(e) : f[x] \in SUBSET Value
      BY ArgumentsFounded
    <3> QED
      BY <3>1, BodyType
  <2>2. D \in [[Expr -> V] -> [Expr -> V]]
    BY <2>1
  <2>3. ASSUME NEW f \in [Expr -> V], NEW g \in [Expr -> V], NEW e \in Expr,
               \A y \in below[e] : f[y] = g[y]
        PROVE  D[f][e] = D[g][e]
    <3>1. NumericBody(f, e) = NumericBody(g, e)
      BY <2>3, BodyLocal
    <3> QED
      BY <3>1
  <2> QED
    BY <2>2, <2>3 DEF Local
<1>3. PICK f \in [Expr -> V] : f = D[f]
  <2>1. {} \in V
    OBVIOUS
  <2> HIDE DEF V, below, D
  <2> QED
    BY <1>1, <1>2, <2>1, RecursiveFunctionExists
<1>4. f = [e \in Expr |-> NumericBody(f, e)]
  BY <1>3
<1>5. NumericOf = [e \in Expr |-> NumericBody(NumericOf, e)]
  <2> DEFINE g == CHOOSE g : g = [e \in Expr |-> NumericBody(g, e)]
  <2>1. g = [e \in Expr |-> NumericBody(g, e)]
    BY <1>4
  <2>2. NumericOf = g
    BY DEF NumericOf, NumericBody
  <2> QED
    BY <2>1, <2>2
<1> DEFINE T == {e \in Expr : NumericOf[e] \notin V}
<1> SUFFICES ASSUME T # {} PROVE FALSE
  OBVIOUS
<1>6. PICK e \in T : Arguments(e) \cap T = {}
  BY ArgumentsFounded
<1>7. \A x \in Arguments(e) : NumericOf[x] \in SUBSET Value
  BY <1>6, ArgumentsFounded
<1>8. NumericOf[e] = NumericBody(NumericOf, e)
  BY <1>5
<1>9. NumericBody(NumericOf, e) \in V
  BY <1>7, BodyType
<1> QED
  BY <1>6, <1>8, <1>9

LEMMA ToIntType ==
    ASSUME NEW n \in Int
    PROVE  ToInt(n) \in Int
BY IntBitsAssumption DEF ToInt

-----------------------------------------------------------------------------
(* The invariant of the variables. *)

JobsType ==
  /\ jobs = [id \in Job |-> jobs[id]]
  /\ \A id \in Job : jobs[id].status \in Int /\ jobs[id].output \in Text \cup {NoValue}

\* A variable of store s that was last given an integer, as a says, has it.
KeptIn(s, a) ==
  /\ s \in Stores /\ OneEach(s)
  /\ a \in [Var -> SUBSET Int]
  /\ \A var \in Var : \A n \in a[var] : Has(s, var, IntText(n))

(* With it the jobs, whose statuses and outputs variables are set to.     *)
VariablesInv == KeptIn(store, assigned) /\ JobsType

(* store_set_string keeps it, given an integer or any other value.         *)
LEMMA KeptBySet ==
    ASSUME NEW s, NEW a, NEW var \in Var, NEW val \in Text \cup {NoValue}, NEW ns \in SUBSET Int,
           KeptIn(s, a), \A n \in ns : val = IntText(n)
    PROVE  KeptIn(SetString(s, var, val), [a EXCEPT ![var] = ns])
<1> DEFINE t == SetString(s, var, val)
           b == [a EXCEPT ![var] = ns]
<1>1. /\ t \in Stores /\ OneEach(t)
      /\ val # NoValue => Has(t, var, val)
      /\ \A v, x : v # var /\ Has(s, v, x) => Has(t, v, x)
  BY SetStringOK DEF KeptIn
<1> HIDE DEF t
<1>2. b \in [Var -> SUBSET Int] /\ b[var] = ns /\ \A v \in Var \ {var} : b[v] = a[v]
  BY DEF KeptIn
<1> HIDE DEF b
<1>3. ASSUME NEW v \in Var, NEW n \in b[v]
      PROVE  Has(t, v, IntText(n))
  <2>1. CASE v = var
    <3>1. n \in Int /\ val = IntText(n) /\ val \in Seq(Nat)
      BY <1>2, <1>3, <2>1, IntTextRead
    <3>2. val # NoValue
      BY <3>1, TextAssumption
    <3> QED
      BY <1>1, <2>1, <3>1, <3>2
  <2>2. CASE v # var
    <3>1. n \in a[v]
      BY <1>2, <1>3, <2>2
    <3>2. Has(s, v, IntText(n))
      BY <3>1 DEF KeptIn
    <3> QED
      BY <1>1, <2>2, <3>2
  <2> QED
    BY <2>1, <2>2
<1>4. KeptIn(t, b)
  BY <1>1, <1>2, <1>3 DEF KeptIn
<1> QED
  BY <1>4 DEF t, b

LEMMA AssignKeeps ==
    ASSUME KeptIn(store, assigned), NEW var \in Var, NEW n \in Int, Assign(var, n)
    PROVE  KeptIn(store, assigned)'
<1>1. PICK val \in Text \cup {NoValue} : val = IntText(n)
  BY IntTextRead DEF Text
<1>2. PICK ns \in SUBSET Int : ns = {n}
  OBVIOUS
<1>3. KeptIn(SetString(store, var, val), [assigned EXCEPT ![var] = ns])
  BY <1>1, <1>2, KeptBySet
<1>4. store' = SetString(store, var, val) /\ assigned' = [assigned EXCEPT ![var] = ns]
  BY <1>1, <1>2 DEF Assign, SetInt
<1>5. KeptIn(store', assigned')
  BY <1>3, <1>4
<1> QED
  BY <1>5 DEF KeptIn, Stores, OneEach, Has, Text

LEMMA AssignTextKeeps ==
    ASSUME KeptIn(store, assigned), NEW var \in Var, NEW val \in Text \cup {NoValue}, AssignText(var, val)
    PROVE  KeptIn(store, assigned)'
<1>2. PICK ns \in SUBSET Int : ns = {}
  OBVIOUS
<1>3. KeptIn(SetString(store, var, val), [assigned EXCEPT ![var] = ns])
  BY <1>2, KeptBySet
<1>4. store' = SetString(store, var, val) /\ assigned' = [assigned EXCEPT ![var] = ns]
  BY <1>2 DEF AssignText
<1>5. KeptIn(store', assigned')
  BY <1>3, <1>4
<1> QED
  BY <1>5 DEF KeptIn, Stores, OneEach, Has, Text

LEMMA Unassigned ==
    ASSUME KeptIn(store, assigned), UNCHANGED <<store, assigned>>
    PROVE  KeptIn(store, assigned)'
BY DEF KeptIn, Stores, OneEach, Has, Text

(* Two variables are set when a status has been collected.                 *)
LEMMA CollectKeeps ==
    ASSUME VariablesInv, NEW id, NEW status \in Int, NEW force, Collect(id, status, force)
    PROVE  VariablesInv'
<1> DEFINE s == SetInt(store, "STATUS", status)
           a == [assigned EXCEPT !["STATUS"] = {status}]
           text == OutputOf(id)
<1>1. KeptIn(s, a)
  <2>1. PICK val \in Text \cup {NoValue} : val = IntText(status)
    BY IntTextRead DEF Text
  <2>2. PICK ns \in SUBSET Int : ns = {status}
    OBVIOUS
  <2>3. PICK var \in Var : var = "STATUS"
    BY VarAssumption
  <2>4. KeptIn(SetString(store, var, val), [assigned EXCEPT ![var] = ns])
    BY <2>1, <2>2, KeptBySet DEF VariablesInv
  <2> QED
    BY <2>1, <2>2, <2>3, <2>4 DEF SetInt
<1>2. text \in Text \cup {NoValue}
  BY DEF VariablesInv, JobsType, OutputOf, Ended
<1>3. KeptIn(SetString(s, "OUTPUT", text), [a EXCEPT !["OUTPUT"] = {}])
  <2> HIDE DEF s, a, text
  <2>1. PICK ns \in SUBSET Int : ns = {}
    OBVIOUS
  <2>2. PICK var \in Var : var = "OUTPUT"
    BY VarAssumption
  <2>3. KeptIn(SetString(s, var, text), [a EXCEPT ![var] = ns])
    BY <1>1, <1>2, <2>1, KeptBySet
  <2> QED
    BY <2>1, <2>2, <2>3
<1>4. \/ store' = s /\ assigned' = a
      \/ store' = SetString(s, "OUTPUT", text) /\ assigned' = [a EXCEPT !["OUTPUT"] = {}]
  BY DEF Collect
<1>5. KeptIn(store', assigned')
  <2> HIDE DEF s, a, text
  <2> QED
    BY <1>1, <1>3, <1>4
<1>6. JobsType'
  <2>1. jobs' = IF Ended(id) THEN [jobs EXCEPT ![id] = NoJob] ELSE jobs
    BY DEF Collect
  <2>2. \A j \in Job : jobs'[j] = jobs[j] \/ jobs'[j] = NoJob
    BY <2>1 DEF VariablesInv, JobsType, Ended
  <2>3. jobs' = [j \in Job |-> jobs'[j]]
    BY <2>1 DEF VariablesInv, JobsType, Ended
  <2>4. NoJob.status \in Int /\ NoJob.output \in Text \cup {NoValue}
    BY DEF NoJob
  <2> QED
    BY <2>2, <2>3, <2>4 DEF VariablesInv, JobsType, Text
<1>7. KeptIn(store, assigned)'
  BY <1>5 DEF KeptIn, Stores, OneEach, Has, Text
<1> QED
  BY <1>6, <1>7 DEF VariablesInv

\* A job that has changed: it is the only one.
JobBecomes(id, status, output) ==
  \E job : /\ jobs' = [jobs EXCEPT ![id] = job]
            /\ job.status = status /\ job.output = output

LEMMA JobTypeKept ==
    ASSUME JobsType, NEW id \in Job, NEW status \in Int, NEW output \in Text \cup {NoValue},
           JobBecomes(id, status, output)
    PROVE  JobsType'
<1>1. PICK r : jobs' = [jobs EXCEPT ![id] = r] /\ r.status = status /\ r.output = output
  BY DEF JobBecomes
<1>2. jobs' = [j \in Job |-> IF j = id THEN r ELSE jobs[j]]
  BY <1>1 DEF JobsType
<1>3. jobs' = [j \in Job |-> jobs'[j]]
  BY <1>2
<1>4. \A j \in Job : jobs'[j] = IF j = id THEN r ELSE jobs[j]
  BY <1>2
<1> QED
  BY <1>1, <1>3, <1>4 DEF JobsType, Text

LEMMA StartedKeeps ==
    ASSUME JobsType, NEW capture \in BOOLEAN, NEW id, Started(capture, id)
    PROVE  JobsType'
<1>1. CASE UNCHANGED jobs
  BY <1>1 DEF JobsType, Text
<1>2. CASE id \in Job /\ jobs' = [jobs EXCEPT ![id] = [state |-> "running", status |-> 0,
                                      output |-> IF capture THEN <<>> ELSE NoValue]]
  <2>1. PICK output \in Text \cup {NoValue} : output = IF capture THEN <<>> ELSE NoValue
    BY EmptySeq DEF Text
  <2>2. JobBecomes(id, 0, output)
    <3> DEFINE r == [state |-> "running", status |-> 0, output |-> output]
    <3>1. r.status = 0 /\ r.output = output
      OBVIOUS
    <3>2. jobs' = [jobs EXCEPT ![id] = r]
      BY <1>2, <2>1
    <3> QED
      BY <3>1, <3>2 DEF JobBecomes
  <2> QED
    BY <1>2, <2>2, JobTypeKept
<1> QED
  BY <1>1, <1>2 DEF Started

LEMMA EndKeeps ==
    ASSUME JobsType, NEW id \in Job, NEW statuses \in SUBSET Int, End(id, statuses)
    PROVE  JobsType'
<1>1. PICK status \in statuses, text \in Output :
         jobs' = [jobs EXCEPT ![id] = [state |-> "ended", status |-> status,
                                       output |-> IF jobs[id].output = NoValue THEN NoValue ELSE text]]
  BY DEF End
<1>2. PICK output \in Text \cup {NoValue} : output = IF jobs[id].output = NoValue THEN NoValue ELSE text
  BY TextAssumption DEF Text
<1>3. JobBecomes(id, status, output)
  <2> DEFINE r == [state |-> "ended", status |-> status, output |-> output]
  <2>1. r.status = status /\ r.output = output
    OBVIOUS
  <2>2. jobs' = [jobs EXCEPT ![id] = r]
    BY <1>1, <1>2
  <2> QED
    BY <2>1, <2>2 DEF JobBecomes
<1> QED
  BY <1>3, JobTypeKept

-----------------------------------------------------------------------------
LEMMA VariablesInvInit == MushInit => VariablesInv
<1> SUFFICES ASSUME MushInit PROVE VariablesInv
  OBVIOUS
<1>1. store \in Stores /\ DOMAIN store = {}
  BY EmptySeq DEF MushInit, Stores
<1>2. assigned \in [Var -> SUBSET Int] /\ \A var \in Var : assigned[var] = {}
  BY DEF MushInit
<1>3. KeptIn(store, assigned)
  BY <1>1, <1>2 DEF KeptIn, OneEach
<1>4. \A id \in Job : jobs[id] = NoJob
  BY DEF MushInit
<1>5. jobs = [id \in Job |-> jobs[id]]
  BY DEF MushInit
<1>6. NoJob.status \in Int /\ NoJob.output \in Text \cup {NoValue}
  BY DEF NoJob
<1> QED
  BY <1>3, <1>4, <1>5, <1>6 DEF VariablesInv, JobsType

LEMMA JobsUnchanged ==
    ASSUME JobsType, UNCHANGED jobs
    PROVE  JobsType'
BY DEF JobsType, Text

(* Every action keeps it.                                                  *)
LEMMA VariablesInvStep ==
    ASSUME VariablesInv, [MushNext]_mushVars
    PROVE  VariablesInv'
<1>a. KeptIn(store, assigned) /\ JobsType /\ store \in Stores
  BY DEF VariablesInv, KeptIn
<1>0. CASE UNCHANGED <<store, jobs, assigned>>
  BY <1>0, <1>a, JobsUnchanged, Unassigned DEF VariablesInv
<1>1. CASE Set
  <2>1. PICK var \in Var, e \in Expr :
          IF e[2] = "num" THEN \E n \in NumericOf[e] : SetNumber(var, n) ELSE SetText(var, StringOf[e])
    BY <1>1 DEF Set
  <2>2. CASE e[2] = "num"
    <3>1. PICK n \in NumericOf[e] : SetNumber(var, n)
      BY <2>1, <2>2
    <3>2. n \in Value
      BY <1>a, NumericType
    <3>3. CASE n \in {Error, Crash}
      BY <1>0, <3>1, <3>3 DEF SetNumber, Fails, Dies, mush
    <3>4. CASE n \notin {Error, Crash}
      <4>1. PICK k \in Int : k = ToInt(n)
        BY <3>2, <3>4, ToIntType DEF Value
      <4>2. Assign(var, k) /\ UNCHANGED jobs
        BY <3>1, <3>4, <4>1 DEF SetNumber
      <4> QED
        BY <1>a, <4>2, AssignKeeps, JobsUnchanged DEF VariablesInv
    <3> QED
      BY <3>3, <3>4
  <2>3. CASE e[2] # "num"
    <3>1. PICK s \in Text \cup {Error, Crash} : s = StringOf[e]
      BY <1>a, StringType
    <3>2. SetText(var, s)
      BY <2>1, <2>3, <3>1
    <3>3. CASE s \in {Error, Crash}
      BY <1>0, <3>2, <3>3 DEF SetText, Fails, Dies, mush
    <3>4. CASE s \notin {Error, Crash}
      <4>1. AssignText(var, s) /\ UNCHANGED jobs /\ s \in Text \cup {NoValue}
        BY <3>2, <3>4 DEF SetText
      <4> QED
        BY <1>a, <4>1, AssignTextKeeps, JobsUnchanged DEF VariablesInv
    <3> QED
      BY <3>3, <3>4
  <2> QED
    BY <2>2, <2>3
<1>2. CASE Unset
  <2>1. PICK var \in Var : AssignText(var, NoValue) /\ UNCHANGED jobs
    BY <1>2 DEF Unset
  <2> QED
    BY <1>a, <2>1, AssignTextKeeps, JobsUnchanged DEF VariablesInv
<1>3. CASE Background \/ Foreground
  <2>1. PICK capture \in BOOLEAN, id \in Job \cup {-1} : Started(capture, id) /\ Assign("JOB", id)
    BY <1>3 DEF Background, Foreground
  <2>2. PICK n \in Int, var \in Var : n = id /\ var = "JOB"
    BY NumbersAssumption, VarAssumption
  <2>3. Assign(var, n)
    BY <2>1, <2>2
  <2> QED
    BY <1>a, <2>1, <2>3, AssignKeeps, StartedKeeps DEF VariablesInv
<1>4. CASE WaitStatement
  <2>1. UNCHANGED <<store, jobs, assigned>>
    BY <1>4 DEF WaitStatement, Fails, Dies, mush
  <2> QED
    BY <1>0, <2>1
<1>5. CASE WaitReturns
  <2>1. PICK capture \in BOOLEAN, status \in ExitStatus \cup {-1} :
          Collect(blocked.job, status, blocked.what = "fg" /\ capture)
    BY <1>5 DEF WaitReturns
  <2>2. PICK force \in BOOLEAN : force = (blocked.what = "fg" /\ capture)
    OBVIOUS
  <2>3. status \in Int /\ Collect(blocked.job, status, force)
    BY <2>1, <2>2, NumbersAssumption
  <2> QED
    BY <2>3, CollectKeeps
<1>6. CASE Poll
  <2>1. PICK e \in Expr : \E n \in NumericOf[e] :
          IF n = Error THEN Fails
          ELSE IF n = Crash THEN Dies
          ELSE IF Ended(ToInt(n)) /\ jobs[ToInt(n)].status >= 0
               THEN Collect(ToInt(n), jobs[ToInt(n)].status, FALSE)
               ELSE Assign("STATUS", -1) /\ UNCHANGED jobs
    BY <1>6 DEF Poll
  <2>0. PICK n \in NumericOf[e] :
          IF n = Error THEN Fails
          ELSE IF n = Crash THEN Dies
          ELSE IF Ended(ToInt(n)) /\ jobs[ToInt(n)].status >= 0
               THEN Collect(ToInt(n), jobs[ToInt(n)].status, FALSE)
               ELSE Assign("STATUS", -1) /\ UNCHANGED jobs
    BY <2>1
  <2>2. CASE n \in {Error, Crash}
    BY <1>0, <2>0, <2>2 DEF Fails, Dies, mush
  <2>3. CASE Collect(ToInt(n), jobs[ToInt(n)].status, FALSE) /\ Ended(ToInt(n))
    <3>1. PICK status \in Int : status = jobs[ToInt(n)].status
      BY <1>a, <2>3 DEF JobsType, Ended
    <3>2. Collect(ToInt(n), status, FALSE)
      BY <2>3, <3>1
    <3> QED
      BY <3>2, CollectKeeps
  <2>4. CASE Assign("STATUS", -1) /\ UNCHANGED jobs
    <3>1. PICK k \in Int, var \in Var : k = -1 /\ var = "STATUS"
      BY VarAssumption
    <3>2. Assign(var, k)
      BY <2>4, <3>1
    <3> QED
      BY <1>a, <2>4, <3>2, AssignKeeps, JobsUnchanged DEF VariablesInv
  <2> QED
    BY <2>0, <2>2, <2>3, <2>4
<1>7. CASE Cancel
  <2>1. PICK e \in Expr : \E n \in NumericOf[e] :
          IF n = Error THEN Fails
          ELSE IF n = Crash THEN Dies
          ELSE /\ IF ToInt(n) \in Job /\ jobs[ToInt(n)].state = "running"
                  THEN End(ToInt(n), ExitStatus \cup {9}) ELSE UNCHANGED jobs
               /\ UNCHANGED <<store, assigned>>
    BY <1>7 DEF Cancel
  <2>0. PICK n \in NumericOf[e] :
          IF n = Error THEN Fails
          ELSE IF n = Crash THEN Dies
          ELSE /\ IF ToInt(n) \in Job /\ jobs[ToInt(n)].state = "running"
                  THEN End(ToInt(n), ExitStatus \cup {9}) ELSE UNCHANGED jobs
               /\ UNCHANGED <<store, assigned>>
    BY <2>1
  <2>2. CASE n \in {Error, Crash}
    BY <1>0, <2>0, <2>2 DEF Fails, Dies, mush
  <2>3. CASE UNCHANGED <<store, jobs, assigned>>
    BY <1>0, <2>3
  <2>4. CASE /\ ToInt(n) \in Job /\ End(ToInt(n), ExitStatus \cup {9})
             /\ UNCHANGED <<store, assigned>>
    <3>0. ExitStatus \cup {9} \in SUBSET Int
      BY NumbersAssumption
    <3>1. PICK id \in Job, statuses \in SUBSET Int : id = ToInt(n) /\ statuses = ExitStatus \cup {9}
      BY <2>4, <3>0
    <3>2. End(id, statuses)
      BY <2>4, <3>1
    <3> QED
      BY <1>a, <2>4, <3>2, EndKeeps, Unassigned DEF VariablesInv
  <2> QED
    BY <2>0, <2>2, <2>3, <2>4
<1>8. CASE JobEnds
  <2>1. PICK id \in Job : \/ End(id, ExitStatus)
                          \/ jobs' = [jobs EXCEPT ![id] = [NoJob EXCEPT !.state = "lost"]]
    BY <1>8 DEF JobEnds
  <2>2. UNCHANGED <<store, assigned>>
    BY <1>8 DEF JobEnds
  <2>3. CASE End(id, ExitStatus)
    <3>1. PICK statuses \in SUBSET Int : statuses = ExitStatus
      BY NumbersAssumption
    <3> QED
      BY <1>a, <2>2, <2>3, <3>1, EndKeeps, Unassigned DEF VariablesInv
  <2>4. CASE jobs' = [jobs EXCEPT ![id] = [NoJob EXCEPT !.state = "lost"]]
    <3>1. [NoJob EXCEPT !.state = "lost"].status = 0 /\ [NoJob EXCEPT !.state = "lost"].output = NoValue
      BY DEF NoJob
    <3>2. JobBecomes(id, 0, NoValue)
      BY <2>4, <3>1 DEF JobBecomes
    <3> QED
      BY <1>a, <2>2, <3>2, JobTypeKept, Unassigned DEF VariablesInv
  <2> QED
    BY <2>1, <2>3, <2>4
<1>9. CASE Pause \/ PauseReturns
  BY <1>0, <1>9 DEF Pause, PauseReturns
<1>10. CASE IfStatement
  BY <1>0, <1>10 DEF IfStatement, Dies, mush
<1>11. CASE ProgramStep \/ Prompt \/ Continue \/ QuitKey
  BY <1>0, <1>11 DEF ProgramStep, Prompt, Continue, QuitKey, mush
<1>12. CASE UNCHANGED mushVars
  BY <1>0, <1>12 DEF mushVars, mush
<1> QED
  BY <1>1, <1>2, <1>3, <1>4, <1>5, <1>6, <1>7, <1>8, <1>9, <1>10, <1>11, <1>12 DEF MushNext

LEMMA VariablesInvHolds == VariablesInv => VariablesHold
<1> SUFFICES ASSUME VariablesInv PROVE VariablesHold
  OBVIOUS
<1>1. ASSUME NEW var \in Var, NEW n \in assigned[var]
      PROVE  GetInt(store, var, Garbage) = {n}
  <2>1. store \in Stores /\ OneEach(store) /\ Has(store, var, IntText(n)) /\ n \in Int
    BY DEF VariablesInv, KeptIn
  <2>2. PICK text : text = IntText(n)
    OBVIOUS
  <2>3. Entry(store, var) # {} /\ GetString(store, var) = text
    BY <2>1, <2>2, HasIsFound
  <2>4. IntOf(text) = n
    BY <2>1, <2>2, IntTextRead
  <2> QED
    BY <2>3, <2>4 DEF GetInt
<1>2. OneEach(store)
  BY DEF VariablesInv, KeptIn
<1> QED
  BY <1>1, <1>2 DEF VariablesHold, OneEach

(* A variable that has been given an integer reads as that integer until   *)
(* it is set again, for all statements, variables, jobs and garbage, and   *)
(* no name is twice in the list (store.c 54-192, 225-254).                 *)
THEOREM VariablesKept == MushSpec => []VariablesHold
<1>1. MushInit => VariablesInv
  BY VariablesInvInit
<1>2. VariablesInv /\ [MushNext]_mushVars => VariablesInv'
  BY VariablesInvStep
<1>3. VariablesInv => VariablesHold
  BY VariablesInvHolds
<1> QED
  BY <1>1, <1>2, <1>3, PTL DEF MushSpec
=============================================================================
