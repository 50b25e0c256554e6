------------------------------ MODULE SfmmProofs ------------------------------
(***************************************************************************)
(* Proofs about the allocator of hw3 (module Sfmm), for any sizes of page, *)
(* heap and lists, any requests and any sequence of calls.                 *)
(*                                                                         *)
(* The invariant is IInv of module SfmmInvariant.  The proof goes up       *)
(* through sfmm.c: words and tags; the setters of headers, which for a     *)
(* while leave two headers out of step; chains of blocks, and what becomes *)
(* of a heap when a piece of the chain is rewritten (Rebuild); the lists;  *)
(* the functions that cut, join, list and unlist blocks; each way in which *)
(* sf_malloc finds a block; what the user holds and the totals of it; and  *)
(* one lemma for each call.                                                *)
(*                                                                         *)
(* A function of the code is given by a lemma that says which heap it      *)
(* makes of a sound one.  In between the code has a free block that is on  *)
(* no list, or one that has a free neighbour: both are parameters of       *)
(* Sound.                                                                  *)
(***************************************************************************)
EXTENDS SfmmInvariant, SequenceTheorems, WellFoundedInduction, TLAPS

-----------------------------------------------------------------------------
(* Induction over numbers, and recursive functions.  The library's         *)
(* theorems take operators; here sets and functions stand for them.        *)

\* Every set of natural numbers has a least element.
LEMMA LeastNatural ==
    ASSUME NEW T \in SUBSET Nat, T # {}
    PROVE  \E x \in T : \A y \in T : x <= y
<1>1. PICK x \in T : \A y \in T : ~(<<y, x>> \in OpToRel(<, Nat))
  BY NatLessThanWellFounded, WFMin, Zenon
<1>2. ASSUME NEW y \in T
      PROVE  x <= y
  <2>1. x \in Nat /\ y \in Nat
    OBVIOUS
  <2>2. <<y, x>> \in Nat \X Nat /\ ~(<<y, x>> \in OpToRel(<, Nat))
    BY <1>1, <2>1, Zenon
  <2>3. ~(y < x)
    BY <2>2 DEF OpToRel
  <2> QED
    BY <2>1, <2>3
<1> QED
  BY <1>2

\* What holds of 0, and of n + 1 if of n, holds of every natural number.
LEMMA SetInduction ==
    ASSUME NEW S, 0 \in S, \A n \in Nat : n \in S => n + 1 \in S
    PROVE  Nat \subseteq S
<1> DEFINE T == Nat \ S
<1> SUFFICES ASSUME T # {} PROVE FALSE
  OBVIOUS
<1>1. T \in SUBSET Nat
  OBVIOUS
<1>2. PICK x \in T : \A y \in T : x <= y
  <2> HIDE DEF T
  <2> QED
    BY <1>1, LeastNatural
<1>3. x \in Nat /\ x \notin S
  OBVIOUS
<1>4. x # 0
  BY <1>3
<1>5. x - 1 \in Nat /\ ~(x <= x - 1) /\ (x - 1) + 1 = x
  BY <1>3, <1>4
<1>6. x - 1 \in S
  BY <1>2, <1>5
<1>7. (x - 1) + 1 \in S
  BY <1>5, <1>6
<1> QED
  BY <1>3, <1>5, <1>7

\* What holds of n whenever it holds of all that are less holds of every natural number.
LEMMA StrongInduction ==
    ASSUME NEW S, \A n \in Nat : (\A k \in Nat : k < n => k \in S) => n \in S
    PROVE  Nat \subseteq S
<1> DEFINE T == Nat \ S
<1> SUFFICES ASSUME T # {} PROVE FALSE
  OBVIOUS
<1>1. T \in SUBSET Nat
  OBVIOUS
<1>2. PICK x \in T : \A y \in T : x <= y
  <2> HIDE DEF T
  <2> QED
    BY <1>1, LeastNatural
<1>3. x \in Nat /\ x \notin S
  OBVIOUS
<1>4. \A k \in Nat : k < x => k \in S
  <2> SUFFICES ASSUME NEW k \in Nat, k < x, k \notin S
               PROVE  FALSE
    OBVIOUS
  <2>1. x <= k
    BY <1>2
  <2> QED
    BY <1>3, <2>1
<1> QED
  BY <1>3, <1>4

-----------------------------------------------------------------------------
\* Every set of elements of S has one that has none of them below it.
Founded(S, below) ==
  /\ below \in [S -> SUBSET S]
  /\ \A T \in SUBSET S : T # {} => \E x \in T : below[x] \cap T = {}

\* D, which takes functions to functions, computes a value from those below.
Local(S, V, below, D) ==
  /\ D \in [[S -> V] -> [S -> V]]
  /\ \A f, g \in [S -> V] : \A x \in S :
       (\A y \in below[x] : f[y] = g[y]) => D[f][x] = D[g][x]

\* The natural numbers, with any that are less below one.
LEMMA NaturalsFounded ==
    ASSUME NEW S \in SUBSET Nat, NEW below \in [S -> SUBSET S],
           \A n \in S : \A k \in below[n] : k < n
    PROVE  Founded(S, below)
<1> SUFFICES ASSUME NEW T \in SUBSET S, T # {}
             PROVE  \E x \in T : below[x] \cap T = {}
  BY DEF Founded
<1>1. T \in SUBSET Nat
  OBVIOUS
<1>2. PICK x \in T : \A y \in T : x <= y
  BY <1>1, LeastNatural
<1>3. ASSUME NEW y \in below[x] \cap T
      PROVE  FALSE
  <2>1. y < x /\ x <= y /\ x \in Nat /\ y \in Nat
    BY <1>1, <1>2, <1>3
  <2> QED
    BY <2>1
<1> QED
  BY <1>3

\* Two functions that both satisfy the definition, each on a set that has all
\* that is below its elements, agree where both do.
Attempt(S, V, below, D, f, A) ==
  /\ f \in [S -> V] /\ A \in SUBSET S
  /\ \A x \in A : below[x] \subseteq A /\ f[x] = D[f][x]

LEMMA AttemptsAgree ==
    ASSUME NEW S, NEW V, NEW below, NEW D, Founded(S, below), Local(S, V, below, D),
           NEW f, NEW A, Attempt(S, V, below, D, f, A),
           NEW g, NEW B, Attempt(S, V, below, D, g, B)
    PROVE  \A x \in A \cap B : f[x] = g[x]
<1> DEFINE T == {x \in A \cap B : f[x] # g[x]}
<1> SUFFICES ASSUME T # {} PROVE FALSE
  OBVIOUS
<1>1. T \in SUBSET S
  BY DEF Attempt
<1>2. PICK x \in T : below[x] \cap T = {}
  BY <1>1 DEF Founded
<1>3. x \in A /\ x \in B /\ x \in S /\ f[x] # g[x] /\ f \in [S -> V] /\ g \in [S -> V]
  BY DEF Attempt
<1>4. \A y \in below[x] : f[y] = g[y]
  BY <1>2, <1>3 DEF Attempt
<1>5. D[f][x] = D[g][x]
  BY <1>3, <1>4 DEF Local
<1> QED
  BY <1>3, <1>5 DEF Attempt

\* Recursion: there is a function that satisfies the definition everywhere.
LEMMA RecursiveFunctionExists ==
    ASSUME NEW S, NEW V, NEW below, NEW D, Founded(S, below), Local(S, V, below, D), V # {}
    PROVE  \E f \in [S -> V] : f = D[f]
<1> DEFINE Tries(f, A) == Attempt(S, V, below, D, f, A)
           G == {x \in S : \E f \in [S -> V], A \in SUBSET S : Tries(f, A) /\ x \in A}
<1>1. PICK d \in V : TRUE
  OBVIOUS
<1> DEFINE F == [x \in S |-> IF x \in G
                             THEN CHOOSE v \in V : \E f \in [S -> V], A \in SUBSET S :
                                                     Tries(f, A) /\ x \in A /\ v = f[x]
                             ELSE d]
<1>2. ASSUME NEW f \in [S -> V], NEW A \in SUBSET S, Tries(f, A), NEW x \in A
      PROVE  x \in G /\ x \in S /\ F[x] = f[x]
  <2>1. x \in G /\ x \in S
    BY <1>2
  <2> DEFINE v == CHOOSE v \in V : \E h \in [S -> V], B \in SUBSET S :
                                     Tries(h, B) /\ x \in B /\ v = h[x]
  <2>2. F[x] = v
    BY <2>1
  <2>3. \E w \in V : \E h \in [S -> V], B \in SUBSET S : Tries(h, B) /\ x \in B /\ w = h[x]
    <3>1. f[x] \in V
      BY <2>1
    <3> QED
      BY <1>2, <3>1
  <2>4. PICK h \in [S -> V], B \in SUBSET S : Tries(h, B) /\ x \in B /\ v = h[x]
    BY <2>3
  <2>5. \A y \in A \cap B : f[y] = h[y]
    BY <1>2, <2>4, AttemptsAgree
  <2> QED
    BY <2>1, <2>2, <2>4, <2>5
<1>3. F \in [S -> V]
  <2> SUFFICES ASSUME NEW x \in S
               PROVE  F[x] \in V
    OBVIOUS
  <2>1. CASE x \in G
    <3>1. PICK f \in [S -> V], A \in SUBSET S : Tries(f, A) /\ x \in A
      BY <2>1
    <3>2. F[x] = f[x]
      BY <1>2, <3>1
    <3> QED
      BY <3>2
  <2>2. CASE x \notin G
    BY <2>2
  <2> QED
    BY <2>1, <2>2
<1>4. Tries(F, G)
  <2> SUFFICES ASSUME NEW x \in G
               PROVE  below[x] \subseteq G /\ F[x] = D[F][x]
    BY <1>3 DEF Attempt
  <2>1. PICK f \in [S -> V], A \in SUBSET S : Tries(f, A) /\ x \in A
    OBVIOUS
  <2>2. below[x] \subseteq A /\ f[x] = D[f][x] /\ x \in S
    BY <2>1 DEF Attempt
  <2>3. \A y \in A : y \in G /\ F[y] = f[y]
    BY <1>2, <2>1
  <2> HIDE DEF F, G
  <2>4. D[F][x] = D[f][x]
    BY <1>3, <2>2, <2>3 DEF Local
  <2> QED
    BY <2>1, <2>2, <2>3, <2>4
<1>5. G = S
  <2> SUFFICES ASSUME S \ G # {}
               PROVE  FALSE
    OBVIOUS
  <2>1. PICK x \in S \ G : below[x] \cap (S \ G) = {}
    <3>1. S \ G \in SUBSET S
      OBVIOUS
    <3> HIDE DEF G
    <3> QED
      BY <3>1 DEF Founded
  <2>2. below[x] \subseteq G /\ x \in S /\ x \notin G /\ G \subseteq S
    BY <2>1 DEF Founded
  <2> DEFINE f == [F EXCEPT ![x] = D[F][x]]
             A == G \cup {x}
  <2>3. D[F][x] \in V /\ f \in [S -> V] /\ f[x] = D[F][x] /\ \A y \in G : f[y] = F[y]
    <3> HIDE DEF F, G
    <3> QED
      BY <1>3, <2>2 DEF Local
  <2> HIDE DEF f
  <2>4. ASSUME NEW y \in A
        PROVE  below[y] \subseteq A /\ f[y] = D[f][y]
    <3>1. below[y] \subseteq G
      BY <1>4, <2>2 DEF Attempt
    <3>2. f[y] = D[F][y]
      <4>1. y = x \/ y \in G
        OBVIOUS
      <4>2. CASE y = x
        BY <2>3, <4>2
      <4>3. CASE y \in G
        <5> HIDE DEF F, G
        <5> QED
          BY <1>4, <2>3, <4>3 DEF Attempt
      <4> QED
        BY <4>1, <4>2, <4>3
    <3>3. D[F][y] = D[f][y]
      <4>1. y \in S /\ \A z \in below[y] : F[z] = f[z]
        BY <2>2, <2>3, <3>1
      <4> HIDE DEF F, G, A
      <4> QED
        BY <1>3, <2>3, <4>1 DEF Local
    <3> QED
      BY <3>1, <3>2, <3>3
  <2>5. A \in SUBSET S /\ Tries(f, A)
    BY <2>2, <2>3, <2>4 DEF Attempt
  <2> QED
    BY <2>2, <2>3, <2>5
<1>6. F = D[F]
  <2> HIDE DEF F, G
  <2>1. \A x \in S : F[x] = D[F][x]
    BY <1>4, <1>5 DEF Attempt
  <2>2. D[F] \in [S -> V]
    BY <1>3 DEF Local
  <2> QED
    BY <1>3, <2>1, <2>2
<1> QED
  BY <1>3, <1>6

-----------------------------------------------------------------------------
\* Words, tags, the setters of headers, and chains of blocks.

\* What the assumption on the sizes gives: the heap has room for a page.
LEMMA Bounds ==
    /\ Top \in Nat /\ Top >= 10 /\ Top < Width
    /\ PAGE_SZ \in Nat /\ PAGE_SZ >= 10 /\ MaxPages \in Nat \ {0}
    /\ PAGE_SZ <= Top
<1>1. PAGE_SZ \in Nat /\ PAGE_SZ >= 10 /\ MaxPages \in Nat /\ MaxPages >= 1
  BY SizesAssumption
<1>2. PAGE_SZ * MaxPages \in Nat
  BY <1>1
<1>3. PAGE_SZ * MaxPages >= PAGE_SZ
  BY <1>1, SMTT(30)
<1> QED
  BY <1>1, <1>2, <1>3, SizesAssumption DEF Top

\* A nonempty set of natural numbers: Min gives its least element.
LEMMA MinFacts ==
    ASSUME NEW S \in SUBSET Nat, S # {}
    PROVE  Min(S) \in S /\ \A x \in S : Min(S) <= x
<1>1. \E x \in S : \A y \in S : x <= y
  BY LeastNatural
<1> QED
  BY <1>1 DEF Min

\* Arithmetic of the sizes and addresses of blocks, which are even.
LEMMA EvenFacts ==
    /\ \A m, n \in Even : m + n \in Even
    /\ \A m, n \in Even : m <= n => n - m \in Even
    /\ \A m, n \in Even : m < n => m + 2 <= n
    /\ \A n \in Even : n \in Nat
    /\ 0 \in Even /\ min \in Even /\ 2 \in Even
    /\ \A n \in Nat : n % 2 = 0 => n \in Even
BY DEF Even, min

\* get_pow is defined for every class of sizes.
LEMMA PowFacts ==
    \A i \in 0 .. NUM_FREE_LISTS : Pow[i] \in Nat
<1> DEFINE S == 0 .. NUM_FREE_LISTS
           below == [i \in S |-> IF i = 0 THEN {} ELSE {i - 1}]
           D == [p \in [S -> Nat] |-> [i \in S |-> IF i = 0 THEN 1 ELSE 2 * p[i - 1]]]
<1>1. NUM_FREE_LISTS \in Nat
  BY SizesAssumption
<1>2. Founded(S, below)
  <2>1. S \in SUBSET Nat /\ below \in [S -> SUBSET S]
    BY <1>1
  <2>2. \A n \in S : \A k \in below[n] : k < n
    BY <1>1
  <2> QED
    BY <2>1, <2>2, NaturalsFounded
<1>3. Local(S, Nat, below, D)
  <2>1. D \in [[S -> Nat] -> [S -> Nat]]
    BY <1>1
  <2>2. \A f, g \in [S -> Nat] : \A x \in S :
           (\A y \in below[x] : f[y] = g[y]) => D[f][x] = D[g][x]
    BY <1>1
  <2> QED
    BY <2>1, <2>2 DEF Local
<1>4. \E f \in [S -> Nat] : f = D[f]
  <2> HIDE DEF below, D, S
  <2> QED
    BY <1>2, <1>3, RecursiveFunctionExists
<1>5. PICK f \in [S -> Nat] : f = [i \in S |-> IF i = 0 THEN 1 ELSE 2 * f[i - 1]]
  BY <1>4
<1>6. Pow = [i \in S |-> IF i = 0 THEN 1 ELSE 2 * Pow[i - 1]]
  BY <1>5 DEF Pow
<1>7. ASSUME NEW n \in Nat
      PROVE  n \in {k \in Nat : k \in S => Pow[k] \in Nat}
  <2> DEFINE T == {k \in Nat : k \in S => Pow[k] \in Nat}
  <2>1. 0 \in T
    BY <1>6, <1>1
  <2>2. \A k \in Nat : k \in T => k + 1 \in T
    <3> SUFFICES ASSUME NEW k \in Nat, k \in T, k + 1 \in S
                 PROVE  Pow[k + 1] \in Nat
      OBVIOUS
    <3>1. k \in S /\ Pow[k] \in Nat /\ k + 1 # 0 /\ (k + 1) - 1 = k
      BY <1>1
    <3>2. Pow[k + 1] = 2 * Pow[k]
      BY <1>6, <3>1
    <3> QED
      BY <3>1, <3>2
  <2>3. Nat \subseteq T
    <3> HIDE DEF T
    <3> QED
      BY <2>1, <2>2, SetInduction
  <2> QED
    BY <2>3
<1> QED
  BY <1>1, <1>7

\* The class of a size: there always is one, and larger sizes are in no earlier class.
LEMMA IndexFacts ==
    ASSUME NEW size \in Nat
    PROVE  /\ GetIndex(size) \in 0 .. NUM_FREE_LISTS - 1
           /\ \A more \in Nat : size <= more => GetIndex(size) <= GetIndex(more)
<1> DEFINE I(s) == {i \in 0 .. NUM_FREE_LISTS - 2 : s <= min * Pow[i]}
                      \cup {NUM_FREE_LISTS - 1}
<1>1. NUM_FREE_LISTS \in Nat /\ NUM_FREE_LISTS >= 2
  BY SizesAssumption
<1>2. \A i \in 0 .. NUM_FREE_LISTS - 2 : min * Pow[i] \in Nat
  BY <1>1, PowFacts DEF min
<1>3. ASSUME NEW s \in Nat
      PROVE  /\ I(s) \in SUBSET Nat /\ I(s) # {} /\ I(s) \subseteq 0 .. NUM_FREE_LISTS - 1
             /\ GetIndex(s) = Min(I(s)) /\ Min(I(s)) \in I(s) /\ \A x \in I(s) : Min(I(s)) <= x
  <2>1. I(s) \in SUBSET Nat /\ I(s) # {} /\ I(s) \subseteq 0 .. NUM_FREE_LISTS - 1
    BY <1>1
  <2>2. GetIndex(s) = Min(I(s))
    BY DEF GetIndex
  <2> QED
    BY <2>1, <2>2, MinFacts
<1>4. ASSUME NEW more \in Nat, size <= more
      PROVE  I(more) \subseteq I(size)
  BY <1>2, <1>4
<1> HIDE DEF I
<1>5. ASSUME NEW more \in Nat, size <= more
      PROVE  GetIndex(size) <= GetIndex(more)
  BY <1>3, <1>4, <1>5
<1> QED
  BY <1>1, <1>3, <1>5

\* The least size that a request takes, or 0 if its size wraps.
LEMMA MinSizeFacts ==
    ASSUME NEW size \in Request \cup {0}
    PROVE  \/ GetMinSize(size) = 0
           \/ /\ GetMinSize(size) \in Even /\ GetMinSize(size) >= min
              /\ GetMinSize(size) >= size + 1 /\ GetMinSize(size) < Width
<1>1. Width \in Nat /\ Width > 10 /\ Width % 2 = 0 /\ size \in Nat /\ size < Width
  BY SizesAssumption, Bounds
<1>2. \A x \in Nat : x < Width => x % Width = x
  BY <1>1, SMTT(30)
<1>3. \A x \in Nat : Width <= x /\ x < 2 * Width => x % Width = x - Width
  BY <1>1, SMTT(30)
<1>4. CASE size <= 3
  <2>1. GetMinSize(size) = 4
    BY <1>4 DEF GetMinSize, min
  <2> QED
    BY <1>1, <1>4, <2>1 DEF min, Even
<1>5. CASE size > 3 /\ size + 1 < Width
  <2>1. (size + 1) % Width = size + 1
    BY <1>1, <1>2, <1>5
  <2>2. CASE (size + 1) % 2 = 0
    <3>1. GetMinSize(size) = size + 1
      BY <1>1, <1>5, <2>1, <2>2 DEF GetMinSize
    <3> QED
      BY <1>1, <1>5, <2>2, <3>1 DEF Even, min
  <2>3. CASE (size + 1) % 2 # 0
    <3>1. (size + 1) % 2 = 1 /\ size % 2 = 0 /\ size + 3 \in Nat /\ size + 3 < 2 * Width
      BY <1>1, <1>5, <2>3
    <3>2. GetMinSize(size) = ((size + 3) % Width) - 1
      BY <1>1, <1>5, <2>1, <3>1 DEF GetMinSize
    <3>3. CASE size + 3 < Width
      <4>1. GetMinSize(size) = size + 2
        BY <1>1, <1>2, <3>1, <3>2, <3>3
      <4> QED
        BY <1>1, <1>5, <3>1, <3>3, <4>1 DEF Even, min
    <3>4. CASE size + 3 >= Width
      <4>1. size + 3 = Width + 1
        BY <1>1, <1>5, <3>1, <3>4
      <4>2. (size + 3) % Width = 1
        BY <1>1, <1>3, <3>1, <4>1
      <4> QED
        BY <3>2, <4>2
    <3> QED
      BY <1>1, <3>3, <3>4
  <2> QED
    BY <2>2, <2>3
<1>6. CASE size > 3 /\ size + 1 >= Width
  <2>1. size + 1 = Width
    BY <1>1, <1>6
  <2>2. (size + 1) % Width = 0
    BY <1>1, <1>3, <2>1
  <2>3. GetMinSize(size) = 0
    BY <1>1, <1>6, <2>2 DEF GetMinSize
  <2> QED
    BY <2>3
<1> QED
  BY <1>1, <1>4, <1>5, <1>6

\* An unsigned difference that does not wrap.
LEMMA DifferenceFacts ==
    ASSUME NEW a \in Nat, NEW b \in Nat, b <= a, a < Width
    PROVE  (a - b) % Width = a - b
<1>1. a - b \in Nat /\ a - b < Width /\ Width \in Nat /\ Width > 0
  BY SizesAssumption
<1> QED
  BY <1>1, SMTT(30)

-----------------------------------------------------------------------------
(* Words and tags. *)

\* What a word may be, and that tags are told from the others.
LEMMA WordFacts ==
    /\ Blank \in Words /\ Link \in Words /\ Data \in Words
    /\ Tags \subseteq Words
    /\ ~IsTag(Blank) /\ ~IsTag(Link) /\ ~IsTag(Data)
    /\ \A w \in Words : IsTag(w) <=> w \in Tags
    /\ Blank # Link /\ Blank # Data /\ Data # Link
BY DEF Words, Tags, Blank, Link, Data, IsTag

\* The fields of a tag, and the tags that differ in one of them.
LEMMA TagFacts ==
    ASSUME NEW t \in Tags
    PROVE  /\ t.payload \in Nat /\ t.size \in Even /\ t.size \in Nat
           /\ t.alloc \in BOOLEAN /\ t.prv \in BOOLEAN /\ t.qk \in BOOLEAN
           /\ t = Tag(t.payload, t.size, t.alloc, t.prv, t.qk)
           /\ IsTag(t) /\ t \in Words /\ t # Blank /\ t # Data
           /\ \A a \in BOOLEAN : [t EXCEPT !.prv = a] = Tag(t.payload, t.size, t.alloc, a, t.qk)
           /\ \A n \in Even : [t EXCEPT !.size = n] = Tag(t.payload, n, t.alloc, t.prv, t.qk)
<1>1. t.payload \in Nat /\ t.size \in Even /\ t.size \in Nat
      /\ t.alloc \in BOOLEAN /\ t.prv \in BOOLEAN /\ t.qk \in BOOLEAN /\ t.kind = "tag"
  BY DEF Tags, Even
<1>2. t = Tag(t.payload, t.size, t.alloc, t.prv, t.qk)
  BY DEF Tag, Tags
<1>3. IsTag(t) /\ t \in Words /\ t # Blank /\ t # Data
  BY <1>1 DEF IsTag, Words, Blank, Data
<1>4. \A a \in BOOLEAN : [t EXCEPT !.prv = a] = Tag(t.payload, t.size, t.alloc, a, t.qk)
  BY DEF Tag, Tags
<1>5. \A n \in Even : [t EXCEPT !.size = n] = Tag(t.payload, n, t.alloc, t.prv, t.qk)
  BY DEF Tag, Tags
<1> QED
  BY <1>1, <1>2, <1>3, <1>4, <1>5

\* A tag that is put together has the fields that were given.
LEMMA NewTag ==
    ASSUME NEW p \in Nat, NEW n \in Even, NEW a \in BOOLEAN, NEW v \in BOOLEAN,
           NEW q \in BOOLEAN
    PROVE  /\ Tag(p, n, a, v, q) \in Tags
           /\ Tag(p, n, a, v, q).payload = p /\ Tag(p, n, a, v, q).size = n
           /\ Tag(p, n, a, v, q).alloc = a /\ Tag(p, n, a, v, q).prv = v
           /\ Tag(p, n, a, v, q).qk = q
BY DEF Tag, Tags

\* The same for the tag of a free block.
LEMMA FreeTag ==
    ASSUME NEW n \in Even, NEW v \in BOOLEAN
    PROVE  /\ Tag(0, n, FALSE, v, FALSE) \in Tags
           /\ Tag(0, n, FALSE, v, FALSE).size = n
           /\ Tag(0, n, FALSE, v, FALSE).alloc = FALSE
           /\ Tag(0, n, FALSE, v, FALSE).prv = v
           /\ Tag(0, n, FALSE, v, FALSE).qk = FALSE
BY DEF Tag, Tags

\* The header of zeros that set_entire_header starts from.
LEMMA ZeroTag ==
    \E zero \in Tags : zero = Tag(0, 0, FALSE, FALSE, FALSE) /\ zero.size = 0
<1>1. 0 \in Even /\ FALSE \in BOOLEAN
  BY EvenFacts
<1> QED
  BY <1>1, FreeTag

\* The header of the next block after set_prv_alloc.
LEMMA PrvFacts ==
    ASSUME NEW w \in Words, NEW a \in BOOLEAN
    PROVE  /\ Prv(w, a) \in Words
           /\ w \notin Tags => Prv(w, a) = w
           /\ Prv(w, a) = Blank => w = Blank
           /\ \A c \in BOOLEAN : Prv(Prv(w, c), a) = Prv(w, a)
           /\ w \in Tags => /\ Prv(w, a) = Tag(w.payload, w.size, w.alloc, a, w.qk)
                            /\ Prv(w, a) \in Tags
                            /\ Prv(w, a).payload = w.payload /\ Prv(w, a).size = w.size
                            /\ Prv(w, a).alloc = w.alloc /\ Prv(w, a).prv = a
                            /\ Prv(w, a).qk = w.qk
<1>1. CASE w \in Tags
  <2>1. IsTag(w) /\ Prv(w, a) = Tag(w.payload, w.size, w.alloc, a, w.qk)
    BY <1>1, TagFacts DEF Prv
  <2>2. w.payload \in Nat /\ w.size \in Even /\ w.alloc \in BOOLEAN /\ w.qk \in BOOLEAN
    BY <1>1, TagFacts
  <2>3. Prv(w, a) \in Tags /\ Prv(w, a).payload = w.payload /\ Prv(w, a).size = w.size
        /\ Prv(w, a).alloc = w.alloc /\ Prv(w, a).prv = a /\ Prv(w, a).qk = w.qk
    BY <2>1, <2>2, NewTag
  <2>4. \A c \in BOOLEAN : Prv(Prv(w, c), a) = Prv(w, a)
    <3> SUFFICES ASSUME NEW c \in BOOLEAN
                 PROVE  Prv(Prv(w, c), a) = Prv(w, a)
      OBVIOUS
    <3>1. Prv(w, c) = Tag(w.payload, w.size, w.alloc, c, w.qk)
      BY <1>1, TagFacts DEF Prv
    <3>2. IsTag(Tag(w.payload, w.size, w.alloc, c, w.qk))
      BY DEF IsTag, Tag
    <3>3. [Tag(w.payload, w.size, w.alloc, c, w.qk) EXCEPT !.prv = a]
             = Tag(w.payload, w.size, w.alloc, a, w.qk)
      BY DEF Tag
    <3> QED
      BY <2>1, <3>1, <3>2, <3>3 DEF Prv
  <2>5. Prv(w, a) \in Words /\ Prv(w, a) # Blank
    BY <2>3, TagFacts
  <2> QED
    BY <1>1, <2>1, <2>3, <2>4, <2>5
<1>2. CASE w \notin Tags
  BY <1>2, WordFacts DEF Prv
<1> QED
  BY <1>1, <1>2

\* A change of memory leaves the lists, the epilogue and the end alone.
LEMMA WithFacts ==
    ASSUME NEW h \in Heaps, NEW m \in [Addr -> Words]
    PROVE  /\ With(h, m) \in Heaps /\ With(h, m).mem = m
           /\ With(h, m).free = h.free /\ With(h, m).quick = h.quick
           /\ With(h, m).epi = h.epi /\ With(h, m).end = h.end
           /\ With(h, m).fault = h.fault
           /\ \A k : With(With(h, m), k) = With(h, k)
BY Zenon DEF With, Heaps

\* The fields of a heap.
LEMMA HeapFacts ==
    ASSUME NEW h \in Heaps
    PROVE  /\ h.mem \in [Addr -> Words] /\ h.epi \in Even \cup {-1} /\ h.end \in Even
           /\ h.free \in [0 .. NUM_FREE_LISTS - 1 -> Seq(Even)]
           /\ h.quick \in [0 .. NUM_QUICK_LISTS - 1 -> Seq(Even)]
           /\ h.fault \in Faults
           /\ With(h, h.mem) = h
BY DEF With, Heaps

\* One word of memory is written.
LEMMA PutWord ==
    ASSUME NEW h \in Heaps, NEW x, NEW w \in Words
    PROVE  /\ [h EXCEPT !.mem[x] = w] = With(h, [h.mem EXCEPT ![x] = w])
           /\ [h.mem EXCEPT ![x] = w] \in [Addr -> Words]
BY HeapFacts DEF With, Heaps

-----------------------------------------------------------------------------
(* What the setters write. *)

\* set_header writes the header, the footer of a free block, and prv in the
\* next header, and nothing else.
LEMMA SetHeaderFacts ==
    ASSUME NEW h \in Heaps, NEW b \in Nat, NEW tag \in Tags, b # h.epi, tag.size >= 2,
           b + tag.size + 1 \in Addr
    PROVE  \E m \in [Addr -> Words] : HeaderSet(h, b, tag, m)
<1> DEFINE n == b + tag.size
<1>1. tag.size \in Nat /\ tag.alloc \in BOOLEAN /\ tag \in Words
  BY TagFacts
<1>2. b + 1 \in Addr /\ n \in Addr /\ n + 1 \in Addr /\ b + 1 # n /\ b + 1 # n + 1 /\ n # n + 1
  BY <1>1, Bounds DEF Addr
<1>3. PICK own \in [Addr -> Words] :
         /\ own = [h.mem EXCEPT ![b + 1] = tag] /\ own[b + 1] = tag
         /\ \A w \in Addr : w # b + 1 => own[w] = h.mem[w]
  <2>1. h.mem \in [Addr -> Words]
    BY HeapFacts
  <2>2. PICK own : own = [h.mem EXCEPT ![b + 1] = tag]
    OBVIOUS
  <2>3. own \in [Addr -> Words] /\ own[b + 1] = tag
        /\ \A w \in Addr : w # b + 1 => own[w] = h.mem[w]
    BY <1>1, <1>2, <2>1, <2>2
  <2> QED
    BY <2>2, <2>3
<1>4. PICK f \in Words : f = NewFooter(tag, own[n])
  BY <1>1, <1>2 DEF NewFooter
<1>5. PICK g \in Words : g = Prv(own[n + 1], tag.alloc)
  BY <1>1, <1>2, PrvFacts
<1>6. PICK m \in [Addr -> Words] :
         /\ m = [own EXCEPT ![n] = f, ![n + 1] = g] /\ m[n] = f /\ m[n + 1] = g
         /\ \A w \in Addr : w \notin {n, n + 1} => m[w] = own[w]
  <2>1. PICK m : m = [own EXCEPT ![n] = f, ![n + 1] = g]
    OBVIOUS
  <2>2. m \in [Addr -> Words] /\ m[n] = f /\ m[n + 1] = g
        /\ \A w \in Addr : w \notin {n, n + 1} => m[w] = own[w]
    BY <1>2, <2>1
  <2> QED
    BY <2>1, <2>2
<1>7. SetHeader(h, b, tag) = With(h, m)
  <2> DEFINE both == [own EXCEPT ![n] = NewFooter(tag, @),
                                 ![n + 1] = IF IsTag(@) THEN [@ EXCEPT !.prv = tag.alloc]
                                            ELSE @]
  <2>1. both = m
    <3>1. [own EXCEPT ![n] = NewFooter(tag, @)][n + 1] = own[n + 1]
      BY <1>2
    <3> QED
      BY <1>4, <1>5, <1>6, <3>1 DEF Prv
  <2>2. SetHeader(h, b, tag) = [h EXCEPT !.mem = both]
    BY <1>3 DEF SetHeader
  <2> HIDE DEF both
  <2> QED
    BY <2>1, <2>2 DEF With
<1>8. m[b + 1] = tag /\ f = NewFooter(tag, h.mem[n]) /\ g = Prv(h.mem[n + 1], tag.alloc)
  BY <1>2, <1>3, <1>4, <1>5, <1>6
<1>9. \A w \in Addr : w \notin {b + 1, n, n + 1} => m[w] = h.mem[w]
  BY <1>3, <1>6
<1> QED
  BY <1>6, <1>7, <1>8, <1>9 DEF HeaderSet

\* The header between the first setters of set_entire_header and the last ones.
LEMMA OldTag ==
    ASSUME NEW h \in Heaps, NEW b \in Nat, NEW tag \in Tags, h.mem[b + 1] \in Tags
    PROVE  \E old \in Tags :
              /\ old.size = h.mem[b + 1].size /\ old.alloc = tag.alloc
              /\ SetEntireHeader(h, b, tag) = SetHeader(SetHeader(h, b, old), b, tag)
<1>1. PICK t \in Tags : t = h.mem[b + 1]
  OBVIOUS
<1>2. t.size \in Even /\ tag.payload \in Nat /\ t.prv \in BOOLEAN /\ t.qk \in BOOLEAN
      /\ tag.alloc \in BOOLEAN
  BY TagFacts
<1>3. PICK old \in Tags : /\ old.size = t.size /\ old.alloc = tag.alloc
                          /\ old = Tag(tag.payload, t.size, tag.alloc, t.prv, t.qk)
  BY <1>2, NewTag
<1>6. SetEntireHeader(h, b, tag) = SetHeader(SetHeader(h, b, old), b, tag)
  BY <1>1, <1>3 DEF SetEntireHeader, Header
<1> QED
  BY <1>1, <1>3, <1>6

\* set_entire_header on a block that becomes free and may grow.
LEMMA RetagFree ==
    ASSUME NEW h \in Heaps, NEW b \in Nat, NEW tag \in Tags, b # h.epi, ~tag.alloc,
           h.mem[b + 1] \in Tags, h.mem[b + 1].size >= 2, h.mem[b + 1].size <= tag.size,
           b + tag.size + 1 \in Addr
    PROVE  \E m \in [Addr -> Words] : Freed(h, b, tag, m)
<1> DEFINE e == b + tag.size
<1>1. tag.size \in Even /\ tag.size \in Nat /\ tag.alloc = FALSE
  BY TagFacts
<1>2. PICK old \in Tags :
         /\ old.size = h.mem[b + 1].size /\ old.alloc = tag.alloc
         /\ SetEntireHeader(h, b, tag) = SetHeader(SetHeader(h, b, old), b, tag)
  BY OldTag
<1>3. old.size \in Even /\ old.size \in Nat /\ old.alloc = FALSE
      /\ old.size >= 2 /\ old.size <= tag.size
  BY <1>1, <1>2, TagFacts
<1>4. old.size = tag.size \/ old.size + 2 <= tag.size
  BY <1>1, <1>3, EvenFacts
<1>5. b + old.size + 1 \in Addr /\ e \in Addr /\ e + 1 \in Addr /\ b + 1 \in Addr
  BY <1>1, <1>3, Bounds DEF Addr
<1>6. PICK m1 \in [Addr -> Words] :
         /\ SetHeader(h, b, old) = With(h, m1)
         /\ m1[b + old.size + 1] = Prv(h.mem[b + old.size + 1], FALSE)
         /\ \A w \in Addr : w \notin {b + 1, b + old.size, b + old.size + 1}
                               => m1[w] = h.mem[w]
  <2>1. \E m \in [Addr -> Words] : HeaderSet(h, b, old, m)
    BY <1>3, <1>5, SetHeaderFacts
  <2> QED
    BY <1>3, <2>1 DEF HeaderSet
<1>7. With(h, m1) \in Heaps /\ With(h, m1).mem = m1 /\ With(h, m1).epi = h.epi
  BY WithFacts
<1>8. PICK m \in [Addr -> Words] :
         /\ SetHeader(With(h, m1), b, tag) = With(With(h, m1), m)
         /\ m[b + 1] = tag /\ m[e] = NewFooter(tag, m1[e])
         /\ m[e + 1] = Prv(m1[e + 1], FALSE)
         /\ \A w \in Addr : w \notin {b + 1, e, e + 1} => m[w] = m1[w]
  <2> DEFINE g == With(h, m1)
  <2>1. tag.size >= 2
    BY <1>1, <1>3
  <2>2. g \in Heaps /\ g.mem = m1 /\ b # g.epi
    BY <1>7
  <2> HIDE DEF g
  <2>3. \E m \in [Addr -> Words] : HeaderSet(g, b, tag, m)
    BY <2>1, <2>2, SetHeaderFacts
  <2> QED
    BY <1>1, <2>2, <2>3 DEF g, HeaderSet
<1>9. SetEntireHeader(h, b, tag) = With(h, m)
  BY <1>2, <1>6, <1>8, WithFacts
<1>10. m[e] = tag
  BY <1>1, <1>8 DEF NewFooter
<1>11. m1[e + 1] = h.mem[e + 1] \/ m1[e + 1] = Prv(h.mem[e + 1], FALSE)
  <2>1. CASE old.size = tag.size
    BY <1>6, <2>1
  <2>2. CASE old.size + 2 <= tag.size
    <3>1. e + 1 \notin {b + 1, b + old.size, b + old.size + 1}
      BY <1>1, <1>3, <2>2
    <3> QED
      BY <1>5, <1>6, <3>1
  <2> QED
    BY <1>4, <2>1, <2>2
<1>12. m[e + 1] = Prv(h.mem[e + 1], FALSE)
  <2>1. h.mem[e + 1] \in Words
    BY <1>5, HeapFacts
  <2>2. PICK w \in Words : w = h.mem[e + 1]
    BY <2>1
  <2>3. Prv(Prv(w, FALSE), FALSE) = Prv(w, FALSE)
    BY PrvFacts
  <2> QED
    BY <1>8, <1>11, <2>2, <2>3
<1>13. \A w \in Addr : w <= b \/ w > e + 1 => m[w] = h.mem[w]
  <2> SUFFICES ASSUME NEW w \in Addr, w <= b \/ w > e + 1
               PROVE  m[w] = h.mem[w]
    OBVIOUS
  <2>1. w \in Nat /\ w \notin {b + 1, e, e + 1}
        /\ w \notin {b + 1, b + old.size, b + old.size + 1}
    BY <1>1, <1>3, SMTT(60) DEF Addr
  <2> QED
    BY <1>6, <1>8, <2>1
<1> QED
  BY <1>8, <1>9, <1>10, <1>12, <1>13 DEF Freed

\* set_entire_header on a block that becomes allocated and keeps its size.
LEMMA RetagUsed ==
    ASSUME NEW h \in Heaps, NEW b \in Nat, NEW tag \in Tags, b # h.epi, tag.alloc = TRUE,

           h.mem[b + 1] \in Tags, h.mem[b + 1].size = tag.size, tag.size >= 2,
           b + tag.size + 1 \in Addr
    PROVE  \E m \in [Addr -> Words] : Used(h, b, tag, m)
<1> DEFINE e == b + tag.size
<1>1. tag.size \in Even /\ tag.size \in Nat /\ tag.alloc = TRUE /\ tag.size >= 2
      /\ tag.alloc \in BOOLEAN
  BY TagFacts
<1>2. PICK old \in Tags :
         /\ old.size = h.mem[b + 1].size /\ old.alloc = tag.alloc
         /\ SetEntireHeader(h, b, tag) = SetHeader(SetHeader(h, b, old), b, tag)
  BY OldTag
<1>3. old.size = tag.size /\ old.alloc = TRUE
  BY <1>1, <1>2
<1>5. e \in Addr /\ e + 1 \in Addr /\ b + 1 \in Addr
  BY <1>1, Bounds DEF Addr
<1>6. PICK m1 \in [Addr -> Words] :
         /\ SetHeader(h, b, old) = With(h, m1)
         /\ m1[e] = NewFooter(old, h.mem[e])
         /\ m1[e + 1] = Prv(h.mem[e + 1], TRUE)
         /\ \A w \in Addr : w \notin {b + 1, e, e + 1} => m1[w] = h.mem[w]
  <2>1. b + old.size + 1 \in Addr /\ old.size >= 2
    BY <1>1, <1>3, <1>5
  <2>2. \E m \in [Addr -> Words] : HeaderSet(h, b, old, m)
    BY <2>1, SetHeaderFacts
  <2> QED
    BY <1>3, <2>2 DEF HeaderSet
<1>7. PICK m \in [Addr -> Words] :
         /\ SetHeader(With(h, m1), b, tag) = With(With(h, m1), m)
         /\ m[b + 1] = tag /\ m[e] = NewFooter(tag, m1[e])
         /\ m[e + 1] = Prv(m1[e + 1], TRUE)
         /\ \A w \in Addr : w \notin {b + 1, e, e + 1} => m[w] = m1[w]
  <2> DEFINE g == With(h, m1)
  <2>1. g \in Heaps /\ g.mem = m1 /\ b # g.epi
    BY WithFacts
  <2>3. tag.size >= 2
    BY <1>1
  <2> HIDE DEF g
  <2>2. PICK m \in [Addr -> Words] : HeaderSet(g, b, tag, m)
    BY <2>1, <2>3, SetHeaderFacts
  <2>4. m[e + 1] = Prv(m1[e + 1], TRUE)
    BY <1>1, <2>1, <2>2 DEF HeaderSet
  <2> QED
    BY <2>1, <2>2, <2>4, ZenonT(60) DEF g, HeaderSet
<1>8. SetEntireHeader(h, b, tag) = With(h, m)
  BY <1>2, <1>6, <1>7, WithFacts
<1>9. m[e] = h.mem[e]
  BY <1>1, <1>3, <1>6, <1>7 DEF NewFooter
<1>10. m[e + 1] = Prv(h.mem[e + 1], TRUE)
  <2>1. h.mem[e + 1] \in Words
    BY <1>5, HeapFacts
  <2>2. PICK w \in Words : w = h.mem[e + 1]
    BY <2>1
  <2>3. Prv(Prv(w, TRUE), TRUE) = Prv(w, TRUE)
    BY PrvFacts
  <2> QED
    BY <1>6, <1>7, <2>2, <2>3
<1>11. \A w \in Addr : w \notin {b + 1, e + 1} => m[w] = h.mem[w]
  <2> SUFFICES ASSUME NEW w \in Addr, w \notin {b + 1, e + 1}, w # e
               PROVE  m[w] = h.mem[w]
    BY <1>9
  <2> QED
    BY <1>6, <1>7
<1> QED
  BY <1>7, <1>8, <1>10, <1>11 DEF Used

\* The epilogue's header is written, and nothing else.
LEMMA SetEpilogue ==
    ASSUME NEW h \in Heaps, NEW b \in Nat, NEW tag \in Tags, b = h.epi
    PROVE  SetHeader(h, b, tag) = With(h, [h.mem EXCEPT ![b + 1] = tag])
BY DEF SetHeader, With

\* set_entire_header on the epilogue writes its header only.
LEMMA RetagEpilogue ==
    ASSUME NEW h \in Heaps, NEW b \in Nat, NEW tag \in Tags, b = h.epi, b + 1 \in Addr,
           h.mem[b + 1] \in Tags
    PROVE  SetEntireHeader(h, b, tag) = With(h, [h.mem EXCEPT ![b + 1] = tag])
<1>1. PICK old \in Tags : SetEntireHeader(h, b, tag) = SetHeader(SetHeader(h, b, old), b, tag)
  BY OldTag
<1> DEFINE m == [h.mem EXCEPT ![b + 1] = old]
<1>2. old \in Words
  BY TagFacts
<1>4. SetHeader(h, b, old) = With(h, m) /\ m \in [Addr -> Words]
  BY <1>2, SetEpilogue, HeapFacts
<1>5. SetHeader(With(h, m), b, tag) = With(With(h, m), [m EXCEPT ![b + 1] = tag])
  <2>1. With(h, m) \in Heaps /\ With(h, m).mem = m /\ With(h, m).epi = h.epi
    BY <1>4, WithFacts
  <2> QED
    BY <2>1, SetEpilogue
<1>6. [m EXCEPT ![b + 1] = tag] = [h.mem EXCEPT ![b + 1] = tag]
  BY HeapFacts
<1> QED
  BY <1>1, <1>4, <1>5, <1>6, WithFacts

\* The header of a new block, its footer, and what was written over.
LEMMA CreateFacts ==
    ASSUME NEW h \in Heaps, NEW p \in Nat, NEW tag \in Tags, p # h.epi, tag.size >= 2,
           p + tag.size + 1 \in Addr
    PROVE  \E m \in [Addr -> Words] : Created(h, p, tag, m)
<1>1. PICK zero \in Tags : zero = Tag(0, 0, FALSE, FALSE, FALSE) /\ zero.size = 0
  BY ZeroTag
<1>2. zero \in Words /\ tag.size \in Nat /\ tag.alloc \in BOOLEAN
  BY TagFacts
<1>3. p \in Addr /\ p + 1 \in Addr /\ p + tag.size \in Addr
  BY <1>2, Bounds DEF Addr
<1>4. PICK m1 \in [Addr -> Words] :
         /\ [h EXCEPT !.mem[p + 1] = zero] = With(h, m1) /\ m1[p + 1] = zero
         /\ \A w \in Addr : w # p + 1 => m1[w] = h.mem[w]
  <2>1. [h.mem EXCEPT ![p + 1] = zero] \in [Addr -> Words]
        /\ [h EXCEPT !.mem[p + 1] = zero] = With(h, [h.mem EXCEPT ![p + 1] = zero])
    BY <1>2, PutWord
  <2>2. [h.mem EXCEPT ![p + 1] = zero][p + 1] = zero
        /\ \A w \in Addr : w # p + 1 => [h.mem EXCEPT ![p + 1] = zero][w] = h.mem[w]
    BY <1>3, HeapFacts
  <2> QED
    BY <2>1, <2>2
<1>5. PICK g \in Heaps : g = With(h, m1) /\ g.mem = m1 /\ g.epi = h.epi
  BY WithFacts
<1>6. CreateHeader(h, p, tag) = SetEntireHeader(g, p, tag)
  BY <1>1, <1>4, <1>5 DEF CreateHeader
<1>7. PICK old \in Tags :
         /\ old.size = g.mem[p + 1].size
         /\ SetEntireHeader(g, p, tag) = SetHeader(SetHeader(g, p, old), p, tag)
  BY <1>4, <1>5, OldTag
<1>8. old.size = 0 /\ old \in Words /\ old.alloc \in BOOLEAN
  BY <1>1, <1>4, <1>5, <1>7, TagFacts
<1>9. PICK m2 \in [Addr -> Words] :
         /\ SetHeader(g, p, old) = With(g, m2)
         /\ \A w \in Addr : w \notin {p, p + 1} => m2[w] = g.mem[w]
  <2>1. PICK own \in [Addr -> Words] :
           /\ own = [m1 EXCEPT ![p + 1] = old] /\ own[p + 1] = old
           /\ \A w \in Addr : w # p + 1 => own[w] = m1[w]
    <3>1. PICK own : own = [m1 EXCEPT ![p + 1] = old]
      OBVIOUS
    <3>2. own \in [Addr -> Words] /\ own[p + 1] = old
          /\ \A w \in Addr : w # p + 1 => own[w] = m1[w]
      BY <1>3, <1>8, <3>1
    <3> QED
      BY <3>1, <3>2
  <2>2. PICK f \in Words : f = NewFooter(old, own[p])
    BY <1>3, <1>8 DEF NewFooter
  <2>3. PICK last \in Words : last = Prv(own[p + 1], old.alloc)
    BY <1>3, <1>8, PrvFacts
  <2>4. p # p + 1
    OBVIOUS
  <2>5. PICK m \in [Addr -> Words] :
           /\ m = [own EXCEPT ![p] = f, ![p + 1] = last]
           /\ \A w \in Addr : w \notin {p, p + 1} => m[w] = own[w]
    <3>1. PICK m : m = [own EXCEPT ![p] = f, ![p + 1] = last]
      OBVIOUS
    <3>2. m \in [Addr -> Words] /\ \A w \in Addr : w \notin {p, p + 1} => m[w] = own[w]
      BY <1>3, <2>4, <3>1
    <3> QED
      BY <3>1, <3>2
  <2>6. SetHeader(g, p, old) = With(g, m)
    <3> DEFINE both == [own EXCEPT ![p] = NewFooter(old, @),
                                   ![p + 1] = IF IsTag(@) THEN [@ EXCEPT !.prv = old.alloc]
                                              ELSE @]
    <3>1. both = m
      <4>1. [own EXCEPT ![p] = NewFooter(old, @)][p + 1] = own[p + 1]
        BY <1>3, <2>4
      <4> QED
        BY <2>2, <2>3, <2>5, <4>1 DEF Prv
    <3>2. p + old.size = p /\ p + old.size + 1 = p + 1
      BY <1>8
    <3>3. SetHeader(g, p, old) = [g EXCEPT !.mem = both]
      BY <1>5, <2>1, <3>2 DEF SetHeader
    <3> HIDE DEF both
    <3> QED
      BY <3>1, <3>3 DEF With
  <2> QED
    BY <1>5, <2>1, <2>5, <2>6
<1>10. PICK k \in Heaps : k = With(g, m2) /\ k.mem = m2 /\ k.epi = h.epi /\ k = With(h, m2)
  BY <1>5, WithFacts
<1>12. PICK m \in [Addr -> Words] : HeaderSet(k, p, tag, m)
  BY <1>10, SetHeaderFacts
<1>13. CreateHeader(h, p, tag) = With(h, m)
  BY <1>6, <1>7, <1>9, <1>10, <1>12, WithFacts DEF HeaderSet
<1>14. \A w \in Addr : w \notin {p, p + 1} => k.mem[w] = h.mem[w]
  BY <1>4, <1>5, <1>9, <1>10
<1>15. p + tag.size \notin {p, p + 1} /\ p + tag.size + 1 \notin {p, p + 1}
  BY <1>2
<1>16. \A w \in Addr : w \notin {p, p + 1, p + tag.size, p + tag.size + 1}
                                    => m[w] = h.mem[w]
  BY <1>12, <1>14 DEF HeaderSet
<1>17. k.mem[p + tag.size] = h.mem[p + tag.size]
       /\ k.mem[p + tag.size + 1] = h.mem[p + tag.size + 1]
  BY <1>3, <1>14, <1>15
<1> QED
  BY <1>12, <1>13, <1>16, <1>17 DEF HeaderSet, Created

\* A new epilogue is a header and nothing else.
LEMMA CreateEpilogue ==
    ASSUME NEW h \in Heaps, NEW p \in Nat, NEW tag \in Tags, p = h.epi, p + 1 \in Addr
    PROVE  CreateHeader(h, p, tag) = With(h, [h.mem EXCEPT ![p + 1] = tag])
<1>1. PICK zero \in Tags : zero = Tag(0, 0, FALSE, FALSE, FALSE)
  BY ZeroTag
<1>2. PICK m1 \in [Addr -> Words] :
         /\ [h EXCEPT !.mem[p + 1] = zero] = With(h, m1) /\ m1 = [h.mem EXCEPT ![p + 1] = zero]
  BY TagFacts, PutWord
<1>3. m1[p + 1] = zero
  BY <1>2, HeapFacts
<1>4. PICK g \in Heaps : g = With(h, m1) /\ g.mem = m1 /\ g.epi = h.epi
  BY WithFacts
<1>5. CreateHeader(h, p, tag) = SetEntireHeader(g, p, tag)
  BY <1>1, <1>2, <1>4 DEF CreateHeader
<1>6. SetEntireHeader(g, p, tag) = With(g, [g.mem EXCEPT ![p + 1] = tag])
  BY <1>3, <1>4, RetagEpilogue
<1>7. [g.mem EXCEPT ![p + 1] = tag] = [h.mem EXCEPT ![p + 1] = tag]
  BY <1>2, <1>4, HeapFacts
<1> QED
  BY <1>4, <1>5, <1>6, <1>7, WithFacts

\* split_block: the headers of both parts, the footer of the second, and
\* nothing inside the first.
LEMMA SplitFacts ==
    ASSUME NEW h \in Heaps, NEW b \in Nat, NEW size \in Even, NEW t \in Tags,
           CanSplit(h, b, size, t)
    PROVE  \E m \in [Addr -> Words], c \in Tags, r \in Tags : Split(h, b, size, t, c, r, m)
<1> DEFINE p == b + size
           e == b + t.size
<1>0. t = h.mem[b + 1] /\ p # h.epi /\ Clean(h, b, size)
  BY DEF CanSplit
<1>1. t.size \in Even /\ t.size \in Nat /\ size \in Nat /\ t.payload \in Nat
      /\ t.alloc \in BOOLEAN /\ t.prv \in BOOLEAN /\ t.qk \in BOOLEAN
      /\ size >= 4 /\ size + 4 <= t.size /\ size <= t.size /\ b + t.size + 1 \in Addr
  BY TagFacts, EvenFacts DEF CanSplit, min
<1>2. PICK c \in Tags : /\ c = Tag(t.payload, size, t.alloc, t.prv, t.qk)
                        /\ c.size = size /\ c.alloc = t.alloc
  <2>1. PICK l \in Nat, a \in BOOLEAN, v \in BOOLEAN, q \in BOOLEAN :
                l = t.payload /\ a = t.alloc /\ v = t.prv /\ q = t.qk
    BY <1>1
  <2>2. /\ Tag(l, size, a, v, q) \in Tags
        /\ Tag(l, size, a, v, q).size = size /\ Tag(l, size, a, v, q).alloc = a
    BY NewTag
  <2> QED
    BY <2>1, <2>2
<1>3. PICK r \in Tags : /\ r = Tag(0, t.size - size, FALSE, t.alloc, FALSE)
                        /\ r.size = t.size - size /\ r.alloc = FALSE
  <2>1. t.size - size \in Even
    BY <1>1, EvenFacts
  <2> QED
    BY <1>1, <2>1, FreeTag
<1> DEFINE rest == t.size - size
<1>19. r.size = rest /\ r.alloc = FALSE /\ rest \in Nat /\ rest >= 4 /\ size + rest = t.size
  <2>1. r.size = t.size - size /\ r.alloc = FALSE
    BY <1>3
  <2> QED
    BY <1>1, <2>1
<1>4. [Header(h, b) EXCEPT !.size = size] = c
  BY <1>0, <1>2, TagFacts DEF Header
<1>5. b + 1 \in Addr /\ p \in Addr /\ p + 1 \in Addr /\ e \in Addr /\ e + 1 \in Addr
      /\ p + r.size = e /\ p \in Nat
  <2>1. Top \in Nat
    BY Bounds
  <2>2. b + 1 \in Addr /\ p \in Addr /\ p + 1 \in Addr /\ e \in Addr /\ e + 1 \in Addr
    BY <1>1, <2>1 DEF Addr
  <2>4. p + r.size = e
    BY <1>1, <1>19
  <2> QED
    BY <1>1, <2>2, <2>4
<1>6. c \in Words /\ r \in Words
  BY TagFacts
<1>7. PICK m1 \in [Addr -> Words] :
         /\ SetHeader(h, b, c) = With(h, m1) /\ m1[b + 1] = c
         /\ m1[p + 1] = h.mem[p + 1] \/ m1[p + 1] = Prv(h.mem[p + 1], t.alloc)
         /\ \A w \in Addr : w \notin {b + 1, p, p + 1} => m1[w] = h.mem[w]
  <2>1. CASE b = h.epi
    <3> DEFINE m == [h.mem EXCEPT ![b + 1] = c]
    <3>1. SetHeader(h, b, c) = With(h, m)
      BY <2>1, SetEpilogue
    <3>2. m \in [Addr -> Words] /\ m[b + 1] = c /\ \A w \in Addr : w # b + 1 => m[w] = h.mem[w]
      BY <1>5, <1>6, HeapFacts
    <3>3. p + 1 # b + 1
      BY <1>1
    <3> HIDE DEF m
    <3> QED
      BY <1>5, <3>1, <3>2, <3>3
  <2>2. CASE b # h.epi
    <3>1. c.size >= 2 /\ b + c.size + 1 \in Addr
      BY <1>1, <1>2, <1>5
    <3>2. PICK m \in [Addr -> Words] : HeaderSet(h, b, c, m)
      BY <2>2, <3>1, SetHeaderFacts
    <3> QED
      BY <1>2, <3>2 DEF HeaderSet
  <2> QED
    BY <2>1, <2>2
<1>8. PICK cut \in Heaps : /\ cut = With(h, m1) /\ cut.mem = m1 /\ cut.epi = h.epi
                           /\ cut = SetHeader(h, b, c)
  BY <1>7, WithFacts
<1>9. Header(cut, b).alloc = t.alloc /\ NextBlock(cut, b) = p /\ Header(cut, p) = m1[p + 1]
  BY <1>2, <1>7, <1>8 DEF Header, NextBlock, SizeOf
<1>10. CreateHeader(cut, p, r) \in Heaps /\ SplitBlock(h, b, size) = Repaired(CreateHeader(cut, p, r), b)
  <2>1. SplitBlock(h, b, size) = IF Header(cut, p) # Blank
                                 THEN Fails(cut, "split over old contents")
                                 ELSE Repaired(CreateHeader(cut, p, r), b)
    <3>1. SizeOf(h, b) = t.size
      BY <1>0 DEF SizeOf, Header
    <3> QED
      BY <1>3, <1>4, <1>8, <1>9, <3>1, Zenon DEF SplitBlock
  <2>2. Fails(cut, "split over old contents").fault = "split over old contents"
    BY DEF Fails, Heaps
  <2>3. SplitBlock(h, b, size) = Repaired(CreateHeader(cut, p, r), b)
    BY <1>0, <2>1, <2>2, Zenon DEF Clean
  <2>4. \E m \in [Addr -> Words] : CreateHeader(cut, p, r) = With(cut, m)
    <3>1. p # cut.epi /\ r.size >= 2 /\ p + r.size + 1 \in Addr
      BY <1>0, <1>5, <1>8, <1>19
    <3>2. \E m \in [Addr -> Words] : Created(cut, p, r, m)
      BY <1>5, <3>1, CreateFacts
    <3> QED
      BY <3>2 DEF Created
  <2> QED
    BY <2>3, <2>4, WithFacts
<1>11. PICK m2 \in [Addr -> Words] :
         /\ CreateHeader(cut, p, r) = With(cut, m2)
         /\ m2[p + 1] = r /\ m2[e] = r /\ m2[e + 1] = Prv(cut.mem[e + 1], FALSE)
         /\ \A w \in Addr : w \notin {p, p + 1, e, e + 1} => m2[w] = cut.mem[w]
  <2>1. p # cut.epi /\ r.size >= 2 /\ p + r.size + 1 \in Addr
    BY <1>0, <1>5, <1>8, <1>19
  <2>2. PICK m \in [Addr -> Words] : Created(cut, p, r, m)
    BY <1>5, <2>1, CreateFacts
  <2>3. NewFooter(r, cut.mem[p + r.size]) = r
    BY <1>19 DEF NewFooter
  <2>4. CreateHeader(cut, p, r) = With(cut, m) /\ m[p + 1] = r /\ m[p + r.size] = r
        /\ m[p + r.size + 1] = Prv(cut.mem[p + r.size + 1], r.alloc)
        /\ \A w \in Addr : w \notin {p, p + 1, p + r.size, p + r.size + 1} => m[w] = cut.mem[w]
    BY <2>2, <2>3 DEF Created
  <2> HIDE DEF p, e
  <2> QED
    BY <1>5, <1>19, <2>4
<1>12. PICK new \in Heaps : new = CreateHeader(cut, p, r) /\ new = With(h, m2) /\ new.mem = m2
  <2>1. CreateHeader(cut, p, r) = With(cut, m2)
    BY <1>11
  <2>2. With(cut, m2) = With(h, m2)
    <3>1. cut = With(h, m1)
      BY <1>8
    <3>2. With(With(h, m1), m2) = With(h, m2)
      BY WithFacts
    <3> QED
      BY <3>1, <3>2
  <2> QED
    BY <2>1, <2>2, WithFacts
<1>13. m2[b + 1] = c
  <2>1. b + 1 \notin {p, p + 1, e, e + 1}
    BY <1>1
  <2> QED
    BY <1>5, <1>7, <1>8, <1>11, <2>1
<1> DEFINE m == [m2 EXCEPT ![p] = c]
<1>14. SplitBlock(h, b, size) = With(h, m)
  <2>1. Repaired(new, b) = [new EXCEPT !.mem[p] = c]
    <3>1. Header(new, b) = c /\ NextBlock(new, b) = p
      BY <1>2, <1>12, <1>13 DEF NextBlock, SizeOf, Header
    <3> QED
      BY <3>1 DEF Repaired
  <2>2. [new EXCEPT !.mem[p] = c] = With(new, m)
    BY <1>6, <1>12 DEF With, Heaps
  <2> HIDE DEF m
  <2> QED
    BY <1>10, <1>12, <2>1, <2>2, WithFacts
<1>15. /\ m \in [Addr -> Words] /\ m[p] = c /\ \A w \in Addr : w # p => m[w] = m2[w]
  BY <1>5, <1>6
<1> HIDE DEF m
<1>16. p # p + 1 /\ p # e /\ p # e + 1 /\ p # b + 1 /\ e + 1 \notin {b + 1, p, p + 1}
  BY <1>1
<1>17. m[b + 1] = c /\ m[p + 1] = r /\ m[e] = r /\ m[e + 1] = Prv(h.mem[e + 1], FALSE)
  BY <1>5, <1>7, <1>8, <1>11, <1>13, <1>15, <1>16
<1>18. \A w \in Addr : w \notin {b + 1, p, p + 1, e, e + 1} => m[w] = h.mem[w]
  BY <1>7, <1>8, <1>11, <1>15
<1> QED
  BY <1>2, <1>3, <1>14, <1>15, <1>17, <1>18 DEF Split

-----------------------------------------------------------------------------
(* Chains of blocks. *)

\* The blocks of a chain are even, within its ends, and of at least min words.
LEMMA ChainTypes ==
    ASSUME NEW m, NEW C, NEW s, NEW u, Chain(m, C, s, u)
    PROVE  /\ s \in Nat /\ u \in Nat /\ s <= u /\ s \in Even /\ u \in Even
           /\ \A b \in C : /\ b \in Nat /\ b \in Even /\ s <= b /\ b < u
                           /\ m[b + 1] \in Tags /\ m[b + 1].size \in Nat
                           /\ m[b + 1].size \in Even /\ m[b + 1].size >= 4
                           /\ Nx(m, b) = b + m[b + 1].size /\ Nx(m, b) \in Nat
                           /\ Nx(m, b) \in Even /\ Nx(m, b) <= u
                           /\ Nx(m, b) \in C \cup {u} /\ b + 4 <= Nx(m, b)
<1>1. \A n \in Even : n \in Nat
  BY EvenFacts
<1>2. \A b \in C : /\ b \in Even /\ s <= b /\ b < u /\ m[b + 1] \in Tags /\ m[b + 1].size >= 4
                   /\ Nx(m, b) \in C \cup {u} /\ Nx(m, b) <= u
  BY DEF Chain
<1>3. s \in Even /\ u \in Even /\ s <= u
  BY DEF Chain
<1>4. \A b \in C : m[b + 1].size \in Even /\ Nx(m, b) = b + m[b + 1].size
  BY <1>2, TagFacts DEF Nx
<1>5. \A b \in C : Nx(m, b) \in Even
  BY <1>2, <1>4, EvenFacts
<1>6. \A b \in C : b + 4 <= Nx(m, b)
  <2> SUFFICES ASSUME NEW b \in C PROVE b + 4 <= Nx(m, b)
    OBVIOUS
  <2>1. b \in Nat /\ m[b + 1].size \in Nat /\ m[b + 1].size >= 4
    BY <1>1, <1>2, <1>4
  <2>2. Nx(m, b) = b + m[b + 1].size
    BY <1>4
  <2> QED
    BY <2>1, <2>2
<1> QED
  BY <1>1, <1>2, <1>3, <1>4, <1>5, <1>6

\* Two chains that meet are one.
LEMMA ChainGlue ==
    ASSUME NEW m, NEW C, NEW D, NEW s, NEW u, NEW v, Chain(m, C, s, u), Chain(m, D, u, v)
    PROVE  Chain(m, C \cup D, s, v)
<1>1. /\ s \in Nat /\ u \in Nat /\ v \in Nat /\ s <= u /\ u <= v /\ s \in Even /\ v \in Even
      /\ \A b \in C : /\ b \in Nat /\ b \in Even /\ s <= b /\ b < u /\ Nx(m, b) \in Nat
                      /\ m[b + 1] \in Tags /\ m[b + 1].size >= 4
                      /\ Nx(m, b) <= u /\ Nx(m, b) \in C \cup {u}
      /\ \A b \in D : /\ b \in Nat /\ b \in Even /\ u <= b /\ b < v /\ Nx(m, b) \in Nat
                      /\ m[b + 1] \in Tags /\ m[b + 1].size >= 4
                      /\ Nx(m, b) <= v /\ Nx(m, b) \in D \cup {v}
  BY ChainTypes
<1>2. u < v => u \in D /\ \E b \in D : Nx(m, b) = v
  BY DEF Chain
<1>3. s < u => s \in C /\ \E b \in C : Nx(m, b) = u
  BY DEF Chain
<1>4. u = v => D = {}
  BY <1>1
<1>5. \A b \in C \cup D : /\ s <= b /\ b < v /\ m[b + 1] \in Tags /\ m[b + 1].size >= 4
                          /\ Nx(m, b) \in (C \cup D) \cup {v} /\ Nx(m, b) <= v
  <2>1. ASSUME NEW b \in C
        PROVE  s <= b /\ b < v /\ m[b + 1] \in Tags /\ m[b + 1].size >= 4
               /\ Nx(m, b) \in (C \cup D) \cup {v} /\ Nx(m, b) <= v
    <3>1. u \in D \cup {v}
      BY <1>1, <1>2
    <3> QED
      BY <1>1, <3>1
  <2>2. ASSUME NEW b \in D
        PROVE  s <= b /\ b < v /\ m[b + 1] \in Tags /\ m[b + 1].size >= 4
               /\ Nx(m, b) \in (C \cup D) \cup {v} /\ Nx(m, b) <= v
    BY <1>1
  <2> QED
    BY <2>1, <2>2
<1>6. \A b, c \in C \cup D : b < c => Nx(m, b) <= c
  <2> SUFFICES ASSUME NEW b \in C \cup D, NEW c \in C \cup D, b < c
               PROVE  Nx(m, b) <= c
    OBVIOUS
  <2>1. CASE b \in C /\ c \in C
    BY <2>1 DEF Chain
  <2>2. CASE b \in D /\ c \in D
    BY <2>2 DEF Chain
  <2>3. CASE b \in C /\ c \in D
    BY <1>1, <2>3
  <2>4. CASE b \in D /\ c \in C
    BY <1>1, <2>4
  <2> QED
    BY <2>1, <2>2, <2>3, <2>4
<1>7. \A c \in C \cup D : c # s => \E b \in C \cup D : b < c /\ Nx(m, b) = c
  <2> SUFFICES ASSUME NEW c \in C \cup D, c # s
               PROVE  \E b \in C \cup D : b < c /\ Nx(m, b) = c
    OBVIOUS
  <2>1. CASE c \in C
    BY <2>1 DEF Chain
  <2>2. CASE c \in D /\ c # u
    BY <2>2 DEF Chain
  <2>3. CASE c \in D /\ c = u
    <3>1. s < u
      BY <1>1, <2>3
    <3>2. PICK b \in C : Nx(m, b) = u
      BY <1>3, <3>1
    <3> QED
      BY <1>1, <2>3, <3>2
  <2> QED
    BY <2>1, <2>2, <2>3
<1>8. s < v => s \in C \cup D /\ \E b \in C \cup D : Nx(m, b) = v
  <2> SUFFICES ASSUME s < v
               PROVE  s \in C \cup D /\ \E b \in C \cup D : Nx(m, b) = v
    OBVIOUS
  <2>1. CASE u < v
    BY <1>1, <1>2, <1>3, <2>1
  <2>2. CASE u = v
    BY <1>1, <1>3, <2>2
  <2> QED
    BY <1>1, <2>1, <2>2
<1>9. C \cup D \subseteq Even
  BY <1>1
<1>10. s <= v
  BY <1>1
<1> QED
  BY <1>1, <1>5, <1>6, <1>7, <1>8, <1>9, <1>10 DEF Chain

\* A chain is cut at any of its blocks.
LEMMA ChainCut ==
    ASSUME NEW m, NEW C, NEW s, NEW u, NEW v, Chain(m, C, s, v), u \in C \/ u = v
    PROVE  /\ Chain(m, {b \in C : b < u}, s, u)
           /\ Chain(m, {b \in C : b >= u}, u, v)
<1> DEFINE L == {b \in C : b < u}
           U == {b \in C : b >= u}
<1>1. /\ s \in Nat /\ v \in Nat /\ s <= v /\ s \in Even /\ v \in Even
      /\ \A b \in C : /\ b \in Nat /\ b \in Even /\ s <= b /\ b < v /\ Nx(m, b) \in Nat
                      /\ m[b + 1] \in Tags /\ m[b + 1].size >= 4
                      /\ Nx(m, b) <= v /\ Nx(m, b) \in C \cup {v} /\ b < Nx(m, b)
  <2>1. \A b \in C : b + 4 <= Nx(m, b) /\ b \in Nat /\ Nx(m, b) \in Nat
    BY ChainTypes
  <2>2. \A b \in C : b < Nx(m, b)
    BY <2>1
  <2> QED
    BY <2>2, ChainTypes
<1>2. u \in Nat /\ u \in Even /\ s <= u /\ u <= v
  BY <1>1
<1>3. \A b, c \in C : b < c => Nx(m, b) <= c
  BY DEF Chain
<1>4. \A c \in C : c # s => \E b \in C : b < c /\ Nx(m, b) = c
  BY DEF Chain
<1>5. s < v => s \in C /\ \E b \in C : Nx(m, b) = v
  BY DEF Chain
<1>6. \A b \in C : b < u => Nx(m, b) <= u
  <2> SUFFICES ASSUME NEW b \in C, b < u PROVE Nx(m, b) <= u
    OBVIOUS
  <2>1. CASE u \in C
    BY <1>3, <2>1
  <2>2. CASE u = v
    BY <1>1, <2>2
  <2> QED
    BY <2>1, <2>2
<1>7. Chain(m, L, s, u)
  <2>1. \A b \in L : /\ s <= b /\ b < u /\ m[b + 1] \in Tags /\ m[b + 1].size >= 4
                     /\ Nx(m, b) \in L \cup {u} /\ Nx(m, b) <= u
    <3> SUFFICES ASSUME NEW b \in L
                 PROVE  s <= b /\ b < u /\ m[b + 1] \in Tags /\ m[b + 1].size >= 4
                        /\ Nx(m, b) \in L \cup {u} /\ Nx(m, b) <= u
      OBVIOUS
    <3>1. b \in C /\ b < u /\ Nx(m, b) <= u /\ Nx(m, b) \in Nat
      BY <1>1, <1>6
    <3>2. Nx(m, b) \in L \cup {u}
      BY <1>1, <1>2, <3>1
    <3> QED
      BY <1>1, <3>1, <3>2
  <2>2. \A b, c \in L : b < c => Nx(m, b) <= c
    BY <1>3
  <2>3. \A c \in L : c # s => \E b \in L : b < c /\ Nx(m, b) = c
    <3> SUFFICES ASSUME NEW c \in L, c # s
                 PROVE  \E b \in L : b < c /\ Nx(m, b) = c
      OBVIOUS
    <3>1. PICK b \in C : b < c /\ Nx(m, b) = c
      BY <1>4
    <3>2. b < u
      BY <1>1, <1>2, <3>1
    <3> QED
      BY <3>1, <3>2
  <2>4. s < u => s \in L /\ \E b \in L : Nx(m, b) = u
    <3> SUFFICES ASSUME s < u
                 PROVE  s \in L /\ \E b \in L : Nx(m, b) = u
      OBVIOUS
    <3>1. s < v
      BY <1>1, <1>2
    <3>2. s \in L
      BY <1>5, <3>1
    <3>3. PICK b \in C : Nx(m, b) = u
      <4>1. CASE u \in C
        <5>1. u # s
          BY <1>1, <1>2
        <5> QED
          BY <1>4, <4>1, <5>1
      <4>2. CASE u = v
        BY <1>5, <3>1, <4>2
      <4> QED
        BY <4>1, <4>2
    <3>4. b < u
      BY <1>1, <3>3
    <3> QED
      BY <3>2, <3>3, <3>4
  <2>5. L \subseteq Even
    BY <1>1
  <2> HIDE DEF L
  <2> QED
    BY <1>1, <1>2, <2>1, <2>2, <2>3, <2>4, <2>5 DEF Chain
<1>8. Chain(m, U, u, v)
  <2>1. \A b \in U : /\ u <= b /\ b < v /\ m[b + 1] \in Tags /\ m[b + 1].size >= 4
                     /\ Nx(m, b) \in U \cup {v} /\ Nx(m, b) <= v
    <3> SUFFICES ASSUME NEW b \in U
                 PROVE  u <= b /\ b < v /\ m[b + 1] \in Tags /\ m[b + 1].size >= 4
                        /\ Nx(m, b) \in U \cup {v} /\ Nx(m, b) <= v
      OBVIOUS
    <3>1. b \in C /\ b >= u /\ b < Nx(m, b) /\ Nx(m, b) \in Nat /\ Nx(m, b) \in C \cup {v}
      BY <1>1
    <3>2. Nx(m, b) \in U \cup {v}
      BY <1>1, <1>2, <3>1
    <3> QED
      BY <1>1, <1>2, <3>1, <3>2
  <2>2. \A b, c \in U : b < c => Nx(m, b) <= c
    BY <1>3
  <2>3. \A c \in U : c # u => \E b \in U : b < c /\ Nx(m, b) = c
    <3> SUFFICES ASSUME NEW c \in U, c # u
                 PROVE  \E b \in U : b < c /\ Nx(m, b) = c
      OBVIOUS
    <3>1. c \in C /\ c > u /\ c # s
      BY <1>1, <1>2
    <3>2. PICK b \in C : b < c /\ Nx(m, b) = c
      BY <1>4, <3>1
    <3>3. b >= u
      BY <1>1, <1>2, <1>6, <3>1, <3>2
    <3> QED
      BY <3>2, <3>3
  <2>4. u < v => u \in U /\ \E b \in U : Nx(m, b) = v
    <3> SUFFICES ASSUME u < v
                 PROVE  u \in U /\ \E b \in U : Nx(m, b) = v
      OBVIOUS
    <3>1. s < v /\ u \in C /\ u >= u
      BY <1>1, <1>2
    <3>2. PICK b \in C : Nx(m, b) = v
      BY <1>5, <3>1
    <3>3. b >= u
      BY <1>1, <1>2, <1>6, <3>2
    <3> QED
      BY <3>1, <3>2, <3>3
  <2>5. U \subseteq Even
    BY <1>1
  <2> HIDE DEF U
  <2> QED
    BY <1>1, <1>2, <2>1, <2>2, <2>3, <2>4, <2>5 DEF Chain
<1> QED
  BY <1>7, <1>8

\* A chain depends only on the sizes in its headers.
LEMMA ChainFrame ==
    ASSUME NEW m, NEW k, NEW C, NEW s, NEW u, Chain(m, C, s, u),
           \A c \in C : k[c + 1] \in Tags /\ k[c + 1].size = m[c + 1].size
    PROVE  Chain(k, C, s, u)
<1>1. \A c \in C : Nx(k, c) = Nx(m, c)
  BY DEF Nx
<1> QED
  BY <1>1 DEF Chain

\* One block is a chain.
LEMMA ChainOne ==
    ASSUME NEW m, NEW s \in Even, NEW t \in Tags, t = m[s + 1], t.size >= 4
    PROVE  Chain(m, {s}, s, s + t.size)
<1>1. t.size \in Even /\ t.size \in Nat /\ s \in Nat /\ s + t.size \in Even
  BY TagFacts, EvenFacts
<1>2. Nx(m, s) = s + t.size
  BY DEF Nx
<1> HIDE DEF Nx
<1> DEFINE u == s + t.size
<1>3. s < u /\ s <= u /\ u \in Nat /\ u <= u
  BY <1>1
<1>4. Nx(m, s) = u /\ u \in Even
  BY <1>1, <1>2
<1> HIDE DEF u
<1>5. Chain(m, {s}, s, u)
  BY <1>1, <1>3, <1>4 DEF Chain
<1> QED
  BY <1>5 DEF u

-----------------------------------------------------------------------------
(* The blocks of a heap, and what their tags say of each other. *)

\* Blocks and headers of a heap in shape are at addresses of memory.
LEMMA ShapeTypes ==
    ASSUME NEW m, NEW C, NEW e, NEW y, Shape(m, C, e, y)
    PROVE  /\ m \in [Addr -> Words] /\ e \in Nat /\ e \in Even /\ e + 1 \in Addr /\ e \in Addr
           /\ m[e + 1] \in Tags /\ m[pro + 1] \in Tags /\ pro \in C /\ e \notin C /\ pro # e
           /\ e >= 4
           /\ \A b \in C : /\ b \in Nat /\ b \in Even /\ pro <= b /\ b < e
                           /\ b \in Addr /\ b + 1 \in Addr
                           /\ m[b + 1] \in Tags /\ m[b + 1].size \in Nat
                           /\ m[b + 1].size \in Even /\ m[b + 1].size >= 4
                           /\ Nx(m, b) = b + m[b + 1].size /\ Nx(m, b) \in Nat
                           /\ Nx(m, b) \in Even /\ Nx(m, b) <= e
                           /\ Nx(m, b) \in C \cup {e} /\ b + 4 <= Nx(m, b)
                           /\ Nx(m, b) \in Addr /\ Nx(m, b) + 1 \in Addr
<1>1. Chain(m, C, pro, e) /\ m \in [Addr -> Words] /\ pro < e /\ e + 1 \in Addr
      /\ m[e + 1] \in Tags /\ m[pro + 1] \in Tags
  BY DEF Shape, Epilogue, Prologue
<1>2. e \in Nat /\ e \in Even
  BY <1>1, ChainTypes
<1>3. \A b \in C : /\ b \in Nat /\ b \in Even /\ pro <= b /\ b < e
                   /\ m[b + 1] \in Tags /\ m[b + 1].size \in Nat
                   /\ m[b + 1].size \in Even /\ m[b + 1].size >= 4
                   /\ Nx(m, b) = b + m[b + 1].size /\ Nx(m, b) \in Nat
                   /\ Nx(m, b) \in Even /\ Nx(m, b) <= e
                   /\ Nx(m, b) \in C \cup {e} /\ b + 4 <= Nx(m, b)
  BY <1>1, ChainTypes
<1>4. pro \in C
  BY <1>1 DEF Chain
<1>5. \A n \in Nat : n <= e => n \in Addr /\ n + 1 \in Addr
  BY <1>1, <1>2, Bounds DEF Addr
<1>6. pro = 0
  BY DEF pro
<1>7. e \notin C
  BY <1>2, <1>3
<1>8. e >= 4
  BY <1>2, <1>3, <1>4, <1>6
<1> QED
  BY <1>1, <1>2, <1>3, <1>4, <1>5, <1>6, <1>7, <1>8

\* Blocks that lie before all that is written are as they were.
LEMMA LowerKept ==
    ASSUME NEW m, NEW C, NEW e, NEW x, NEW s, NEW k, NEW y,
           Shape(m, C, e, x), LowerSame(m, k, C, e, s, x, y)
    PROVE  LowerPart(m, k, C, s, y)
<1> DEFINE L == Below(C, s)
<1>0. /\ s \in C \cup {e} /\ s # pro
      /\ x = -1 \/ (x \in Nat /\ x >= s)
      /\ \A w \in Addr : w <= s => k[w] = m[w]
      /\ k[s + 1] \in Tags /\ k[s + 1].prv = m[s + 1].prv
      /\ k[s + 1].alloc = TRUE \/ m[s + 1].prv = TRUE \/ s = y
  BY DEF LowerSame
<1>1. m \in [Addr -> Words] /\ e \in Nat /\ pro \in C /\ e \in Addr /\ pro = 0 /\ pro # e
      /\ Chain(m, C, pro, e) /\ Prologue(m[pro + 1]) /\ \A b \in C : Joint(m, b, x)
  <2>1. m \in [Addr -> Words] /\ e \in Nat /\ pro \in C /\ e \in Addr /\ pro # e
    BY ShapeTypes
  <2>2. Chain(m, C, pro, e) /\ Prologue(m[pro + 1]) /\ \A b \in C : Joint(m, b, x)
    BY DEF Shape
  <2>3. pro = 0
    BY DEF pro
  <2> QED
    BY <1>0, <2>1, <2>2, <2>3
<1>2. s \in Nat /\ s > 0 /\ s \in Addr
  <2>1. \A b \in C : b \in Nat /\ b \in Addr
    BY ShapeTypes
  <2> QED
    BY <1>0, <1>1, <2>1
<1>3. \A b \in C : /\ b \in Nat /\ b \in Addr /\ b + 1 \in Addr /\ m[b + 1] \in Tags
                   /\ Nx(m, b) \in Nat /\ b + 4 <= Nx(m, b) /\ Nx(m, b) \in Addr
                   /\ Nx(m, b) + 1 \in Addr /\ Nx(m, b) \in C \cup {e}
  BY ShapeTypes
<1>4. \A b \in L : b \in C /\ b < s /\ b + 1 <= s /\ k[b + 1] = m[b + 1]
  BY <1>0, <1>2, <1>3 DEF Below
<1>5. Chain(m, L, pro, s)
  BY <1>0, <1>1, ChainCut DEF Below
<1>6. Chain(k, L, pro, s)
  <2>1. \A c \in L : k[c + 1] \in Tags /\ k[c + 1].size = m[c + 1].size
    BY <1>0, <1>3, <1>4
  <2> HIDE DEF L
  <2> QED
    BY <1>0, <1>5, <2>1, ChainFrame
<1>7. \A b \in L : Nx(m, b) <= s /\ Nx(k, b) = Nx(m, b)
  <2>1. \A b \in L : Nx(m, b) <= s
    <3> HIDE DEF L
    <3> QED
      BY <1>0, <1>5, ChainTypes
  <2> QED
    BY <1>0, <1>4, <2>1 DEF Nx
<1>8. ASSUME NEW b \in L
      PROVE  Joint(k, b, y)
  <2> DEFINE n == Nx(m, b)
  <2>0. b \in C /\ b < s /\ k[b + 1] = m[b + 1]
    BY <1>0, <1>4
  <2>6. b \in Nat /\ n \in Nat /\ n \in Addr /\ n + 1 \in Addr /\ b + 4 <= n
    BY <1>0, <1>3, <2>0
  <2>7. Nx(k, b) = n /\ n <= s /\ Joint(m, b, x)
    BY <1>0, <1>1, <1>7, <2>0
  <2> HIDE DEF n, L
  <2>1. b \in C /\ b < s /\ b \in Nat /\ k[b + 1] = m[b + 1] /\ Nx(k, b) = n /\ n <= s
        /\ n \in Nat /\ n \in Addr /\ n + 1 \in Addr /\ Joint(m, b, x) /\ b < n /\ b + 1 <= n
    BY <1>0, <2>0, <2>6, <2>7
  <2>2. k[n] = m[n]
    BY <1>0, <2>1
  <2>3. b # x /\ (n = x => n = s)
    BY <1>0, <1>2, <2>1
  <2>4. CASE n < s
    <3>1. k[n + 1] = m[n + 1]
      BY <1>0, <1>2, <2>1, <2>4
    <3>2. n # x
      BY <1>0, <1>2, <2>1, <2>3, <2>4
    <3>3. Joint(m, b, x) /\ Nx(m, b) = n
      BY <1>0, <2>1 DEF n
    <3> QED
      BY <1>0, <2>1, <2>2, <2>3, <3>1, <3>2, <3>3 DEF Joint
  <2>5. CASE n = s
    <3>1. Joint(m, b, x) /\ Nx(m, b) = n
      BY <1>0, <2>1 DEF n
    <3>2. m[s + 1].prv = m[b + 1].alloc
      BY <1>0, <2>5, <3>1 DEF Joint
    <3>3. k[n + 1].prv = k[b + 1].alloc
      BY <1>0, <2>1, <2>5, <3>2
    <3>4. k[n] \in Tags => k[n].size = k[b + 1].size
      BY <1>0, <2>1, <2>2, <3>1 DEF Joint
    <3>5. ASSUME k[b + 1].alloc = FALSE
          PROVE  /\ k[b + 1].qk = FALSE /\ k[n] \in Tags /\ k[n].alloc = FALSE
                 /\ k[n + 1].alloc = TRUE \/ b = y \/ n = y
      <4>1. m[b + 1].alloc = FALSE
        BY <1>0, <2>1, <3>5
      <4>2. m[b + 1].qk = FALSE /\ m[n] \in Tags /\ m[n].alloc = FALSE
        BY <1>0, <3>1, <4>1 DEF Joint
      <4>3. m[s + 1].prv = FALSE
        BY <1>0, <3>2, <4>1
      <4>4. m[s + 1].prv # TRUE
        BY <1>0, <4>3
      <4> QED
        BY <1>0, <2>1, <2>2, <2>5, <4>2, <4>4
    <3> QED
      BY <1>0, <2>1, <3>3, <3>4, <3>5 DEF Joint
  <2> QED
    BY <1>0, <1>2, <2>1, <2>4, <2>5
<1>9. Kept(m, k, L)
  <2> SUFFICES ASSUME NEW c \in L
               PROVE  /\ k[c + 1] \in Tags /\ Same(k[c + 1], m[c + 1])
                      /\ \A w \in Addr : c + 1 < w /\ w <= Nx(m, c) => k[w] = m[w]
    BY DEF Kept
  <2>1. k[c + 1] \in Tags /\ Same(k[c + 1], m[c + 1])
    BY <1>0, <1>3, <1>4 DEF Same
  <2>2. ASSUME NEW w \in Addr, w <= Nx(m, c)
        PROVE  k[w] = m[w]
    <3>1. w \in Int /\ Nx(m, c) \in Nat /\ Nx(m, c) <= s
      BY <1>0, <1>3, <1>4, <1>7 DEF Addr
    <3>2. w <= s
      BY <1>0, <1>2, <2>2, <3>1
    <3> QED
      BY <1>0, <3>2
  <2> QED
    BY <1>0, <2>1, <2>2
<1>10. Prologue(k[pro + 1])
  <2>1. pro \in L
    BY <1>0, <1>1, <1>2 DEF Below
  <2> QED
    BY <1>0, <1>1, <1>4, <2>1
<1> QED
  BY <1>1, <1>2, <1>6, <1>8, <1>9, <1>10 DEF LowerPart

-----------------------------------------------------------------------------
\* A piece of the heap is rewritten.

\* Blocks that lie after all that is written are as they were.
LEMMA UpperKept ==
    ASSUME NEW m, NEW C, NEW e, NEW x, NEW u, NEW k, NEW y,
           Shape(m, C, e, x), UpperSame(m, k, C, e, u, x, y)
    PROVE  UpperPart(m, k, C, e, u, y)
<1> DEFINE U == From(C, u)
<1>0. /\ u \in C \cup {e} /\ u # pro
      /\ x = y \/ (x \in Int /\ x < u)
      /\ \A w \in Addr : w > u + 1 => k[w] = m[w]
      /\ k[u + 1] \in Tags /\ Same(k[u + 1], m[u + 1])
  BY DEF UpperSame
<1>1. /\ m \in [Addr -> Words] /\ e \in Nat /\ e + 1 \in Addr /\ pro \in C
      /\ m[e + 1] \in Tags
  BY ShapeTypes
<1>2. Chain(m, C, pro, e) /\ Epilogue(m[e + 1]) /\ \A b \in C : Joint(m, b, x)
  BY DEF Shape
<1>3. \A b \in C : /\ b \in Nat /\ b \in Addr /\ b + 1 \in Addr /\ m[b + 1] \in Tags /\ b < e
                   /\ Nx(m, b) \in Nat /\ b + 4 <= Nx(m, b) /\ Nx(m, b) \in Addr
                   /\ Nx(m, b) + 1 \in Addr /\ Nx(m, b) \in C \cup {e} /\ Nx(m, b) <= e
  BY ShapeTypes
<1>4. u \in Nat /\ u <= e
  BY <1>0, <1>1, <1>3
<1>5. \A w \in Addr : w \in Int
  BY DEF Addr
<1>6. \A b \in U : b \in C /\ b >= u
  BY DEF From
\* A header at u or after it says what it said, but for prv at u.
<1>7. ASSUME NEW b \in U \cup {e}
      PROVE  /\ k[b + 1] \in Tags /\ Same(k[b + 1], m[b + 1])
             /\ b # u => k[b + 1] = m[b + 1]
  <2>1. b \in Nat /\ b >= u /\ b + 1 \in Addr /\ m[b + 1] \in Tags
    BY <1>0, <1>1, <1>3, <1>4, <1>6
  <2>2. CASE b = u
    BY <1>0, <2>2
  <2>3. CASE b # u
    <3>1. b + 1 > u + 1
      BY <1>0, <1>4, <2>1, <2>3
    <3>2. k[b + 1] = m[b + 1]
      BY <1>0, <2>1, <3>1
    <3> QED
      BY <1>0, <2>1, <2>3, <3>2 DEF Same
  <2> QED
    BY <1>0, <2>2, <2>3
<1>8. Chain(m, U, u, e)
  BY <1>0, <1>2, ChainCut DEF From
<1>9. Chain(k, U, u, e)
  <2>1. \A c \in U : k[c + 1] \in Tags /\ k[c + 1].size = m[c + 1].size
    BY <1>0, <1>7 DEF Same
  <2> HIDE DEF U
  <2> QED
    BY <1>0, <1>8, <2>1, ChainFrame
<1>10. \A b \in U : Nx(k, b) = Nx(m, b)
  BY <1>0, <1>7 DEF Nx, Same
<1>11. ASSUME NEW b \in U
       PROVE  Joint(k, b, y)
  <2>1. PICK n : n = Nx(m, b)
    OBVIOUS
  <2>2. b \in C /\ b >= u /\ Joint(m, b, x) /\ n \in Nat /\ n \in Addr /\ n + 1 \in Addr
        /\ n \in C \cup {e} /\ b + 4 <= n /\ b \in Nat
    BY <1>0, <1>2, <1>3, <1>6, <2>1
  <2>3. n > u + 1 /\ n >= u /\ n # u
    BY <1>0, <1>4, <2>2
  <2>4. n \in U \cup {e}
    BY <1>0, <2>2, <2>3 DEF From
  <2>5. k[n] = m[n] /\ k[n + 1] = m[n + 1]
    BY <1>0, <1>7, <2>2, <2>3, <2>4
  <2>6. Same(k[b + 1], m[b + 1]) /\ Nx(k, b) = n
    BY <1>0, <1>7, <1>10, <2>1
  <2>7. x # y => b # x /\ n # x
    BY <1>0, <1>4, <2>2, <2>3
  <2> QED
    BY <1>0, <2>1, <2>2, <2>5, <2>6, <2>7 DEF Joint, Same
<1>12. Kept(m, k, U)
  <2> SUFFICES ASSUME NEW c \in U, NEW w \in Addr, c + 1 < w
               PROVE  k[w] = m[w]
    BY <1>0, <1>7 DEF Kept
  <2>1. w \in Int /\ c \in Nat /\ c >= u
    BY <1>0, <1>3, <1>5, <1>6
  <2>2. w > u + 1
    BY <1>0, <1>4, <2>1
  <2> QED
    BY <1>0, <2>2
<1>13. Epilogue(k[e + 1])
  <2>1. k[e + 1] \in Tags /\ Same(k[e + 1], m[e + 1])
    BY <1>0, <1>7
  <2> QED
    BY <1>0, <1>2, <2>1 DEF Epilogue, Same
<1> QED
  BY <1>9, <1>11, <1>12, <1>13 DEF UpperPart

\* No block is a chain that ends where it starts.
LEMMA ChainEmpty ==
    ASSUME NEW m, NEW u \in Even
    PROVE  Chain(m, {}, u, u)
<1>1. u \in Nat
  BY EvenFacts
<1> QED
  BY <1>1 DEF Chain

\* What is kept of two sets of blocks is kept of both.
LEMMA KeptUnion ==
    ASSUME NEW m, NEW k, NEW C, NEW D, Kept(m, k, C), Kept(m, k, D)
    PROVE  Kept(m, k, C \cup D)
BY DEF Kept

\* A lower part, a piece and an upper part make a heap.
LEMMA Assemble ==
    ASSUME NEW k \in [Addr -> Words], NEW L, NEW N, NEW U, NEW s, NEW u, NEW e, NEW y,
           Chain(k, L, pro, s), Chain(k, N, s, u), Chain(k, U, u, e), pro < e, e + 1 \in Addr,
           \A b \in L \cup N \cup U : Joint(k, b, y),
           Epilogue(k[e + 1]), Prologue(k[pro + 1])
    PROVE  Shape(k, L \cup N \cup U, e, y)
<1>1. Chain(k, L \cup N, pro, u)
  BY ChainGlue
<1>2. Chain(k, L \cup N \cup U, pro, e)
  BY <1>1, ChainGlue
<1> QED
  BY <1>2 DEF Shape

\* The blocks from s to u are replaced by a chain that fits in their place:
\* the heap is in shape, and the other blocks are as they were.
LEMMA Rebuild ==
    ASSUME NEW m, NEW C, NEW e, NEW x, Shape(m, C, e, x), NEW k \in [Addr -> Words],
           NEW s, NEW u, NEW y, NEW N, Rewrites(m, k, C, e, x, s, u, y),
           Chain(k, N, s, u), \A b \in N : Joint(k, b, y)
    PROVE  /\ Shape(k, (C \ Between(C, s, u)) \cup N, e, y)
           /\ Kept(m, k, C \ Between(C, s, u))
<1>1. /\ s \in C /\ s # pro /\ u \in C \cup {e} /\ s < u
      /\ x = -1 \/ (x \in Nat /\ x >= s)
      /\ x = y \/ x < u
      /\ \A w \in Addr : w <= s \/ w > u + 1 => k[w] = m[w]
      /\ k[s + 1] \in Tags /\ k[s + 1].prv = m[s + 1].prv
      /\ k[s + 1].alloc = TRUE \/ m[s + 1].prv = TRUE \/ s = y
      /\ k[u + 1] \in Tags /\ Same(k[u + 1], m[u + 1])
  BY DEF Rewrites
<1>2. /\ e \in Nat /\ e + 1 \in Addr /\ pro # e /\ e >= 4 /\ pro \in C
      /\ \A b \in C : b \in Nat /\ b < e /\ pro <= b
  BY ShapeTypes
<1>3. s \in Nat /\ u \in Nat /\ pro \in Nat /\ pro < e
  BY <1>1, <1>2 DEF pro
<1>4. u # pro
  BY <1>1, <1>2, <1>3
<1>5. LowerPart(m, k, C, s, y)
  <2>1. LowerSame(m, k, C, e, s, x, y)
    BY <1>1 DEF LowerSame
  <2> QED
    BY <2>1, LowerKept
<1>6. UpperPart(m, k, C, e, u, y)
  <2>1. x = y \/ (x \in Int /\ x < u)
    BY <1>1, <1>3
  <2>2. UpperSame(m, k, C, e, u, x, y)
    BY <1>1, <1>4, <2>1 DEF UpperSame
  <2> QED
    BY <2>2, UpperKept
<1>7. C \ Between(C, s, u) = Below(C, s) \cup From(C, u)
  <2>1. \A b \in C : ~(s <= b /\ b < u) <=> b < s \/ b >= u
    BY <1>1, <1>2, <1>3
  <2> QED
    BY <2>1 DEF Between, Below, From
<1>8. Shape(k, Below(C, s) \cup N \cup From(C, u), e, y)
  <2>1. \A b \in Below(C, s) \cup N \cup From(C, u) : Joint(k, b, y)
    BY <1>5, <1>6 DEF LowerPart, UpperPart
  <2>2. /\ Chain(k, Below(C, s), pro, s) /\ Prologue(k[pro + 1])
        /\ Chain(k, From(C, u), u, e) /\ Epilogue(k[e + 1])
    BY <1>5, <1>6 DEF LowerPart, UpperPart
  <2> QED
    BY <1>2, <1>3, <2>1, <2>2, Assemble
<1>9. Below(C, s) \cup N \cup From(C, u) = (C \ Between(C, s, u)) \cup N
  BY <1>7
<1>10. Kept(m, k, Below(C, s) \cup From(C, u))
  <2>1. Kept(m, k, Below(C, s)) /\ Kept(m, k, From(C, u))
    BY <1>5, <1>6 DEF LowerPart, UpperPart
  <2> QED
    BY <2>1, KeptUnion
<1> QED
  BY <1>7, <1>8, <1>9, <1>10

-----------------------------------------------------------------------------
\* Lists.

\* The places of a list and what is in them.
LEMMA ListFacts ==
    ASSUME NEW t, NEW S, Lists(t, S)
    PROVE  /\ t \in Seq(Even) /\ Len(t) \in Nat /\ S \subseteq Even
           /\ \A i \in 1 .. Len(t) : t[i] \in S
           /\ \A b \in S : \E i \in 1 .. Len(t) : t[i] = b
           /\ \A i, j \in 1 .. Len(t) : t[i] = t[j] => i = j
<1>1. t \in Seq(Even) /\ DOMAIN t = 1 .. Len(t) /\ Len(t) \in Nat
  BY LenProperties DEF Lists
<1>2. S = {t[i] : i \in 1 .. Len(t)}
  BY <1>1 DEF Lists, ToSet
<1>3. \A i \in 1 .. Len(t) : t[i] \in Even
  BY <1>1, ElementOfSeq
<1>4. \A i, j \in 1 .. Len(t) : t[i] = t[j] => i = j
  BY <1>1 DEF Lists, IsInjective
<1> QED
  BY <1>1, <1>2, <1>3, <1>4

\* What makes a list of a set.
LEMMA ListIs ==
    ASSUME NEW t \in Seq(Even), NEW S,
           \A i \in 1 .. Len(t) : t[i] \in S,
           \A b \in S : \E i \in 1 .. Len(t) : t[i] = b,
           \A i, j \in 1 .. Len(t) : t[i] = t[j] => i = j
    PROVE  Lists(t, S)
<1>1. DOMAIN t = 1 .. Len(t)
  BY LenProperties
<1>2. ToSet(t) = S
  BY <1>1 DEF ToSet
<1>3. IsInjective(t)
  BY <1>1 DEF IsInjective
<1> QED
  BY <1>2, <1>3 DEF Lists

\* put_block and the quick lists add at the front.
LEMMA ListCons ==
    ASSUME NEW t, NEW S, NEW b \in Even, Lists(t, S), b \notin S
    PROVE  Lists(Cons(b, t), S \cup {b}) /\ Len(Cons(b, t)) = Len(t) + 1
<1>0. <<b>> \in Seq(Even) /\ Len(<<b>>) = 1 /\ <<b>>[1] = b
  OBVIOUS
<1>1. PICK one : one = <<b>>
  OBVIOUS
<1>2. one \in Seq(Even) /\ Len(one) = 1 /\ one[1] = b
  BY <1>0, <1>1
<1>3. /\ t \in Seq(Even) /\ Len(t) \in Nat /\ S \subseteq Even
      /\ \A i \in 1 .. Len(t) : t[i] \in S
      /\ \A c \in S : \E i \in 1 .. Len(t) : t[i] = c
      /\ \A i, j \in 1 .. Len(t) : t[i] = t[j] => i = j
  BY ListFacts
<1>4. PICK r : r = one \o t
  OBVIOUS
<1>5. /\ r \in Seq(Even) /\ Len(r) = 1 + Len(t)
      /\ \A i \in 1 .. 1 + Len(t) : r[i] = IF i <= 1 THEN one[i] ELSE t[i - 1]
  <2>1. /\ one \o t \in Seq(Even) /\ Len(one \o t) = Len(one) + Len(t)
        /\ \A i \in 1 .. Len(one) + Len(t) :
              (one \o t)[i] = IF i <= Len(one) THEN one[i] ELSE t[i - Len(one)]
    <3>1. one \in Seq(Even) /\ t \in Seq(Even)
      BY <1>2, <1>3
    <3> QED
      BY <3>1, ConcatProperties
  <2> QED
    BY <1>2, <1>4, <2>1
<1>6. r[1] = b /\ \A i \in 2 .. Len(r) : i - 1 \in 1 .. Len(t) /\ r[i] = t[i - 1]
  BY <1>2, <1>3, <1>5
<1>7. \A i \in 1 .. Len(r) : r[i] \in S \cup {b}
  <2> SUFFICES ASSUME NEW i \in 1 .. Len(r) PROVE r[i] \in S \cup {b}
    OBVIOUS
  <2>1. i = 1 \/ i \in 2 .. Len(r)
    BY <1>3, <1>5
  <2> QED
    BY <1>3, <1>6, <2>1
<1>8. \A c \in S \cup {b} : \E i \in 1 .. Len(r) : r[i] = c
  <2> SUFFICES ASSUME NEW c \in S \cup {b} PROVE \E i \in 1 .. Len(r) : r[i] = c
    OBVIOUS
  <2>1. CASE c = b
    BY <1>3, <1>5, <1>6, <2>1
  <2>2. CASE c \in S
    <3>1. PICK i \in 1 .. Len(t) : t[i] = c
      BY <1>3, <2>2
    <3>2. i + 1 \in 2 .. Len(r) /\ i + 1 \in 1 .. Len(r) /\ (i + 1) - 1 = i
      BY <1>3, <1>5
    <3> QED
      BY <1>6, <3>1, <3>2
  <2> QED
    BY <2>1, <2>2
<1>9. \A i, j \in 1 .. Len(r) : r[i] = r[j] => i = j
  <2> SUFFICES ASSUME NEW i \in 1 .. Len(r), NEW j \in 1 .. Len(r), r[i] = r[j]
               PROVE  i = j
    OBVIOUS
  <2>1. (i = 1 \/ i \in 2 .. Len(r)) /\ (j = 1 \/ j \in 2 .. Len(r))
    BY <1>3, <1>5
  <2>2. CASE i = 1 /\ j = 1
    BY <2>2
  <2>3. CASE i \in 2 .. Len(r) /\ j \in 2 .. Len(r)
    <3>0. /\ i - 1 \in 1 .. Len(t) /\ j - 1 \in 1 .. Len(t)
          /\ r[i] = t[i - 1] /\ r[j] = t[j - 1]
      BY <1>6, <2>3
    <3>1. i - 1 = j - 1
      BY <1>3, <3>0
    <3> QED
      BY <3>1
  <2>4. CASE i = 1 /\ j \in 2 .. Len(r)
    BY <1>3, <1>6, <2>4
  <2>5. CASE i \in 2 .. Len(r) /\ j = 1
    BY <1>3, <1>6, <2>5
  <2> QED
    BY <2>1, <2>2, <2>3, <2>4, <2>5
<1>10. Lists(r, S \cup {b})
  BY <1>5, <1>7, <1>8, <1>9, ListIs
<1>11. Cons(b, t) = r
  BY <1>1, <1>4 DEF Cons
<1> QED
  BY <1>3, <1>5, <1>10, <1>11

\* The first of a list is taken.
LEMMA ListTail ==
    ASSUME NEW t, NEW S, Lists(t, S), t # <<>>
    PROVE  /\ Head(t) \in S /\ Lists(Tail(t), S \ {Head(t)}) /\ Len(Tail(t)) <= Len(t)
<1>1. /\ t \in Seq(Even) /\ Len(t) \in Nat /\ S \subseteq Even
      /\ \A i \in 1 .. Len(t) : t[i] \in S
      /\ \A c \in S : \E i \in 1 .. Len(t) : t[i] = c
      /\ \A i, j \in 1 .. Len(t) : t[i] = t[j] => i = j
  BY ListFacts
<1>2. PICK r : r = Tail(t)
  OBVIOUS
<1>3. /\ r \in Seq(Even) /\ Len(r) = Len(t) - 1 /\ \A i \in 1 .. Len(r) : r[i] = t[i + 1]
  BY <1>1, <1>2, HeadTailProperties
<1>4. Head(t) = t[1] /\ 1 \in 1 .. Len(t)
  <2>1. Len(t) # 0
    BY <1>1, EmptySeq
  <2> QED
    BY <1>1, <2>1
<1>5. \A i \in 1 .. Len(r) : i + 1 \in 1 .. Len(t) /\ i + 1 # 1
  BY <1>1, <1>3
<1>6. \A i \in 1 .. Len(r) : r[i] \in S \ {t[1]}
  BY <1>1, <1>3, <1>4, <1>5
<1>7. \A c \in S \ {t[1]} : \E i \in 1 .. Len(r) : r[i] = c
  <2> SUFFICES ASSUME NEW c \in S, c # t[1] PROVE \E i \in 1 .. Len(r) : r[i] = c
    OBVIOUS
  <2>1. PICK i \in 1 .. Len(t) : t[i] = c
    BY <1>1
  <2>2. i - 1 \in 1 .. Len(r) /\ (i - 1) + 1 = i
    BY <1>1, <1>3, <2>1
  <2>3. r[i - 1] = t[(i - 1) + 1]
    BY <1>3, <2>2
  <2> QED
    BY <2>1, <2>2, <2>3
<1>8. \A i, j \in 1 .. Len(r) : r[i] = r[j] => i = j
  <2> SUFFICES ASSUME NEW i \in 1 .. Len(r), NEW j \in 1 .. Len(r), r[i] = r[j]
               PROVE  i = j
    OBVIOUS
  <2>1. i + 1 = j + 1
    BY <1>1, <1>3, <1>5
  <2> QED
    BY <2>1
<1>9. Lists(r, S \ {t[1]})
  BY <1>3, <1>6, <1>7, <1>8, ListIs
<1> QED
  BY <1>1, <1>2, <1>3, <1>4, <1>9

\* remove_list.
LEMMA ListRemove ==
    ASSUME NEW t, NEW S, NEW b, Lists(t, S)
    PROVE  Lists(RemoveFirst(t, b), S \ {b})
<1>1. /\ t \in Seq(Even) /\ Len(t) \in Nat /\ S \subseteq Even
      /\ \A i \in 1 .. Len(t) : t[i] \in S
      /\ \A c \in S : \E i \in 1 .. Len(t) : t[i] = c
      /\ \A i, j \in 1 .. Len(t) : t[i] = t[j] => i = j
  BY ListFacts
<1>2. CASE ~ \E i \in 1 .. Len(t) : t[i] = b
  <2>1. RemoveFirst(t, b) = t
    BY <1>2 DEF RemoveFirst
  <2>2. S \ {b} = S
    BY <1>1, <1>2
  <2> QED
    BY <2>1, <2>2
<1>3. CASE \E i \in 1 .. Len(t) : t[i] = b
  <2>1. PICK n \in 1 .. Len(t) : t[n] = b
    BY <1>3
  <2>2. n \in Nat /\ n >= 1 /\ n <= Len(t) /\ n \in Int
    BY <1>1, <2>1
  <2>3. RemoveFirst(t, b) = SubSeq(t, 1, n - 1) \o SubSeq(t, n + 1, Len(t))
    <3>1. {i \in 1 .. Len(t) : t[i] = b} = {n}
      BY <1>1, <2>1
    <3>2. Min({n}) = n
      <4>1. {n} \in SUBSET Nat /\ {n} # {}
        BY <2>2
      <4>2. Min({n}) \in {n}
        BY <4>1, MinFacts
      <4> QED
        BY <4>2
    <3>3. SelectInSeq(t, LAMBDA v : v = b) = n
      BY <3>1, <3>2 DEF SelectInSeq
    <3> QED
      BY <1>3, <3>3 DEF RemoveFirst, RemoveAt
  <2>4. PICK u : u = SubSeq(t, 1, n - 1)
    OBVIOUS
  <2>5. PICK v : v = SubSeq(t, n + 1, Len(t))
    OBVIOUS
  <2>6. /\ u \in Seq(Even) /\ Len(u) = n - 1 /\ \A i \in 1 .. n - 1 : u[i] = t[i]
    <3>1. \A i \in 1 .. n - 1 : t[i] \in Even
      BY <1>1, <2>2
    <3>2. n - 1 \in Int /\ 1 \in Int
      BY <2>2
    <3>3. /\ SubSeq(t, 1, n - 1) \in Seq(Even)
          /\ Len(SubSeq(t, 1, n - 1)) = IF 1 <= n - 1 THEN (n - 1) - 1 + 1 ELSE 0
          /\ \A i \in 1 .. (n - 1) - 1 + 1 : SubSeq(t, 1, n - 1)[i] = t[1 + i - 1]
      BY <3>1, <3>2, SubSeqProperties
    <3>4. /\ u \in Seq(Even)
          /\ Len(u) = IF 1 <= n - 1 THEN (n - 1) - 1 + 1 ELSE 0
          /\ \A i \in 1 .. (n - 1) - 1 + 1 : u[i] = t[1 + i - 1]
      BY <2>4, <3>3
    <3>5. Len(u) = n - 1
      BY <2>2, <3>4
    <3>6. \A i \in 1 .. n - 1 : 1 + i - 1 = i /\ i \in 1 .. (n - 1) - 1 + 1
      BY <2>2
    <3> QED
      BY <3>4, <3>5, <3>6
  <2>7. /\ v \in Seq(Even) /\ Len(v) = Len(t) - n
        /\ \A i \in 1 .. Len(t) - n : v[i] = t[n + i]
    <3>1. \A i \in n + 1 .. Len(t) : t[i] \in Even
      BY <1>1, <2>2
    <3>2. n + 1 \in Int /\ Len(t) \in Int
      BY <1>1, <2>2
    <3>3. /\ SubSeq(t, n + 1, Len(t)) \in Seq(Even)
          /\ Len(SubSeq(t, n + 1, Len(t))) = IF n + 1 <= Len(t) THEN Len(t) - (n + 1) + 1 ELSE 0
          /\ \A i \in 1 .. Len(t) - (n + 1) + 1 : SubSeq(t, n + 1, Len(t))[i] = t[n + 1 + i - 1]
      BY <3>1, <3>2, SubSeqProperties
    <3>4. /\ v \in Seq(Even)
          /\ Len(v) = IF n + 1 <= Len(t) THEN Len(t) - (n + 1) + 1 ELSE 0
          /\ \A i \in 1 .. Len(t) - (n + 1) + 1 : v[i] = t[n + 1 + i - 1]
      BY <2>5, <3>3
    <3>5. Len(v) = Len(t) - n
      BY <1>1, <2>2, <3>4
    <3>6. \A i \in 1 .. Len(t) - n : n + 1 + i - 1 = n + i /\ i \in 1 .. Len(t) - (n + 1) + 1
      BY <1>1, <2>2
    <3> QED
      BY <3>4, <3>5, <3>6
  <2>8. PICK r : r = u \o v
    OBVIOUS
  <2>9. /\ r \in Seq(Even) /\ Len(r) = Len(u) + Len(v)
        /\ \A i \in 1 .. Len(u) + Len(v) : r[i] = IF i <= Len(u) THEN u[i] ELSE v[i - Len(u)]
    BY <2>6, <2>7, <2>8, ConcatProperties
  <2>10. /\ Len(r) = Len(t) - 1 /\ Len(r) \in Nat
         /\ \A i \in 1 .. Len(r) : i < n => r[i] = t[i]
         /\ \A i \in 1 .. Len(r) : i >= n => r[i] = t[i + 1]
    <3>1. Len(r) = Len(t) - 1 /\ Len(r) \in Nat
      BY <1>1, <2>2, <2>6, <2>7, <2>9
    <3>2. ASSUME NEW i \in 1 .. Len(r), i < n
          PROVE  r[i] = t[i]
      <4>1. i \in 1 .. n - 1 /\ i <= Len(u) /\ i \in 1 .. Len(u) + Len(v)
        BY <2>2, <2>6, <2>9, <3>2
      <4> QED
        BY <2>6, <2>9, <4>1
    <3>3. ASSUME NEW i \in 1 .. Len(r), i >= n
          PROVE  r[i] = t[i + 1]
      <4>1. ~(i <= Len(u)) /\ i \in 1 .. Len(u) + Len(v) /\ i - Len(u) = i - (n - 1)
        BY <2>2, <2>6, <2>9, <3>3
      <4>2. i - (n - 1) \in 1 .. Len(t) - n /\ n + (i - (n - 1)) = i + 1
        BY <1>1, <2>2, <3>1, <3>3
      <4>3. r[i] = v[i - (n - 1)]
        BY <2>9, <4>1
      <4>4. v[i - (n - 1)] = t[n + (i - (n - 1))]
        BY <2>7, <4>2
      <4> QED
        BY <4>2, <4>3, <4>4
    <3> QED
      BY <3>1, <3>2, <3>3
  <2>11. \A i \in 1 .. Len(r) : r[i] \in S \ {b}
    <3> SUFFICES ASSUME NEW i \in 1 .. Len(r) PROVE r[i] \in S \ {b}
      OBVIOUS
    <3>1. i \in 1 .. Len(t) /\ i + 1 \in 1 .. Len(t) /\ i + 1 # i /\ i \in Int
      BY <1>1, <2>10
    <3>2. CASE i < n
      <4>1. r[i] = t[i] /\ i # n
        BY <2>2, <2>10, <3>1, <3>2
      <4> QED
        BY <1>1, <2>1, <3>1, <4>1
    <3>3. CASE i >= n
      <4>1. r[i] = t[i + 1] /\ i + 1 # n
        BY <2>2, <2>10, <3>1, <3>3
      <4> QED
        BY <1>1, <2>1, <3>1, <4>1
    <3> QED
      BY <2>2, <3>1, <3>2, <3>3
  <2>12. \A c \in S \ {b} : \E i \in 1 .. Len(r) : r[i] = c
    <3> SUFFICES ASSUME NEW c \in S, c # b PROVE \E i \in 1 .. Len(r) : r[i] = c
      OBVIOUS
    <3>1. PICK i \in 1 .. Len(t) : t[i] = c
      BY <1>1
    <3>2. i # n /\ i \in Int
      BY <2>1, <3>1
    <3>3. CASE i < n
      <4>1. i \in 1 .. Len(r)
        BY <1>1, <2>2, <2>10, <3>1, <3>3
      <4> QED
        BY <2>10, <3>1, <3>3, <4>1
    <3>4. CASE i > n
      <4>1. i - 1 \in 1 .. Len(r) /\ i - 1 >= n /\ (i - 1) + 1 = i
        BY <1>1, <2>2, <2>10, <3>1, <3>4
      <4>2. r[i - 1] = t[(i - 1) + 1]
        BY <2>10, <4>1
      <4> QED
        BY <3>1, <4>1, <4>2
    <3> QED
      BY <2>2, <3>2, <3>3, <3>4
  <2>13. \A i, j \in 1 .. Len(r) : r[i] = r[j] => i = j
    <3> SUFFICES ASSUME NEW i \in 1 .. Len(r), NEW j \in 1 .. Len(r), r[i] = r[j]
                 PROVE  i = j
      OBVIOUS
    <3>1. \A x \in 1 .. Len(r) : /\ x \in Int /\ x \in 1 .. Len(t) /\ x + 1 \in 1 .. Len(t)
                                 /\ \/ x < n /\ r[x] = t[x]
                                    \/ x >= n /\ r[x] = t[x + 1]
      <4> SUFFICES ASSUME NEW x \in 1 .. Len(r)
                   PROVE  /\ x \in Int /\ x \in 1 .. Len(t) /\ x + 1 \in 1 .. Len(t)
                          /\ \/ x < n /\ r[x] = t[x]
                             \/ x >= n /\ r[x] = t[x + 1]
        OBVIOUS
      <4>1. x \in Int /\ x \in 1 .. Len(t) /\ x + 1 \in 1 .. Len(t)
        BY <1>1, <2>10
      <4>2. x < n \/ x >= n
        BY <2>2, <4>1
      <4>3. x < n => r[x] = t[x]
        BY <2>10
      <4>4. x >= n => r[x] = t[x + 1]
        BY <2>10
      <4> QED
        BY <4>1, <4>2, <4>3, <4>4
    <3>2. CASE i < n /\ j < n
      <4>1. t[i] = t[j]
        BY <3>1, <3>2
      <4> QED
        BY <1>1, <3>1, <4>1
    <3>3. CASE i >= n /\ j >= n
      <4>1. t[i + 1] = t[j + 1]
        BY <2>2, <3>1, <3>3
      <4>2. i + 1 = j + 1
        BY <1>1, <3>1, <4>1
      <4> QED
        BY <4>2
    <3>4. CASE i < n /\ j >= n
      <4>1. t[i] = t[j + 1]
        BY <2>2, <3>1, <3>4
      <4>2. i = j + 1
        BY <1>1, <3>1, <4>1
      <4> QED
        BY <2>2, <3>4, <4>2
    <3>5. CASE i >= n /\ j < n
      <4>1. t[i + 1] = t[j]
        BY <2>2, <3>1, <3>5
      <4>2. i + 1 = j
        BY <1>1, <3>1, <4>1
      <4> QED
        BY <2>2, <3>5, <4>2
    <3> QED
      BY <2>2, <3>2, <3>3, <3>4, <3>5
  <2>14. Lists(r, S \ {b})
    BY <2>9, <2>11, <2>12, <2>13, ListIs
  <2> QED
    BY <2>3, <2>4, <2>5, <2>8, <2>14
<1> QED
  BY <1>2, <1>3

-----------------------------------------------------------------------------
\* Sound heaps.

\* A sound heap is in shape, with an epilogue at its end and no fault.
LEMMA SoundFacts ==
    ASSUME NEW h, NEW C, NEW y, NEW X, Sound(h, C, y, X)
    PROVE  /\ h \in Heaps /\ h.mem \in [Addr -> Words] /\ h.epi \in Nat /\ h.epi \in Even
           /\ h.epi + 1 \in Addr /\ h.end = h.epi + 2 /\ h.fault = "none"
           /\ h.mem[h.epi + 1] \in Tags /\ Epilogue(h.mem[h.epi + 1])
           /\ pro \in C /\ h.epi \notin C /\ pro # h.epi
           /\ h.mem[pro + 1] \in Tags /\ h.mem[pro + 1].alloc = TRUE
           /\ Shape(h.mem, C, h.epi, y)
<1>1. h \in Heaps /\ h.epi = h.end - 2 /\ Shape(h.mem, C, h.epi, y) /\ h.fault = "none"
  BY DEF Sound
<1>2. h.end \in Even /\ h.end \in Nat
  BY <1>1, HeapFacts, EvenFacts
<1>3. h.end = h.epi + 2
  BY <1>1, <1>2
<1>4. Epilogue(h.mem[h.epi + 1]) /\ Prologue(h.mem[pro + 1])
  BY <1>1 DEF Shape
<1>5. h.mem[pro + 1].alloc = TRUE
  BY <1>4 DEF Prologue
<1> QED
  BY <1>1, <1>3, <1>4, <1>5, ShapeTypes

\* A block of a sound heap: its header, its size, and where the next one is.
LEMMA BlockTypes ==
    ASSUME NEW h, NEW C, NEW y, NEW X, Sound(h, C, y, X), NEW b \in C
    PROVE  /\ b \in Nat /\ b \in Even /\ b < h.epi /\ b # h.epi /\ b \in Addr /\ b + 1 \in Addr
           /\ h.mem[b + 1] \in Tags /\ h.mem[b + 1].size \in Nat
           /\ h.mem[b + 1].size \in Even /\ h.mem[b + 1].size >= 4
           /\ Nx(h.mem, b) = b + h.mem[b + 1].size /\ Nx(h.mem, b) \in Nat
           /\ Nx(h.mem, b) \in Even /\ Nx(h.mem, b) <= h.epi
           /\ Nx(h.mem, b) \in C \cup {h.epi} /\ b + 4 <= Nx(h.mem, b)
           /\ Nx(h.mem, b) \in Addr /\ Nx(h.mem, b) + 1 \in Addr
           /\ h.mem[Nx(h.mem, b) + 1] \in Tags
           /\ Joint(h.mem, b, y)
<1>1. Shape(h.mem, C, h.epi, y) /\ h.mem[h.epi + 1] \in Tags /\ h.epi \in Nat
  BY SoundFacts
<1>2. /\ b \in Nat /\ b \in Even /\ b < h.epi /\ b \in Addr /\ b + 1 \in Addr
      /\ h.mem[b + 1] \in Tags /\ h.mem[b + 1].size \in Nat
      /\ h.mem[b + 1].size \in Even /\ h.mem[b + 1].size >= 4
      /\ Nx(h.mem, b) = b + h.mem[b + 1].size /\ Nx(h.mem, b) \in Nat
      /\ Nx(h.mem, b) \in Even /\ Nx(h.mem, b) <= h.epi
      /\ Nx(h.mem, b) \in C \cup {h.epi} /\ b + 4 <= Nx(h.mem, b)
      /\ Nx(h.mem, b) \in Addr /\ Nx(h.mem, b) + 1 \in Addr
  BY <1>1, ShapeTypes
<1>3. \A c \in C : h.mem[c + 1] \in Tags
  BY <1>1, ShapeTypes
<1>4. h.mem[Nx(h.mem, b) + 1] \in Tags
  BY <1>1, <1>2, <1>3
<1>5. Joint(h.mem, b, y)
  BY <1>1 DEF Shape
<1>6. b # h.epi
  BY <1>1, <1>2
<1> QED
  BY <1>2, <1>4, <1>5, <1>6

\* No block begins inside another.
LEMMA Apart ==
    ASSUME NEW m, NEW C, NEW e, NEW y, Shape(m, C, e, y), NEW b \in C, NEW c \in C, b < c
    PROVE  Nx(m, b) <= c
<1>1. Chain(m, C, pro, e)
  BY DEF Shape
<1> QED
  BY <1>1 DEF Chain

\* No block is between a block and the next one.
LEMMA BetweenOne ==
    ASSUME NEW m, NEW C, NEW e, NEW y, Shape(m, C, e, y), NEW b \in C
    PROVE  Between(C, b, Nx(m, b)) = {b}
<1>1. \A c \in C : c \in Nat /\ Nx(m, c) \in Nat /\ c + 4 <= Nx(m, c)
  BY ShapeTypes
<1>2. \A c \in C : b < c => Nx(m, b) <= c
  BY Apart
<1>3. \A c \in C : b <= c /\ c < Nx(m, b) <=> c = b
  BY <1>1, <1>2
<1> QED
  BY <1>3 DEF Between

\* Two blocks side by side.
LEMMA BetweenTwo ==
    ASSUME NEW m, NEW C, NEW e, NEW y, Shape(m, C, e, y), NEW b \in C, Nx(m, b) \in C
    PROVE  Between(C, b, Nx(m, Nx(m, b))) = {b, Nx(m, b)}
<1>0. PICK n : n = Nx(m, b)
  OBVIOUS
<1>1. \A c \in C : c \in Nat /\ Nx(m, c) \in Nat /\ c + 4 <= Nx(m, c)
  BY ShapeTypes
<1>2. \A c \in C : b < c => n <= c
  BY <1>0, Apart
<1>3. n \in C /\ \A c \in C : n < c => Nx(m, n) <= c
  BY <1>0, Apart
<1>4. \A c \in C : b <= c /\ c < Nx(m, n) <=> c = b \/ c = n
  BY <1>0, <1>1, <1>2, <1>3
<1>5. Between(C, b, Nx(m, n)) = {b, n}
  BY <1>3, <1>4 DEF Between
<1> QED
  BY <1>0, <1>5

\* What is not on the lists although it is free: only the free blocks matter.
LEMMA SameListed ==
    ASSUME NEW h, NEW C, NEW X, NEW Z, Listed(h, C, X),
           \A b \in C : h.mem[b + 1].alloc = FALSE => (b \in X <=> b \in Z)
    PROVE  Listed(h, C, Z)
<1>1. \A i : Class(h.mem, C \ Z, i) = Class(h.mem, C \ X, i)
  BY DEF Class
<1> QED
  BY <1>1 DEF Listed

\* Soundness depends only on which free blocks are off the lists.
LEMMA SameSound ==
    ASSUME NEW h, NEW C, NEW y, NEW X, NEW Z, Sound(h, C, y, X),
           \A b \in C : h.mem[b + 1].alloc = FALSE => (b \in X <=> b \in Z)
    PROVE  Sound(h, C, y, Z)
BY SameListed DEF Sound

\* Memory is written from s on, where the blocks to u become N.
LEMMA Piece ==
    ASSUME NEW h, NEW C, NEW x, NEW X, Sound(h, C, x, X), NEW k \in [Addr -> Words],
           NEW s, NEW u, NEW y, NEW N, Rewrites(h.mem, k, C, h.epi, x, s, u, y),
           Chain(k, N, s, u), \A b \in N : Joint(k, b, y),
           \A b \in Between(C, s, u) \ X : h.mem[b + 1].alloc = TRUE
    PROVE  /\ Sound(With(h, k), (C \ Between(C, s, u)) \cup N, y, X \cup N)
           /\ Replaced(h, With(h, k), C, (C \ Between(C, s, u)) \cup N, Between(C, s, u), N)
<1>1. PICK P : P = Between(C, s, u)
  OBVIOUS
<1>2. PICK D : D = (C \ P) \cup N
  OBVIOUS
<1>3. PICK m : m = h.mem
  OBVIOUS
<1>4. PICK g : g = With(h, k)
  OBVIOUS
<1>5. /\ g \in Heaps /\ g.mem = k /\ g.free = h.free /\ g.quick = h.quick /\ g.epi = h.epi
      /\ g.end = h.end /\ g.fault = h.fault
  <2>1. h \in Heaps
    BY DEF Sound
  <2> QED
    BY <1>4, <2>1, WithFacts
<1>6. Shape(m, C, h.epi, x) /\ Listed(h, C, X) /\ Ended(h) /\ h.epi = h.end - 2
      /\ h.fault = "none"
  BY <1>3 DEF Sound
<1>7. Shape(k, D, h.epi, y) /\ Kept(m, k, C \ P)
  BY <1>1, <1>2, <1>3, <1>6, Rebuild
<1>8. s \in C /\ u \in C \cup {h.epi} /\ \A w \in Addr : w > u + 1 => k[w] = m[w]
  BY <1>3 DEF Rewrites
<1>9. \A c \in C : c \in Nat /\ c < h.epi
  BY BlockTypes
<1>10. h.epi \in Nat /\ h.end = h.epi + 2 /\ u \in Nat /\ u <= h.epi /\ s \in Nat
  <2>1. h.epi \in Nat /\ h.end = h.epi + 2
    BY SoundFacts
  <2>2. s \in C /\ u \in C \cup {h.epi}
    BY <1>8
  <2> QED
    BY <1>9, <2>1, <2>2
<1>11. N \cap (C \ P) = {}
  <2>1. \A b \in N : s <= b /\ b < u
    BY ChainTypes
  <2> QED
    BY <1>1, <2>1 DEF Between
<1>12. Ended(g)
  <2>1. \A w \in Addr : w >= h.end => w > u + 1
    BY <1>10 DEF Addr
  <2>2. \A w \in Addr : w >= h.end => k[w] = Blank
    BY <1>3, <1>6, <1>8, <2>1 DEF Ended
  <2> QED
    BY <1>5, <1>6, <2>2 DEF Ended
<1>13. Listed(g, D, X \cup N)
  <2>1. \A b \in C \ P : k[b + 1].alloc = m[b + 1].alloc /\ k[b + 1].size = m[b + 1].size
    BY <1>7 DEF Kept, Same
  <2>2. D \ (X \cup N) = (C \ P) \ X
    BY <1>2, <1>11
  <2>3. \A b \in P \ X : m[b + 1].alloc = TRUE
    BY <1>1, <1>3
  <2>4. \A i : Class(k, D \ (X \cup N), i) = Class(m, C \ X, i)
    BY <2>1, <2>2, <2>3 DEF Class
  <2>5. \A b \in D \ (X \cup N) : k[b + 1].alloc = FALSE => k[b + 2] = Link
    <3> SUFFICES ASSUME NEW b \in D \ (X \cup N), k[b + 1].alloc = FALSE
                 PROVE  k[b + 2] = Link
      OBVIOUS
    <3>1. b \in C /\ b \notin P /\ b \notin X /\ m[b + 1].alloc = FALSE
      BY <2>1, <2>2
    <3>2. m[b + 2] = Link
      BY <1>3, <1>6, <3>1 DEF Listed
    <3>3. b + 2 \in Addr /\ b + 1 < b + 2 /\ b + 2 <= Nx(m, b)
      <4>1. b \in Nat /\ Nx(m, b) \in Nat /\ Nx(m, b) \in Addr /\ b + 4 <= Nx(m, b)
        BY <1>3, <3>1, BlockTypes
      <4> QED
        BY <4>1, Bounds DEF Addr
    <3>4. k[b + 2] = m[b + 2]
      BY <1>7, <3>1, <3>3 DEF Kept
    <3> QED
      BY <3>2, <3>4
  <2> QED
    BY <1>3, <1>5, <1>6, <2>4, <2>5 DEF Listed
<1>14. Sound(g, D, y, X \cup N)
  BY <1>5, <1>6, <1>7, <1>12, <1>13 DEF Sound
<1>15. Replaced(h, g, C, D, P, N)
  <2>1. P \subseteq C
    BY <1>1 DEF Between
  <2> QED
    BY <1>2, <1>3, <1>5, <1>7, <1>11, <2>1 DEF Replaced
<1> QED
  BY <1>1, <1>2, <1>4, <1>14, <1>15

\* A piece of the heap is rewritten: it stays sound, with the new blocks off
\* the lists.
LEMMA Redo ==
    ASSUME NEW h, NEW C, NEW x, NEW X, NEW k, NEW s, NEW u, NEW y, NEW N, NEW P, NEW D,
           Redone(h, C, x, X, k, s, u, y, N, P, D)
    PROVE  Sound(With(h, k), D, y, X \cup N) /\ Replaced(h, With(h, k), C, D, P, N)
<1>1. /\ Sound(h, C, x, X) /\ k \in [Addr -> Words]
      /\ Rewrites(h.mem, k, C, h.epi, x, s, u, y) /\ Chain(k, N, s, u)
      /\ P = Between(C, s, u) /\ D = (C \ P) \cup N
      /\ \A b \in N : Joint(k, b, y)
      /\ \A b \in P \ X : h.mem[b + 1].alloc = TRUE
  BY DEF Redone
<1>2. \A b \in Between(C, s, u) \ X : h.mem[b + 1].alloc = TRUE
  BY <1>1
<1>3. /\ Sound(With(h, k), (C \ Between(C, s, u)) \cup N, y, X \cup N)
      /\ Replaced(h, With(h, k), C, (C \ Between(C, s, u)) \cup N, Between(C, s, u), N)
  BY <1>1, <1>2, Piece
<1> QED
  BY <1>1, <1>3

-----------------------------------------------------------------------------
\* One block on a list or off it, with another tag, split or joined.

\* What makes the joint of a block.
LEMMA JointIs ==
    ASSUME NEW k, NEW b, NEW y, NEW t, NEW u, t = k[b + 1], u = b + t.size,
           k[u + 1].prv = t.alloc, k[u] \in Tags => k[u].size = t.size,
           t.alloc = FALSE => /\ t.qk = FALSE /\ k[u] \in Tags /\ k[u].alloc = FALSE
                              /\ k[u + 1].alloc = TRUE \/ b = y \/ u = y
    PROVE  Joint(k, b, y)
<1>1. Nx(k, b) = u
  BY DEF Nx
<1> QED
  BY <1>1 DEF Joint

\* Before every block but the prologue there is a block.
LEMMA Before ==
    ASSUME NEW m, NEW C, NEW e, NEW y, Shape(m, C, e, y), NEW b \in C \cup {e}, b # pro
    PROVE  \E a \in C : a < b /\ Nx(m, a) = b /\ Joint(m, a, y)
<1>1. /\ \A c \in C : c # pro => \E a \in C : a < c /\ Nx(m, a) = c
      /\ pro < e => pro \in C /\ \E a \in C : Nx(m, a) = e
      /\ pro < e /\ \A a \in C : Joint(m, a, y)
  BY DEF Shape, Chain
<1>2. \A a \in C : a < e
  BY ShapeTypes
<1>3. CASE b \in C
  BY <1>1, <1>3
<1>4. CASE b = e
  BY <1>1, <1>2, <1>4
<1> QED
  BY <1>3, <1>4

\* A free block comes after one that is allocated, and before one.
LEMMA FreeNeighbours ==
    ASSUME NEW h, NEW C, NEW y, NEW X, Sound(h, C, y, X), NEW b \in C, b # pro,
           h.mem[b + 1].alloc = FALSE, y = -1 \/ y = b
    PROVE  /\ y = -1 => h.mem[b + 1].prv = TRUE
           /\ y = -1 => h.mem[Nx(h.mem, b) + 1].alloc = TRUE
<1> SUFFICES ASSUME y = -1
             PROVE  /\ h.mem[b + 1].prv = TRUE
                    /\ h.mem[Nx(h.mem, b) + 1].alloc = TRUE
  OBVIOUS
<1>1. Shape(h.mem, C, h.epi, y)
  BY SoundFacts
<1>2. PICK a \in C : a < b /\ Nx(h.mem, a) = b /\ Joint(h.mem, a, y)
  BY <1>1, Before
<1>3. /\ a \in Nat /\ b \in Nat /\ h.mem[a + 1] \in Tags /\ h.mem[b + 1] \in Tags
      /\ Nx(h.mem, b) \in Nat /\ Joint(h.mem, b, y)
  BY BlockTypes
<1>4. h.mem[a + 1].alloc \in BOOLEAN /\ h.mem[b + 1].prv = h.mem[a + 1].alloc
  BY <1>2, <1>3, TagFacts DEF Joint
<1>5. h.mem[a + 1].alloc # FALSE
  <2>1. a # -1 /\ b # -1
    BY <1>3
  <2>2. h.mem[b + 1].alloc # TRUE
    OBVIOUS
  <2>3. a # y /\ b # y
    BY <2>1
  <2> QED
    BY <1>2, <2>2, <2>3 DEF Joint
<1>6. h.mem[Nx(h.mem, b) + 1].alloc = TRUE
  <2>1. b # y /\ Nx(h.mem, b) # y
    BY <1>3
  <2> QED
    BY <1>3, <2>1 DEF Joint
<1> QED
  BY <1>4, <1>5, <1>6

\* remove_list takes a block off its list and leaves memory alone.
LEMMA RemoveSound ==
    ASSUME NEW h, NEW C, NEW y, NEW X, Sound(h, C, y, X), NEW b
    PROVE  /\ Sound(RemoveList(h, b), C, y, X \cup {b})
           /\ RemoveList(h, b).mem = h.mem /\ RemoveList(h, b).quick = h.quick
           /\ RemoveList(h, b).epi = h.epi /\ RemoveList(h, b).end = h.end
           /\ RemoveList(h, b).fault = h.fault
<1>1. h \in Heaps /\ Listed(h, C, X) /\ h.epi = h.end - 2 /\ Ended(h) /\ h.fault = "none"
      /\ Shape(h.mem, C, h.epi, y)
  BY DEF Sound
<1>2. PICK f : f = [i \in 0 .. NUM_FREE_LISTS - 1 |-> RemoveFirst(h.free[i], b)]
  OBVIOUS
<1>3. \A i \in 0 .. NUM_FREE_LISTS - 1 : Lists(f[i], Class(h.mem, C \ (X \cup {b}), i))
  <2> SUFFICES ASSUME NEW i \in 0 .. NUM_FREE_LISTS - 1
               PROVE  Lists(f[i], Class(h.mem, C \ (X \cup {b}), i))
    OBVIOUS
  <2>1. Lists(h.free[i], Class(h.mem, C \ X, i))
    BY <1>1 DEF Listed
  <2>2. Lists(RemoveFirst(h.free[i], b), Class(h.mem, C \ X, i) \ {b})
    BY <2>1, ListRemove
  <2>3. Class(h.mem, C \ X, i) \ {b} = Class(h.mem, C \ (X \cup {b}), i)
    BY DEF Class
  <2> QED
    BY <1>2, <2>2, <2>3
<1>4. f \in [0 .. NUM_FREE_LISTS - 1 -> Seq(Even)]
  <2>1. \A i \in 0 .. NUM_FREE_LISTS - 1 : f[i] \in Seq(Even)
    BY <1>3 DEF Lists
  <2> QED
    BY <1>2, <2>1
<1>5. PICK g : g = [h EXCEPT !.free = f]
  OBVIOUS
<1>6. /\ g \in Heaps /\ g.mem = h.mem /\ g.quick = h.quick /\ g.epi = h.epi /\ g.end = h.end
      /\ g.fault = h.fault /\ g.free = f
  BY <1>1, <1>4, <1>5 DEF Heaps
<1>7. RemoveList(h, b) = g
  <2>1. DOMAIN h.free = 0 .. NUM_FREE_LISTS - 1
    BY <1>1, HeapFacts
  <2>2. RemoveList(h, b) = [h EXCEPT !.free = [i \in DOMAIN h.free |-> RemoveFirst(h.free[i], b)]]
    BY <1>1 DEF RemoveList, Heaps
  <2> QED
    BY <1>2, <1>5, <2>1, <2>2
<1>8. Listed(g, C, X \cup {b})
  <2>1. \A c \in C \ (X \cup {b}) : g.mem[c + 1].alloc = FALSE => g.mem[c + 2] = Link
    BY <1>1, <1>6 DEF Listed
  <2> QED
    BY <1>3, <1>6, <2>1 DEF Listed
<1>9. Ended(g)
  BY <1>1, <1>6 DEF Ended
<1>10. Sound(g, C, y, X \cup {b})
  BY <1>1, <1>6, <1>8, <1>9 DEF Sound
<1> QED
  BY <1>6, <1>7, <1>10

\* put_block puts a free block on the list of its class.
LEMMA PutSound ==
    ASSUME NEW h, NEW C, NEW X, Sound(h, C, -1, X), NEW b \in C, b \in X, b # pro,
           h.mem[b + 1].alloc = FALSE
    PROVE  \E g \in Heaps : Put(h, b, C, X, g)
<1>1. PICK m \in [Addr -> Words] : m = h.mem /\ h \in Heaps
  BY SoundFacts
<1>2. PICK t \in Tags : t = m[b + 1]
  BY <1>1, BlockTypes
<1>3. PICK u : u = Nx(m, b)
  OBVIOUS
<1>4. /\ b \in Nat /\ b \in Even /\ b \in Addr /\ b + 1 \in Addr /\ u \in Nat /\ u \in Addr
      /\ u + 1 \in Addr /\ b + 4 <= u /\ u \in C \cup {h.epi} /\ t.size >= 4
      /\ u = b + t.size /\ Joint(m, b, -1) /\ m[u + 1] \in Tags
  BY <1>1, <1>2, <1>3, BlockTypes
<1>5. m[b + 1].prv = TRUE /\ m[u + 1].alloc = TRUE
  BY <1>1, <1>3, FreeNeighbours
<1>6. PICK k : k = [m EXCEPT ![b + 2] = Link, ![b + 3] = Link]
  OBVIOUS
<1>7. b + 2 \in Addr /\ b + 3 \in Addr /\ b + 2 # b + 1 /\ b + 3 # b + 1
  BY <1>4, Bounds DEF Addr
<1>8. /\ k \in [Addr -> Words] /\ k[b + 2] = Link
      /\ \A w \in Addr : w # b + 2 /\ w # b + 3 => k[w] = m[w]
  BY <1>6, <1>7, WordFacts
<1>9. \A w \in Addr : w <= b \/ w > u + 1 => k[w] = m[w]
  <2>1. \A w \in Addr : w <= b \/ w > u + 1 => w # b + 2 /\ w # b + 3
    BY <1>4 DEF Addr
  <2> QED
    BY <1>8, <2>1
<1>10. k[b + 1] = t /\ k[u] = m[u] /\ k[u + 1] = m[u + 1]
  <2>1. u # b + 2 /\ u # b + 3 /\ u + 1 # b + 2 /\ u + 1 # b + 3
    BY <1>4
  <2> QED
    BY <1>2, <1>4, <1>7, <1>8, <2>1
<1>11. Rewrites(m, k, C, h.epi, -1, b, u, -1)
  <2>1. Same(k[u + 1], m[u + 1]) /\ k[u + 1] \in Tags /\ b < u
    BY <1>4, <1>10 DEF Same
  <2> QED
    BY <1>2, <1>4, <1>5, <1>9, <1>10, <2>1 DEF Rewrites
<1>12. Chain(k, {b}, b, u)
  BY <1>4, <1>10, ChainOne
<1>13. Joint(k, b, -1)
  <2>1. Nx(k, b) = Nx(m, b)
    BY <1>2, <1>10 DEF Nx
  <2> QED
    BY <1>2, <1>3, <1>4, <1>10, <2>1 DEF Joint
<1>14. Between(C, b, u) = {b}
  <2>1. Shape(m, C, h.epi, -1)
    BY <1>1, SoundFacts
  <2> QED
    BY <1>3, <2>1, BetweenOne
<1>15. PICK v : v = With(h, k)
  OBVIOUS
<1>16. Sound(v, C, -1, X \cup {b}) /\ Replaced(h, v, C, C, {b}, {b})
  <2>1. (C \ {b}) \cup {b} = C
    OBVIOUS
  <2>2. \A c \in {b} \ X : h.mem[c + 1].alloc = TRUE
    OBVIOUS
  <2>3. \A c \in {b} : Joint(k, c, -1)
    BY <1>13
  <2>4. Rewrites(h.mem, k, C, h.epi, -1, b, u, -1)
    BY <1>1, <1>11
  <2>5. Redone(h, C, -1, X, k, b, u, -1, {b}, {b}, C)
    BY <1>8, <1>12, <1>14, <2>1, <2>2, <2>3, <2>4 DEF Redone
  <2> QED
    BY <1>15, <2>5, Redo
<1>17. /\ v \in Heaps /\ v.mem = k /\ v.free = h.free /\ v.quick = h.quick /\ v.epi = h.epi
       /\ v.end = h.end /\ v.fault = h.fault
  BY <1>1, <1>8, <1>15, WithFacts
<1>18. PICK i \in 0 .. NUM_FREE_LISTS - 1 : i = GetIndex(t.size)
  BY <1>4, IndexFacts, TagFacts
<1>19. Listed(v, C, X) /\ v.epi = v.end - 2 /\ Ended(v) /\ v.fault = "none"
       /\ Shape(k, C, v.epi, -1)
  <2>1. X \cup {b} = X
    OBVIOUS
  <2> QED
    BY <1>16, <1>17, <2>1 DEF Sound
<1>20. PICK f : f = [h.free EXCEPT ![i] = Cons(b, h.free[i])]
  OBVIOUS
<1>21. \A j \in 0 .. NUM_FREE_LISTS - 1 : Lists(f[j], Class(k, C \ (X \ {b}), j))
  <2> SUFFICES ASSUME NEW j \in 0 .. NUM_FREE_LISTS - 1
               PROVE  Lists(f[j], Class(k, C \ (X \ {b}), j))
    OBVIOUS
  <2>1. Lists(h.free[j], Class(k, C \ X, j))
    BY <1>17, <1>19 DEF Listed
  <2>2. DOMAIN h.free = 0 .. NUM_FREE_LISTS - 1
    BY <1>1, HeapFacts
  <2>3. CASE j = i
    <3>1. b \notin Class(k, C \ X, j)
      BY DEF Class
    <3>2. Lists(Cons(b, h.free[j]), Class(k, C \ X, j) \cup {b})
      BY <1>4, <2>1, <3>1, ListCons
    <3>3. Class(k, C \ (X \ {b}), j) = Class(k, C \ X, j) \cup {b}
      BY <1>1, <1>2, <1>10, <1>18, <2>3 DEF Class
    <3>4. f[j] = Cons(b, h.free[j])
      BY <1>20, <2>2, <2>3
    <3> QED
      BY <3>2, <3>3, <3>4
  <2>4. CASE j # i
    <3>1. Class(k, C \ (X \ {b}), j) = Class(k, C \ X, j)
      BY <1>10, <1>18, <2>4 DEF Class
    <3>2. f[j] = h.free[j]
      BY <1>20, <2>2, <2>4
    <3> QED
      BY <2>1, <3>1, <3>2
  <2> QED
    BY <2>3, <2>4
<1>22. f \in [0 .. NUM_FREE_LISTS - 1 -> Seq(Even)]
  <2>1. \A j \in 0 .. NUM_FREE_LISTS - 1 : f[j] \in Seq(Even)
    BY <1>21 DEF Lists
  <2>2. DOMAIN f = 0 .. NUM_FREE_LISTS - 1
    BY <1>1, <1>20, HeapFacts
  <2>3. f = [j \in 0 .. NUM_FREE_LISTS - 1 |-> f[j]]
    BY <1>20, <2>2
  <2> QED
    BY <2>1, <2>3
<1>23. PICK g : g = [v EXCEPT !.free = f]
  OBVIOUS
<1>24. /\ g \in Heaps /\ g.mem = k /\ g.quick = h.quick /\ g.epi = h.epi /\ g.end = h.end
       /\ g.fault = h.fault /\ g.free = f
  BY <1>17, <1>22, <1>23 DEF Heaps
<1>25. PutBlock(h, b) = g
  <2>1. SizeOf(h, b) = t.size
    BY <1>1, <1>2 DEF SizeOf, Header
  <2>2. PutBlock(h, b) = [h EXCEPT !.free[i] = Cons(b, h.free[i]), !.mem = k]
    BY <1>1, <1>6, <1>18, <2>1 DEF PutBlock
  <2>3. [h EXCEPT !.free[i] = Cons(b, h.free[i]), !.mem = k] = g
    BY <1>1, <1>15, <1>20, <1>23 DEF With, Heaps
  <2> QED
    BY <2>2, <2>3
<1>26. Listed(g, C, X \ {b})
  <2>1. \A c \in C \ (X \ {b}) : g.mem[c + 1].alloc = FALSE => g.mem[c + 2] = Link
    BY <1>8, <1>17, <1>19, <1>24 DEF Listed
  <2> QED
    BY <1>21, <1>24, <2>1 DEF Listed
<1>27. Ended(g)
  BY <1>17, <1>19, <1>24 DEF Ended
<1>28. Sound(g, C, -1, X \ {b})
  BY <1>17, <1>19, <1>24, <1>26, <1>27 DEF Sound
<1>29. Replaced(h, g, C, C, {b}, {b})
  BY <1>16, <1>17, <1>24 DEF Replaced
<1> QED
  BY <1>1, <1>2, <1>10, <1>24, <1>25, <1>28, <1>29 DEF Put

\* A tag with another prv bit.
LEMMA PrvTag ==
    ASSUME NEW w \in Tags, NEW a \in BOOLEAN
    PROVE  /\ Prv(w, a) \in Tags /\ Prv(w, a).prv = a /\ Same(Prv(w, a), w)
           /\ Prv(w, a).alloc = w.alloc
<1>1. w \in Words
  BY WordFacts
<1>2. /\ Prv(w, a) \in Tags
      /\ Prv(w, a).payload = w.payload /\ Prv(w, a).size = w.size
      /\ Prv(w, a).alloc = w.alloc /\ Prv(w, a).prv = a
      /\ Prv(w, a).qk = w.qk
  BY <1>1, PrvFacts
<1> QED
  BY <1>2 DEF Same

\* set_entire_header gives a block to the user, or changes its tag, and leaves
\* what is in it.
LEMMA UsedSound ==
    ASSUME NEW h, NEW b, NEW tag, NEW C, NEW x, NEW X, NEW y,
           CanRetag(h, b, tag, C, x, X), tag.alloc = TRUE,
           \/ (x = -1 \/ x = b) /\ y = -1
           \/ x = Nx(h.mem, b) /\ y = x
    PROVE  \E g \in Heaps : Retagged(h, b, tag, C, y, X, g) /\ Contents(h, g, b)
<1>1. PICK m \in [Addr -> Words] : m = h.mem
  BY SoundFacts DEF CanRetag
<1>2. /\ Sound(h, C, x, X) /\ b \in C /\ b # pro /\ tag \in Tags
      /\ tag.size = m[b + 1].size /\ tag.prv = m[b + 1].prv
      /\ m[b + 1].alloc = TRUE \/ b \in X
  BY <1>1 DEF CanRetag
<1>3. PICK u : u = Nx(m, b)
  OBVIOUS
<1>4. /\ b \in Nat /\ b \in Even /\ b \in Addr /\ b + 1 \in Addr /\ u \in Nat /\ u \in Addr
      /\ u + 1 \in Addr /\ b + 4 <= u /\ u \in C \cup {h.epi} /\ tag.size >= 4
      /\ u = b + tag.size /\ Joint(m, b, x) /\ m[u + 1] \in Tags /\ m[b + 1] \in Tags
      /\ b # h.epi /\ tag.size \in Nat
  BY <1>1, <1>2, <1>3, BlockTypes
<1>5. h \in Heaps
  BY <1>2, SoundFacts
<1>6. PICK k \in [Addr -> Words] : Used(h, b, tag, k)
  <2>1. tag.size >= 2 /\ b + tag.size + 1 \in Addr
    BY <1>4
  <2>2. h.mem[b + 1] \in Tags /\ h.mem[b + 1].size = tag.size
    BY <1>1, <1>2, <1>4
  <2> QED
    BY <1>2, <1>4, <1>5, <2>1, <2>2, RetagUsed
<1>7. /\ SetEntireHeader(h, b, tag) = With(h, k) /\ k[b + 1] = tag
      /\ k[u + 1] = Prv(m[u + 1], TRUE)
      /\ \A w \in Addr : w # b + 1 /\ w # u + 1 => k[w] = m[w]
  BY <1>1, <1>4, <1>6 DEF Used
<1>8. /\ k[u + 1] \in Tags /\ k[u + 1].prv = TRUE /\ Same(k[u + 1], m[u + 1])
  BY <1>4, <1>7, PrvTag
<1>9. k[u] = m[u]
  <2>1. u # b + 1 /\ u # u + 1
    BY <1>4
  <2> QED
    BY <1>4, <1>7, <2>1
<1>10. Joint(k, b, y)
  <2>1. m[u] \in Tags => m[u].size = m[b + 1].size
    BY <1>3, <1>4 DEF Joint
  <2>2. tag.alloc # FALSE
    OBVIOUS
  <2>3. k[u] \in Tags => k[u].size = tag.size
    BY <1>2, <1>9, <2>1
  <2> QED
    BY <1>4, <1>7, <1>8, <2>2, <2>3, JointIs
<1>11. Rewrites(h.mem, k, C, h.epi, x, b, u, y)
  <2>1. x = -1 \/ (x \in Nat /\ x >= b)
    BY <1>1, <1>3, <1>4
  <2>2. x = y \/ x < u
    BY <1>1, <1>3, <1>4
  <2>3. \A w \in Addr : w <= b \/ w > u + 1 => k[w] = m[w]
    <3>1. \A w \in Addr : w <= b \/ w > u + 1 => w # b + 1 /\ w # u + 1
      BY <1>4, SMTT(60) DEF Addr
    <3> QED
      BY <1>7, <3>1
  <2>4. k[b + 1] \in Tags /\ k[b + 1].prv = m[b + 1].prv /\ k[b + 1].alloc = TRUE /\ b < u
    BY <1>2, <1>4, <1>7
  <2> QED
    BY <1>1, <1>2, <1>4, <1>8, <2>1, <2>2, <2>3, <2>4 DEF Rewrites
<1>12. Chain(k, {b}, b, u)
  BY <1>2, <1>4, <1>7, ChainOne
<1>13. Between(C, b, u) = {b}
  <2>1. Shape(m, C, h.epi, x)
    BY <1>1, <1>2, SoundFacts
  <2> QED
    BY <1>2, <1>3, <2>1, BetweenOne
<1>14. Redone(h, C, x, X, k, b, u, y, {b}, {b}, C)
  <2>1. C = (C \ {b}) \cup {b}
    BY <1>2
  <2>2. \A c \in {b} \ X : h.mem[c + 1].alloc = TRUE
    BY <1>1, <1>2
  <2>3. \A c \in {b} : Joint(k, c, y)
    BY <1>10
  <2> QED
    BY <1>2, <1>11, <1>12, <1>13, <2>1, <2>2, <2>3 DEF Redone
<1>15. PICK g \in Heaps : g = With(h, k) /\ g.mem = k /\ g.end = h.end
  BY <1>5, WithFacts
<1>16. Sound(g, C, y, X \cup {b}) /\ Replaced(h, g, C, C, {b}, {b})
  BY <1>14, <1>15, Redo
<1>17. Sound(g, C, y, X)
  <2>1. \A c \in C : g.mem[c + 1].alloc = FALSE => (c \in X \cup {b} <=> c \in X)
    <3>1. g.mem[b + 1].alloc # FALSE
      BY <1>7, <1>15
    <3> QED
      BY <3>1
  <2> QED
    BY <1>16, <2>1, SameSound
<1>18. Contents(h, g, b)
  <2>1. \A w \in Addr : b + 1 < w /\ w <= u => w # b + 1 /\ w # u + 1
    BY <1>4 DEF Addr
  <2> QED
    BY <1>1, <1>3, <1>7, <1>15, <2>1 DEF Contents
<1>19. Retagged(h, b, tag, C, y, X, g)
  BY <1>7, <1>15, <1>16, <1>17 DEF Retagged
<1> QED
  BY <1>18, <1>19

\* set_entire_header joins the blocks from s to u into one that is free.
LEMMA FreedSound ==
    ASSUME NEW h, NEW s, NEW u, NEW tag, NEW C, NEW x, NEW X, NEW y,
           CanFree(h, s, u, tag, C, x, X, y)
    PROVE  \E g \in Heaps : Joined(h, s, u, tag, C, X, y, g)
<1>1. PICK m \in [Addr -> Words] : m = h.mem
  BY SoundFacts DEF CanFree
<1>2. /\ Sound(h, C, x, X) /\ s \in C /\ s # pro /\ u \in C \cup {h.epi} /\ s < u /\ tag \in Tags
      /\ tag.size = u - s /\ tag.prv = m[s + 1].prv
      /\ tag.alloc = FALSE /\ tag.qk = FALSE
      /\ x = -1 \/ (x \in Nat /\ x >= s)
      /\ x = y \/ x < u
      /\ s = y \/ (tag.prv = TRUE /\ m[u + 1].alloc = TRUE)
      /\ \A b \in Between(C, s, u) \ X : m[b + 1].alloc = TRUE
  BY <1>1 DEF CanFree
<1>3. PICK t \in Tags : t = m[s + 1]
  BY <1>1, <1>2, BlockTypes
<1>4. /\ s \in Nat /\ s \in Even /\ s + 1 \in Addr /\ t.size >= 4 /\ t.size \in Nat
      /\ s # h.epi /\ Nx(m, s) = s + t.size /\ h \in Heaps /\ h.epi \in Nat
      /\ h.epi + 1 \in Addr /\ m[h.epi + 1] \in Tags
  <2>1. /\ s \in Nat /\ s \in Even /\ s + 1 \in Addr /\ s # h.epi
        /\ m[s + 1].size \in Nat /\ m[s + 1].size >= 4 /\ Nx(m, s) = s + m[s + 1].size
    BY <1>1, <1>2, BlockTypes
  <2>2. h \in Heaps /\ h.epi \in Nat /\ h.epi + 1 \in Addr /\ h.mem[h.epi + 1] \in Tags
    BY <1>2, SoundFacts
  <2> QED
    BY <1>1, <1>3, <2>1, <2>2
<1>5. u \in Nat /\ u + 1 \in Addr /\ u \in Addr /\ m[u + 1] \in Tags
  <2>1. CASE u \in C
    BY <1>1, <1>2, <2>1, BlockTypes
  <2>2. CASE u = h.epi
    <3>1. u \in Addr
      BY <1>4, <2>2, Bounds DEF Addr
    <3> QED
      BY <1>4, <2>2, <3>1
  <2> QED
    BY <1>2, <2>1, <2>2
<1>6. Nx(m, s) <= u
  <2>1. CASE u \in C
    <3>1. Shape(m, C, h.epi, x)
      BY <1>1, <1>2, SoundFacts
    <3> QED
      BY <1>2, <2>1, <3>1, Apart
  <2>2. CASE u = h.epi
    BY <1>1, <1>2, <2>2, BlockTypes
  <2> QED
    BY <1>2, <2>1, <2>2
<1>7. u = s + tag.size /\ t.size <= tag.size /\ tag.size >= 4
  <2>1. tag.size \in Nat
    BY <1>2, TagFacts
  <2> QED
    BY <1>2, <1>4, <1>5, <1>6, <2>1
<1>8. PICK k \in [Addr -> Words] : Freed(h, s, tag, k)
  <2>1. ~tag.alloc /\ h.mem[s + 1] = t /\ t.size >= 2 /\ s + tag.size + 1 \in Addr
    BY <1>1, <1>2, <1>3, <1>4, <1>5, <1>7
  <2> QED
    BY <1>2, <1>4, <1>7, <2>1, RetagFree
<1>9. /\ SetEntireHeader(h, s, tag) = With(h, k) /\ k[s + 1] = tag /\ k[u] = tag
      /\ k[u + 1] = Prv(m[u + 1], FALSE)
      /\ \A w \in Addr : w <= s \/ w > u + 1 => k[w] = m[w]
  BY <1>1, <1>7, <1>8 DEF Freed
<1>10. k[u + 1] \in Tags /\ k[u + 1].prv = FALSE /\ Same(k[u + 1], m[u + 1])
       /\ k[u + 1].alloc = m[u + 1].alloc
  <2>1. PICK w \in Tags : w = m[u + 1]
    BY <1>5
  <2>2. PICK v : v = Prv(w, FALSE)
    OBVIOUS
  <2>3. v \in Tags /\ v.prv = FALSE /\ Same(v, w) /\ v.alloc = w.alloc
    BY <2>2, PrvTag
  <2> QED
    BY <1>9, <2>1, <2>2, <2>3
<1>11. Joint(k, s, y)
  <2>1. k[u + 1].prv = tag.alloc
    BY <1>2, <1>10
  <2>2. k[u + 1].alloc = TRUE \/ s = y \/ u = y
    BY <1>2, <1>10
  <2>3. tag.qk = FALSE /\ k[u] \in Tags /\ k[u].alloc = FALSE /\ k[u].size = tag.size
    BY <1>2, <1>9
  <2>4. tag = k[s + 1] /\ u = s + tag.size
    BY <1>7, <1>9
  <2> QED
    BY <2>1, <2>2, <2>3, <2>4, JointIs
<1>12. Rewrites(h.mem, k, C, h.epi, x, s, u, y)
  <2>1. m[s + 1].prv = TRUE \/ s = y
    BY <1>2
  <2> QED
    BY <1>1, <1>2, <1>9, <1>10, <2>1 DEF Rewrites
<1>13. Chain(k, {s}, s, u)
  BY <1>2, <1>4, <1>7, <1>9, ChainOne
<1>14. PICK P : P = Between(C, s, u)
  OBVIOUS
<1>15. PICK D : D = (C \ P) \cup {s}
  OBVIOUS
<1>16. Redone(h, C, x, X, k, s, u, y, {s}, P, D)
  <2>1. \A b \in P \ X : h.mem[b + 1].alloc = TRUE
    BY <1>1, <1>2, <1>14
  <2>2. \A b \in {s} : Joint(k, b, y)
    BY <1>11
  <2> QED
    BY <1>2, <1>12, <1>13, <1>14, <1>15, <2>1, <2>2 DEF Redone
<1>17. PICK g \in Heaps : g = With(h, k) /\ g.mem = k /\ g.end = h.end
  BY <1>4, WithFacts
<1>18. Sound(g, D, y, X \cup {s}) /\ Replaced(h, g, C, D, P, {s})
  BY <1>16, <1>17, Redo
<1> QED
  BY <1>9, <1>14, <1>15, <1>17, <1>18 DEF Joined

\* The same for one block, already free.
LEMMA FreeSound ==
    ASSUME NEW h, NEW b, NEW tag, NEW C, NEW x, NEW X,
           CanRetag(h, b, tag, C, x, X), h.mem[b + 1].alloc = FALSE,
           tag.alloc = FALSE, tag.qk = FALSE, x = -1 \/ x = b
    PROVE  \E g \in Heaps : Retagged(h, b, tag, C, x, X, g)
<1>1. PICK m \in [Addr -> Words] : m = h.mem
  BY SoundFacts DEF CanRetag
<1>2. /\ Sound(h, C, x, X) /\ b \in C /\ b # pro /\ tag \in Tags
      /\ tag.size = m[b + 1].size /\ tag.prv = m[b + 1].prv
      /\ b \in X /\ m[b + 1].alloc = FALSE
  BY <1>1 DEF CanRetag
<1>3. PICK u : u = Nx(m, b)
  OBVIOUS
<1>4. /\ b \in Nat /\ u \in Nat /\ b + 4 <= u /\ u \in C \cup {h.epi} /\ tag.size >= 4
      /\ u = b + tag.size /\ tag.size \in Nat
  BY <1>1, <1>2, <1>3, BlockTypes
<1>5. b = x \/ (tag.prv = TRUE /\ m[u + 1].alloc = TRUE)
  BY <1>1, <1>2, <1>3, FreeNeighbours
<1>6. Between(C, b, u) = {b}
  <2>1. Shape(m, C, h.epi, x)
    BY <1>1, <1>2, SoundFacts
  <2> QED
    BY <1>2, <1>3, <2>1, BetweenOne
<1>7. CanFree(h, b, u, tag, C, x, X, x)
  <2>1. b < u /\ tag.size = u - b /\ (x = -1 \/ (x \in Nat /\ x >= b))
    BY <1>4
  <2>2. \A c \in Between(C, b, u) \ X : h.mem[c + 1].alloc = TRUE
    BY <1>2, <1>6
  <2> QED
    BY <1>1, <1>2, <1>4, <1>5, <2>1, <2>2 DEF CanFree
<1>8. PICK g \in Heaps : Joined(h, b, u, tag, C, X, x, g)
  BY <1>7, FreedSound
<1>9. (C \ Between(C, b, u)) \cup {b} = C /\ X \cup {b} = X
  BY <1>2, <1>6
<1>10. Retagged(h, b, tag, C, x, X, g)
  BY <1>6, <1>8, <1>9 DEF Joined, Retagged
<1> QED
  BY <1>10

\* split_block cuts a block in two, of which the second is free and off the
\* lists, and may have a free block after it.
LEMMA CutSound ==
    ASSUME NEW h, NEW b, NEW size, NEW C, NEW X, CanCut(h, b, size, C, X)
    PROVE  \E g \in Heaps, t \in Tags, p \in Even, u \in Even : Cut(h, b, size, C, X, g, t, p, u)
<1>1. PICK m \in [Addr -> Words] : m = h.mem
  BY SoundFacts DEF CanCut
<1>2. PICK t \in Tags : t = m[b + 1]
  BY <1>1, BlockTypes DEF CanCut
<1>3. /\ Sound(h, C, -1, X) /\ b \in C /\ b # pro
      /\ size \in Even /\ size >= 4 /\ size + 4 <= t.size
      /\ t.alloc = TRUE \/ b \in X
      /\ Clean(h, b, size)
  BY <1>1, <1>2 DEF CanCut, min
<1>4. PICK u \in Even : u = Nx(m, b)
  BY <1>1, <1>3, BlockTypes
<1>5. /\ b \in Nat /\ b \in Even /\ b + 1 \in Addr /\ u \in Nat /\ u \in Addr
      /\ u + 1 \in Addr /\ u \in C \cup {h.epi} /\ t.size >= 4 /\ t.size \in Nat
      /\ t.size \in Even /\ b # h.epi /\ b < h.epi /\ u <= h.epi
      /\ u = b + t.size /\ Joint(m, b, -1) /\ m[u + 1] \in Tags
  <2>1. /\ b \in Nat /\ b \in Even /\ b + 1 \in Addr /\ b # h.epi /\ b < h.epi
        /\ m[b + 1].size \in Nat /\ m[b + 1].size >= 4 /\ m[b + 1].size \in Even
        /\ Nx(m, b) = b + m[b + 1].size /\ Joint(m, b, -1)
    BY <1>1, <1>3, BlockTypes
  <2>2. /\ u \in Nat /\ u \in Addr /\ u + 1 \in Addr /\ u \in C \cup {h.epi} /\ m[u + 1] \in Tags
        /\ u <= h.epi
    BY <1>1, <1>3, <1>4, BlockTypes
  <2> QED
    BY <1>2, <1>4, <2>1, <2>2
<1>6. h \in Heaps /\ h.epi \in Nat
  BY <1>3, SoundFacts
<1>7. size \in Nat
  BY <1>3, EvenFacts
<1>8. PICK p \in Even : p = b + size
  BY <1>3, <1>5, EvenFacts
<1>9. p \in Nat /\ b + 4 <= p /\ p + 4 <= u /\ p # h.epi /\ u = p + (t.size - size)
  BY <1>3, <1>5, <1>6, <1>7, <1>8
<1>10. PICK k \in [Addr -> Words], c \in Tags, r \in Tags : Split(h, b, size, t, c, r, k)
  <2>1. CanSplit(h, b, size, t)
    BY <1>1, <1>2, <1>3, <1>5, <1>8, <1>9 DEF CanSplit, min
  <2> QED
    BY <1>3, <1>5, <1>6, <2>1, SplitFacts
<1>11. /\ SplitBlock(h, b, size) = With(h, k)
       /\ c = Tag(t.payload, size, t.alloc, t.prv, t.qk)
       /\ r = Tag(0, t.size - size, FALSE, t.alloc, FALSE)
       /\ k[b + 1] = c /\ k[p] = c /\ k[p + 1] = r /\ k[u] = r
       /\ k[u + 1] = Prv(m[u + 1], FALSE)
       /\ \A w \in Addr : w \notin {b + 1, p, p + 1, u, u + 1} => k[w] = m[w]
  BY <1>1, <1>5, <1>8, <1>10 DEF Split
<1>12. /\ c.size = size /\ c.alloc = t.alloc /\ c.prv = t.prv /\ c.qk = t.qk
  <2>1. /\ t.payload \in Nat /\ t.alloc \in BOOLEAN /\ t.prv \in BOOLEAN /\ t.qk \in BOOLEAN
    BY TagFacts
  <2>2. c = Tag(t.payload, size, t.alloc, t.prv, t.qk) /\ size \in Even
    BY <1>3, <1>11
  <2>3. PICK pay \in Nat, al \in BOOLEAN, pv \in BOOLEAN, qk \in BOOLEAN :
            pay = t.payload /\ al = t.alloc /\ pv = t.prv /\ qk = t.qk
    BY <2>1
  <2>4. c = Tag(pay, size, al, pv, qk)
    BY <2>2, <2>3
  <2>5. c.size = size /\ c.alloc = al /\ c.prv = pv /\ c.qk = qk
    BY <2>2, <2>4, NewTag
  <2> QED
    BY <2>3, <2>5
<1>13. /\ r.size = t.size - size /\ r.alloc = FALSE /\ r.prv = t.alloc /\ r.qk = FALSE
  <2>1. t.alloc \in BOOLEAN
    BY TagFacts
  <2>2. size <= t.size
    BY <1>3, <1>5, <1>7
  <2>3. PICK n \in Even : n = t.size - size
    BY <1>3, <1>5, <2>2, EvenFacts
  <2>4. PICK a \in BOOLEAN : a = t.alloc
    BY <2>1
  <2>5. r = Tag(0, n, FALSE, a, FALSE)
    BY <1>11, <2>3, <2>4
  <2> QED
    BY <2>3, <2>4, <2>5, FreeTag
<1>14. k[u + 1] \in Tags /\ k[u + 1].prv = FALSE /\ Same(k[u + 1], m[u + 1])
       /\ k[u + 1].alloc = m[u + 1].alloc
  <2>1. PICK w \in Tags : w = m[u + 1]
    BY <1>5
  <2>2. PICK v : v = Prv(w, FALSE)
    OBVIOUS
  <2>3. v \in Tags /\ v.prv = FALSE /\ Same(v, w) /\ v.alloc = w.alloc
    BY <2>2, PrvTag
  <2> QED
    BY <1>11, <2>1, <2>2, <2>3
<1>15. t.alloc = FALSE => t.prv = TRUE /\ t.qk = FALSE
  <2>1. t.alloc = FALSE => t.prv = TRUE
    BY <1>1, <1>2, <1>3, FreeNeighbours
  <2>2. t.alloc = FALSE => t.qk = FALSE
    BY <1>2, <1>5 DEF Joint
  <2> QED
    BY <2>1, <2>2
<1>16. Joint(k, b, p)
  <2>1. c = k[b + 1] /\ p = b + c.size /\ k[p + 1].prv = c.alloc
    BY <1>8, <1>11, <1>12, <1>13
  <2>2. k[p] \in Tags => k[p].size = c.size
    BY <1>11
  <2>3. c.alloc = FALSE => c.qk = FALSE /\ k[p] \in Tags /\ k[p].alloc = FALSE
    BY <1>11, <1>12, <1>15
  <2> QED
    BY <2>1, <2>2, <2>3, JointIs
<1>17. Joint(k, p, p)
  <2>1. r = k[p + 1] /\ u = p + r.size /\ k[u + 1].prv = r.alloc
    BY <1>9, <1>11, <1>13, <1>14
  <2>2. k[u] \in Tags /\ k[u].size = r.size /\ k[u].alloc = FALSE /\ r.qk = FALSE
    BY <1>11, <1>13
  <2> QED
    BY <2>1, <2>2, JointIs
<1>18. Chain(k, {b, p}, b, u)
  <2>1. Chain(k, {b}, b, p)
    BY <1>3, <1>5, <1>8, <1>11, <1>12, ChainOne
  <2>2. Chain(k, {p}, p, u)
    <3>1. r.size >= 4 /\ u = p + r.size
      BY <1>3, <1>5, <1>7, <1>9, <1>13
    <3> QED
      BY <1>11, <3>1, ChainOne
  <2>3. Chain(k, {b} \cup {p}, b, u)
    BY <2>1, <2>2, ChainGlue
  <2>4. {b} \cup {p} = {b, p}
    OBVIOUS
  <2> QED
    BY <2>3, <2>4
<1>19. Rewrites(h.mem, k, C, h.epi, -1, b, u, p)
  <2>1. \A w \in Addr : w <= b \/ w > u + 1 => w \notin {b + 1, p, p + 1, u, u + 1}
    BY <1>5, <1>9, SMTT(60) DEF Addr
  <2>2. \A w \in Addr : w <= b \/ w > u + 1 => k[w] = m[w]
    BY <1>11, <2>1
  <2>3. k[b + 1] \in Tags /\ k[b + 1].prv = m[b + 1].prv
    BY <1>2, <1>11, <1>12
  <2>4. k[b + 1].alloc = TRUE \/ m[b + 1].prv = TRUE
    <3>1. t.alloc \in BOOLEAN
      BY TagFacts
    <3> QED
      BY <1>2, <1>11, <1>12, <1>15, <3>1
  <2>5. b < u /\ -1 < u
    BY <1>5, <1>9
  <2> QED
    BY <1>1, <1>3, <1>5, <1>14, <2>2, <2>3, <2>4, <2>5 DEF Rewrites
<1>20. Shape(m, C, h.epi, -1)
  BY <1>1, <1>3, SoundFacts
<1>21. Between(C, b, u) = {b}
  BY <1>3, <1>4, <1>20, BetweenOne
<1>22. PICK D : D = C \cup {p}
  OBVIOUS
<1>23. Redone(h, C, -1, X, k, b, u, p, {b, p}, {b}, D)
  <2>1. D = (C \ {b}) \cup {b, p}
    BY <1>3, <1>22
  <2>2. \A d \in {b} \ X : h.mem[d + 1].alloc = TRUE
    BY <1>1, <1>2, <1>3
  <2>3. \A d \in {b, p} : Joint(k, d, p)
    BY <1>16, <1>17
  <2> QED
    BY <1>3, <1>18, <1>19, <1>21, <2>1, <2>2, <2>3 DEF Redone
<1>24. PICK g \in Heaps : g = With(h, k) /\ g.mem = k /\ g.end = h.end
  BY <1>6, WithFacts
<1>25. Sound(g, D, p, X \cup {b, p}) /\ Replaced(h, g, C, D, {b}, {b, p})
  BY <1>23, <1>24, Redo
<1>26. p \notin C
  <2> SUFFICES ASSUME p \in C PROVE FALSE
    OBVIOUS
  <2>1. b < p
    BY <1>5, <1>9
  <2>2. u <= p
    BY <1>3, <1>4, <1>20, <2>1, Apart
  <2> QED
    BY <1>5, <1>9, <2>2
<1>27. \A w \in Addr : b + 1 < w /\ w < p => g.mem[w] = h.mem[w]
  <2>1. \A w \in Addr : b + 1 < w /\ w < p => w \notin {b + 1, p, p + 1, u, u + 1}
    BY <1>5, <1>9, SMTT(60) DEF Addr
  <2> QED
    BY <1>1, <1>11, <1>24, <2>1
<1>28. Nx(g.mem, b) = p /\ Nx(g.mem, p) = u
  BY <1>8, <1>9, <1>11, <1>12, <1>13, <1>24 DEF Nx
<1>29. /\ g.mem[b + 1] = Tag(t.payload, size, t.alloc, t.prv, t.qk)
       /\ g.mem[p + 1] = Tag(0, t.size - size, FALSE, t.alloc, FALSE)
       /\ g.mem[u + 1].alloc = h.mem[u + 1].alloc
  BY <1>1, <1>11, <1>14, <1>24
<1>30. Cut(h, b, size, C, X, g, t, p, u)
  BY <1>1, <1>2, <1>4, <1>8, <1>9, <1>11, <1>22, <1>24, <1>25, <1>26, <1>27, <1>28, <1>29 DEF Cut
<1> QED
  BY <1>30

\* Once the blocks on both sides are allocated, a block is no exception.
LEMMA Settled ==
    ASSUME NEW h, NEW C, NEW y, NEW X, Sound(h, C, y, X), y \in C,
           h.mem[y + 1].prv = TRUE, h.mem[Nx(h.mem, y) + 1].alloc = TRUE
    PROVE  Sound(h, C, -1, X)
<1>1. Shape(h.mem, C, h.epi, y)
  BY SoundFacts
<1>2. ASSUME NEW b \in C
      PROVE  Joint(h.mem, b, -1)
  <2>1. Joint(h.mem, b, y)
    BY <1>1 DEF Shape
  <2>2. PICK n : n = Nx(h.mem, b)
    OBVIOUS
  <2>3. CASE n = y
    <3>1. h.mem[b + 1].alloc = TRUE
      BY <2>1, <2>2, <2>3 DEF Joint
    <3> QED
      BY <2>1, <3>1 DEF Joint
  <2>4. CASE b = y
    BY <2>1, <2>4 DEF Joint
  <2>5. CASE n # y /\ b # y
    BY <2>1, <2>2, <2>5 DEF Joint
  <2> QED
    BY <2>3, <2>4, <2>5
<1>3. Shape(h.mem, C, h.epi, -1)
  BY <1>1, <1>2 DEF Shape
<1> QED
  BY <1>3 DEF Sound

\* What two changes keep, they keep together.
LEMMA KeptTrans ==
    ASSUME NEW m, NEW k, NEW l, NEW C, Kept(m, k, C), Kept(k, l, C)
    PROVE  Kept(m, l, C)
<1>1. \A c \in C : /\ l[c + 1] \in Tags /\ Same(l[c + 1], m[c + 1])
                   /\ Nx(k, c) = Nx(m, c)
  BY DEF Kept, Same, Nx
<1>2. \A c \in C, w \in Addr : c + 1 < w /\ w <= Nx(m, c) => l[w] = m[w]
  BY <1>1 DEF Kept
<1> QED
  BY <1>1, <1>2 DEF Kept

\* What is kept of a set of blocks is kept of its part.
LEMMA KeptPart ==
    ASSUME NEW m, NEW k, NEW C, NEW D, Kept(m, k, C), D \subseteq C
    PROVE  Kept(m, k, D)
BY DEF Kept

\* One change after another.
LEMMA ReplacedTwice ==
    ASSUME NEW h, NEW g, NEW f, NEW C, NEW D, NEW E, NEW P, NEW N, NEW Q, NEW M,
           Replaced(h, g, C, D, P, N), Replaced(g, f, D, E, Q, M)
    PROVE  Replaced(h, f, C, E, P \cup (Q \cap C), (N \ Q) \cup M)
<1>1. /\ P \subseteq C /\ D = (C \ P) \cup N /\ N \cap (C \ P) = {}
      /\ Kept(h.mem, g.mem, C \ P) /\ g.quick = h.quick /\ g.epi = h.epi
      /\ Q \subseteq D /\ E = (D \ Q) \cup M /\ M \cap (D \ Q) = {}
      /\ Kept(g.mem, f.mem, D \ Q) /\ f.quick = g.quick /\ f.epi = g.epi
  BY DEF Replaced
<1>2. PICK A : A = C \ (P \cup (Q \cap C))
  OBVIOUS
<1>3. A \subseteq C \ P /\ A \subseteq D \ Q
  BY <1>1, <1>2
<1>4. Kept(h.mem, f.mem, A)
  <2>1. Kept(h.mem, g.mem, A)
    BY <1>1, <1>3, KeptPart
  <2>2. Kept(g.mem, f.mem, A)
    BY <1>1, <1>3, KeptPart
  <2> QED
    BY <2>1, <2>2, KeptTrans
<1>5. E = A \cup ((N \ Q) \cup M)
  BY <1>1, <1>2
<1>6. ((N \ Q) \cup M) \cap A = {}
  BY <1>1, <1>2
<1> QED
  BY <1>1, <1>2, <1>4, <1>5, <1>6 DEF Replaced

\* What is not replaced is allocated or free as before.
LEMMA SameAlloc ==
    ASSUME NEW h, NEW g, NEW C, NEW D, NEW P, NEW N, NEW x, NEW y, NEW X, NEW Y,
           Sound(h, C, x, X), Sound(g, D, y, Y), Replaced(h, g, C, D, P, N),
           NEW u \in (C \ P) \cup {h.epi}
    PROVE  g.mem[u + 1].alloc = h.mem[u + 1].alloc
<1>1. /\ Kept(h.mem, g.mem, C \ P) /\ g.epi = h.epi
  BY DEF Replaced
<1>2. CASE u \in C \ P
  BY <1>1, <1>2 DEF Kept, Same
<1>3. CASE u = h.epi
  <2>1. Epilogue(h.mem[h.epi + 1]) /\ Epilogue(g.mem[g.epi + 1])
    BY SoundFacts
  <2> QED
    BY <1>1, <1>3, <2>1 DEF Epilogue
<1> QED
  BY <1>2, <1>3

\* The tag of a block of the user.
LEMMA UsedTag ==
    ASSUME NEW size \in Nat, NEW need \in Even, NEW v \in BOOLEAN
    PROVE  \E t \in Tags : /\ t = Tag(size, need, TRUE, v, FALSE)
                            /\ Is(t, size, need) /\ t.prv = v
<1>1. PICK yes \in BOOLEAN, no \in BOOLEAN : yes = TRUE /\ no = FALSE
  OBVIOUS
<1>2. PICK t : t = Tag(size, need, yes, v, no)
  OBVIOUS
<1>3. t \in Tags /\ t.payload = size /\ t.size = need /\ t.alloc = yes /\ t.prv = v
      /\ t.qk = no
  BY <1>2, NewTag
<1> QED
  BY <1>1, <1>2, <1>3 DEF Is

\* A block is split and its first part given to the user (sf_malloc from a
\* free list, sf_realloc to a smaller size).
LEMMA HalvedSound ==
    ASSUME NEW h, NEW b, NEW need, NEW size \in Nat, NEW C, NEW X, CanCut(h, b, need, C, X)
    PROVE  \E g \in Heaps, p \in Even, u \in Even : Halved(h, b, need, size, C, X, g, p, u)
<1>1. PICK cut \in Heaps, t \in Tags, p \in Even, u \in Even :
           Cut(h, b, need, C, X, cut, t, p, u)
  BY CutSound
<1>2. Sound(h, C, -1, X) /\ b \in C /\ b # pro /\ need \in Even /\ need >= min
  BY DEF CanCut
<1>3. PICK D, Y : D = C \cup {p} /\ Y = X \cup {b, p}
  OBVIOUS
<1>4. /\ SplitBlock(h, b, need) = cut
      /\ t = h.mem[b + 1] /\ p = b + need /\ u = Nx(h.mem, b)
      /\ Sound(cut, D, p, Y) /\ Replaced(h, cut, C, D, {b}, {b, p})
      /\ cut.mem[b + 1] = Tag(t.payload, need, t.alloc, t.prv, t.qk)
      /\ cut.mem[p + 1] = Tag(0, t.size - need, FALSE, t.alloc, FALSE)
      /\ cut.mem[u + 1].alloc = h.mem[u + 1].alloc
      /\ Nx(cut.mem, b) = p /\ Nx(cut.mem, p) = u /\ p \notin C /\ cut.end = h.end
      /\ b + 4 <= p /\ p + 4 <= u
      /\ \A w \in Addr : b + 1 < w /\ w < p => cut.mem[w] = h.mem[w]
  BY <1>1, <1>3 DEF Cut
<1>5. b \in D /\ p \in D /\ b \in Y /\ p \in Y /\ b # p /\ p # pro
  <2>1. b \in Nat /\ p \in Nat
    BY <1>2, EvenFacts, BlockTypes
  <2>2. b # p /\ p # pro
    BY <1>4, <2>1 DEF pro
  <2> QED
    BY <1>2, <1>3, <2>2
<1>6. b \in Nat /\ p \in Nat /\ u \in Nat /\ u \in C \cup {h.epi} /\ u # b
  <2>1. b \in Nat /\ p \in Nat /\ u \in Nat
    BY <1>2, EvenFacts, BlockTypes
  <2>2. u \in C \cup {h.epi}
    BY <1>2, <1>4, BlockTypes
  <2> QED
    BY <1>4, <2>1, <2>2
<1>7. /\ cut.mem[b + 1].size = need /\ cut.mem[b + 1].prv = t.prv
      /\ t.payload \in Nat /\ t.alloc \in BOOLEAN /\ t.prv \in BOOLEAN /\ t.qk \in BOOLEAN
  <2>1. t.payload \in Nat /\ t.alloc \in BOOLEAN /\ t.prv \in BOOLEAN /\ t.qk \in BOOLEAN
    BY TagFacts
  <2>2. PICK c : c = Tag(t.payload, need, t.alloc, t.prv, t.qk)
    OBVIOUS
  <2>3. c.size = need /\ c.prv = t.prv
    BY <1>2, <2>1, <2>2, NewTag
  <2> QED
    BY <1>4, <2>1, <2>2, <2>3
<1>8. PICK one \in Tags : /\ one = Tag(size, need, TRUE, t.prv, FALSE)
                          /\ one.size = need /\ one.alloc = TRUE /\ one.prv = t.prv
                          /\ one.payload = size /\ one.qk = FALSE
  <2>1. PICK v \in BOOLEAN : v = t.prv
    BY <1>7
  <2>2. PICK n \in Even : n = need
    BY <1>2
  <2>3. PICK one \in Tags : one = Tag(size, n, TRUE, v, FALSE) /\ Is(one, size, n) /\ one.prv = v
    BY UsedTag
  <2> QED
    BY <2>1, <2>2, <2>3 DEF Is
<1>9. Allocated(cut, b, size) = SetEntireHeader(cut, b, one)
  BY <1>7, <1>8 DEF Allocated, SizeOf, Header
<1>10. CanRetag(cut, b, one, D, p, Y)
  BY <1>2, <1>4, <1>5, <1>7, <1>8 DEF CanRetag
<1>11. PICK used \in Heaps : Retagged(cut, b, one, D, p, Y, used) /\ Contents(cut, used, b)
  BY <1>4, <1>8, <1>10, UsedSound
<1>12. /\ Allocated(cut, b, size) = used
       /\ Sound(used, D, p, Y) /\ Replaced(cut, used, D, D, {b}, {b})
       /\ used.mem[b + 1] = one /\ used.end = cut.end
  BY <1>9, <1>11 DEF Retagged
<1>13. /\ used.mem[p + 1] \in Tags /\ used.mem[p + 1].alloc = FALSE
       /\ used.mem[p + 1].size = cut.mem[p + 1].size
  <2>1. Kept(cut.mem, used.mem, D \ {b})
    BY <1>12 DEF Replaced
  <2>2. used.mem[p + 1] \in Tags /\ Same(used.mem[p + 1], cut.mem[p + 1])
    BY <1>5, <2>1 DEF Kept
  <2>3. cut.mem[p + 1].alloc = FALSE
    BY <1>4 DEF Tag
  <2> QED
    BY <2>2, <2>3 DEF Same
<1>14. PICK rest \in Tags : rest = used.mem[p + 1] /\ rest.alloc = FALSE
  BY <1>13
<1>15. Nx(used.mem, b) = p /\ Nx(used.mem, p) = u
  <2>1. used.mem[b + 1].size = need /\ cut.mem[b + 1].size = need
    BY <1>7, <1>8, <1>12
  <2>2. Nx(cut.mem, b) = p /\ Nx(cut.mem, p) = u
    BY <1>4
  <2> QED
    BY <1>13, <2>1, <2>2 DEF Nx
<1>16. rest.prv = TRUE /\ rest.qk = FALSE
  <2>1. Joint(used.mem, b, p) /\ Joint(used.mem, p, p)
    BY <1>5, <1>12, BlockTypes
  <2>2. rest.prv = TRUE
    BY <1>8, <1>12, <1>14, <1>15, <2>1 DEF Joint
  <2>3. rest.qk = FALSE
    BY <1>14, <2>1 DEF Joint
  <2> QED
    BY <2>2, <2>3
<1>17. PICK two \in Tags : /\ two = Tag(0, rest.size, FALSE, rest.prv, rest.qk)
                           /\ two.size = rest.size /\ two.alloc = FALSE
                           /\ two.prv = rest.prv /\ two.qk = FALSE
  <2>1. rest.size \in Even /\ rest.prv \in BOOLEAN
    BY TagFacts
  <2> QED
    BY <1>16, <2>1, FreeTag
<1>18. Divided(cut, b, size) = SetEntireHeader(used, p, two)
  BY <1>12, <1>14, <1>15, <1>17 DEF Divided, NextBlock, SizeOf, Header, Nx
<1>19. CanRetag(used, p, two, D, p, Y)
  BY <1>5, <1>12, <1>14, <1>17 DEF CanRetag
<1>20. PICK g \in Heaps : Retagged(used, p, two, D, p, Y, g)
  <2>1. used.mem[p + 1].alloc = FALSE
    BY <1>14
  <2> QED
    BY <1>17, <1>19, <2>1, FreeSound
<1>21. /\ Divided(cut, b, size) = g
       /\ Sound(g, D, p, Y) /\ Replaced(used, g, D, D, {p}, {p})
       /\ g.mem[p + 1] = two /\ g.end = h.end
  BY <1>4, <1>12, <1>18, <1>20 DEF Retagged
<1>22. Is(g.mem[b + 1], size, need)
  <2>1. Kept(used.mem, g.mem, D \ {p})
    BY <1>21 DEF Replaced
  <2>2. g.mem[b + 1] \in Tags /\ Same(g.mem[b + 1], one)
    BY <1>5, <1>12, <2>1 DEF Kept
  <2> QED
    BY <1>8, <2>2 DEF Same, Is
<1>23. g.mem[p + 1].alloc = FALSE /\ g.mem[p + 1].prv = TRUE /\ Nx(g.mem, p) = u
  BY <1>14, <1>15, <1>16, <1>17, <1>21 DEF Nx
<1>24. Sound(g, D, p, X \cup {p})
  <2>1. g.mem[b + 1].alloc # FALSE
    BY <1>22 DEF Is
  <2>2. \A c \in D : g.mem[c + 1].alloc = FALSE => (c \in Y <=> c \in X \cup {p})
    BY <1>3, <2>1
  <2> QED
    BY <1>21, <2>2, SameSound
<1>25. Replaced(h, g, C, D, {b}, {b, p})
  <2>1. Replaced(h, used, C, D, {b} \cup ({b} \cap C), ({b, p} \ {b}) \cup {b})
    BY <1>4, <1>12, ReplacedTwice
  <2>2. {b} \cup ({b} \cap C) = {b} /\ ({b, p} \ {b}) \cup {b} = {b, p}
    BY <1>2
  <2>3. Replaced(h, used, C, D, {b}, {b, p})
    BY <2>1, <2>2
  <2>4. Replaced(h, g, C, D, {b} \cup ({p} \cap C), ({b, p} \ {p}) \cup {p})
    BY <1>21, <2>3, ReplacedTwice
  <2>5. {b} \cup ({p} \cap C) = {b} /\ ({b, p} \ {p}) \cup {p} = {b, p}
    BY <1>4
  <2> QED
    BY <2>4, <2>5
<1>26. g.mem[u + 1].alloc = h.mem[u + 1].alloc
  <2>1. u \in (C \ {b}) \cup {h.epi}
    BY <1>6
  <2> QED
    BY <1>2, <1>21, <1>25, <2>1, SameAlloc
<1>27. \A w \in Addr : b + 1 < w /\ w < p => g.mem[w] = h.mem[w]
  <2> SUFFICES ASSUME NEW w \in Addr, b + 1 < w, w < p
               PROVE  g.mem[w] = h.mem[w]
    OBVIOUS
  <2>1. w \in Int /\ w <= p
    BY <1>6 DEF Addr
  <2>2. used.mem[w] = cut.mem[w]
    BY <1>4, <1>11, <2>1 DEF Contents
  <2>3. Kept(used.mem, g.mem, D \ {p})
    BY <1>21 DEF Replaced
  <2>4. b \in D \ {p}
    BY <1>5
  <2>5. g.mem[w] = used.mem[w]
    BY <1>15, <2>1, <2>3, <2>4 DEF Kept
  <2> QED
    BY <1>4, <2>2, <2>5
<1>28. Divided(SplitBlock(h, b, need), b, size) = g
  BY <1>4, <1>21
<1>29. Halved(h, b, need, size, C, X, g, p, u)
  BY <1>3, <1>4, <1>21, <1>22, <1>23, <1>24, <1>25, <1>26, <1>27, <1>28 DEF Halved
<1> QED
  BY <1>29

-----------------------------------------------------------------------------
\* release_block.

\* No free block before the exception comes after one that is free.
LEMMA PrevAllocated ==
    ASSUME NEW h, NEW C, NEW x, NEW X, Sound(h, C, x, X), NEW a \in C, a # pro,
           h.mem[a + 1].alloc = FALSE, x = -1 \/ (x \in Nat /\ x > a)
    PROVE  h.mem[a + 1].prv = TRUE
<1>1. Shape(h.mem, C, h.epi, x)
  BY SoundFacts
<1>2. PICK c \in C : c < a /\ Nx(h.mem, c) = a /\ Joint(h.mem, c, x)
  BY <1>1, Before
<1>3. /\ a \in Nat /\ c \in Nat /\ h.mem[c + 1] \in Tags
  BY BlockTypes
<1>4. h.mem[c + 1].alloc \in BOOLEAN /\ h.mem[a + 1].prv = h.mem[c + 1].alloc
  BY <1>2, <1>3, TagFacts DEF Joint
<1>5. h.mem[c + 1].alloc # FALSE
  <2>1. a # x /\ c # x
    BY <1>2, <1>3
  <2>2. h.mem[a + 1].alloc # TRUE
    OBVIOUS
  <2> QED
    BY <1>2, <2>1, <2>2 DEF Joint
<1> QED
  BY <1>4, <1>5

\* No free block after the exception comes before one that is free.
LEMMA NextAllocated ==
    ASSUME NEW h, NEW C, NEW x, NEW X, Sound(h, C, x, X), NEW n \in C,
           h.mem[n + 1].alloc = FALSE, x = -1 \/ (x \in Nat /\ x < n)
    PROVE  h.mem[Nx(h.mem, n) + 1].alloc = TRUE
<1>1. PICK u : u = Nx(h.mem, n)
  OBVIOUS
<1>2. n \in Nat /\ u \in Nat /\ n + 4 <= u /\ Joint(h.mem, n, x)
  BY <1>1, BlockTypes
<1>3. n # x /\ u # x
  BY <1>2
<1> QED
  BY <1>1, <1>2, <1>3 DEF Joint

\* The blocks of an interval by parts.
LEMMA BetweenParts ==
    ASSUME NEW C, \A c \in C : c \in Nat, NEW s \in Nat, NEW b \in Nat, NEW n \in Nat,
           NEW u \in Nat, s <= b, b <= n, n <= u
    PROVE  Between(C, s, u) = Between(C, s, b) \cup Between(C, b, n) \cup Between(C, n, u)
<1>1. \A c \in C : s <= c /\ c < u <=> \/ s <= c /\ c < b
                                       \/ b <= c /\ c < n
                                       \/ n <= c /\ c < u
  OBVIOUS
<1> QED
  BY <1>1 DEF Between

\* No block is in an empty interval.
LEMMA BetweenNone ==
    ASSUME NEW C, \A c \in C : c \in Nat, NEW b \in Nat
    PROVE  Between(C, b, b) = {}
BY DEF Between

\* What release_block joins: the footer before the block leads to the block
\* before, and no free block is left beside what it makes.
LEMMA JoinsSound ==
    ASSUME NEW h, NEW b, NEW C, NEW x, CanRelease(h, b, C, x)
    PROVE  \E a \in C, n \in Nat, s \in C, u \in Nat, P \in SUBSET C :
              Joins(h, b, C, a, n, s, u, P)
<1>1. PICK m \in [Addr -> Words] : m = h.mem
  BY SoundFacts DEF CanRelease
<1>2. /\ Sound(h, C, x, {b}) /\ b \in C /\ b # pro /\ (x = -1 \/ x = b)
      /\ IsTag(Footer(h, b))
  BY DEF CanRelease
<1>3. Shape(m, C, h.epi, x) /\ h.epi \in Nat /\ m[pro + 1].alloc = TRUE
      /\ m[h.epi + 1].alloc = TRUE
  BY <1>1, <1>2, SoundFacts DEF Epilogue
<1>4. PICK a \in C : a < b /\ Nx(m, a) = b /\ Joint(m, a, x)
  BY <1>2, <1>3, Before
<1>5. PICK n : n = Nx(m, b)
  OBVIOUS
<1>6. /\ a \in Nat /\ a \in Even /\ b \in Nat /\ b \in Even /\ b \in Addr
      /\ n \in Nat /\ n \in Even /\ n \in C \cup {h.epi} /\ b + 4 <= n
      /\ m[a + 1] \in Tags /\ m[b + 1] \in Tags /\ m[n + 1] \in Tags
      /\ Nx(m, a) = a + m[a + 1].size /\ m[a + 1].size \in Nat
  BY <1>1, <1>2, <1>4, <1>5, BlockTypes
<1>7. m[b] \in Tags /\ m[b].size = m[a + 1].size
  <2>1. m[b] \in Words /\ IsTag(m[b])
    BY <1>1, <1>2, <1>6 DEF Footer
  <2>2. m[b] \in Tags
    BY <2>1, WordFacts
  <2> QED
    BY <1>4, <2>2 DEF Joint
<1>8. PrevBlock(h, b) = a
  <2>1. Footer(h, b).size = m[a + 1].size
    BY <1>1, <1>7 DEF Footer
  <2> QED
    BY <1>4, <1>6, <2>1 DEF PrevBlock
<1>9. NextBlock(h, b) = n
  BY <1>1, <1>5 DEF NextBlock, SizeOf, Header, Nx
<1>10. JoinsPrev(h, a) => a # pro /\ m[a + 1].alloc = FALSE
  <2>1. m[a + 1].alloc \in BOOLEAN
    BY <1>6, TagFacts
  <2> QED
    BY <1>1, <2>1 DEF JoinsPrev, Header
<1>11. ~JoinsPrev(h, a) => m[a + 1].alloc = TRUE
  <2>1. m[a + 1].alloc \in BOOLEAN
    BY <1>6, TagFacts
  <2> QED
    BY <1>1, <1>3, <2>1 DEF JoinsPrev, Header
<1>12. JoinsNext(h, n) => n \in C /\ m[n + 1].alloc = FALSE
  <2>1. m[n + 1].alloc \in BOOLEAN
    BY <1>6, TagFacts
  <2> QED
    BY <1>1, <1>6, <2>1 DEF JoinsNext, Header
<1>13. ~JoinsNext(h, n) => m[n + 1].alloc = TRUE
  <2>1. m[n + 1].alloc \in BOOLEAN
    BY <1>6, TagFacts
  <2> QED
    BY <1>1, <1>3, <2>1 DEF JoinsNext, Header
<1>14. PICK s : s = IF JoinsPrev(h, a) THEN a ELSE b
  OBVIOUS
<1>15. PICK u : u = IF JoinsNext(h, n) THEN Nx(m, n) ELSE n
  OBVIOUS
<1>16. n \in C => /\ Nx(m, n) \in Nat /\ Nx(m, n) \in Even /\ Nx(m, n) \in C \cup {h.epi}
                  /\ n + 4 <= Nx(m, n)
  BY <1>1, <1>2, BlockTypes
<1>17. /\ s \in C /\ s # pro /\ s \in Nat /\ s \in Even /\ s <= b
       /\ u \in C \cup {h.epi} /\ u \in Nat /\ u \in Even /\ n <= u
  <2>1. s \in C /\ s # pro /\ s \in Nat /\ s \in Even /\ s <= b
    <3>1. a <= b /\ b <= b
      BY <1>4, <1>6
    <3> QED
      BY <1>2, <1>6, <1>10, <1>14, <3>1
  <2>2. u \in C \cup {h.epi} /\ u \in Nat /\ u \in Even /\ n <= u
    <3>1. CASE JoinsNext(h, n)
      <4>1. u = Nx(m, n)
        BY <1>15, <3>1
      <4>2. n <= Nx(m, n)
        BY <1>6, <1>12, <1>16, <3>1
      <4> QED
        BY <1>12, <1>16, <3>1, <4>1, <4>2
    <3>2. CASE ~JoinsNext(h, n)
      <4>1. u = n /\ n <= n
        BY <1>6, <1>15, <3>2
      <4> QED
        BY <1>6, <4>1
    <3> QED
      BY <3>1, <3>2
  <2> QED
    BY <2>1, <2>2
<1>18. PICK P : P = Between(C, s, u)
  OBVIOUS
<1>19. P = {b} \cup (IF JoinsPrev(h, a) THEN {a} ELSE {})
               \cup (IF JoinsNext(h, n) THEN {n} ELSE {})
  <2>1. \A c \in C : c \in Nat
    BY <1>2, BlockTypes
  <2>2. b <= n
    BY <1>6
  <2>3. P = Between(C, s, b) \cup Between(C, b, n) \cup Between(C, n, u)
    <3>1. Between(C, s, u) = Between(C, s, b) \cup Between(C, b, n) \cup Between(C, n, u)
      <4>1. /\ s \in Nat /\ b \in Nat /\ n \in Nat /\ u \in Nat
            /\ s <= b /\ b <= n /\ n <= u
        BY <1>6, <1>17, <2>2
      <4> QED
        BY <2>1, <4>1, BetweenParts, SMTT(60)
    <3> QED
      BY <1>18, <3>1
  <2>4. Between(C, b, n) = {b}
    BY <1>2, <1>3, <1>5, BetweenOne
  <2>5. Between(C, s, b) = IF JoinsPrev(h, a) THEN {a} ELSE {}
    <3>1. Between(C, a, b) = {a}
      BY <1>3, <1>4, BetweenOne
    <3>2. Between(C, b, b) = {}
      BY <1>6, <2>1, BetweenNone
    <3> QED
      BY <1>14, <3>1, <3>2
  <2>6. Between(C, n, u) = IF JoinsNext(h, n) THEN {n} ELSE {}
    <3>1. n \in C => Between(C, n, Nx(m, n)) = {n}
      BY <1>3, BetweenOne
    <3>2. Between(C, n, n) = {}
      BY <1>6, <2>1, BetweenNone
    <3> QED
      BY <1>12, <1>15, <3>1, <3>2
  <2> QED
    BY <2>3, <2>4, <2>5, <2>6
<1>20. m[s + 1].prv = TRUE
  <2>1. CASE JoinsPrev(h, a)
    <3>1. x = -1 \/ (x \in Nat /\ x > a)
      BY <1>2, <1>4, <1>6
    <3>2. m[a + 1].prv = TRUE
      BY <1>1, <1>2, <1>10, <2>1, <3>1, PrevAllocated
    <3> QED
      BY <1>14, <2>1, <3>2
  <2>2. CASE ~JoinsPrev(h, a)
    BY <1>4, <1>11, <1>14, <2>2 DEF Joint
  <2> QED
    BY <2>1, <2>2
<1>21. m[u + 1].alloc = TRUE
  <2>1. CASE JoinsNext(h, n)
    <3>1. x = -1 \/ (x \in Nat /\ x < n)
      BY <1>2, <1>6
    <3>2. m[Nx(m, n) + 1].alloc = TRUE
      BY <1>1, <1>2, <1>12, <2>1, <3>1, NextAllocated
    <3> QED
      BY <1>15, <2>1, <3>2
  <2>2. CASE ~JoinsNext(h, n)
    BY <1>13, <1>15, <2>2
  <2> QED
    BY <2>1, <2>2
<1>22. b < u
  BY <1>6, <1>17
<1>23. Nx(m, n) = NextBlock(h, n)
  BY <1>1 DEF NextBlock, SizeOf, Header, Nx
<1>24. Joins(h, b, C, a, n, s, u, P)
  BY <1>1, <1>4, <1>5, <1>8, <1>9, <1>10, <1>12, <1>14, <1>15, <1>17, <1>18, <1>19, <1>20,
     <1>21, <1>22, <1>23 DEF Joins
<1>25. P \in SUBSET C
  BY <1>18 DEF Between
<1> QED
  BY <1>4, <1>6, <1>17, <1>24, <1>25

\* release_block: the block and its free neighbours become one free block,
\* which is on the list of its class.
LEMMA ReleaseSound ==
    ASSUME NEW h, NEW b, NEW C, NEW x, CanRelease(h, b, C, x)
    PROVE  \E g \in Heaps : \E D, P, s : Released(h, b, C, g, D, P, s)
<1>1. PICK a \in C, n \in Nat, s \in C, u \in Nat, P \in SUBSET C :
           Joins(h, b, C, a, n, s, u, P)
  BY JoinsSound
<1>2. /\ Sound(h, C, x, {b}) /\ b \in C /\ b # pro /\ (x = -1 \/ x = b)
      /\ IsTag(Footer(h, b))
  BY DEF CanRelease
<1>3. /\ PrevBlock(h, b) = a /\ NextBlock(h, b) = n
      /\ s \in C /\ s # pro /\ u \in C \cup {h.epi} /\ s <= b /\ b < u
      /\ s \in Even /\ u \in Even
      /\ IF JoinsPrev(h, a) THEN s = a /\ h.mem[a + 1].alloc = FALSE ELSE s = b
      /\ IF JoinsNext(h, n) THEN n \in C /\ h.mem[n + 1].alloc = FALSE /\ u = NextBlock(h, n)
         ELSE u = n
      /\ P = Between(C, s, u)
      /\ P = {b} \cup (IF JoinsPrev(h, a) THEN {a} ELSE {})
                 \cup (IF JoinsNext(h, n) THEN {n} ELSE {})
      /\ h.mem[s + 1].prv = TRUE /\ h.mem[u + 1].alloc = TRUE
  BY <1>1 DEF Joins
<1>4. PICK h1 : h1 = IF JoinsNext(h, n) THEN RemoveList(h, n) ELSE h
  OBVIOUS
<1>5. PICK Z1 : Z1 = {b} \cup (IF JoinsNext(h, n) THEN {n} ELSE {})
  OBVIOUS
<1>6. /\ Sound(h1, C, x, Z1) /\ h1.mem = h.mem /\ h1.quick = h.quick /\ h1.epi = h.epi
      /\ h1.end = h.end
  <2>1. CASE JoinsNext(h, n)
    <3>1. h1 = RemoveList(h, n) /\ Z1 = {b} \cup {n}
      BY <1>4, <1>5, <2>1
    <3> QED
      BY <1>2, <3>1, RemoveSound
  <2>2. CASE ~JoinsNext(h, n)
    <3>1. h1 = h /\ Z1 = {b}
      BY <1>4, <1>5, <2>2
    <3> QED
      BY <1>2, <3>1
  <2> QED
    BY <2>1, <2>2
<1>7. PICK h2 : h2 = IF JoinsPrev(h, a) THEN RemoveList(h1, a) ELSE h1
  OBVIOUS
<1>8. /\ Sound(h2, C, x, P) /\ h2.mem = h.mem /\ h2.quick = h.quick /\ h2.epi = h.epi
      /\ h2.end = h.end
  <2>1. CASE JoinsPrev(h, a)
    <3>1. h2 = RemoveList(h1, a) /\ P = Z1 \cup {a}
      BY <1>3, <1>5, <1>7, <2>1
    <3> QED
      BY <1>6, <3>1, RemoveSound
  <2>2. CASE ~JoinsPrev(h, a)
    <3>1. h2 = h1 /\ P = Z1
      BY <1>3, <1>5, <1>7, <2>2
    <3> QED
      BY <1>6, <3>1
  <2> QED
    BY <2>1, <2>2
<1>9. s \in Nat /\ b \in Nat
  BY <1>2, <1>3, EvenFacts, BlockTypes
<1>10. PICK size \in Even : size = u - s
  <2>1. s <= u
    BY <1>3, <1>9
  <2> QED
    BY <1>3, <2>1, EvenFacts
<1>11. PICK tag \in Tags : /\ tag = Tag(0, size, FALSE, h.mem[s + 1].prv, FALSE)
                           /\ tag.size = size /\ tag.alloc = FALSE
                           /\ tag.prv = h.mem[s + 1].prv /\ tag.qk = FALSE
  <2>1. PICK v \in BOOLEAN : v = h.mem[s + 1].prv
    BY <1>3
  <2> QED
    BY <2>1, FreeTag
<1>12. CanFree(h2, s, u, tag, C, x, P, -1)
  <2>1. x = -1 \/ (x \in Nat /\ x >= s)
    BY <1>2, <1>3, <1>9
  <2>2. x = -1 \/ x < u
    BY <1>2, <1>3
  <2>3. s < u
    BY <1>3, <1>9
  <2>4. \A c \in Between(C, s, u) \ P : h2.mem[c + 1].alloc = TRUE
    BY <1>3
  <2> QED
    BY <1>3, <1>8, <1>10, <1>11, <2>1, <2>2, <2>3, <2>4 DEF CanFree
<1>13. PICK g1 \in Heaps : Joined(h2, s, u, tag, C, P, -1, g1)
  BY <1>12, FreedSound
<1>14. PICK D : D = (C \ P) \cup {s}
  OBVIOUS
<1>15. s \in P /\ P \cup {s} = P
  BY <1>3
<1>16. /\ SetEntireHeader(h2, s, tag) = g1
       /\ Sound(g1, D, -1, P) /\ Replaced(h2, g1, C, D, P, {s})
       /\ g1.mem[s + 1] = tag /\ g1.end = h2.end
  BY <1>3, <1>13, <1>14, <1>15 DEF Joined
<1>17. PICK g \in Heaps : Put(g1, s, D, P, g)
  <2>1. s \in D /\ g1.mem[s + 1].alloc = FALSE
    BY <1>11, <1>14, <1>16
  <2> QED
    BY <1>3, <1>15, <1>16, <2>1, PutSound
<1>18. /\ PutBlock(g1, s) = g
       /\ Sound(g, D, -1, P \ {s}) /\ Replaced(g1, g, D, D, {s}, {s})
       /\ g.mem[s + 1] = tag /\ g.end = h.end
  BY <1>8, <1>16, <1>17 DEF Put
<1>19. Sound(g, D, -1, {})
  <2>1. \A c \in D : g.mem[c + 1].alloc = FALSE => (c \in P \ {s} <=> c \in {})
    BY <1>14
  <2> QED
    BY <1>18, <2>1, SameSound
<1>20. Replaced(h, g, C, D, P, {s})
  <2>1. Replaced(h, g1, C, D, P, {s})
    BY <1>8, <1>16 DEF Replaced
  <2>2. Replaced(h, g, C, D, P \cup ({s} \cap C), ({s} \ {s}) \cup {s})
    BY <1>18, <2>1, ReplacedTwice
  <2>3. P \cup ({s} \cap C) = P /\ ({s} \ {s}) \cup {s} = {s}
    BY <1>15
  <2> QED
    BY <2>2, <2>3
<1>21. ReleaseBlock(h, b) = g
  <2>1. h2 = IF JoinsPrev(h, a) THEN RemoveList(IF JoinsNext(h, n) THEN RemoveList(h, n) ELSE h, a)
             ELSE IF JoinsNext(h, n) THEN RemoveList(h, n) ELSE h
    BY <1>4, <1>7
  <2>2. s = IF JoinsPrev(h, a) THEN a ELSE b
    BY <1>3
  <2>3. u = IF JoinsNext(h, n) THEN NextBlock(h, n) ELSE n
    BY <1>3
  <2>4. tag = Tag(0, u - s, FALSE, Header(h, s).prv, FALSE)
    BY <1>10, <1>11 DEF Header
  <2>5. g = PutBlock(SetEntireHeader(h2, s, tag), s)
    BY <1>16, <1>18
  <2> QED
    BY <1>2, <1>3, <2>1, <2>2, <2>3, <2>4, <2>5 DEF ReleaseBlock
<1>22. \A c \in P \ {b} : h.mem[c + 1].alloc = FALSE
  BY <1>3
<1>23. Released(h, b, C, g, D, P, s)
  BY <1>3, <1>11, <1>18, <1>19, <1>20, <1>21, <1>22 DEF Released
<1> QED
  BY <1>23

-----------------------------------------------------------------------------
\* What is allocated, what is parked, and what the user holds.

\* Which blocks are allocated after some have been replaced.
LEMMA ReplacedChange ==
    ASSUME NEW h, NEW g, NEW C, NEW D, NEW P, NEW N, Replaced(h, g, C, D, P, N)
    PROVE  Change(h, g, C, D, P, Alloc(g.mem, N))
<1>1. /\ P \subseteq C /\ D = (C \ P) \cup N
      /\ Kept(h.mem, g.mem, C \ P)
  BY DEF Replaced
<1>2. \A b \in C \ P : g.mem[b + 1].alloc = h.mem[b + 1].alloc
  BY <1>1 DEF Kept, Same
<1>3. Alloc(g.mem, D) = (Alloc(h.mem, C) \ P) \cup Alloc(g.mem, N)
  BY <1>1, <1>2 DEF Alloc
<1>4. Alloc(h.mem, C) \ P \subseteq C \ P
  BY DEF Alloc
<1>5. Kept(h.mem, g.mem, Alloc(h.mem, C) \ P)
  BY <1>1, <1>4, KeptPart
<1> QED
  BY <1>3, <1>5 DEF Change

\* One change of the allocated blocks after another.
LEMMA ChangeTwice ==
    ASSUME NEW h, NEW g, NEW f, NEW C, NEW D, NEW E, NEW A, NEW B, NEW P, NEW Q,
           Change(h, g, C, D, A, B), Change(g, f, D, E, P, Q)
    PROVE  Change(h, f, C, E, A \cup P, (B \ P) \cup Q)
<1>1. PICK H, G, F : H = Alloc(h.mem, C) /\ G = Alloc(g.mem, D) /\ F = Alloc(f.mem, E)
  OBVIOUS
<1>2. /\ G = (H \ A) \cup B /\ Kept(h.mem, g.mem, H \ A)
      /\ F = (G \ P) \cup Q /\ Kept(g.mem, f.mem, G \ P)
  BY <1>1 DEF Change
<1>3. F = (H \ (A \cup P)) \cup ((B \ P) \cup Q)
  BY <1>2
<1>4. Kept(h.mem, f.mem, H \ (A \cup P))
  <2>1. Kept(h.mem, g.mem, H \ (A \cup P))
    BY <1>2, KeptPart
  <2>2. Kept(g.mem, f.mem, H \ (A \cup P))
    BY <1>2, KeptPart
  <2> QED
    BY <2>1, <2>2, KeptTrans
<1> QED
  BY <1>1, <1>3, <1>4 DEF Change

\* No change is one.
LEMMA ChangeNone ==
    ASSUME NEW h, NEW C, NEW X, NEW y, Sound(h, C, y, X)
    PROVE  Change(h, h, C, C, {}, {})
<1>1. \A b \in C : h.mem[b + 1] \in Tags
  BY BlockTypes
<1>2. Kept(h.mem, h.mem, Alloc(h.mem, C))
  BY <1>1 DEF Kept, Same, Alloc
<1> QED
  BY <1>2 DEF Change

\* What is marked is allocated.
LEMMA Marked ==
    ASSUME NEW h, NEW C, NEW X, NEW y, Sound(h, C, y, X), NEW b \in C,
           h.mem[b + 1].qk = TRUE
    PROVE  b \in Alloc(h.mem, C)
<1>1. PICK t \in Tags : t = h.mem[b + 1]
  BY BlockTypes
<1>2. t.alloc = FALSE => t.qk = FALSE
  <2>1. Joint(h.mem, b, y)
    BY BlockTypes
  <2> QED
    BY <1>1, <2>1 DEF Joint
<1>3. t.alloc = TRUE
  <2>1. t.alloc \in BOOLEAN
    BY TagFacts
  <2>2. t.qk # FALSE
    BY <1>1
  <2> QED
    BY <1>2, <2>1, <2>2
<1> QED
  BY <1>1, <1>3 DEF Alloc

\* What the user holds after a change, and that the rest of it is as it was.
LEMMA ChangeHeld ==
    ASSUME NEW h, NEW C, NEW X, NEW x, Sound(h, C, x, X),
           NEW g, NEW D, NEW Y, NEW y, Sound(g, D, y, Y),
           NEW A, NEW B, Change(h, g, C, D, A, B)
    PROVE  /\ Held(g.mem, D) = (Held(h.mem, C) \ A) \cup (Held(g.mem, D) \cap B)
           /\ Kept(h.mem, g.mem, Held(h.mem, C) \ A)
<1>1. /\ Alloc(g.mem, D) = (Alloc(h.mem, C) \ A) \cup B
      /\ Kept(h.mem, g.mem, Alloc(h.mem, C) \ A)
  BY DEF Change
<1>2. \A b \in Alloc(h.mem, C) \ A : g.mem[b + 1].qk = h.mem[b + 1].qk
                                      /\ g.mem[b + 1].size = h.mem[b + 1].size
                                      /\ g.mem[b + 1].alloc = h.mem[b + 1].alloc
  BY <1>1 DEF Kept, Same
<1>3. Alloc(g.mem, D) \subseteq D /\ Alloc(h.mem, C) \subseteq C
  BY DEF Alloc
<1>4. Held(g.mem, D) \subseteq Alloc(g.mem, D) /\ Held(h.mem, C) \subseteq Alloc(h.mem, C)
  BY DEF Alloc, Held
<1>5. ASSUME NEW b
      PROVE  b \in Held(g.mem, D) <=> b \in (Held(h.mem, C) \ A) \cup (Held(g.mem, D) \cap B)
  <2>1. CASE b \in Alloc(h.mem, C) \ A
    BY <1>1, <1>2, <1>3, <2>1 DEF Held, Alloc
  <2>2. CASE b \notin Alloc(h.mem, C) \ A
    BY <1>1, <1>4, <2>2
  <2> QED
    BY <2>1, <2>2
<1>6. Kept(h.mem, g.mem, Held(h.mem, C) \ A)
  BY <1>1, <1>4, KeptPart
<1> QED
  BY <1>5, <1>6

\* What is on a quick list after a change.
LEMMA ChangeParked ==
    ASSUME NEW h, NEW C, NEW X, NEW x, Sound(h, C, x, X),
           NEW g, NEW D, NEW Y, NEW y, Sound(g, D, y, Y),
           NEW A, NEW B, Change(h, g, C, D, A, B), NEW i
    PROVE  Parked(g.mem, D, i) = (Parked(h.mem, C, i) \ A) \cup (Parked(g.mem, D, i) \cap B)
<1>1. /\ Alloc(g.mem, D) = (Alloc(h.mem, C) \ A) \cup B
      /\ Kept(h.mem, g.mem, Alloc(h.mem, C) \ A)
  BY DEF Change
<1>2. \A b \in Alloc(h.mem, C) \ A : g.mem[b + 1].qk = h.mem[b + 1].qk
                                      /\ g.mem[b + 1].size = h.mem[b + 1].size
  BY <1>1 DEF Kept, Same
<1>3. Alloc(g.mem, D) \subseteq D /\ Alloc(h.mem, C) \subseteq C
  BY DEF Alloc
<1>4. \A c \in Parked(g.mem, D, i) : c \in Alloc(g.mem, D)
  BY Marked DEF Parked
<1>5. \A c \in Parked(h.mem, C, i) : c \in Alloc(h.mem, C)
  BY Marked DEF Parked
<1>6. ASSUME NEW b
      PROVE  b \in Parked(g.mem, D, i)
                <=> b \in (Parked(h.mem, C, i) \ A) \cup (Parked(g.mem, D, i) \cap B)
  <2>1. CASE b \in Alloc(h.mem, C) \ A
    BY <1>1, <1>2, <1>3, <2>1 DEF Parked
  <2>2. CASE b \notin Alloc(h.mem, C) \ A
    BY <1>1, <1>4, <1>5, <2>2
  <2> QED
    BY <2>1, <2>2
<1> QED
  BY <1>6

\* The user, or memcpy, writes inside an allocated block.
LEMMA ScribbledSound ==
    ASSUME NEW h, NEW C, NEW X, Sound(h, C, -1, X), NEW b \in C, b # pro,
           h.mem[b + 1].alloc = TRUE, NEW k, Scribbled(h, k, b)
    PROVE  Sound(With(h, k), C, -1, X) /\ Replaced(h, With(h, k), C, C, {b}, {b})
<1>1. PICK m \in [Addr -> Words] : m = h.mem
  BY SoundFacts
<1>2. PICK t \in Tags : t = m[b + 1]
  BY <1>1, BlockTypes
<1>3. PICK u : u = Nx(m, b)
  OBVIOUS
<1>4. /\ b \in Nat /\ b \in Even /\ b \in Addr /\ b + 1 \in Addr /\ u \in Nat /\ u \in Addr
      /\ u + 1 \in Addr /\ b + 4 <= u /\ u \in C \cup {h.epi} /\ t.size >= 4
      /\ u = b + t.size /\ Joint(m, b, -1) /\ m[u + 1] \in Tags /\ t.alloc = TRUE
  BY <1>1, <1>2, <1>3, BlockTypes
<1>5. /\ k \in [Addr -> Words]
      /\ \A w \in Addr : w <= b + 1 \/ w > u => k[w] = m[w]
      /\ k[u] \in Tags => k[u] = m[u]
  BY <1>1, <1>3 DEF Scribbled
<1>6. k[b + 1] = t /\ k[u + 1] = m[u + 1]
  <2>1. b + 1 <= b + 1 /\ u + 1 > u
    BY <1>4
  <2> QED
    BY <1>2, <1>4, <1>5, <2>1
<1>7. Joint(k, b, -1)
  <2>1. m[u + 1].prv = t.alloc /\ (m[u] \in Tags => m[u].size = t.size)
    BY <1>2, <1>3, <1>4 DEF Joint
  <2>2. k[u] \in Tags => k[u].size = t.size
    BY <1>5, <2>1
  <2>3. t = k[b + 1] /\ u = b + t.size /\ k[u + 1].prv = t.alloc /\ t.alloc # FALSE
    BY <1>4, <1>6, <2>1
  <2> QED
    BY <2>2, <2>3, JointIs
<1>8. Rewrites(h.mem, k, C, h.epi, -1, b, u, -1)
  <2>1. \A w \in Addr : w <= b \/ w > u + 1 => k[w] = m[w]
    <3>1. \A w \in Addr : (w <= b => w <= b + 1) /\ (w > u + 1 => w > u)
      BY <1>4 DEF Addr
    <3> QED
      BY <1>5, <3>1
  <2>2. Same(k[u + 1], m[u + 1]) /\ k[u + 1] \in Tags /\ b < u
    BY <1>4, <1>6 DEF Same
  <2> QED
    BY <1>1, <1>2, <1>4, <1>6, <2>1, <2>2 DEF Rewrites
<1>9. Chain(k, {b}, b, u)
  BY <1>4, <1>6, ChainOne
<1>10. Between(C, b, u) = {b}
  <2>1. Shape(m, C, h.epi, -1)
    BY <1>1, SoundFacts
  <2> QED
    BY <1>3, <2>1, BetweenOne
<1>11. Redone(h, C, -1, X, k, b, u, -1, {b}, {b}, C)
  <2>1. C = (C \ {b}) \cup {b}
    OBVIOUS
  <2>2. \A c \in {b} \ X : h.mem[c + 1].alloc = TRUE
    OBVIOUS
  <2>3. \A c \in {b} : Joint(k, c, -1)
    BY <1>7
  <2> QED
    BY <1>5, <1>8, <1>9, <1>10, <2>1, <2>2, <2>3 DEF Redone
<1>12. PICK g : g = With(h, k)
  OBVIOUS
<1>13. Sound(g, C, -1, X \cup {b}) /\ Replaced(h, g, C, C, {b}, {b})
  BY <1>11, <1>12, Redo
<1>14. Sound(g, C, -1, X)
  <2>1. h \in Heaps
    BY SoundFacts
  <2>2. g.mem = k
    BY <1>5, <1>12, <2>1, WithFacts
  <2>3. g.mem[b + 1].alloc # FALSE
    BY <1>4, <1>6, <2>2
  <2>4. \A c \in C : g.mem[c + 1].alloc = FALSE => (c \in X \cup {b} <=> c \in X)
    BY <2>3
  <2> QED
    BY <1>13, <2>4, SameSound
<1> QED
  BY <1>12, <1>13, <1>14

-----------------------------------------------------------------------------
\* sf_malloc from a quick list or a free list.

\* The quick lists are no part of what makes a heap sound.
LEMMA QuickSet ==
    ASSUME NEW h, NEW C, NEW y, NEW X, Sound(h, C, y, X),
           NEW q \in [0 .. NUM_QUICK_LISTS - 1 -> Seq(Even)],
           NEW g, g = [h EXCEPT !.quick = q]
    PROVE  /\ g \in Heaps /\ Sound(g, C, y, X) /\ g.quick = q /\ g.mem = h.mem
           /\ g.free = h.free /\ g.epi = h.epi /\ g.end = h.end /\ g.fault = h.fault
<1>1. h \in Heaps /\ Listed(h, C, X) /\ Ended(h) /\ h.epi = h.end - 2 /\ h.fault = "none"
      /\ Shape(h.mem, C, h.epi, y)
  BY DEF Sound
<1>2. /\ g \in Heaps /\ g.quick = q /\ g.mem = h.mem
      /\ g.free = h.free /\ g.epi = h.epi /\ g.end = h.end /\ g.fault = h.fault
  BY <1>1 DEF Heaps
<1>3. Listed(g, C, X) /\ Ended(g)
  BY <1>1, <1>2 DEF Listed, Ended
<1> QED
  BY <1>1, <1>2, <1>3 DEF Sound

\* The list of a block is that of its size.
LEMMA QuickIndexFacts ==
    ASSUME NEW a \in Even, a >= min
    PROVE  /\ QuickIndex(a) \in Nat
           /\ \A b \in Even : b >= min /\ QuickIndex(b) = QuickIndex(a) => b = a
<1>1. a \in Nat /\ a % 2 = 0
  BY DEF Even
<1>2. QuickIndex(a) \in Nat /\ a = 2 * QuickIndex(a) + 4
  BY <1>1 DEF QuickIndex, min
<1>3. \A b \in Even : b >= min => b = 2 * QuickIndex(b) + 4
  <2> SUFFICES ASSUME NEW b \in Even, b >= min PROVE b = 2 * QuickIndex(b) + 4
    OBVIOUS
  <2>1. b \in Nat /\ b % 2 = 0
    BY DEF Even
  <2> QED
    BY <2>1 DEF QuickIndex, min
<1> QED
  BY <1>2, <1>3

\* A change that touches no marked block keeps the quick lists.
LEMMA QuickKept ==
    ASSUME NEW h, NEW C, NEW X, NEW x, Sound(h, C, x, X),
           NEW g, NEW D, NEW Y, NEW y, Sound(g, D, y, Y),
           NEW b, Change(h, g, C, D, {b}, {b}), g.quick = h.quick,
           h.mem[b + 1].qk = FALSE \/ b \notin C, g.mem[b + 1].qk = FALSE,
           NEW Z, Quick(h, C, Z)
    PROVE  Quick(g, D, Z)
<1>1. ASSUME NEW i
      PROVE  Parked(g.mem, D, i) = Parked(h.mem, C, i)
  <2>1. PICK A : A = {b}
    OBVIOUS
  <2>2. Change(h, g, C, D, A, A)
    BY <2>1
  <2>3. Parked(g.mem, D, i) = (Parked(h.mem, C, i) \ A) \cup (Parked(g.mem, D, i) \cap A)
    BY <2>2, ChangeParked
  <2>4. b \notin Parked(h.mem, C, i) /\ b \notin Parked(g.mem, D, i)
    BY DEF Parked
  <2> QED
    BY <2>1, <2>3, <2>4
<1> QED
  BY <1>1 DEF Quick

\* sf_malloc from a quick list gives a block that the user did not hold.
LEMMA QuickGives ==
    ASSUME NEW h, NEW C, NEW size \in Request \cup {0}, Sound(h, C, -1, {}), Quick(h, C, {}),
           GetMinSize(size) >= min, QuickIndex(GetMinSize(size)) < NUM_QUICK_LISTS,
           h.quick[QuickIndex(GetMinSize(size))] # <<>>
    PROVE  \E g \in Heaps, b \in C :
              /\ FromQuickList(h, size) = Got(g, b)
              /\ Gives(h, C, size, g, C, b)
<1>1. PICK need \in Even : need = GetMinSize(size) /\ need >= min
  BY MinSizeFacts, EvenFacts
<1>2. PICK i \in 0 .. NUM_QUICK_LISTS - 1 : i = QuickIndex(need) /\ h.quick[i] # <<>>
  <2>1. QuickIndex(need) \in Nat
    BY <1>1, QuickIndexFacts
  <2> QED
    BY <1>1, <2>1, SizesAssumption
<1>3. PICK q : q = h.quick
  OBVIOUS
<1>4. q \in [0 .. NUM_QUICK_LISTS - 1 -> Seq(Even)] /\ h \in Heaps
  BY <1>3, SoundFacts, HeapFacts
<1>5. Lists(q[i], Parked(h.mem, C, i)) /\ Len(q[i]) <= QUICK_LIST_MAX
  <2>1. Parked(h.mem, C, i) \ {} = Parked(h.mem, C, i)
    OBVIOUS
  <2> QED
    BY <1>3, <2>1 DEF Quick
<1>6. PICK b : b = Head(q[i])
  OBVIOUS
<1>7. /\ b \in Parked(h.mem, C, i) /\ Lists(Tail(q[i]), Parked(h.mem, C, i) \ {b})
      /\ Len(Tail(q[i])) <= Len(q[i])
  BY <1>2, <1>3, <1>5, <1>6, ListTail
<1>8. b \in C /\ h.mem[b + 1].qk = TRUE /\ QuickIndex(h.mem[b + 1].size) = i
  BY <1>7 DEF Parked
<1>9. PICK t \in Tags : t = h.mem[b + 1]
  BY <1>8, BlockTypes
<1>10. t.size = need
  <2>1. t.size \in Even /\ t.size >= min
    BY <1>8, <1>9, BlockTypes DEF min
  <2> QED
    BY <1>1, <1>2, <1>8, <1>9, <2>1, QuickIndexFacts
<1>11. t.alloc = TRUE
  BY <1>8, <1>9, Marked DEF Alloc
<1>12. b # pro
  <2>1. Prologue(h.mem[pro + 1])
    <3>1. Shape(h.mem, C, h.epi, -1)
      BY SoundFacts
    <3> QED
      BY <3>1 DEF Shape
  <2> QED
    BY <1>8, <2>1 DEF Prologue
<1>13. PICK r : r = [q EXCEPT ![i] = Tail(q[i])]
  OBVIOUS
<1>14. /\ r \in [0 .. NUM_QUICK_LISTS - 1 -> Seq(Even)] /\ r[i] = Tail(q[i])
       /\ \A j \in 0 .. NUM_QUICK_LISTS - 1 : j # i => r[j] = q[j]
  <2>1. Tail(q[i]) \in Seq(Even)
    BY <1>7 DEF Lists
  <2> QED
    BY <1>4, <1>13, <2>1
<1>15. PICK h1 : h1 = [h EXCEPT !.quick = r]
  OBVIOUS
<1>16. /\ h1 \in Heaps /\ Sound(h1, C, -1, {}) /\ h1.quick = r /\ h1.mem = h.mem
       /\ h1.epi = h.epi /\ h1.end = h.end
  BY <1>14, <1>15, QuickSet
<1>17. PICK tag \in Tags : /\ tag = Tag(size, need, TRUE, t.prv, FALSE)
                           /\ Is(tag, size, need) /\ tag.prv = t.prv
  <2>1. t.prv \in BOOLEAN /\ size \in Nat
    BY TagFacts, SizesAssumption, SMTT(60)
  <2>2. PICK v \in BOOLEAN : v = t.prv
    BY <2>1
  <2> QED
    BY <2>1, <2>2, UsedTag
<1>18. CanRetag(h1, b, tag, C, -1, {})
  BY <1>8, <1>9, <1>10, <1>11, <1>12, <1>16, <1>17 DEF CanRetag, Is
<1>19. PICK g \in Heaps : Retagged(h1, b, tag, C, -1, {}, g)
  <2>1. tag.alloc = TRUE
    BY <1>17 DEF Is
  <2> QED
    BY <1>18, <2>1, UsedSound
<1>20. /\ SetEntireHeader(h1, b, tag) = g /\ Sound(g, C, -1, {})
       /\ Replaced(h1, g, C, C, {b}, {b}) /\ g.mem[b + 1] = tag
  BY <1>19 DEF Retagged
<1>21. FromQuickList(h, size) = Got(g, b)
  <2>1. h1 = [h EXCEPT !.quick[i] = Tail(h.quick[i])]
    BY <1>3, <1>4, <1>13, <1>15 DEF Heaps
  <2>2. Allocated(h1, b, size) = SetEntireHeader(h1, b, tag)
    BY <1>9, <1>10, <1>16, <1>17 DEF Allocated, SizeOf, Header
  <2> QED
    BY <1>1, <1>2, <1>3, <1>6, <1>20, <2>1, <2>2 DEF FromQuickList
<1>22. Change(h, g, C, C, {b}, {b})
  <2>1. Replaced(h, g, C, C, {b}, {b}) \/ TRUE
    OBVIOUS
  <2>2. Change(h1, g, C, C, {b}, Alloc(g.mem, {b}))
    BY <1>20, ReplacedChange
  <2>3. Alloc(g.mem, {b}) = {b}
    BY <1>17, <1>20 DEF Alloc, Is
  <2> QED
    BY <1>16, <2>2, <2>3 DEF Change
<1>23. Quick(g, C, {})
  <2> SUFFICES ASSUME NEW j \in 0 .. NUM_QUICK_LISTS - 1
               PROVE  /\ Lists(g.quick[j], Parked(g.mem, C, j) \ {})
                      /\ Len(g.quick[j]) <= QUICK_LIST_MAX
    BY DEF Quick
  <2>1. g.quick = r
    BY <1>16, <1>20 DEF Replaced
  <2>2. Parked(g.mem, C, j) = (Parked(h.mem, C, j) \ {b}) \cup (Parked(g.mem, C, j) \cap {b})
    <3>1. PICK A : A = {b}
      OBVIOUS
    <3>2. Change(h, g, C, C, A, A)
      BY <1>22, <3>1
    <3>3. Parked(g.mem, C, j) = (Parked(h.mem, C, j) \ A) \cup (Parked(g.mem, C, j) \cap A)
      BY <1>20, <3>2, ChangeParked
    <3> QED
      BY <3>1, <3>3
  <2>3. b \notin Parked(g.mem, C, j)
    BY <1>17, <1>20 DEF Parked, Is
  <2>4. Parked(g.mem, C, j) \ {} = Parked(h.mem, C, j) \ {b}
    BY <2>2, <2>3
  <2>5. CASE j = i
    <3>1. Len(Tail(q[i])) \in Nat /\ Len(q[i]) \in Nat
      BY <1>5, <1>7, ListFacts
    <3>2. QUICK_LIST_MAX \in Nat /\ Len(Tail(q[i])) <= QUICK_LIST_MAX
      BY <1>5, <1>7, <3>1, SizesAssumption
    <3> QED
      BY <1>5, <1>7, <1>14, <2>1, <2>4, <2>5, <3>1, <3>2
  <2>6. CASE j # i
    <3>1. b \notin Parked(h.mem, C, j)
      BY <1>8, <2>6 DEF Parked
    <3>2. Parked(h.mem, C, j) \ {b} = Parked(h.mem, C, j) \ {}
      BY <3>1
    <3>3. r[j] = h.quick[j]
      BY <1>3, <1>14, <2>6
    <3> QED
      BY <2>1, <2>4, <3>2, <3>3 DEF Quick
  <2> QED
    BY <2>5, <2>6
<1>24. b \notin Held(h.mem, C)
  BY <1>8 DEF Held
<1>25. Is(g.mem[b + 1], size, g.mem[b + 1].size) /\ g.mem[b + 1].size >= GetMinSize(size)
  <2>1. need \in Nat
    BY EvenFacts
  <2>2. Is(g.mem[b + 1], size, need) /\ g.mem[b + 1].size = need
    BY <1>17, <1>20 DEF Is
  <2>3. need >= need
    BY <2>1
  <2> QED
    BY <1>1, <2>2, <2>3
<1>26. Gives(h, C, size, g, C, b)
  BY <1>8, <1>12, <1>20, <1>22, <1>23, <1>24, <1>25 DEF Gives
<1> QED
  BY <1>8, <1>21, <1>26

\* What a search of the free lists finds.
LEMMA FirstFitFacts ==
    ASSUME NEW h, NEW C, Sound(h, C, -1, {}), NEW need \in Nat, Fitting(h, need) # {}
    PROVE  /\ FirstFit(h, need) \in C /\ FirstFit(h, need) # pro
           /\ h.mem[FirstFit(h, need) + 1].alloc = FALSE
           /\ Fits(h, FirstFit(h, need), need)
<1>1. h \in Heaps /\ h.free \in [0 .. NUM_FREE_LISTS - 1 -> Seq(Even)]
  BY SoundFacts, HeapFacts
<1>2. PICK F : F = Fitting(h, need)
  OBVIOUS
<1>3. F \in SUBSET Nat /\ F \subseteq 0 .. NUM_FREE_LISTS - 1
  <2>1. GetIndex(need) \in 0 .. NUM_FREE_LISTS - 1
    BY IndexFacts
  <2> QED
    BY <1>2, <2>1, SizesAssumption DEF Fitting
<1>4. PICK i \in F : i = Min(F)
  BY <1>2, <1>3, MinFacts
<1>5. i \in 0 .. NUM_FREE_LISTS - 1 /\ \E k \in DOMAIN h.free[i] : Fits(h, h.free[i][k], need)
  BY <1>2, <1>3, <1>4 DEF Fitting
<1>6. PICK list \in Seq(Even) : list = h.free[i]
  BY <1>1, <1>5
<1>7. PICK K : K = {k \in DOMAIN list : Fits(h, list[k], need)}
  OBVIOUS
<1>8. K \in SUBSET Nat /\ K # {}
  <2>1. DOMAIN list = 1 .. Len(list)
    OBVIOUS
  <2> QED
    BY <1>5, <1>6, <1>7, <2>1
<1>9. PICK k \in K : k = Min(K)
  BY <1>8, MinFacts
<1>10. FirstFit(h, need) = list[k]
  BY <1>2, <1>4, <1>6, <1>7, <1>9 DEF FirstFit
<1>11. k \in 1 .. Len(list) /\ Fits(h, list[k], need)
  BY <1>6, <1>7, <1>9
<1>12. Listed(h, C, {})
  BY DEF Sound
<1>13. Lists(list, Class(h.mem, C \ {}, i))
  BY <1>5, <1>6, <1>12 DEF Listed
<1>14. list[k] \in Class(h.mem, C \ {}, i)
  BY <1>11, <1>13, ListFacts
<1>15. list[k] \in C /\ h.mem[list[k] + 1].alloc = FALSE
  BY <1>14 DEF Class
<1>16. list[k] # pro
  <2>1. h.mem[pro + 1].alloc = TRUE
    BY SoundFacts
  <2> QED
    BY <1>15, <2>1
<1> QED
  BY <1>10, <1>11, <1>15, <1>16

\* A block that is split when it is given.
LEMMA SplitGives ==
    ASSUME NEW h, NEW C, NEW size \in Nat, NEW need, need = GetMinSize(size), need >= min,
           NEW b \in C, Sound(h, C, -1, {}), Quick(h, C, {}), b # pro,
           h.mem[b + 1].alloc = FALSE, need \in Even, need + min <= h.mem[b + 1].size,
           Clean(RemoveList(h, b), b, need)
    PROVE  \E g \in Heaps :
              /\ PutBlock(Divided(SplitBlock(RemoveList(h, b), b, need), b, size), b + need) = g
              /\ \E D : Gives(h, C, size, g, D, b)
<1>1. PICK h1 : h1 = RemoveList(h, b)
  OBVIOUS
<1>2. Sound(h1, C, -1, {b}) /\ h1.mem = h.mem /\ h1.quick = h.quick /\ h1.epi = h.epi
  <2>1. {} \cup {b} = {b}
    OBVIOUS
  <2> QED
    BY <1>1, <2>1, RemoveSound
<1>3. CanCut(h1, b, need, C, {b})
  BY <1>1, <1>2 DEF CanCut
<1>4. PICK g1 \in Heaps, p \in Even, u \in Even : Halved(h1, b, need, size, C, {b}, g1, p, u)
  BY <1>3, HalvedSound
<1>5. PICK D : D = C \cup {p}
  OBVIOUS
<1>6. /\ Divided(SplitBlock(h1, b, need), b, size) = g1
      /\ p = b + need /\ u = Nx(h1.mem, b)
      /\ Sound(g1, D, p, {b} \cup {p}) /\ Replaced(h1, g1, C, D, {b}, {b, p})
      /\ Is(g1.mem[b + 1], size, need)
      /\ g1.mem[p + 1].alloc = FALSE /\ g1.mem[p + 1].prv = TRUE
      /\ g1.mem[u + 1].alloc = h1.mem[u + 1].alloc
      /\ Nx(g1.mem, p) = u /\ p \notin C
  BY <1>4, <1>5 DEF Halved
<1>7. g1.mem[u + 1].alloc = TRUE
  <2>1. h.mem[Nx(h.mem, b) + 1].alloc = TRUE
    BY NextAllocated
  <2> QED
    BY <1>2, <1>6, <2>1
<1>8. p \in D /\ p # pro /\ p # b
  <2>1. pro \in C
    BY SoundFacts
  <2> QED
    BY <1>5, <1>6, <2>1
<1>9. PICK X : X = {b} \cup {p}
  OBVIOUS
<1>10. Sound(g1, D, -1, X)
  BY <1>6, <1>7, <1>8, <1>9, Settled
<1>11. PICK g \in Heaps : Put(g1, p, D, X, g)
  BY <1>6, <1>8, <1>9, <1>10, PutSound
<1>12. /\ PutBlock(g1, p) = g
       /\ Sound(g, D, -1, X \ {p}) /\ Replaced(g1, g, D, D, {p}, {p})
       /\ g.mem[p + 1] = g1.mem[p + 1]
  BY <1>11 DEF Put
<1>13. g.mem[b + 1] \in Tags /\ Same(g.mem[b + 1], g1.mem[b + 1])
  <2>1. Kept(g1.mem, g.mem, D \ {p})
    BY <1>12 DEF Replaced
  <2>2. b \in D \ {p}
    BY <1>5, <1>8
  <2> QED
    BY <2>1, <2>2 DEF Kept
<1>14. Is(g.mem[b + 1], size, need)
  BY <1>6, <1>13 DEF Is, Same
<1>15. Sound(g, D, -1, {})
  <2>1. g.mem[b + 1].alloc # FALSE
    BY <1>14 DEF Is
  <2>2. \A c \in D : g.mem[c + 1].alloc = FALSE => (c \in X \ {p} <=> c \in {})
    BY <1>9, <2>1
  <2> QED
    BY <1>12, <2>2, SameSound
<1>16. Replaced(h, g, C, D, {b}, {b, p})
  <2>1. Replaced(h, g1, C, D, {b}, {b, p})
    BY <1>2, <1>6 DEF Replaced
  <2>2. Replaced(h, g, C, D, {b} \cup ({p} \cap C), ({b, p} \ {p}) \cup {p})
    BY <1>12, <2>1, ReplacedTwice
  <2>3. {b} \cup ({p} \cap C) = {b} /\ ({b, p} \ {p}) \cup {p} = {b, p}
    BY <1>6
  <2> QED
    BY <2>2, <2>3
<1>17. Change(h, g, C, D, {b}, {b})
  <2>1. Change(h, g, C, D, {b}, Alloc(g.mem, {b, p}))
    BY <1>16, ReplacedChange
  <2>2. Alloc(g.mem, {b, p}) = {b}
    <3>1. g.mem[b + 1].alloc = TRUE /\ g.mem[p + 1].alloc # TRUE
      BY <1>6, <1>12, <1>14 DEF Is
    <3> QED
      BY <3>1 DEF Alloc
  <2> QED
    BY <2>1, <2>2
<1>18. h.mem[b + 1].qk = FALSE
  <2>1. Joint(h.mem, b, -1)
    BY BlockTypes
  <2> QED
    BY <2>1 DEF Joint
<1>19. Quick(g, D, {})
  <2>1. g.quick = h.quick
    BY <1>16 DEF Replaced
  <2>2. g.mem[b + 1].qk = FALSE
    BY <1>14 DEF Is
  <2> QED
    BY <1>15, <1>17, <1>18, <2>1, <2>2, QuickKept
<1>20. b \notin Held(h.mem, C)
  BY DEF Held
<1>21. Is(g.mem[b + 1], size, g.mem[b + 1].size) /\ g.mem[b + 1].size >= GetMinSize(size)
  <2>1. need \in Nat /\ g.mem[b + 1].size = need
    BY <1>14, EvenFacts DEF Is
  <2>2. need >= need
    BY <2>1
  <2> QED
    BY <1>14, <2>1, <2>2
<1>22. Gives(h, C, size, g, D, b)
  <2>1. b \in D
    BY <1>5
  <2> QED
    BY <1>15, <1>17, <1>19, <1>20, <1>21, <2>1 DEF Gives
<1>23. PutBlock(Divided(SplitBlock(RemoveList(h, b), b, need), b, size), b + need) = g
  BY <1>1, <1>6, <1>12
<1> QED
  BY <1>22, <1>23

\* A fault changes nothing but the fault.
LEMMA FailsFacts ==
    ASSUME NEW h \in Heaps, NEW why \in Faults
    PROVE  /\ Fails(h, why) \in Heaps /\ Fails(h, why).fault = why
           /\ Fails(h, why).mem = h.mem
BY DEF Fails, Heaps

\* Which faults there are, and which of them leave the heap undefined.
LEMMA FaultFacts ==
    /\ {"split over old contents", "data read as a footer", "size wraps", "request wraps",
        "left on its list", "epilogue left behind", "epilogue miscounts", "abort",
        "wrong list emptied", "payload forgotten", "footer over data"} \subseteq Faults
    /\ {"split over old contents", "data read as a footer", "size wraps", "request wraps"}
          \subseteq Undefined
    /\ {"left on its list", "epilogue left behind", "epilogue miscounts"} \subseteq Broken
    /\ "none" \notin Undefined /\ "none" \notin Broken
<1>1. {"split over old contents", "data read as a footer", "size wraps", "request wraps",
        "left on its list", "epilogue left behind", "epilogue miscounts", "abort",
        "wrong list emptied", "payload forgotten", "footer over data"} \subseteq Faults
  BY DEF Faults
<1>2. {"split over old contents", "data read as a footer", "size wraps", "request wraps"}
          \subseteq Undefined
  BY DEF Undefined
<1>3. {"left on its list", "epilogue left behind", "epilogue miscounts"} \subseteq Broken
  BY DEF Broken
<1>4. "none" \notin Undefined
  BY DEF Undefined
<1>5. "none" \notin Broken
  BY DEF Broken
<1> QED
  BY <1>1, <1>2, <1>3, <1>4, <1>5, Zenon

\* A call that ends in undefined behaviour is one of the outcomes.
LEMMA UndefinedFinds ==
    ASSUME NEW h, NEW C, NEW size, NEW g \in Heaps, g.fault \in Undefined, NEW b
    PROVE  Finds(h, C, size, Got(g, b))
<1>1. Got(g, b).heap = g
  BY DEF Got
<1> QED
  BY <1>1 DEF Finds

\* So is one that leaves a heap the model follows no further.
LEMMA BrokenFinds ==
    ASSUME NEW h, NEW C, NEW size, NEW g \in Heaps, g.fault \in Broken, NEW b \in Even,
           b = pro \/ g.mem[b + 1].size \in Nat
    PROVE  Finds(h, C, size, Got(g, b))
BY DEF Finds

\* So is one that gives a block.
LEMMA GivesFinds ==
    ASSUME NEW h, NEW C, NEW size, NEW g \in Heaps, NEW D, NEW b, Gives(h, C, size, g, D, b)
    PROVE  Finds(h, C, size, Got(g, b))
<1>1. b \in Even
  BY BlockTypes DEF Gives
<1>2. \E E : Gives(h, C, size, g, E, b)
  OBVIOUS
<1> QED
  BY <1>1, <1>2 DEF Finds

\* What is written when a block is given whole.
LEMMA AllocatedTypes ==
    ASSUME NEW h \in Heaps, NEW size \in Nat, NEW b \in Nat, NEW t \in Tags, CanAllot(h, b, t)
    PROVE  \E g \in Heaps, k \in [Addr -> Words] : Allots(h, b, size, t, g, k)
<1>0. b # h.epi /\ t = h.mem[b + 1] /\ t.size >= 2 /\ b + t.size + 1 \in Addr
  BY DEF CanAllot
<1>1. t.prv \in BOOLEAN /\ t.size \in Even
  BY TagFacts
<1>2. PICK v \in BOOLEAN, n \in Even : v = t.prv /\ n = t.size
  BY <1>1
<1>3. PICK tag \in Tags : tag = Tag(size, n, TRUE, v, FALSE) /\ Is(tag, size, n) /\ tag.prv = v
  BY UsedTag
<1>4. tag.alloc = TRUE /\ tag.size = n
  BY <1>3 DEF Is
<1>5. Allocated(h, b, size) = SetEntireHeader(h, b, tag)
  BY <1>0, <1>2, <1>3 DEF Allocated, SizeOf, Header
<1>6. PICK k \in [Addr -> Words] : Used(h, b, tag, k)
  <2>1. h.mem[b + 1] \in Tags /\ h.mem[b + 1].size = tag.size /\ tag.size >= 2
        /\ b + tag.size + 1 \in Addr
    BY <1>0, <1>2, <1>4
  <2> QED
    BY <1>0, <1>4, <2>1, RetagUsed
<1>7. /\ SetEntireHeader(h, b, tag) = With(h, k) /\ k[b + 1] = tag
      /\ k[b + t.size + 1] = Prv(h.mem[b + t.size + 1], TRUE)
      /\ \A w \in Addr : w # b + 1 /\ w # b + t.size + 1 => k[w] = h.mem[w]
  BY <1>2, <1>4, <1>6 DEF Used
<1>8. With(h, k) \in Heaps /\ With(h, k).mem = k
  BY WithFacts
<1>9. Is(k[b + 1], size, t.size) /\ k[b + 1].prv = t.prv
  BY <1>2, <1>3, <1>7
<1>10. Allots(h, b, size, t, With(h, k), k)
  BY <1>5, <1>7, <1>8, <1>9 DEF Allots
<1> QED
  BY <1>8, <1>10

\* sf_malloc from the free lists: the block is split, or the size has wrapped,
\* or the block is left on its list, or the new header goes over old contents.
LEMMA FreeListFinds ==
    ASSUME NEW h, NEW C, NEW size \in Request \cup {0}, Sound(h, C, -1, {}), Quick(h, C, {}),
           NEW need \in Even, need = GetMinSize(size), need >= min,
           Fitting(h, need) # {}
    PROVE  Finds(h, C, size, FromFreeList(h, FirstFit(h, need), size))
<1>1. PICK b : b = FirstFit(h, need)
  OBVIOUS
<1>2. /\ b \in C /\ b # pro /\ h.mem[b + 1].alloc = FALSE /\ Fits(h, b, need)
      /\ size \in Nat /\ need \in Nat
  <2>1. need \in Nat /\ size \in Nat
    BY EvenFacts, SizesAssumption
  <2> QED
    BY <1>1, <2>1, FirstFitFacts
<1>3. PICK t \in Tags : t = h.mem[b + 1]
  BY <1>2, BlockTypes
<1>4. /\ b \in Nat /\ b # h.epi /\ t.size \in Nat /\ t.size >= 4 /\ b + t.size + 1 \in Addr
      /\ h \in Heaps /\ t.size < Width /\ b \in Even
  <2>1. /\ b \in Nat /\ b # h.epi /\ h.mem[b + 1].size \in Nat /\ h.mem[b + 1].size >= 4
        /\ Nx(h.mem, b) = b + h.mem[b + 1].size /\ Nx(h.mem, b) + 1 \in Addr /\ b \in Even
    BY <1>2, BlockTypes
  <2>2. h \in Heaps /\ Top \in Nat /\ Top < Width /\ Width \in Nat
    BY SoundFacts, Bounds, SizesAssumption
  <2>3. h.mem[b + 1].size < Width
    BY <2>1, <2>2 DEF Addr
  <2> QED
    BY <1>3, <2>1, <2>2, <2>3
<1>5. SizeOf(h, b) = t.size
  BY <1>3 DEF SizeOf, Header
<1>6. PICK cut : cut = SplitBlock(RemoveList(h, b), b, need)
  OBVIOUS
<1>7. FromFreeList(h, b, size) =
        IF Splits(h, b, need) /\ t.size < need THEN Got(Fails(h, "size wraps"), b)
        ELSE IF Splits(h, b, need)
        THEN Got(IF cut.fault # "none" THEN cut
                 ELSE PutBlock(Divided(cut, b, size), b + need), b)
        ELSE Got(Fails(Allocated(h, b, size), "left on its list"), b)
  <2>1. t.size < need \/ t.size >= need
    BY <1>2, <1>4
  <2>2. ~(t.size < need /\ t.size >= need)
    BY <1>2, <1>4
  <2> QED
    BY <1>5, <1>6, <2>1, <2>2, Zenon DEF FromFreeList
<1>8. CASE Splits(h, b, need) /\ t.size < need
  <2>1. Fails(h, "size wraps") \in Heaps /\ Fails(h, "size wraps").fault \in Undefined
    <3>1. "size wraps" \in Faults /\ "size wraps" \in Undefined
      BY FaultFacts, Zenon
    <3>2. PICK why : why = "size wraps"
      BY Zenon
    <3> QED
      BY <1>4, <3>1, <3>2, FailsFacts, Zenon
  <2> QED
    BY <1>1, <1>7, <1>8, <2>1, UndefinedFinds, Zenon
<1>9. CASE Splits(h, b, need) /\ ~(t.size < need)
  <2>1. need + min <= t.size
    <3>1. (t.size - need) % Width = t.size - need
      <4>1. PICK x \in Nat, y \in Nat : x = t.size /\ y = need
        BY <1>2, <1>4
      <4>2. y <= x /\ x < Width
        BY <1>4, <1>9, <4>1
      <4>3. (x - y) % Width = x - y
        BY <4>2, DifferenceFacts
      <4> QED
        BY <4>1, <4>3
    <3>2. (t.size - need) % Width >= 4
      BY <1>5, <1>9 DEF Splits, min
    <3> QED
      BY <1>2, <1>4, <3>1, <3>2 DEF min
  <2>2. CASE Clean(RemoveList(h, b), b, need)
    <3>0. PICK g \in Heaps :
              /\ PutBlock(Divided(cut, b, size), b + need) = g
              /\ \E D : Gives(h, C, size, g, D, b)
      BY <1>2, <1>3, <1>6, <2>1, <2>2, SplitGives
    <3>1. PICK D : /\ PutBlock(Divided(cut, b, size), b + need) = g
                   /\ Gives(h, C, size, g, D, b)
      BY <3>0
    <3>2. cut.fault = "none"
      <4>1. PICK h1 : h1 = RemoveList(h, b)
        OBVIOUS
      <4>2. Sound(h1, C, -1, {b}) /\ h1.mem = h.mem
        <5>1. {} \cup {b} = {b}
          OBVIOUS
        <5> QED
          BY <4>1, <5>1, RemoveSound
      <4>3. CanCut(h1, b, need, C, {b})
        BY <1>2, <1>3, <2>1, <2>2, <4>1, <4>2 DEF CanCut
      <4>4. PICK g1 \in Heaps, t1 \in Tags, p \in Even, u \in Even :
                Cut(h1, b, need, C, {b}, g1, t1, p, u)
        BY <4>3, CutSound
      <4>5. cut = g1 /\ Sound(g1, C \cup {p}, p, {b} \cup {b, p})
        BY <1>6, <4>1, <4>4 DEF Cut
      <4> QED
        BY <4>5, SoundFacts
    <3>3. FromFreeList(h, b, size) = Got(g, b)
      BY <1>7, <1>9, <3>1, <3>2
    <3> QED
      BY <1>1, <3>1, <3>3, GivesFinds
  <2>3. CASE ~Clean(RemoveList(h, b), b, need)
    <3>1. cut.fault = "split over old contents"
      BY <1>6, <2>3, Zenon DEF Clean
    <3>2. FromFreeList(h, b, size) = Got(cut, b)
      BY <1>7, <1>9, <3>1, Zenon
    <3>4. Got(cut, b).heap = cut
      BY DEF Got
    <3>3. FromFreeList(h, b, size).heap.fault \in Undefined
      BY <3>1, <3>2, <3>4, FaultFacts, Zenon
    <3> QED
      BY <1>1, <3>3 DEF Finds
  <2> QED
    BY <2>2, <2>3
<1>10. CASE ~Splits(h, b, need)
  <2>1. PICK g \in Heaps, k \in [Addr -> Words] :
            /\ Allocated(h, b, size) = g /\ g.mem = k /\ Is(k[b + 1], size, t.size)
    <3>1. CanAllot(h, b, t)
      BY <1>3, <1>4 DEF CanAllot
    <3>2. PICK g \in Heaps, k \in [Addr -> Words] : Allots(h, b, size, t, g, k)
      BY <1>2, <1>4, <3>1, AllocatedTypes
    <3> QED
      BY <3>2 DEF Allots
  <2>2. PICK f \in Heaps : /\ f = Fails(g, "left on its list") /\ f.fault \in Broken
                           /\ f.mem = k
    <3>1. "left on its list" \in Faults /\ "left on its list" \in Broken
      BY FaultFacts, Zenon
    <3>2. /\ Fails(g, "left on its list") \in Heaps
          /\ Fails(g, "left on its list").fault = "left on its list"
          /\ Fails(g, "left on its list").mem = g.mem
      BY <3>1, FailsFacts, Zenon
    <3> QED
      BY <2>1, <3>1, <3>2, Zenon
  <2>3. f.mem[b + 1].size \in Nat
    BY <1>4, <2>1, <2>2, Zenon DEF Is
  <2>4. FromFreeList(h, b, size) = Got(f, b)
    BY <1>7, <1>10, <2>1, <2>2, Zenon
  <2> QED
    BY <1>1, <1>4, <2>2, <2>3, <2>4, BrokenFinds, Zenon
<1> QED
  BY <1>8, <1>9, <1>10

-----------------------------------------------------------------------------
\* sf_malloc by growing the heap.

\* remove_list on a heap that is growing.
LEMMA RemoveTypes ==
    ASSUME NEW g \in Heaps, NEW m, NEW B, NEW b, b \notin B, Kin(g, m, B, b)
    PROVE  \E f \in Heaps : Unlisted(g, b, m, B, f)
<1>1. PICK f : f = [i \in 0 .. NUM_FREE_LISTS - 1 |-> RemoveFirst(g.free[i], b)]
  OBVIOUS
<1>2. \A i \in 0 .. NUM_FREE_LISTS - 1 : Lists(f[i], Class(m, B, i))
  <2> SUFFICES ASSUME NEW i \in 0 .. NUM_FREE_LISTS - 1
               PROVE  Lists(f[i], Class(m, B, i))
    OBVIOUS
  <2>1. PICK S \in SUBSET {b} : Lists(g.free[i], Class(m, B, i) \cup S)
    BY DEF Kin
  <2>2. Lists(RemoveFirst(g.free[i], b), (Class(m, B, i) \cup S) \ {b})
    BY <2>1, ListRemove
  <2>3. (Class(m, B, i) \cup S) \ {b} = Class(m, B, i)
    BY DEF Class
  <2> QED
    BY <1>1, <2>2, <2>3
<1>3. f \in [0 .. NUM_FREE_LISTS - 1 -> Seq(Even)]
  <2>1. \A i \in 0 .. NUM_FREE_LISTS - 1 : f[i] \in Seq(Even)
    BY <1>2 DEF Lists
  <2> QED
    BY <1>1, <2>1
<1>4. PICK k : k = [g EXCEPT !.free = f]
  OBVIOUS
<1>5. /\ k \in Heaps /\ k.mem = g.mem /\ k.quick = g.quick /\ k.epi = g.epi /\ k.end = g.end
      /\ k.fault = g.fault /\ k.free = f
  BY <1>3, <1>4 DEF Heaps
<1>6. RemoveList(g, b) = k
  <2>1. DOMAIN g.free = 0 .. NUM_FREE_LISTS - 1
    BY HeapFacts
  <2>2. RemoveList(g, b) = [g EXCEPT !.free = [i \in DOMAIN g.free |-> RemoveFirst(g.free[i], b)]]
    BY DEF RemoveList, Heaps
  <2> QED
    BY <1>1, <1>4, <2>1, <2>2
<1>7. Unlisted(g, b, m, B, k)
  BY <1>2, <1>5, <1>6 DEF Unlisted, Alike, Spare
<1> QED
  BY <1>5, <1>7

\* put_block on a heap that is growing.
LEMMA PutTypes ==
    ASSUME NEW g \in Heaps, NEW m, NEW B, NEW b \in Even, b \notin B, NEW n \in Nat,
           Spare(g, m, B), n = g.mem[b + 1].size, b + 3 \in Addr
    PROVE  \E f \in Heaps : PutOn(g, b, m, B, n, f)
<1>1. PICK k : k = [g.mem EXCEPT ![b + 2] = Link, ![b + 3] = Link]
  OBVIOUS
<1>2. b + 2 \in Addr /\ b + 3 \in Addr
  BY EvenFacts, Bounds DEF Addr
<1>3. /\ k \in [Addr -> Words] /\ k[b + 2] = Link
      /\ \A w \in Addr : w # b + 2 /\ w # b + 3 => k[w] = g.mem[w]
  BY <1>1, <1>2, WordFacts, HeapFacts
<1>4. PICK v : v = With(g, k)
  OBVIOUS
<1>5. /\ v \in Heaps /\ v.mem = k /\ v.free = g.free /\ v.quick = g.quick /\ v.epi = g.epi
      /\ v.end = g.end /\ v.fault = g.fault
  BY <1>3, <1>4, WithFacts
<1>6. PICK j \in 0 .. NUM_FREE_LISTS - 1 : j = GetIndex(n)
  BY IndexFacts
<1>7. PICK f : f = [g.free EXCEPT ![j] = Cons(b, g.free[j])]
  OBVIOUS
<1>8. \A i \in 0 .. NUM_FREE_LISTS - 1 :
         Lists(f[i], Class(m, B, i) \cup (IF i = GetIndex(n) THEN {b} ELSE {}))
  <2> SUFFICES ASSUME NEW i \in 0 .. NUM_FREE_LISTS - 1
               PROVE  Lists(f[i], Class(m, B, i) \cup (IF i = GetIndex(n) THEN {b} ELSE {}))
    OBVIOUS
  <2>1. Lists(g.free[i], Class(m, B, i)) /\ DOMAIN g.free = 0 .. NUM_FREE_LISTS - 1
    BY HeapFacts DEF Spare
  <2>2. b \notin Class(m, B, i)
    BY DEF Class
  <2>3. Lists(Cons(b, g.free[i]), Class(m, B, i) \cup {b})
    BY <2>1, <2>2, ListCons
  <2>4. CASE i = j
    BY <1>6, <1>7, <2>1, <2>3, <2>4
  <2>5. CASE i # j
    <3>1. f[i] = g.free[i]
      BY <1>7, <2>1, <2>5
    <3>2. Class(m, B, i) \cup {} = Class(m, B, i)
      OBVIOUS
    <3> QED
      BY <1>6, <2>1, <2>5, <3>1, <3>2
  <2> QED
    BY <2>4, <2>5
<1>9. f \in [0 .. NUM_FREE_LISTS - 1 -> Seq(Even)]
  <2>1. \A i \in 0 .. NUM_FREE_LISTS - 1 : f[i] \in Seq(Even)
    BY <1>8 DEF Lists
  <2>2. DOMAIN f = 0 .. NUM_FREE_LISTS - 1
    BY <1>7, HeapFacts
  <2>3. f = [i \in 0 .. NUM_FREE_LISTS - 1 |-> f[i]]
    BY <1>7, <2>2
  <2> QED
    BY <2>1, <2>3
<1>10. PICK r : r = [v EXCEPT !.free = f]
  OBVIOUS
<1>11. /\ r \in Heaps /\ r.mem = k /\ r.quick = g.quick /\ r.epi = g.epi /\ r.end = g.end
       /\ r.fault = g.fault /\ r.free = f
  BY <1>5, <1>9, <1>10 DEF Heaps
<1>12. PutBlock(g, b) = r
  <2>1. SizeOf(g, b) = n
    BY DEF SizeOf, Header
  <2>2. PutBlock(g, b) = [g EXCEPT !.free[j] = Cons(b, g.free[j]), !.mem = k]
    BY <1>1, <1>6, <2>1 DEF PutBlock
  <2>3. [g EXCEPT !.free[j] = Cons(b, g.free[j]), !.mem = k] = r
    BY <1>4, <1>7, <1>10 DEF With, Heaps
  <2> QED
    BY <2>2, <2>3
<1>13. PutOn(g, b, m, B, n, r)
  BY <1>3, <1>8, <1>11, <1>12 DEF PutOn
<1> QED
  BY <1>11, <1>13

\* Lists without the block are lists that may have it.
LEMMA SpareKin ==
    ASSUME NEW g, NEW m, NEW B, NEW b, Spare(g, m, B)
    PROVE  Kin(g, m, B, b)
<1> SUFFICES ASSUME NEW i \in 0 .. NUM_FREE_LISTS - 1
             PROVE  \E S \in SUBSET {b} : Lists(g.free[i], Class(m, B, i) \cup S)
  BY DEF Kin
<1>1. Lists(g.free[i], Class(m, B, i))
  BY DEF Spare
<1>2. Class(m, B, i) \cup {} = Class(m, B, i)
  OBVIOUS
<1> QED
  BY <1>1, <1>2

\* So are lists that have got it.
LEMMA PutKin ==
    ASSUME NEW g, NEW m, NEW B, NEW b, NEW n, NEW f, PutOn(g, b, m, B, n, f)
    PROVE  Kin(f, m, B, b)
<1> SUFFICES ASSUME NEW i \in 0 .. NUM_FREE_LISTS - 1
             PROVE  \E S \in SUBSET {b} : Lists(f.free[i], Class(m, B, i) \cup S)
  BY DEF Kin
<1>1. Lists(f.free[i], Class(m, B, i) \cup (IF i = GetIndex(n) THEN {b} ELSE {}))
  BY DEF PutOn
<1> QED
  BY <1>1

\* The last block gets the size it has with one page more.
LEMMA RetagLast ==
    ASSUME NEW h \in Heaps, NEW a \in Nat, NEW tag \in Tags, CanRetagLast(h, a, tag)
    PROVE  \E k \in [Addr -> Words] : LastTag(h, a, tag, k)
<1>0. /\ tag.alloc = FALSE
      /\ h.mem[a + 1] \in Tags /\ (a = h.epi \/ h.mem[a + 1].size >= 2)
      /\ h.mem[a + 1].size <= tag.size /\ tag.size >= 2 /\ a + tag.size + 1 \in Addr
  BY DEF CanRetagLast
<1>1. tag.size \in Nat /\ tag \in Words
  BY TagFacts, <1>0
<1>2. CASE a = h.epi
  <2>1. a + 1 \in Addr
    BY <1>0, <1>1, Bounds DEF Addr
  <2>2. PICK k : k = [h.mem EXCEPT ![a + 1] = tag]
    OBVIOUS
  <2>3. k \in [Addr -> Words] /\ k[a + 1] = tag /\ \A w \in Addr : w # a + 1 => k[w] = h.mem[w]
    BY <1>1, <2>1, <2>2, HeapFacts
  <2>4. SetEntireHeader(h, a, tag) = With(h, k)
    BY <1>0, <1>2, <2>1, <2>2, RetagEpilogue
  <2>5. \A w \in Addr : w <= a \/ w > a + tag.size + 1 => w # a + 1
    BY <1>0, <1>1 DEF Addr
  <2> QED
    BY <2>3, <2>4, <2>5 DEF LastTag
<1>3. CASE a # h.epi
  <2>1. PICK k \in [Addr -> Words] : Freed(h, a, tag, k)
    BY <1>0, <1>3, RetagFree
  <2> QED
    BY <2>1 DEF Freed, LastTag
<1> QED
  BY <1>0, <1>2, <1>3

\* One page for the last block: it is on the list of its new class, and no
\* other block is touched.
LEMMA GrowFacts ==
    ASSUME NEW h, NEW B, NEW a, NEW s, NEW z, NEW g, CanGrow(h, B, a, s, z),
           Grown(h, B, a, s, z, g)
    PROVE  \E f \in Heaps : Grows(h, B, a, s, z, g, f)
<1>1. /\ a \in Even /\ a \notin B /\ s \in Even /\ z \in Even /\ (a = h.epi \/ s >= 2)
      /\ z + PAGE_SZ <= Top
  BY DEF CanGrow
<1>2. /\ g \in Heaps /\ g.quick = h.quick /\ g.epi = h.epi /\ g.fault = "none" /\ g.end = z
      /\ \A w \in Addr : w <= a => g.mem[w] = h.mem[w]
      /\ g.mem[a + 1] \in Tags /\ g.mem[a + 1].size = s /\ g.mem[a + 1].prv = h.mem[a + 1].prv
      /\ \A w \in Addr : w >= z => g.mem[w] = Blank
      /\ Kin(g, h.mem, B, a) /\ (g.mem[a + 2] = Blank => Spare(g, h.mem, B))
      /\ z = a + s + 2
  BY DEF Grown
<1>3. /\ a \in Nat /\ s \in Nat /\ z \in Nat /\ PAGE_SZ \in Nat /\ PAGE_SZ >= 10
      /\ PAGE_SZ \in Even /\ z + PAGE_SZ \in Even /\ s + PAGE_SZ \in Even /\ Top \in Nat
  <2>1. PAGE_SZ \in Nat /\ PAGE_SZ >= 10 /\ PAGE_SZ \in Even /\ Top \in Nat
    BY Bounds, EvenFacts, SizesAssumption
  <2> QED
    BY <1>1, <2>1, EvenFacts
<1>4. PICK x \in Even, n \in Even : x = z + PAGE_SZ /\ n = s + PAGE_SZ
  BY <1>3
<1>5. PICK more \in Heaps :
         /\ more = [g EXCEPT !.end = @ + PAGE_SZ] /\ more.end = x /\ more.mem = g.mem
         /\ more.quick = g.quick /\ more.epi = g.epi /\ more.fault = g.fault
         /\ more.free = g.free
  <2>1. PICK more : more = [g EXCEPT !.end = x]
    OBVIOUS
  <2>2. /\ more \in Heaps /\ more.end = x /\ more.mem = g.mem
        /\ more.quick = g.quick /\ more.epi = g.epi /\ more.fault = g.fault
        /\ more.free = g.free
    BY <1>2, <2>1 DEF Heaps
  <2>3. [g EXCEPT !.end = @ + PAGE_SZ] = [g EXCEPT !.end = g.end + PAGE_SZ]
    BY <1>2 DEF Heaps
  <2> QED
    BY <1>2, <1>4, <2>1, <2>2, <2>3
<1>6. Kin(more, h.mem, B, a) /\ (more.mem[a + 2] = Blank => Spare(more, h.mem, B))
  BY <1>2, <1>5 DEF Kin, Spare
<1>7. PICK off \in Heaps :
         /\ off = (IF more.mem[a + 2] = Blank THEN more ELSE RemoveList(more, a))
         /\ Alike(more, off) /\ Spare(off, h.mem, B)
  <2>1. CASE more.mem[a + 2] = Blank
    BY <1>6, <2>1 DEF Alike
  <2>2. CASE more.mem[a + 2] # Blank
    <3>1. PICK f \in Heaps : Unlisted(more, a, h.mem, B, f)
      BY <1>1, <1>6, RemoveTypes
    <3> QED
      BY <2>2, <3>1 DEF Unlisted
  <2> QED
    BY <2>1, <2>2
<1>8. /\ off.mem = g.mem /\ off.quick = h.quick /\ off.epi = h.epi /\ off.end = x
      /\ off.fault = "none"
  BY <1>2, <1>5, <1>7 DEF Alike
<1>9. PICK v \in BOOLEAN : v = g.mem[a + 1].prv
  BY <1>2, TagFacts
<1>10. PICK tag \in Tags : /\ tag = Tag(0, n, FALSE, v, FALSE) /\ tag.size = n
                           /\ tag.alloc = FALSE /\ tag.prv = v /\ tag.qk = FALSE
  BY FreeTag, ZenonT(60)
<1>11. SizeOf(off, a) = s /\ Header(off, a).prv = v
  BY <1>2, <1>8, <1>9 DEF SizeOf, Header
<1>12. Grow(g, a) = PutBlock(SetEntireHeader(off, a, tag), a)
  BY <1>4, <1>5, <1>7, <1>10, <1>11 DEF Grow
<1>13. a + n + 1 \in Addr /\ s <= n /\ n >= 2 /\ a + n + 2 = x /\ x <= Top
  BY <1>1, <1>2, <1>3, <1>4 DEF Addr
<1>14. PICK k \in [Addr -> Words] :
              /\ SetEntireHeader(off, a, tag) = With(off, k) /\ k[a + 1] = tag
              /\ \A w \in Addr : w <= a \/ w > a + n + 1 => k[w] = off.mem[w]
  <2>1. off.mem[a + 1] \in Tags /\ off.mem[a + 1].size = s
    BY <1>2, <1>8
  <2>2. a = off.epi \/ off.mem[a + 1].size >= 2
    BY <1>1, <1>8, <2>1
  <2>3. off.mem[a + 1].size <= tag.size /\ tag.size >= 2 /\ a + tag.size + 1 \in Addr
    BY <1>10, <1>13, <2>1
  <2>4. CanRetagLast(off, a, tag)
    BY <1>10, <2>1, <2>2, <2>3 DEF CanRetagLast
  <2>5. PICK k \in [Addr -> Words] : LastTag(off, a, tag, k)
    BY <1>3, <2>4, RetagLast
  <2> QED
    BY <1>10, <2>5 DEF LastTag
<1>15. PICK u \in Heaps :
          /\ u = With(off, k) /\ u.mem = k /\ u.free = off.free /\ u.quick = h.quick
          /\ u.epi = h.epi /\ u.end = x /\ u.fault = "none"
  BY <1>8, WithFacts
<1>16. Spare(u, h.mem, B) /\ n = u.mem[a + 1].size /\ a + 3 \in Addr /\ n \in Nat
  <2>1. Spare(u, h.mem, B)
    BY <1>7, <1>15 DEF Spare
  <2>2. a + 3 \in Addr
    BY <1>3, <1>4, <1>13 DEF Addr
  <2>3. n = u.mem[a + 1].size
    BY <1>10, <1>14, <1>15
  <2> QED
    BY <1>3, <1>4, <2>1, <2>2, <2>3
<1>17. PICK f \in Heaps : PutOn(u, a, h.mem, B, n, f)
  BY <1>1, <1>16, PutTypes
<1>18. /\ PutBlock(u, a) = f /\ f.quick = h.quick /\ f.epi = h.epi /\ f.end = x
       /\ f.fault = "none" /\ f.mem[a + 2] = Link
       /\ \A w \in Addr : w # a + 2 /\ w # a + 3 => f.mem[w] = k[w]
  BY <1>15, <1>17 DEF PutOn
<1>19. f.mem[a + 1] = tag
  <2>1. a + 1 \in Addr /\ a + 1 # a + 2 /\ a + 1 # a + 3
    BY <1>3, <1>16 DEF Addr
  <2> QED
    BY <1>14, <1>18, <2>1
<1>20. ASSUME NEW w \in Addr, w <= a \/ w >= x
       PROVE  f.mem[w] = g.mem[w]
  <2>1. w # a + 2 /\ w # a + 3 /\ (w <= a \/ w > a + n + 1)
    BY <1>3, <1>4, <1>13, <1>20 DEF Addr
  <2> QED
    BY <1>8, <1>14, <1>18, <2>1
<1>21. \A w \in Addr : w <= a => f.mem[w] = h.mem[w]
  BY <1>2, <1>20
<1>22. \A w \in Addr : w >= x => f.mem[w] = Blank
  <2>1. \A w \in Addr : w >= x => w >= z
    BY <1>3, <1>4 DEF Addr
  <2> QED
    BY <1>2, <1>20, <2>1
<1>23. Kin(f, h.mem, B, a)
  BY <1>17, PutKin
<1>24. f.mem[a + 2] # Blank
  BY <1>18, WordFacts
<1>25. x = a + n + 2
  BY <1>3, <1>4, <1>13
<1>26. Grown(h, B, a, n, x, f)
  <2>1. f.mem[a + 1] \in Tags /\ f.mem[a + 1].size = n /\ f.mem[a + 1].prv = h.mem[a + 1].prv
    BY <1>2, <1>9, <1>10, <1>19
  <2> QED
    BY <1>18, <1>21, <1>22, <1>23, <1>24, <1>25, <2>1 DEF Grown
<1> QED
  BY <1>4, <1>10, <1>12, <1>14, <1>15, <1>18, <1>19, <1>26 DEF Grows

\* Repeating a step a number of times is a function that exists.
LEMMA Iteration ==
    ASSUME NEW N \in Nat, NEW V, NEW first \in V, NEW step \in [(0 .. N) \X V -> V]
    PROVE  \E f \in [0 .. N -> V] : Iterates(N, first, step, f)
<1> DEFINE S == 0 .. N
           below == [i \in S |-> IF i = 0 THEN {} ELSE {i - 1}]
           D == [p \in [S -> V] |-> [i \in S |-> IF i = 0 THEN first
                                                 ELSE step[<<i, p[i - 1]>>]]]
<1>1. \A i \in S : i # 0 => i - 1 \in S /\ i - 1 < i
  OBVIOUS
<1>2. Founded(S, below)
  <2>1. S \in SUBSET Nat
    OBVIOUS
  <2>2. below \in [S -> SUBSET S]
    BY <1>1
  <2>3. \A n \in S : \A k \in below[n] : k < n
    BY <1>1
  <2> HIDE DEF S, below
  <2> QED
    BY <2>1, <2>2, <2>3, NaturalsFounded
<1>3. Local(S, V, below, D)
  <2>1. D \in [[S -> V] -> [S -> V]]
    <3>1. \A p \in [S -> V] : \A i \in S : i # 0 => step[<<i, p[i - 1]>>] \in V
      <4> SUFFICES ASSUME NEW p \in [S -> V], NEW i \in S, i # 0
                   PROVE  step[<<i, p[i - 1]>>] \in V
        OBVIOUS
      <4>1. i - 1 \in S
        BY <1>1
      <4>2. p[i - 1] \in V
        BY <4>1
      <4> QED
        BY <4>2
    <3>2. \A p \in [S -> V] :
             [i \in S |-> IF i = 0 THEN first ELSE step[<<i, p[i - 1]>>]] \in [S -> V]
      BY <3>1
    <3> HIDE DEF S
    <3> QED
      BY <3>2
  <2>2. \A f, g \in [S -> V] : \A x \in S :
           (\A y \in below[x] : f[y] = g[y]) => D[f][x] = D[g][x]
    <3> SUFFICES ASSUME NEW f \in [S -> V], NEW g \in [S -> V], NEW x \in S,
                        \A y \in below[x] : f[y] = g[y]
                 PROVE  D[f][x] = D[g][x]
      OBVIOUS
    <3>1. x # 0 => f[x - 1] = g[x - 1]
      BY <1>1
    <3>2. /\ D[f][x] = IF x = 0 THEN first ELSE step[<<x, f[x - 1]>>]
          /\ D[g][x] = IF x = 0 THEN first ELSE step[<<x, g[x - 1]>>]
      OBVIOUS
    <3> HIDE DEF D
    <3> QED
      BY <3>1, <3>2
  <2> HIDE DEF S, below, D
  <2> QED
    BY <2>1, <2>2 DEF Local
<1>4. \E f \in [S -> V] : f = D[f]
  <2> HIDE DEF below, D, S
  <2> QED
    BY <1>2, <1>3, RecursiveFunctionExists
<1>5. PICK f \in [S -> V] :
         f = [i \in S |-> IF i = 0 THEN first ELSE step[<<i, f[i - 1]>>]]
  BY <1>4
<1>6. f[0] = first /\ \A n \in 1 .. N : f[n] = step[<<n, f[n - 1]>>]
  BY <1>5
<1> QED
  BY <1>6 DEF Iterates

\* Arithmetic of whole pages.
LEMMA Paged ==
    ASSUME NEW i \in Nat
    PROVE  /\ i * PAGE_SZ \in Even /\ (i + 1) * PAGE_SZ = i * PAGE_SZ + PAGE_SZ
           /\ \A j \in Nat : j <= i => j * PAGE_SZ <= i * PAGE_SZ
           /\ \A j \in Nat : (i + j) * PAGE_SZ = i * PAGE_SZ + j * PAGE_SZ
           /\ (i * PAGE_SZ) \div PAGE_SZ = i
<1>1. PAGE_SZ \in Nat /\ PAGE_SZ >= 10 /\ PAGE_SZ % 2 = 0
  BY SizesAssumption
<1>2. PICK k \in Nat : PAGE_SZ = 2 * k
  BY <1>1
<1>3. i * PAGE_SZ = 2 * (i * k) /\ i * k \in Nat
  BY <1>1, <1>2, SMTT(30)
<1>4. \A x \in Nat : (2 * x) % 2 = 0 /\ 2 * x \in Nat
  OBVIOUS
<1>5. i * PAGE_SZ \in Even
  BY <1>3, <1>4 DEF Even
<1>6. (i + 1) * PAGE_SZ = i * PAGE_SZ + PAGE_SZ
  BY <1>1, SMTT(30)
<1>7. \A j \in Nat : j <= i => j * PAGE_SZ <= i * PAGE_SZ
  BY <1>1, SMTT(30)
<1>8. \A j \in Nat : (i + j) * PAGE_SZ = i * PAGE_SZ + j * PAGE_SZ
  BY <1>1, SMTT(30)
<1>9. (i * PAGE_SZ) \div PAGE_SZ = i
  BY <1>1, SMTT(30)
<1> QED
  BY <1>5, <1>6, <1>7, <1>8, <1>9

\* The pages that are asked for hold what is missing.
LEMMA PagesFacts ==
    ASSUME NEW d \in Nat, d >= 1, NEW n, n = (d + PAGE_SZ - 1) \div PAGE_SZ
    PROVE  n \in Nat /\ n >= 1 /\ d <= n * PAGE_SZ
<1>1. PAGE_SZ \in Nat /\ PAGE_SZ >= 10
  BY SizesAssumption
<1>2. PICK x \in Nat : x = d + PAGE_SZ - 1
  BY <1>1
<1>3. n = x \div PAGE_SZ
  BY <1>2
<1>4. n \in Nat /\ n * PAGE_SZ <= x /\ x < n * PAGE_SZ + PAGE_SZ
  BY <1>1, <1>3, SMTT(30)
<1>5. n >= 1
  <2>1. n # 0
    <3> SUFFICES ASSUME n = 0 PROVE FALSE
      OBVIOUS
    <3>1. x < PAGE_SZ
      BY <1>1, <1>4
    <3> QED
      BY <1>1, <1>2, <3>1
  <2> QED
    BY <1>4, <2>1
<1>6. n * PAGE_SZ \in Nat
  BY <1>1, <1>4
<1> QED
  BY <1>1, <1>2, <1>4, <1>5, <1>6

\* A heap that has not grown yet.
LEMMA LastGrown ==
    ASSUME NEW h, NEW C, NEW a, NEW s, CanLast(h, C, a, s)
    PROVE  /\ Grown(h, C \ {a}, a, s, h.end, h) /\ a \in Even /\ s \in Even
           /\ (a = h.epi \/ s >= 2)
<1>1. Sound(h, C, -1, {})
  BY DEF CanLast
<1>2. /\ h \in Heaps /\ h.epi \in Even /\ h.end = h.epi + 2 /\ h.epi \in Nat
      /\ h.mem[h.epi + 1] \in Tags /\ h.mem[h.epi + 1].size = 0 /\ h.epi \notin C
      /\ h.fault = "none"
  BY <1>1, SoundFacts DEF Epilogue
<1>3. /\ a \in Even /\ s \in Even /\ (a = h.epi \/ s >= 2) /\ h.mem[a + 1] \in Tags
      /\ h.mem[a + 1].size = s /\ h.end = a + s + 2
  <2>1. CASE a = h.epi /\ s = 0
    BY <1>2, <2>1, EvenFacts
  <2>2. CASE /\ a \in C /\ a # pro /\ h.mem[a + 1].alloc = FALSE /\ s = h.mem[a + 1].size
             /\ Nx(h.mem, a) = h.epi
    <3>1. /\ a \in Even /\ a \in Nat /\ h.mem[a + 1] \in Tags /\ h.mem[a + 1].size \in Even
          /\ h.mem[a + 1].size \in Nat
          /\ h.mem[a + 1].size >= 4 /\ Nx(h.mem, a) = a + h.mem[a + 1].size
      BY <1>1, <2>2, BlockTypes
    <3> QED
      BY <1>2, <2>2, <3>1
  <2> QED
    BY <2>1, <2>2 DEF CanLast
<1>4. \A i \in 0 .. NUM_FREE_LISTS - 1 : Lists(h.free[i], Class(h.mem, C, i))
  <2>1. C \ {} = C
    OBVIOUS
  <2> QED
    BY <1>1, <2>1 DEF Sound, Listed
<1>5. Kin(h, h.mem, C \ {a}, a)
  <2> SUFFICES ASSUME NEW i \in 0 .. NUM_FREE_LISTS - 1
               PROVE  \E S \in SUBSET {a} :
                         Lists(h.free[i], Class(h.mem, C \ {a}, i) \cup S)
    BY DEF Kin
  <2>1. PICK S \in SUBSET {a} : S = Class(h.mem, C, i) \cap {a}
    OBVIOUS
  <2>2. Class(h.mem, C \ {a}, i) \cup S = Class(h.mem, C, i)
    BY <2>1 DEF Class
  <2> QED
    BY <1>4, <2>1, <2>2
<1>6. h.mem[a + 2] = Blank => Spare(h, h.mem, C \ {a})
  <2>1. CASE a = h.epi
    <3>1. C \ {a} = C
      BY <1>2, <2>1
    <3> QED
      BY <1>4, <3>1 DEF Spare
  <2>2. CASE a \in C /\ h.mem[a + 1].alloc = FALSE
    <3>1. h.mem[a + 2] = Link
      BY <1>1, <2>2 DEF Sound, Listed
    <3> QED
      BY <3>1, WordFacts
  <2> QED
    BY <2>1, <2>2 DEF CanLast
<1>7. \A w \in Addr : w >= h.end => h.mem[w] = Blank
  BY <1>1 DEF Sound, Ended
<1>8. Grown(h, C \ {a}, a, s, h.end, h)
  BY <1>2, <1>3, <1>5, <1>6, <1>7 DEF Grown
<1> QED
  BY <1>3, <1>8

\* A number of pages for the last block.
LEMMA GrewFacts ==
    ASSUME NEW h, NEW C, NEW a, NEW s, CanLast(h, C, a, s), NEW n \in Nat,
           h.end + n * PAGE_SZ <= Top
    PROVE  \E f \in Heaps : Bigger(h, C, a, s, n, f)
<1>1. /\ h \in Heaps /\ h.end \in Even /\ h.end \in Nat
  <2>1. Sound(h, C, -1, {})
    BY DEF CanLast
  <2> QED
    BY <2>1, SoundFacts, HeapFacts, EvenFacts
<1>2. Grown(h, C \ {a}, a, s, h.end, h) /\ a \in Even /\ s \in Even /\ (a = h.epi \/ s >= 2)
      /\ s \in Nat
  BY LastGrown, EvenFacts
<1>3. PICK e \in Nat : e = h.end
  BY <1>1
<1>4. PAGE_SZ \in Nat /\ PAGE_SZ >= 10 /\ Top \in Nat
  BY Bounds
<1> DEFINE step == [x \in (0 .. n) \X Heaps |->
                       IF Grow(x[2], a) \in Heaps THEN Grow(x[2], a) ELSE h]
           Reached(i, g) == /\ Grown(h, C \ {a}, a, s + i * PAGE_SZ, e + i * PAGE_SZ, g)
                            /\ i >= 1 => g.mem[a + 1].alloc = FALSE /\ g.mem[a + 1].qk = FALSE
<1>5. ASSUME NEW i \in Nat, i < n, NEW g, Reached(i, g)
      PROVE  Grow(g, a) \in Heaps /\ Reached(i + 1, Grow(g, a))
  <2>1. PICK r \in Even : r = i * PAGE_SZ
    BY Paged
  <2>2. r \in Nat /\ (i + 1) * PAGE_SZ = r + PAGE_SZ /\ (i + 1) * PAGE_SZ <= n * PAGE_SZ
        /\ n * PAGE_SZ \in Nat /\ (i + 1) * PAGE_SZ \in Nat
    BY <1>4, <1>5, <2>1, Paged, EvenFacts
  <2>3. CanGrow(h, C \ {a}, a, s + r, e + r)
    <3>1. a \notin C \ {a}
      OBVIOUS
    <3>2. s + r \in Even /\ e + r \in Even
      BY <1>1, <1>2, <1>3, <2>1, EvenFacts
    <3>3. a = h.epi \/ s + r >= 2
      BY <1>2, <2>2
    <3>4. e + r + PAGE_SZ <= Top
      BY <1>3, <1>4, <2>2
    <3> QED
      BY <1>2, <3>1, <3>2, <3>3, <3>4 DEF CanGrow
  <2>4. Grown(h, C \ {a}, a, s + r, e + r, g)
    BY <1>5, <2>1
  <2>7. PICK B, s0, z : B = C \ {a} /\ s0 = s + r /\ z = e + r
    OBVIOUS
  <2>8. CanGrow(h, B, a, s0, z) /\ Grown(h, B, a, s0, z, g)
    BY <2>3, <2>4, <2>7
  <2>9. PICK f \in Heaps : Grows(h, B, a, s0, z, g, f)
    BY <2>8, GrowFacts
  <2>5. /\ Grow(g, a) = f /\ Grown(h, C \ {a}, a, s + r + PAGE_SZ, e + r + PAGE_SZ, f)
        /\ f.mem[a + 1].alloc = FALSE /\ f.mem[a + 1].qk = FALSE
    BY <2>7, <2>9 DEF Grows
  <2>6. s + r + PAGE_SZ = s + (i + 1) * PAGE_SZ /\ e + r + PAGE_SZ = e + (i + 1) * PAGE_SZ
    BY <1>2, <1>4, <2>2
  <2> QED
    BY <2>5, <2>6
<1>6. Reached(0, h)
  <2>1. 0 * PAGE_SZ = 0 /\ s + 0 = s /\ e + 0 = e
    BY <1>2, <1>4
  <2> QED
    BY <1>2, <1>3, <2>1
<1>7. ASSUME NEW i \in Nat, NEW f, f[0] = h,
             \A j \in 1 .. n : Reached(j - 1, f[j - 1]) => Reached(j, f[j])
      PROVE  i <= n => Reached(i, f[i])
  <2> DEFINE T == {j \in Nat : j <= n => Reached(j, f[j])}
  <2> HIDE DEF Reached
  <2>1. 0 \in T
    BY <1>6, <1>7
  <2>2. \A j \in Nat : j \in T => j + 1 \in T
    <3> SUFFICES ASSUME NEW j \in Nat, j \in T, j + 1 <= n
                 PROVE  Reached(j + 1, f[j + 1])
      OBVIOUS
    <3>1. j <= n /\ j + 1 \in 1 .. n /\ (j + 1) - 1 = j
      OBVIOUS
    <3>2. Reached(j, f[j])
      BY <3>1
    <3> QED
      BY <1>7, <3>1, <3>2
  <2>3. Nat \subseteq T
    <3> HIDE DEF T
    <3> QED
      BY <2>1, <2>2, SetInduction
  <2> QED
    BY <2>3
<1>8. PICK f \in [0 .. n -> Heaps] :
              /\ f[0] = h
              /\ \A i \in 1 .. n : f[i] = step[<<i, f[i - 1]>>]
  <2>1. step \in [(0 .. n) \X Heaps -> Heaps]
    BY <1>1
  <2> HIDE DEF step
  <2>2. PICK V : V = Heaps
    OBVIOUS
  <2>3. PICK st \in [(0 .. n) \X V -> V] : st = step
    BY <2>1, <2>2
  <2>4. h \in V
    BY <1>1, <2>2
  <2>5. \E g \in [0 .. n -> V] : Iterates(n, h, st, g)
    BY <2>4, Iteration
  <2> QED
    BY <2>2, <2>3, <2>5 DEF Iterates
<1>9. \A i \in 1 .. n : Reached(i - 1, f[i - 1]) => f[i] = Grow(f[i - 1], a) /\ Reached(i, f[i])
  <2> SUFFICES ASSUME NEW i \in 1 .. n, Reached(i - 1, f[i - 1])
               PROVE  f[i] = Grow(f[i - 1], a) /\ Reached(i, f[i])
    OBVIOUS
  <2> HIDE DEF Reached
  <2>1. i - 1 \in Nat /\ i - 1 < n /\ (i - 1) + 1 = i /\ i - 1 \in 0 .. n /\ i \in 0 .. n
    OBVIOUS
  <2>2. Grow(f[i - 1], a) \in Heaps /\ Reached(i, Grow(f[i - 1], a))
    BY <1>5, <2>1
  <2>3. <<i, f[i - 1]>> \in (0 .. n) \X Heaps
    BY <1>8, <2>1
  <2>4. step[<<i, f[i - 1]>>] = Grow(f[i - 1], a)
    BY <2>2, <2>3
  <2> QED
    BY <1>8, <2>2, <2>4
<1> HIDE DEF Reached, step
<1>10. \A i \in 0 .. n : Reached(i, f[i])
  BY <1>7, <1>8, <1>9
<1>11. f = [i \in 0 .. n |-> IF i = 0 THEN h ELSE Grow(f[i - 1], a)]
  <2>1. \A i \in 0 .. n : f[i] = IF i = 0 THEN h ELSE Grow(f[i - 1], a)
    <3> SUFFICES ASSUME NEW i \in 0 .. n, i # 0
                 PROVE  f[i] = Grow(f[i - 1], a)
      BY <1>8
    <3>1. i \in 1 .. n /\ i - 1 \in 0 .. n
      OBVIOUS
    <3> QED
      BY <1>9, <1>10, <3>1
  <2> QED
    BY <1>8, <2>1
<1>12. PICK grown : /\ grown = [i \in 0 .. n |-> IF i = 0 THEN h ELSE Grow(grown[i - 1], a)]
                    /\ Grew(h, a, n) = grown[n]
  BY <1>11 DEF Grew
<1>13. Reached(n, grown[n]) /\ grown[n] \in Heaps
  <2>1. grown[0] = h
    BY <1>12
  <2>2. \A i \in 1 .. n : Reached(i - 1, grown[i - 1]) => Reached(i, grown[i])
    <3> SUFFICES ASSUME NEW i \in 1 .. n, Reached(i - 1, grown[i - 1])
                 PROVE  Reached(i, grown[i])
      OBVIOUS
    <3>1. i - 1 \in Nat /\ i - 1 < n /\ (i - 1) + 1 = i /\ i \in 0 .. n /\ i # 0
      OBVIOUS
    <3>2. grown[i] = Grow(grown[i - 1], a)
      BY <1>12, <3>1
    <3> QED
      BY <1>5, <3>1, <3>2
  <2>3. Reached(n, grown[n])
    <3>1. PICK k, z : k = n /\ z = grown /\ k \in Nat
      OBVIOUS
    <3>2. z[0] = h /\ \A i \in 1 .. n : Reached(i - 1, z[i - 1]) => Reached(i, z[i])
      BY <2>1, <2>2, <3>1
    <3>3. k <= n
      BY <3>1
    <3>4. k <= n => Reached(k, z[k])
      BY <1>7, <3>1, <3>2
    <3> QED
      BY <3>1, <3>3, <3>4
  <2>4. grown[n] \in Heaps
    BY <2>3 DEF Reached, Grown
  <2> QED
    BY <2>3, <2>4
<1>14. Bigger(h, C, a, s, n, grown[n])
  BY <1>3, <1>12, <1>13 DEF Bigger, Reached
<1> QED
  BY <1>13, <1>14

\* The blocks before the last one.
LEMMA LastFacts ==
    ASSUME NEW h, NEW C, NEW a, NEW s, CanLast(h, C, a, s)
    PROVE  /\ \A b \in C \ {a} : b \in Nat /\ b \in Even /\ b < a /\ b + 1 <= a /\ b + 2 <= a
           /\ Below(C, a) = C \ {a} /\ a \in Nat /\ a \in Addr /\ a + 1 \in Addr /\ a # pro
           /\ a + s = h.epi /\ s \in Nat
           /\ a \in C \cup {h.epi} /\ (a \in C => h.mem[a + 1].qk = FALSE)
           /\ a \notin Alloc(h.mem, C)
<1>1. Sound(h, C, -1, {}) /\ (\/ a = h.epi /\ s = 0
                              \/ /\ a \in C /\ a # pro /\ h.mem[a + 1].alloc = FALSE
                                 /\ s = h.mem[a + 1].size /\ Nx(h.mem, a) = h.epi)
  BY DEF CanLast
<1>2. /\ h.epi \in Nat /\ h.epi \in Even /\ h.epi + 1 \in Addr /\ h.epi \notin C /\ pro # h.epi
      /\ Shape(h.mem, C, h.epi, -1) /\ Top \in Nat
  BY <1>1, SoundFacts, Bounds
<1>3. \A b \in C : b \in Nat /\ b \in Even /\ b < h.epi /\ b \in Addr /\ b + 1 \in Addr
  <2> SUFFICES ASSUME NEW b \in C
               PROVE  b \in Nat /\ b \in Even /\ b < h.epi /\ b \in Addr /\ b + 1 \in Addr
    OBVIOUS
  <2> QED
    BY <1>1, BlockTypes
<1>4. /\ a \in Nat /\ a \in Even /\ a \in Addr /\ a + 1 \in Addr /\ a # pro /\ a + s = h.epi
      /\ s \in Nat /\ a \in C \cup {h.epi} /\ (a \in C => h.mem[a + 1].qk = FALSE)
      /\ a \notin Alloc(h.mem, C)
  <2>1. CASE a = h.epi /\ s = 0
    <3>1. h.epi \in Addr
      BY <1>2 DEF Addr
    <3> QED
      BY <1>2, <2>1, <3>1 DEF Alloc
  <2>2. CASE /\ a \in C /\ a # pro /\ h.mem[a + 1].alloc = FALSE
             /\ s = h.mem[a + 1].size /\ Nx(h.mem, a) = h.epi
    <3>1. h.mem[a + 1].size \in Nat /\ Nx(h.mem, a) = a + h.mem[a + 1].size
          /\ Joint(h.mem, a, -1)
      BY <1>1, <2>2, BlockTypes
    <3>2. h.mem[a + 1].qk = FALSE
      BY <2>2, <3>1 DEF Joint
    <3>3. a \notin Alloc(h.mem, C)
      BY <2>2 DEF Alloc
    <3> QED
      BY <1>3, <2>2, <3>1, <3>2, <3>3
  <2> QED
    BY <1>1, <2>1, <2>2
<1>5. ASSUME NEW b \in C \ {a}
      PROVE  b < a
  <2>1. CASE a = h.epi
    BY <1>3, <2>1
  <2>2. CASE a \in C /\ Nx(h.mem, a) = h.epi
    <3>1. b \in Nat /\ b < h.epi /\ b # a
      BY <1>3
    <3>2. ~(a < b)
      <4> SUFFICES ASSUME a < b PROVE FALSE
        OBVIOUS
      <4>1. Nx(h.mem, a) <= b
        BY <1>2, <2>2, Apart
      <4> QED
        BY <1>2, <2>2, <3>1, <4>1
    <3> QED
      BY <1>4, <3>1, <3>2
  <2> QED
    BY <1>1, <2>1, <2>2
<1>6. \A b \in C \ {a} : b \in Nat /\ b \in Even /\ b < a /\ b + 1 <= a /\ b + 2 <= a
  <2> SUFFICES ASSUME NEW b \in C \ {a}
               PROVE  b \in Nat /\ b \in Even /\ b < a /\ b + 1 <= a /\ b + 2 <= a
    OBVIOUS
  <2>1. b \in Nat /\ b \in Even /\ b < a
    BY <1>3, <1>5
  <2>2. b + 2 <= a
    BY <1>4, <2>1, EvenFacts
  <2> QED
    BY <1>4, <2>1, <2>2
<1>7. Below(C, a) = C \ {a}
  <2>1. ~(a < a)
    BY <1>4
  <2>2. \A b \in C : b < a <=> b # a
    BY <1>5, <2>1
  <2> QED
    BY <2>2 DEF Below
<1> QED
  BY <1>4, <1>6, <1>7

\* The last block ends at the epilogue.
LEMMA LastSum ==
    ASSUME NEW h, NEW C, NEW a, NEW s, CanLast(h, C, a, s)
    PROVE  LastAt(h, a, s)
<1>1. a \in Nat /\ s \in Nat
  BY LastFacts
<1>2. Grown(h, C \ {a}, a, s, h.end, h) /\ Sound(h, C, -1, {})
  BY LastGrown DEF CanLast
<1>3. h.end = a + s + 2 /\ h.end = h.epi + 2 /\ h.epi \in Nat
  BY <1>2, SoundFacts DEF Grown
<1> QED
  BY <1>1, <1>3 DEF LastAt

\* The heap is in shape once its last block has been given.
LEMMA EndingShape ==
    ASSUME NEW h, NEW C, NEW a, NEW s, NEW need, NEW S, CanEnd(h, C, a, s, need, S),
           NEW size, NEW k \in [Addr -> Words], Ending(h, a, need, size, S, k)
    PROVE  \E D : Ends1(h, C, a, a + need, a + S, k, D)
<1>1. /\ CanLast(h, C, a, s) /\ need \in Even /\ need >= 4 /\ S \in Even /\ need + 4 <= S
      /\ a + S + 1 \in Addr /\ s < need /\ need \in Nat /\ S \in Nat
  BY EvenFacts DEF CanEnd, min
<1>2. /\ Below(C, a) = C \ {a} /\ a \in Nat /\ a # pro /\ a \in C \cup {h.epi}
      /\ Sound(h, C, -1, {}) /\ a \in Even /\ a + s = h.epi /\ s \in Nat
      /\ \A b \in C : b \in Nat /\ b < h.epi
  <2>1. Sound(h, C, -1, {})
    BY <1>1 DEF CanLast
  <2>2. \A b \in C : b \in Nat /\ b < h.epi
    BY <2>1, BlockTypes
  <2>3. a \in Even
    BY <1>1, LastGrown
  <2>4. /\ Below(C, a) = C \ {a} /\ a \in Nat /\ a # pro /\ a \in C \cup {h.epi}
        /\ a + s = h.epi /\ s \in Nat
    <3>1. CanLast(h, C, a, s)
      BY <1>1
    <3> QED
      BY <3>1, LastFacts, ZenonT(60)
  <2> QED
    BY <2>1, <2>2, <2>3, <2>4
<1>3. PICK p \in Even, e \in Even, n \in Even : p = a + need /\ e = a + S /\ n = S - need
  BY <1>1, <1>2, EvenFacts
<1>4. /\ \A w \in Addr : w <= a => k[w] = h.mem[w]
      /\ Is(k[a + 1], size, need) /\ k[a + 1].prv = h.mem[a + 1].prv
      /\ k[p] \in Tags /\ k[p].size = need
      /\ k[p + 1] \in Tags /\ k[p + 1].size = n
      /\ k[p + 1].alloc = FALSE /\ k[p + 1].prv = TRUE /\ k[p + 1].qk = FALSE
      /\ k[e] \in Tags /\ k[e].size = n /\ k[e].alloc = FALSE
      /\ Epilogue(k[e + 1]) /\ k[e + 1].prv = FALSE
  BY <1>3 DEF Ending
<1>5. PICK t \in Tags, r \in Tags : t = k[a + 1] /\ r = k[p + 1]
  BY <1>4 DEF Is
<1>6. t.size = need /\ t.alloc = TRUE /\ r.size = n /\ n >= 4 /\ a + t.size = p /\ p + r.size = e
  BY <1>1, <1>2, <1>3, <1>4, <1>5 DEF Is
<1>7. Shape(h.mem, C, h.epi, -1)
  BY <1>2, SoundFacts
<1>8. LowerSame(h.mem, k, C, h.epi, a, -1, -1)
  BY <1>2, <1>4, <1>5, <1>6 DEF LowerSame
<1>9. LowerPart(h.mem, k, C, a, -1)
  BY <1>7, <1>8, LowerKept
<1>10. PICK L : L = C \ {a}
  OBVIOUS
<1>11. /\ Chain(k, L, pro, a) /\ \A b \in L : Joint(k, b, -1)
       /\ Kept(h.mem, k, L) /\ Prologue(k[pro + 1]) /\ pro < a
  BY <1>2, <1>9, <1>10 DEF LowerPart
<1>12. PICK N : N = {a} \cup {p}
  OBVIOUS
<1>13. Chain(k, N, a, e)
  <2>1. Chain(k, {a}, a, a + t.size)
    BY <1>1, <1>2, <1>5, <1>6, ChainOne
  <2>2. Chain(k, {p}, p, p + r.size)
    BY <1>5, <1>6, ChainOne
  <2> QED
    BY <1>6, <1>12, <2>1, <2>2, ChainGlue
<1>14. Joint(k, a, -1)
  <2>1. k[p + 1].prv = t.alloc
    BY <1>4, <1>6
  <2>2. k[p] \in Tags => k[p].size = t.size
    BY <1>4, <1>6
  <2>3. t.alloc # FALSE
    BY <1>6
  <2> QED
    BY <1>5, <1>6, <2>1, <2>2, <2>3, JointIs
<1>15. Joint(k, p, -1)
  <2>1. k[e + 1].prv = r.alloc /\ (k[e] \in Tags => k[e].size = r.size)
    BY <1>4, <1>5, <1>6
  <2>2. r.qk = FALSE /\ k[e] \in Tags /\ k[e].alloc = FALSE /\ k[e + 1].alloc = TRUE
    BY <1>4, <1>5 DEF Epilogue
  <2>3. Nx(k, p) = e
    BY <1>5, <1>6 DEF Nx
  <2> QED
    BY <1>5, <2>1, <2>2, <2>3 DEF Joint
<1>16. PICK D : D = L \cup N \cup {}
  OBVIOUS
<1>17. Shape(k, D, e, -1)
  <2>1. Chain(k, {}, e, e)
    BY ChainEmpty
  <2>2. \A b \in L \cup N \cup {} : Joint(k, b, -1)
    BY <1>11, <1>12, <1>14, <1>15
  <2>3. pro < e /\ e + 1 \in Addr
    BY <1>1, <1>2, <1>3 DEF pro
  <2>4. PICK U : U = {}
    OBVIOUS
  <2>5. Shape(k, L \cup N \cup U, e, -1)
    BY <1>4, <1>11, <1>13, <2>1, <2>2, <2>3, <2>4, Assemble
  <2> QED
    BY <1>16, <2>4, <2>5
<1>18. p \notin C /\ a < p
  BY <1>1, <1>2, <1>3
<1>19. D = (C \ {a}) \cup {a, p}
  BY <1>10, <1>12, <1>16
<1> QED
  BY <1>3, <1>10, <1>11, <1>17, <1>18, <1>19 DEF Ends1

\* The block that sf_malloc gives after the heap has grown is the user's.
LEMMA GrowthGives ==
    ASSUME NEW h, NEW C, NEW a, NEW s, NEW need, NEW S, CanEnd(h, C, a, s, need, S),
           NEW size, need = GetMinSize(size), NEW g, GrowthDone(h, C, a, need, size, S, g),
           Quick(h, C, {})
    PROVE  \E D : Gives(h, C, size, g, D, a)
<1>1. /\ CanLast(h, C, a, s) /\ Sound(h, C, -1, {}) /\ need \in Nat /\ S \in Nat
  BY EvenFacts DEF CanEnd, CanLast
<1>2. /\ g \in Heaps /\ g.fault = "none" /\ g.quick = h.quick /\ g.epi = a + S
      /\ g.end = a + S + 2 /\ (\E n \in 1 .. MaxPages : g.end = n * PAGE_SZ)
      /\ Ending(h, a, need, size, S, g.mem)
      /\ \A i \in 0 .. NUM_FREE_LISTS - 1 :
            Lists(g.free[i], Class(h.mem, C \ {a}, i)
                             \cup (IF i = GetIndex(S - need) THEN {a + need} ELSE {}))
  BY DEF GrowthDone
<1>3. PICK k \in [Addr -> Words] : k = g.mem
  BY <1>2, HeapFacts
<1>4. Ending(h, a, need, size, S, k)
  BY <1>2, <1>3
<1>5. PICK D : Ends1(h, C, a, a + need, a + S, k, D)
  BY <1>4, EndingShape
<1>6. PICK p : p = a + need
  OBVIOUS
<1>7. /\ D = (C \ {a}) \cup {a, p} /\ Shape(k, D, a + S, -1) /\ Kept(h.mem, k, C \ {a})
      /\ p \in Even /\ p \notin C /\ a < p
  BY <1>5, <1>6 DEF Ends1
<1>8. /\ a \in Nat /\ a # pro /\ a \in C \cup {h.epi} /\ (a \in C => h.mem[a + 1].qk = FALSE)
      /\ a \notin Alloc(h.mem, C)
  <2>1. CanLast(h, C, a, s)
    BY <1>1
  <2>2. a \in Nat /\ a # pro /\ a \in C \cup {h.epi}
    BY <2>1, LastFacts
  <2>3. a \in C => h.mem[a + 1].qk = FALSE
    <3> SUFFICES ASSUME a \in C PROVE h.mem[a + 1].qk = FALSE
      OBVIOUS
    <3>1. h.mem[a + 1].alloc = FALSE
      <4>1. h.epi \notin C
        BY <1>1, SoundFacts
      <4> QED
        BY <1>1, <4>1 DEF CanLast
    <3>2. Joint(h.mem, a, -1)
      BY <1>1, BlockTypes
    <3> QED
      BY <3>1, <3>2 DEF Joint
  <2>4. a \notin Alloc(h.mem, C)
    BY <2>1, LastFacts
  <2> QED
    BY <2>2, <2>3, <2>4
<1>9. \A b \in C \ {a} : b \in Nat /\ b \in Even /\ b < a /\ b + 1 <= a /\ b + 2 <= a
  BY <1>1, LastFacts
<1>10. /\ \A w \in Addr : w <= a => k[w] = h.mem[w]
       /\ Is(k[a + 1], size, need)
       /\ k[p + 1].size = S - need
       /\ k[p + 1].alloc = FALSE
       /\ k[p + 2] = Link
       /\ \A w \in Addr : w >= a + S + 2 => k[w] = Blank
  BY <1>4, <1>6 DEF Ending
<1>11. k[a + 1].alloc = TRUE /\ k[a + 1].qk = FALSE /\ k[a + 1].size = need
  BY <1>10 DEF Is
<1>12. a \in Addr
  BY <1>1, LastFacts
<1>13. \A b \in C \ {a} : k[b + 1] = h.mem[b + 1] /\ k[b + 2] = h.mem[b + 2]
  <2> SUFFICES ASSUME NEW b \in C \ {a}
               PROVE  k[b + 1] = h.mem[b + 1] /\ k[b + 2] = h.mem[b + 2]
    OBVIOUS
  <2>1. b \in Nat /\ b + 1 <= a /\ b + 2 <= a
    BY <1>9
  <2>2. b + 1 \in Addr /\ b + 2 \in Addr
    BY <1>8, <1>12, <2>1, Bounds DEF Addr
  <2> QED
    BY <1>10, <2>1, <2>2
<1>14. Listed(g, D, {})
  <2>1. ASSUME NEW i \in 0 .. NUM_FREE_LISTS - 1
        PROVE  Lists(g.free[i], Class(k, D, i))
    <3>1. Lists(g.free[i], Class(h.mem, C \ {a}, i)
                           \cup (IF i = GetIndex(S - need) THEN {p} ELSE {}))
      BY <1>2, <1>6
    <3>2. Class(k, D, i) = Class(h.mem, C \ {a}, i)
                           \cup (IF i = GetIndex(S - need) THEN {p} ELSE {})
      BY <1>7, <1>10, <1>11, <1>13 DEF Class
    <3> QED
      BY <3>1, <3>2
  <2>2. ASSUME NEW b \in D, k[b + 1].alloc = FALSE
        PROVE  k[b + 2] = Link
    <3>1. CASE b = p
      BY <1>10, <3>1
    <3>2. CASE b \in C \ {a}
      <4>1. h.mem[b + 1].alloc = FALSE /\ b \in C \ {}
        BY <1>13, <2>2, <3>2
      <4>2. h.mem[b + 2] = Link
        BY <1>1, <4>1 DEF Sound, Listed
      <4> QED
        BY <1>13, <3>2, <4>2
    <3> QED
      BY <1>7, <1>11, <2>2, <3>1, <3>2
  <2>3. D \ {} = D
    OBVIOUS
  <2> QED
    BY <1>3, <2>1, <2>2, <2>3 DEF Listed
<1>15. Ended(g)
  BY <1>2, <1>3, <1>10 DEF Ended
<1>16. Sound(g, D, -1, {})
  <2>1. g.epi = g.end - 2
    BY <1>1, <1>2, <1>8
  <2> QED
    BY <1>2, <1>3, <1>7, <1>14, <1>15, <2>1 DEF Sound
<1>17. PICK A : A = {a}
  OBVIOUS
<1>18. Change(h, g, C, D, A, A)
  <2>1. Alloc(k, D) = (Alloc(h.mem, C) \ A) \cup A
    BY <1>7, <1>10, <1>11, <1>13, <1>17 DEF Alloc
  <2>2. Alloc(h.mem, C) \ A \subseteq C \ {a}
    BY <1>17 DEF Alloc
  <2>3. Kept(h.mem, k, Alloc(h.mem, C) \ A)
    BY <1>7, <2>2, KeptPart
  <2> QED
    BY <1>3, <2>1, <2>3 DEF Change
<1>19. Quick(g, D, {})
  <2>1. g.mem[a + 1].qk = FALSE
    BY <1>3, <1>11
  <2>2. h.mem[a + 1].qk = FALSE \/ a \notin C
    BY <1>8
  <2>3. Change(h, g, C, D, {a}, {a})
    BY <1>17, <1>18
  <2>4. PICK Z : Z = {}
    OBVIOUS
  <2>5. Sound(h, C, -1, Z) /\ Sound(g, D, -1, Z) /\ Quick(h, C, Z)
    BY <1>1, <1>16, <2>4
  <2>6. Quick(g, D, Z)
    BY <1>2, <2>1, <2>2, <2>3, <2>5, QuickKept
  <2> QED
    BY <2>4, <2>6
<1>20. Gives(h, C, size, g, D, a)
  <2>1. a \in D /\ a \notin Held(h.mem, C)
    BY <1>7, <1>8 DEF Held, Alloc
  <2>2. Is(g.mem[a + 1], size, g.mem[a + 1].size) /\ g.mem[a + 1].size >= GetMinSize(size)
    BY <1>1, <1>3, <1>10, <1>11
  <2> QED
    BY <1>8, <1>16, <1>17, <1>18, <1>19, <2>1, <2>2 DEF Gives
<1> QED
  BY <1>20

\* The epilogue's address changes, and nothing else.
LEMMA SetEpi ==
    ASSUME NEW h \in Heaps, NEW e \in Even
    PROVE  \E g \in Heaps :
              /\ g = [h EXCEPT !.epi = e] /\ g.mem = h.mem /\ g.free = h.free
              /\ g.quick = h.quick /\ g.epi = e /\ g.end = h.end /\ g.fault = h.fault
<1>1. PICK g : g = [h EXCEPT !.epi = e]
  OBVIOUS
<1>2. /\ g \in Heaps /\ g.mem = h.mem /\ g.free = h.free
      /\ g.quick = h.quick /\ g.epi = e /\ g.end = h.end /\ g.fault = h.fault
  BY <1>1 DEF Heaps
<1> QED
  BY <1>1, <1>2

\* The epilogue's header is written at the end of the heap.
LEMMA MoveFacts ==
    ASSUME NEW h \in Heaps, NEW e \in Even, h.end = e + 2, e + 1 \in Addr
    PROVE  \E g \in Heaps, k \in [Addr -> Words] : Moved(h, e, g, k)
<1>1. e \in Nat /\ e \in Addr /\ h.end - 2 = e
  BY EvenFacts, Bounds DEF Addr
<1>2. PICK f \in Heaps :
         /\ f = [h EXCEPT !.epi = e] /\ f.mem = h.mem /\ f.free = h.free
         /\ f.quick = h.quick /\ f.epi = e /\ f.end = h.end /\ f.fault = h.fault
  BY SetEpi
<1>3. PICK v \in BOOLEAN : v = (IsTag(h.mem[e]) /\ h.mem[e].alloc)
  BY DEF IsTag
<1>4. PICK tag \in Tags : /\ tag = Tag(0, 0, TRUE, v, FALSE) /\ tag.size = 0
                          /\ tag.alloc = TRUE /\ tag.prv = v /\ tag.qk = FALSE
  <2>1. PICK n \in Even : n = 0 /\ n \in Nat
    BY EvenFacts
  <2>2. PICK t \in Tags : /\ t = Tag(n, n, TRUE, v, FALSE) /\ Is(t, n, n) /\ t.prv = v
    BY <2>1, UsedTag, ZenonT(60)
  <2> QED
    BY <2>1, <2>2 DEF Is
<1>5. MoveEpilogue(h) = CreateHeader(f, e, tag)
  BY <1>1, <1>2, <1>3, <1>4 DEF MoveEpilogue, Footer
<1>6. PICK k : k = [f.mem EXCEPT ![e + 1] = tag]
  OBVIOUS
<1>7. CreateHeader(f, e, tag) = With(f, k)
  BY <1>1, <1>2, <1>6, CreateEpilogue
<1>8. k \in [Addr -> Words] /\ k[e + 1] = tag /\ \A w \in Addr : w # e + 1 => k[w] = h.mem[w]
  BY <1>2, <1>6, HeapFacts, TagFacts
<1>9. PICK g \in Heaps :
         /\ g = With(f, k) /\ g.mem = k /\ g.free = h.free /\ g.quick = h.quick
         /\ g.epi = e /\ g.end = h.end /\ g.fault = h.fault
  <2>1. PICK g \in Heaps : g = With(f, k) /\ g.mem = k /\ g.free = f.free /\ g.quick = f.quick
                           /\ g.epi = f.epi /\ g.end = f.end /\ g.fault = f.fault
    BY <1>8, WithFacts
  <2> QED
    BY <1>2, <2>1
<1>10. Epilogue(k[e + 1])
  BY <1>4, <1>8 DEF Epilogue
<1>11. Moved(h, e, g, k)
  <2>1. k[e + 1].prv = v
    BY <1>4, <1>8
  <2>2. k[e + 1].prv = (IsTag(h.mem[e]) /\ h.mem[e].alloc)
    BY <1>3, <2>1, Zenon
  <2>3. MoveEpilogue(h) = g
    BY <1>5, <1>7, <1>9
  <2> QED
    BY <1>8, <1>9, <1>10, <2>2, <2>3, Zenon DEF Moved
<1> QED
  BY <1>8, <1>9, <1>11

\* The last block fits exactly: the old epilogue's prv bit is then wrong.
LEMMA ExactBroken ==
    ASSUME NEW h, NEW C, NEW a, NEW s, NEW need, NEW S, NEW size \in Nat, NEW w,
           CanGive(h, C, a, s, need, S, w)
    PROVE  \E g \in Heaps : Miscounts(w, a, size, g)
<1>1. /\ CanLast(h, C, a, s) /\ need \in Nat /\ need >= 4 /\ S \in Even /\ need <= S
      /\ w \in Heaps /\ w.end = a + S + 2 /\ w.mem[a + 1] \in Tags /\ w.mem[a + 1].size = S
      /\ a + S + 1 \in Addr /\ S \in Nat
  BY EvenFacts DEF CanGive, min
<1>2. a \in Nat /\ a \in Even
  <2>1. CanLast(h, C, a, s)
    BY <1>1
  <2> QED
    BY <2>1, LastGrown, EvenFacts
<1>3. PICK e \in Even : e = a + S /\ w.end - 2 = e /\ w.end = e + 2 /\ e + 1 \in Addr
  BY <1>1, <1>2, EvenFacts
<1>4. PICK v \in Heaps :
         /\ v = [w EXCEPT !.epi = e] /\ v.mem = w.mem /\ v.free = w.free
         /\ v.quick = w.quick /\ v.epi = e /\ v.end = w.end /\ v.fault = w.fault
  BY <1>1, SetEpi
<1>5. PICK t \in Tags : t = w.mem[a + 1]
  BY <1>1
<1>6. CanAllot(v, a, t)
  BY <1>1, <1>2, <1>3, <1>4, <1>5 DEF CanAllot
<1>7. PICK g \in Heaps, k \in [Addr -> Words] : Allots(v, a, size, t, g, k)
  BY <1>2, <1>6, AllocatedTypes
<1>8. Allocated(v, a, size) = g /\ g.mem = k /\ k[a + 1].size = S /\ g.end = w.end
  <2>1. Allocated(v, a, size) = g /\ g = With(v, k) /\ g.mem = k /\ Is(k[a + 1], size, t.size)
    BY <1>7 DEF Allots
  <2>2. With(v, k).end = v.end
    BY WithFacts
  <2> QED
    BY <1>1, <1>4, <1>5, <2>1, <2>2 DEF Is
<1>9. PICK f \in Heaps, l \in [Addr -> Words] : Moved(g, e, f, l)
  BY <1>3, <1>8, MoveFacts
<1>10. MoveEpilogue(g) = f /\ f.mem[a + 1].size = S
  <2>1. a + 1 \in Addr /\ a + 1 # e + 1
    BY <1>1, <1>2, <1>3, Bounds DEF Addr
  <2> QED
    BY <1>8, <1>9, <2>1 DEF Moved
<1>11. PICK why \in Faults : why = "epilogue miscounts" /\ why \in Broken
  BY FaultFacts, Zenon
<1>12. Fails(f, why) \in Heaps /\ Fails(f, why).fault = why /\ Fails(f, why).mem = f.mem
  BY FailsFacts
<1>13. [w EXCEPT !.epi = w.end - 2] = v
  BY <1>3, <1>4
<1> QED
  BY <1>1, <1>8, <1>10, <1>11, <1>12, <1>13, Zenon DEF Miscounts

\* The block is split, the rest is put on its list, and the epilogue moves.
LEMMA SplitEnds ==
    ASSUME NEW h, NEW C, NEW a, NEW s, NEW need, NEW S, NEW w,
           CanGive(h, C, a, s, need, S, w), NEW size \in Nat, need + min <= S,
           Clean(w, a, need)
    PROVE  \E g \in Heaps :
              /\ GivenFrom(w, a, need, size) = g
              /\ GrowthDone(h, C, a, need, size, S, g)
              /\ SplitBlock(w, a, need).fault = "none"
<1>1. /\ CanLast(h, C, a, s) /\ need \in Even /\ need >= 4 /\ S \in Even /\ need + 4 <= S
      /\ s < need /\ w \in Heaps /\ w.quick = h.quick /\ w.epi = h.epi /\ w.fault = "none"
      /\ w.end = a + S + 2 /\ (\E n \in 1 .. MaxPages : w.end = n * PAGE_SZ)
      /\ \A x \in Addr : x <= a => w.mem[x] = h.mem[x]
      /\ w.mem[a + 1] \in Tags /\ w.mem[a + 1].size = S /\ w.mem[a + 1].prv = h.mem[a + 1].prv
      /\ w.mem[a + 1].alloc = FALSE /\ w.mem[a + 1].qk = FALSE
      /\ \A x \in Addr : x >= a + S + 2 => w.mem[x] = Blank
      /\ Spare(w, h.mem, C \ {a}) /\ a + S + 1 \in Addr
  BY DEF CanGive, min
<1>2. CanLast(h, C, a, s)
  BY <1>1
<1>3. a \in Nat /\ a \in Even /\ a + s = h.epi /\ s \in Nat /\ need \in Nat /\ S \in Nat
  <2>1. a \in Nat /\ a + s = h.epi /\ s \in Nat
    <3>2. LastAt(h, a, s)
      BY <1>2, LastSum
    <3> QED
      BY <3>2 DEF LastAt
  <2>2. a \in Even
    BY <1>2, LastGrown
  <2> QED
    BY <1>1, <2>1, <2>2, EvenFacts
<1>4. PICK p \in Even, e \in Even, n \in Even : p = a + need /\ e = a + S /\ n = S - need
  <2>1. need <= S
    BY <1>1, <1>3
  <2> QED
    BY <1>1, <1>3, <2>1, EvenFacts
<1>5. /\ p \in Nat /\ e \in Nat /\ n \in Nat /\ n >= 4 /\ p + n = e /\ a + 4 <= p /\ p + 4 <= e
      /\ e + 1 \in Addr /\ p > h.epi /\ w.end = e + 2 /\ w.end - 2 = e
  BY <1>1, <1>3, <1>4
<1>6. a + 1 \in Addr /\ p \in Addr /\ p + 1 \in Addr /\ p + 2 \in Addr /\ p + 3 \in Addr
      /\ e \in Addr /\ e + 1 \in Addr /\ (\A x \in Addr : x \in Int)
  BY <1>3, <1>5, Bounds DEF Addr
<1>7. PICK t \in Tags : t = w.mem[a + 1] /\ t.size = S
  BY <1>1
<1>8. PICK m1 \in [Addr -> Words], c \in Tags, r \in Tags : Split(w, a, need, t, c, r, m1)
  <2>1. CanSplit(w, a, need, t)
    BY <1>1, <1>4, <1>5, <1>7 DEF CanSplit, min
  <2> QED
    BY <1>1, <1>3, <2>1, SplitFacts
<1>9. /\ SplitBlock(w, a, need) = With(w, m1)
      /\ c = Tag(t.payload, need, t.alloc, t.prv, t.qk)
      /\ r = Tag(0, n, FALSE, t.alloc, FALSE)
      /\ m1[a + 1] = c /\ m1[p] = c /\ m1[p + 1] = r /\ m1[e] = r
      /\ \A x \in Addr : x \notin {a + 1, p, p + 1, e, e + 1} => m1[x] = w.mem[x]
  BY <1>4, <1>7, <1>8 DEF Split
<1>10. c.size = need /\ c.prv = t.prv
  <2>1. PICK v \in BOOLEAN, q \in BOOLEAN, l \in Nat, al \in BOOLEAN :
           v = t.prv /\ q = t.qk /\ l = t.payload /\ al = t.alloc
    BY TagFacts
  <2>4. need \in Even
    BY <1>1
  <2>2. PICK u \in Tags : u = Tag(l, need, al, v, q) /\ u.size = need /\ u.prv = v
    BY <2>4, NewTag
  <2>3. u.size = need /\ u.prv = v
    BY <2>2
  <2> QED
    BY <1>9, <2>1, <2>2, <2>3
<1>11. r.size = n /\ r.alloc = FALSE /\ r.qk = FALSE
  <2>1. PICK al \in BOOLEAN : al = t.alloc
    BY TagFacts
  <2>2. r = Tag(0, n, FALSE, al, FALSE)
    BY <1>9, <2>1
  <2>3. PICK u : u = Tag(0, n, FALSE, al, FALSE)
    OBVIOUS
  <2>4. u.size = n /\ u.alloc = FALSE /\ u.qk = FALSE
    BY <2>1, <2>3, FreeTag
  <2> QED
    BY <2>2, <2>3, <2>4
<1>12. PICK w1 \in Heaps :
          /\ w1 = With(w, m1) /\ w1.mem = m1 /\ w1.free = w.free /\ w1.quick = w.quick
          /\ w1.epi = w.epi /\ w1.end = w.end /\ w1.fault = w.fault
  BY <1>1, WithFacts
<1>13. PICK m2 \in [Addr -> Words] : Freed(w1, p, r, m2)
  <2>1. p # w1.epi /\ r.alloc = FALSE
    BY <1>1, <1>3, <1>5, <1>11, <1>12
  <2>4. w1.mem[p + 1] = r
    BY <1>9, <1>12
  <2>5. r.size = n /\ n >= 2 /\ n <= n
    BY <1>5, <1>11
  <2>2. w1.mem[p + 1] \in Tags /\ w1.mem[p + 1].size = r.size /\ r.size >= 2
        /\ w1.mem[p + 1].size >= 2 /\ w1.mem[p + 1].size <= r.size
    BY <2>4, <2>5
  <2>3. p + r.size + 1 \in Addr
    BY <1>5, <1>11
  <2> QED
    BY <1>5, <2>1, <2>2, <2>3, RetagFree
<1>14. /\ SetEntireHeader(w1, p, r) = With(w1, m2)
       /\ m2[p + 1] = r /\ m2[e] = r
       /\ \A x \in Addr : x <= p \/ x > e + 1 => m2[x] = m1[x]
  BY <1>5, <1>11, <1>12, <1>13 DEF Freed
<1>15. PICK w2 \in Heaps :
          /\ w2 = With(w1, m2) /\ w2.mem = m2 /\ w2.free = w.free /\ w2.quick = w.quick
          /\ w2.epi = w.epi /\ w2.end = w.end /\ w2.fault = w.fault
  <2>1. PICK w2 \in Heaps :
          /\ w2 = With(w1, m2) /\ w2.mem = m2 /\ w2.free = w1.free /\ w2.quick = w1.quick
          /\ w2.epi = w1.epi /\ w2.end = w1.end /\ w2.fault = w1.fault
    BY WithFacts
  <2> QED
    BY <1>12, <2>1
<1>16. PICK B : B = C \ {a}
  OBVIOUS
<1>17. Spare(w2, h.mem, B) /\ p \notin B /\ n = w2.mem[p + 1].size
  <2>1. Spare(w2, h.mem, B)
    BY <1>1, <1>15, <1>16 DEF Spare
  <2>2. p \notin B
    <3>1. \A b \in C \ {a} : b \in Nat /\ b < a
      BY <1>2, LastFacts
    <3> QED
      BY <1>3, <1>5, <1>16, <3>1
  <2> QED
    BY <1>11, <1>14, <1>15, <2>1, <2>2
<1>18. PICK f \in Heaps : PutOn(w2, p, h.mem, B, n, f)
  BY <1>5, <1>6, <1>17, PutTypes
<1>19. /\ PutBlock(w2, p) = f
       /\ f.quick = h.quick /\ f.end = e + 2 /\ f.fault = "none"
       /\ f.mem[p + 2] = Link
       /\ \A x \in Addr : x # p + 2 /\ x # p + 3 => f.mem[x] = m2[x]
       /\ \A i \in 0 .. NUM_FREE_LISTS - 1 :
             Lists(f.free[i], Class(h.mem, B, i) \cup (IF i = GetIndex(n) THEN {p} ELSE {}))
  BY <1>1, <1>5, <1>15, <1>18 DEF PutOn
<1>20. PICK v \in Heaps :
         /\ v = [f EXCEPT !.epi = e] /\ v.mem = f.mem /\ v.free = f.free
         /\ v.quick = f.quick /\ v.epi = e /\ v.end = f.end /\ v.fault = f.fault
  BY SetEpi
<1>21. f.mem[a + 1] = c /\ f.mem[p + 1] = r /\ f.mem[e] = r /\ f.mem[p] = c
  <2>1. a + 1 <= p /\ a + 1 # p + 2 /\ a + 1 # p + 3 /\ p + 1 # p + 2 /\ p + 1 # p + 3
        /\ e # p + 2 /\ e # p + 3 /\ p # p + 2 /\ p # p + 3
    BY <1>3, <1>5
  <2>2. m2[a + 1] = c /\ m2[p] = c
    BY <1>6, <1>9, <1>14, <2>1, <1>5
  <2> QED
    BY <1>6, <1>14, <1>19, <2>1, <2>2
<1>22. CanAllot(v, a, c)
  <2>1. a # e /\ need >= 2 /\ a + need + 1 \in Addr
    BY <1>1, <1>3, <1>4, <1>5, <1>6
  <2> QED
    BY <1>10, <1>20, <1>21, <2>1 DEF CanAllot
<1>23. PICK g \in Heaps, k \in [Addr -> Words] : Allots(v, a, size, c, g, k)
  BY <1>3, <1>22, AllocatedTypes
<1>24. /\ Allocated(v, a, size) = g /\ g = With(v, k) /\ g.mem = k
       /\ Is(k[a + 1], size, need) /\ k[a + 1].prv = c.prv
       /\ k[p + 1] = Prv(r, TRUE)
       /\ \A x \in Addr : x # a + 1 /\ x # p + 1 => k[x] = f.mem[x]
  BY <1>4, <1>10, <1>20, <1>21, <1>23 DEF Allots
<1>25. g.free = f.free /\ g.quick = h.quick /\ g.end = e + 2 /\ g.fault = "none"
  <2>1. /\ With(v, k).free = v.free /\ With(v, k).quick = v.quick
        /\ With(v, k).end = v.end /\ With(v, k).fault = v.fault
    BY WithFacts
  <2> QED
    BY <1>19, <1>20, <1>24, <2>1
<1>26. PICK d \in Heaps, l \in [Addr -> Words] : Moved(g, e, d, l)
  BY <1>5, <1>25, MoveFacts
<1>27. /\ MoveEpilogue(g) = d /\ d.mem = l /\ d.free = f.free /\ d.quick = h.quick
       /\ d.epi = e /\ d.end = e + 2 /\ d.fault = "none" /\ Epilogue(l[e + 1])
       /\ l[e + 1].prv = (IsTag(g.mem[e]) /\ g.mem[e].alloc)
       /\ \A x \in Addr : x # e + 1 => l[x] = k[x]
  <2>1. /\ MoveEpilogue(g) = d /\ d.mem = l /\ d.free = f.free /\ d.quick = h.quick
        /\ d.epi = e /\ d.end = e + 2 /\ d.fault = "none" /\ Epilogue(l[e + 1])
    BY <1>25, <1>26 DEF Moved
  <2>2. l[e + 1].prv = (IsTag(g.mem[e]) /\ g.mem[e].alloc)
    BY <1>26, Zenon DEF Moved
  <2>3. \A x \in Addr : x # e + 1 => l[x] = g.mem[x]
    BY <1>26 DEF Moved
  <2>4. \A x \in Addr : x # e + 1 => l[x] = k[x]
    BY <1>24, <2>3
  <2> QED
    BY <2>1, <2>2, <2>4, Zenon
<1>28. GivenFrom(w, a, need, size) = d
  <2>1. Header(w1, p) = r
    BY <1>9, <1>12 DEF Header
  <2>2. SplitBlock(w, a, need) = w1
    BY <1>9, <1>12
  <2>3. SetEntireHeader(w1, p, r) = w2
    BY <1>14, <1>15
  <2>4. [f EXCEPT !.epi = f.end - 2] = v
    <3>1. f.end - 2 = e
      BY <1>5, <1>19
    <3> QED
      BY <1>20, <3>1
  <2> QED
    BY <1>4, <1>19, <1>24, <1>27, <2>1, <2>2, <2>3, <2>4 DEF GivenFrom
<1>29. \A x \in Addr : x <= a \/ x >= e + 2 => l[x] = w.mem[x]
  <2> SUFFICES ASSUME NEW x \in Addr, x <= a \/ x >= e + 2
               PROVE  l[x] = w.mem[x]
    OBVIOUS
  <2>1. /\ x # e + 1 /\ x # a + 1 /\ x # p + 1 /\ x # p + 2 /\ x # p + 3 /\ x # p /\ x # e
        /\ (x <= p \/ x > e + 1)
    BY <1>3, <1>5, <1>6
  <2>2. m1[x] = w.mem[x]
    BY <1>9, <2>1
  <2>3. m2[x] = m1[x]
    BY <1>14, <2>1
  <2>4. f.mem[x] = m2[x]
    BY <1>19, <2>1
  <2>5. k[x] = f.mem[x]
    BY <1>24, <2>1
  <2> QED
    BY <1>27, <2>1, <2>2, <2>3, <2>4, <2>5
<1>30. l[a + 1] = k[a + 1] /\ l[p + 1] = Prv(r, TRUE) /\ l[p] = c /\ l[p + 2] = Link /\ l[e] = r
       /\ k[e] = r
  <2>1. /\ a + 1 # e + 1 /\ p + 1 # e + 1 /\ p # e + 1 /\ p + 2 # e + 1 /\ e # e + 1
        /\ p # a + 1 /\ p # p + 1 /\ p + 2 # a + 1 /\ p + 2 # p + 1 /\ e # a + 1 /\ e # p + 1
    BY <1>3, <1>5
  <2>2. k[p] = c /\ k[p + 2] = Link /\ k[e] = r
    BY <1>6, <1>19, <1>21, <1>24, <2>1
  <2> QED
    BY <1>6, <1>24, <1>27, <2>1, <2>2
<1>31. l[e + 1].prv = FALSE
  <2>1. (IsTag(g.mem[e]) /\ g.mem[e].alloc) = FALSE
    BY <1>11, <1>24, <1>30
  <2> QED
    BY <1>27, <2>1, Zenon
<1>32. /\ Prv(r, TRUE) \in Tags /\ Prv(r, TRUE).size = n /\ Prv(r, TRUE).alloc = FALSE
       /\ Prv(r, TRUE).prv = TRUE /\ Prv(r, TRUE).qk = FALSE
  <2>1. PICK yes \in BOOLEAN : yes = TRUE
    OBVIOUS
  <2>2. r \in Words
    BY TagFacts
  <2>3. /\ Prv(r, yes) \in Tags /\ Prv(r, yes).size = r.size /\ Prv(r, yes).alloc = r.alloc
        /\ Prv(r, yes).prv = yes /\ Prv(r, yes).qk = r.qk
    BY <2>1, <2>2, PrvFacts
  <2> QED
    BY <1>11, <2>1, <2>3
<1>33. Ending(h, a, need, size, S, l)
  <2>1. \A x \in Addr : x <= a => l[x] = h.mem[x]
    BY <1>1, <1>29
  <2>2. Is(l[a + 1], size, need) /\ l[a + 1].prv = h.mem[a + 1].prv
    BY <1>1, <1>7, <1>10, <1>24, <1>30
  <2>3. /\ l[p] \in Tags /\ l[p].size = need
        /\ l[p + 1] \in Tags /\ l[p + 1].size = n
        /\ l[p + 1].alloc = FALSE /\ l[p + 1].prv = TRUE
        /\ l[p + 1].qk = FALSE /\ l[p + 2] = Link
    BY <1>10, <1>30, <1>32
  <2>4. /\ l[e] \in Tags /\ l[e].size = n /\ l[e].alloc = FALSE
    BY <1>11, <1>30
  <2>5. \A x \in Addr : x >= e + 2 => l[x] = Blank
    BY <1>1, <1>4, <1>29
  <2> QED
    BY <1>4, <1>27, <1>31, <2>1, <2>2, <2>3, <2>4, <2>5 DEF Ending
<1>34. GrowthDone(h, C, a, need, size, S, d)
  <2>1. \E i \in 1 .. MaxPages : d.end = i * PAGE_SZ
    BY <1>1, <1>5, <1>27
  <2> QED
    BY <1>4, <1>16, <1>19, <1>27, <1>33, <2>1 DEF GrowthDone
<1>35. SplitBlock(w, a, need).fault = "none"
  BY <1>1, <1>9, <1>12
<1> QED
  BY <1>28, <1>34, <1>35

\* The footer before the epilogue, if it is one, leads to the last block, and
\* that is too small, or a search would have found it.
LEMMA LastIs ==
    ASSUME NEW h, NEW C, Sound(h, C, -1, {}), IsTag(Footer(h, h.epi)),
           NEW need \in Nat, need >= min, Fitting(h, need) = {}
    PROVE  /\ CanLast(h, C, LastOf(h), SizeOf(h, LastOf(h)))
           /\ SizeOf(h, LastOf(h)) < need
<1>1. /\ h.epi \in Nat /\ pro # h.epi /\ Shape(h.mem, C, h.epi, -1) /\ h.mem \in [Addr -> Words]
      /\ h.epi + 1 \in Addr /\ Epilogue(h.mem[h.epi + 1]) /\ h.mem[pro + 1].alloc = TRUE
  BY SoundFacts
<1>2. PICK a \in C : a < h.epi /\ Nx(h.mem, a) = h.epi /\ Joint(h.mem, a, -1)
  BY <1>1, Before
<1>3. /\ a \in Nat /\ h.mem[a + 1] \in Tags /\ h.mem[a + 1].size \in Nat
      /\ Nx(h.mem, a) = a + h.mem[a + 1].size
  BY BlockTypes
<1>4. PrevBlock(h, h.epi) = a
  <2>1. h.epi \in Addr
    BY <1>1, Bounds DEF Addr
  <2>2. h.mem[h.epi] \in Tags
    BY <1>1, <2>1, WordFacts DEF Footer
  <2>3. h.mem[h.epi].size = h.mem[a + 1].size
    BY <1>2, <2>2 DEF Joint
  <2> QED
    BY <1>1, <1>2, <1>3, <2>3 DEF PrevBlock, Footer
<1>5. h.mem[a + 1].alloc \in BOOLEAN
  BY <1>3, TagFacts
<1>6. CASE h.mem[a + 1].alloc = TRUE
  <2>1. LastOf(h) = h.epi
    BY <1>4, <1>6 DEF LastOf, Header
  <2>2. SizeOf(h, h.epi) = 0
    BY <1>1 DEF SizeOf, Header, Epilogue
  <2> QED
    BY <2>1, <2>2 DEF CanLast, min
<1>7. CASE h.mem[a + 1].alloc = FALSE
  <2>1. LastOf(h) = a
    BY <1>4, <1>7 DEF LastOf, Header
  <2>2. PICK s \in Nat : s = SizeOf(h, a) /\ s = h.mem[a + 1].size
    BY <1>3 DEF SizeOf, Header
  <2>3. a # pro
    BY <1>1, <1>7
  <2>4. CanLast(h, C, a, s)
    BY <1>2, <1>7, <2>2, <2>3 DEF CanLast
  <2>5. s < need
    <3> SUFFICES ASSUME ~(s < need) PROVE FALSE
      OBVIOUS
    <3>1. PICK i : i = GetIndex(s)
      OBVIOUS
    <3>2. i \in 0 .. NUM_FREE_LISTS - 1 /\ GetIndex(need) \in 0 .. NUM_FREE_LISTS - 1
      BY <2>2, <3>1, IndexFacts
    <3>3. need <= s
      BY <2>2
    <3>4. GetIndex(need) <= i
      BY <2>2, <3>1, <3>3, IndexFacts
    <3>5. a \in Class(h.mem, C \ {}, i)
      BY <1>2, <1>7, <2>2, <3>1 DEF Class
    <3>6. Lists(h.free[i], Class(h.mem, C \ {}, i))
      BY <3>2 DEF Sound, Listed
    <3>7. PICK k \in 1 .. Len(h.free[i]) : h.free[i][k] = a
      BY <3>5, <3>6, ListFacts
    <3>8. k \in DOMAIN h.free[i]
      BY <3>6, <3>7, ListFacts
    <3>9. Fits(h, a, need)
      BY <2>2, <3>3 DEF Fits
    <3>10. i \in Fitting(h, need)
      <4>1. i \in GetIndex(need) .. NUM_FREE_LISTS - 1
        BY <3>2, <3>4
      <4> QED
        BY <3>7, <3>8, <3>9, <4>1 DEF Fitting
    <3> QED
      BY <3>10
  <2> QED
    BY <2>1, <2>2, <2>4, <2>5
<1> QED
  BY <1>5, <1>6, <1>7

\* How many pages are left, and that so many fit.
LEMMA LeftFacts ==
    ASSUME NEW h, NEW C, Sound(h, C, -1, {}), NEW left, left = MaxPages - h.end \div PAGE_SZ
    PROVE  /\ left \in Nat
           /\ \A j \in Nat : j <= left =>
                 /\ h.end + j * PAGE_SZ <= Top
                 /\ \E n \in 1 .. MaxPages : h.end + j * PAGE_SZ = n * PAGE_SZ
<1>1. PICK q \in 1 .. MaxPages : h.end = q * PAGE_SZ
  BY DEF Sound, Ended
<1>2. MaxPages \in Nat /\ q \in Nat /\ PAGE_SZ \in Nat
  BY Bounds
<1>3. h.end \div PAGE_SZ = q
  BY <1>1, <1>2, Paged
<1>4. left = MaxPages - q /\ left \in Nat
  BY <1>2, <1>3
<1>5. ASSUME NEW j \in Nat, j <= left
      PROVE  /\ h.end + j * PAGE_SZ <= Top
             /\ \E n \in 1 .. MaxPages : h.end + j * PAGE_SZ = n * PAGE_SZ
  <2>1. h.end + j * PAGE_SZ = (q + j) * PAGE_SZ
    BY <1>1, <1>2, Paged
  <2>2. q + j \in Nat /\ q + j <= MaxPages /\ q + j \in 1 .. MaxPages
    BY <1>2, <1>4, <1>5
  <2>3. (q + j) * PAGE_SZ <= MaxPages * PAGE_SZ
    BY <1>2, <2>2, Paged
  <2>4. MaxPages * PAGE_SZ = Top
    BY <1>2 DEF Top
  <2> QED
    BY <2>1, <2>2, <2>3, <2>4
<1> QED
  BY <1>4, <1>5

\* sf_malloc by growing the heap: no page is left, or too few, or a block is
\* given, split or whole.
LEMMA GrowthFinds ==
    ASSUME NEW h, NEW C, NEW size \in Request \cup {0}, Sound(h, C, -1, {}), Quick(h, C, {}),
           NEW need \in Even, need = GetMinSize(size), need >= min, Fitting(h, need) = {}
    PROVE  Finds(h, C, size, FromGrowth(h, size))
<1>1. need \in Nat /\ size \in Nat /\ h \in Heaps /\ need >= 4 /\ PAGE_SZ \in Nat
  <2>1. h \in Heaps
    BY SoundFacts
  <2>2. need >= 4
    BY DEF min
  <2> QED
    BY <2>1, <2>2, EvenFacts, SizesAssumption
<1>2. CASE ~IsTag(Footer(h, h.epi))
  <2>1. PICK why \in Faults : why = "data read as a footer" /\ why \in Undefined
    BY FaultFacts, Zenon
  <2>2. Fails(h, why) \in Heaps /\ Fails(h, why).fault = why
    BY <1>1, FailsFacts
  <2>3. FromGrowth(h, size) = Got(Fails(h, why), pro)
    BY <1>2, <2>1, Zenon DEF FromGrowth
  <2> QED
    BY <2>1, <2>2, <2>3, UndefinedFinds, Zenon
<1>3. CASE IsTag(Footer(h, h.epi))
  <2>1. PICK a, s : a = LastOf(h) /\ s = SizeOf(h, a)
    OBVIOUS
  <2>2. CanLast(h, C, a, s) /\ s < need
    BY <1>1, <1>3, <2>1, LastIs
  <2>3. s \in Even /\ a \in Even /\ s \in Nat /\ a \in Nat
    BY <2>2, LastGrown, EvenFacts
  <2>4. PICK n : n = (need - s + PAGE_SZ - 1) \div PAGE_SZ
    OBVIOUS
  <2>5. PICK left : left = MaxPages - h.end \div PAGE_SZ
    OBVIOUS
  <2>6. n \in Nat /\ n >= 1 /\ need - s <= n * PAGE_SZ
    <3>1. PICK d \in Nat : d = need - s /\ d >= 1
      BY <1>1, <2>2, <2>3
    <3>2. n = (d + PAGE_SZ - 1) \div PAGE_SZ
      BY <2>4, <3>1
    <3> QED
      BY <3>1, <3>2, PagesFacts
  <2>7. left \in Nat
    BY <2>5, LeftFacts
  <2>8. PICK w : w = RemoveList(Grew(h, a, n), a)
    OBVIOUS
  <2> DEFINE exact == SizeOf(w, a) - need < min
  <2>10. PICK cut : cut = (IF exact THEN w ELSE SplitBlock(w, a, need))
    OBVIOUS
  <2>11. PICK put : put = (IF exact THEN w
               ELSE PutBlock(SetEntireHeader(cut, a + need, Header(cut, a + need)), a + need))
    OBVIOUS
  <2>12. PICK done : done = Allocated([put EXCEPT !.epi = put.end - 2], a, size)
    OBVIOUS
  <2>13. FromGrowth(h, size) =
            IF n > left
            THEN Got(IF left = 0 THEN h
                     ELSE Fails(Grew(h, a, left), "epilogue left behind"), pro)
            ELSE IF cut.fault # "none" THEN Got(cut, a)
            ELSE Got(IF exact THEN Fails(MoveEpilogue(done), "epilogue miscounts")
                     ELSE MoveEpilogue(done), a)
    BY <1>3, <2>1, <2>4, <2>5, <2>8, <2>10, <2>11, <2>12, ZenonT(60)
       DEF FromGrowth, GivenLast, LastOf
  <2> HIDE DEF exact
  <2>14. CASE n > left /\ left = 0
    <3>1. FromGrowth(h, size) = Got(h, pro)
      BY <2>13, <2>14
    <3> QED
      BY <3>1 DEF Finds
  <2>15. CASE n > left /\ left # 0
    <3>1. h.end + left * PAGE_SZ <= Top
      BY <2>5, <2>7, LeftFacts
    <3>2. PICK f \in Heaps : Bigger(h, C, a, s, left, f)
      BY <2>2, <2>7, <3>1, GrewFacts
    <3>3. PICK why \in Faults : why = "epilogue left behind" /\ why \in Broken
      BY FaultFacts, Zenon
    <3>4. PICK g \in Heaps : g = Fails(f, why) /\ g.fault \in Broken
      BY <3>3, FailsFacts, Zenon
    <3>5. FromGrowth(h, size) = Got(g, pro)
      BY <2>13, <2>15, <3>2, <3>3, <3>4, Zenon DEF Bigger
    <3>6. pro \in Even
      BY EvenFacts DEF pro
    <3> QED
      BY <3>4, <3>5, <3>6, BrokenFinds
  <2>16. CASE ~(n > left)
    <3>1. n <= left
      BY <2>6, <2>7, <2>16
    <3>2. /\ h.end + n * PAGE_SZ <= Top
          /\ \E i \in 1 .. MaxPages : h.end + n * PAGE_SZ = i * PAGE_SZ
      BY <2>5, <2>6, <3>1, LeftFacts
    <3>3. PICK f \in Heaps : Bigger(h, C, a, s, n, f)
      BY <2>2, <2>6, <3>2, GrewFacts
    <3>4. PICK r \in Even : r = n * PAGE_SZ
      BY <2>6, Paged
    <3>5. PICK S \in Even, z \in Even : S = s + r /\ z = h.end + r
      <4>2. h \in Heaps
        BY SoundFacts
      <4>1. s \in Even /\ h.end \in Even
        BY <2>3, <4>2, HeapFacts
      <4> QED
        BY <4>1, EvenFacts
    <3>6. PICK B : B = C \ {a}
      OBVIOUS
    <3>7. /\ Grew(h, a, n) = f /\ Grown(h, B, a, S, z, f)
          /\ f.mem[a + 1].alloc = FALSE /\ f.mem[a + 1].qk = FALSE
      BY <2>6, <3>3, <3>4, <3>5, <3>6 DEF Bigger
    <3>8. /\ f.quick = h.quick /\ f.epi = h.epi /\ f.fault = "none" /\ f.end = z
          /\ \A x \in Addr : x <= a => f.mem[x] = h.mem[x]
          /\ f.mem[a + 1] \in Tags /\ f.mem[a + 1].size = S /\ f.mem[a + 1].prv = h.mem[a + 1].prv
          /\ \A x \in Addr : x >= z => f.mem[x] = Blank
          /\ Kin(f, h.mem, B, a) /\ z = a + S + 2
      BY <3>7 DEF Grown
    <3>9. PICK g \in Heaps : Unlisted(f, a, h.mem, B, g)
      BY <3>6, <3>8, RemoveTypes
    <3>10. /\ w = g /\ w \in Heaps /\ w.mem = f.mem /\ w.quick = h.quick /\ w.epi = h.epi
           /\ w.end = z /\ w.fault = "none" /\ Spare(w, h.mem, B)
      BY <2>8, <3>7, <3>8, <3>9 DEF Unlisted, Alike
    <3>11. S \in Nat /\ need <= S /\ S >= 4
      <4>1. r \in Nat /\ need - s <= r
        BY <2>6, <3>4, EvenFacts
      <4> QED
        BY <1>1, <2>3, <3>5, <4>1
    <3>12. a + S + 1 \in Addr
      BY <2>3, <3>2, <3>4, <3>5, <3>8, <3>11, Bounds DEF Addr
    <3>13. CanGive(h, C, a, s, need, S, w)
      <4>1. \E i \in 1 .. MaxPages : w.end = i * PAGE_SZ
        BY <3>2, <3>4, <3>5, <3>10
      <4> QED
        BY <2>2, <3>6, <3>7, <3>8, <3>10, <3>11, <3>12, <4>1 DEF CanGive
    <3>14. SizeOf(w, a) = S
      BY <3>8, <3>10 DEF SizeOf, Header
    <3>15. CASE exact
      <4>1. PICK g1 \in Heaps : Miscounts(w, a, size, g1)
        BY <1>1, <3>13, ExactBroken
      <4>2. put = w /\ cut = w
        BY <2>10, <2>11, <3>15
      <4>3. g1 = Fails(MoveEpilogue(done), "epilogue miscounts")
        BY <2>12, <4>1, <4>2, Zenon DEF Miscounts
      <4>5. g1.fault \in Broken /\ g1.mem[a + 1].size \in Nat
        BY <4>1, Zenon DEF Miscounts
      <4>4. FromGrowth(h, size) = Got(g1, a)
        BY <2>13, <2>16, <3>10, <3>15, <4>2, <4>3, Zenon
      <4> QED
        BY <2>3, <4>4, <4>5, BrokenFinds
    <3>16. CASE ~exact
      <4>1. need + min <= S
        <5>1. ~(S - need < min)
          BY <3>14, <3>16 DEF exact
        <5> QED
          BY <1>1, <3>11, <5>1 DEF min
      <4>2. cut = SplitBlock(w, a, need)
        BY <2>10, <3>16
      <4>3. CASE Clean(w, a, need)
        <5>1. PICK d \in Heaps :
              /\ GivenFrom(w, a, need, size) = d
              /\ GrowthDone(h, C, a, need, size, S, d)
              /\ SplitBlock(w, a, need).fault = "none"
          BY <1>1, <3>13, <4>1, <4>3, SplitEnds
        <5>2. MoveEpilogue(done) = d
          BY <2>11, <2>12, <3>16, <4>2, <5>1 DEF GivenFrom
        <5>3. FromGrowth(h, size) = Got(d, a)
          BY <2>13, <2>16, <3>16, <4>2, <5>1, <5>2
        <5>4. CanEnd(h, C, a, s, need, S)
          BY <2>2, <3>12, <4>1 DEF CanEnd
        <5>5. PICK D : Gives(h, C, size, d, D, a)
          BY <5>1, <5>4, GrowthGives
        <5> QED
          BY <5>3, <5>5, GivesFinds
      <4>4. CASE ~Clean(w, a, need)
        <5>1. cut.fault = "split over old contents"
          BY <4>2, <4>4, Zenon DEF Clean
        <5>2. FromGrowth(h, size) = Got(cut, a)
          BY <2>13, <2>16, <5>1, Zenon
        <5>3. Got(cut, a).heap = cut
          BY DEF Got
        <5>4. FromGrowth(h, size).heap.fault \in Undefined
          BY <5>1, <5>2, <5>3, FaultFacts, Zenon
        <5> QED
          BY <5>4 DEF Finds
      <4> QED
        BY <4>3, <4>4
    <3> QED
      BY <3>15, <3>16
  <2> QED
    BY <2>14, <2>15, <2>16
<1> QED
  BY <1>2, <1>3

-----------------------------------------------------------------------------
\* sf_malloc from any heap, and from none.

\* sf_malloc from a heap that is there, whichever way it finds a block.
LEMMA MallocFromFinds ==
    ASSUME NEW h, NEW C, NEW size \in Request \cup {0}, Sound(h, C, -1, {}), Quick(h, C, {})
    PROVE  Finds(h, C, size, MallocFrom(h, size))
<1>1. PICK need : need = GetMinSize(size)
  OBVIOUS
<1>2. h \in Heaps
  BY SoundFacts
<1>3. CASE need = 0
  <2>1. PICK why \in Faults : why = "request wraps" /\ why \in Undefined
    BY FaultFacts, Zenon
  <2>2. Fails(h, why) \in Heaps /\ Fails(h, why).fault = why
    BY <1>2, FailsFacts
  <2>4. need < min
    BY <1>3 DEF min
  <2>3. MallocFrom(h, size) = Got(Fails(h, why), pro)
    BY <1>1, <2>1, <2>4, Zenon DEF MallocFrom
  <2> QED
    BY <2>1, <2>2, <2>3, UndefinedFinds, Zenon
<1>4. CASE need \in Even /\ need >= min
  <2>0. need \in Nat /\ ~(need < min)
    BY <1>4, EvenFacts DEF min
  <2>1. CASE QuickIndex(need) < NUM_QUICK_LISTS /\ h.quick[QuickIndex(need)] # <<>>
    <3>1. PICK g \in Heaps, b \in C :
              /\ FromQuickList(h, size) = Got(g, b)
              /\ Gives(h, C, size, g, C, b)
      BY <1>1, <1>4, <2>1, QuickGives
    <3>2. MallocFrom(h, size) = Got(g, b)
      BY <1>1, <2>0, <2>1, <3>1 DEF MallocFrom
    <3> QED
      BY <3>1, <3>2, GivesFinds
  <2>2. CASE ~(QuickIndex(need) < NUM_QUICK_LISTS /\ h.quick[QuickIndex(need)] # <<>>)
             /\ Fitting(h, need) # {}
    <3>1. MallocFrom(h, size) = FromFreeList(h, FirstFit(h, need), size)
      BY <1>1, <2>0, <2>2 DEF MallocFrom
    <3> QED
      BY <1>1, <1>4, <2>2, <3>1, FreeListFinds
  <2>3. CASE ~(QuickIndex(need) < NUM_QUICK_LISTS /\ h.quick[QuickIndex(need)] # <<>>)
             /\ Fitting(h, need) = {}
    <3>1. MallocFrom(h, size) = FromGrowth(h, size)
      BY <1>1, <2>0, <2>3 DEF MallocFrom
    <3> QED
      BY <1>1, <1>4, <2>3, <3>1, GrowthFinds
  <2> QED
    BY <2>1, <2>2, <2>3
<1> QED
  BY <1>1, <1>3, <1>4, MinSizeFacts

(* The first page. *)

\* Before the first call.
LEMMA NoHeapFacts ==
    /\ NoHeap \in Heaps /\ NoHeap.end = 0 /\ NoHeap.epi = -1 /\ NoHeap.fault = "none"
    /\ \A w \in Addr : NoHeap.mem[w] = Blank
    /\ \A i \in 0 .. NUM_FREE_LISTS - 1 : NoHeap.free[i] = <<>>
    /\ \A i \in 0 .. NUM_QUICK_LISTS - 1 : NoHeap.quick[i] = <<>>
<1>0. <<>> \in Seq(Even)
  BY EmptySeq
<1>1. PICK m \in [Addr -> Words] : m = [w \in Addr |-> Blank]
  BY WordFacts
<1>2. PICK f \in [0 .. NUM_FREE_LISTS - 1 -> Seq(Even)] :
         f = [i \in 0 .. NUM_FREE_LISTS - 1 |-> <<>>]
  BY <1>0
<1>3. PICK q \in [0 .. NUM_QUICK_LISTS - 1 -> Seq(Even)] :
         q = [i \in 0 .. NUM_QUICK_LISTS - 1 |-> <<>>]
  BY <1>0
<1>4. PICK z \in Even : z = 0
  BY EvenFacts
<1>5. PICK none \in Faults : none = "none"
  BY DEF Faults
<1>6. NoHeap = [mem |-> m, free |-> f, quick |-> q, epi |-> -1, end |-> z, fault |-> none]
  BY <1>1, <1>2, <1>3, <1>4, <1>5 DEF NoHeap
<1>7. NoHeap \in Heaps
  BY <1>6 DEF Heaps
<1>8. /\ NoHeap.mem = m /\ NoHeap.free = f /\ NoHeap.quick = q /\ NoHeap.epi = -1
      /\ NoHeap.end = z /\ NoHeap.fault = none
  BY <1>6
<1> QED
  BY <1>1, <1>2, <1>3, <1>4, <1>5, <1>7, <1>8

\* The empty list holds nothing.
LEMMA EmptyLists ==
    Lists(<<>>, {})
<1>1. PICK t \in Seq(Even) : t = <<>> /\ Len(t) = 0
  BY EmptySeq
<1>2. \A i \in 1 .. Len(t) : FALSE
  BY <1>1
<1>3. PICK S : S = {}
  OBVIOUS
<1>4. Lists(t, S)
  BY <1>2, <1>3, ListIs
<1> QED
  BY <1>1, <1>3, <1>4

\* The first call makes a page with a prologue, one free block and an epilogue.
LEMMA Initialized ==
    \E g \in Heaps : Initialize(NoHeap) = g /\ FreshHeap(g)
<1>1. PICK e \in Even, n \in Even, z \in Even :
         z = PAGE_SZ /\ e = PAGE_SZ - 2 /\ n = PAGE_SZ - 6 /\ z = e + 2 /\ e = 4 + n /\ n >= 4
  BY SizesAssumption DEF Even
<1>2. e \in Nat /\ n \in Nat /\ z \in Nat /\ Top \in Nat /\ PAGE_SZ <= Top /\ e >= 8
  BY <1>1, Bounds, EvenFacts
<1>3. e \in Addr /\ e + 1 \in Addr /\ 0 \in Addr /\ 1 \in Addr /\ 4 \in Addr /\ 5 \in Addr
      /\ 6 \in Addr /\ 7 \in Addr /\ (\A w \in Addr : w \in Int)
  BY <1>1, <1>2 DEF Addr
<1>4. PICK h0 \in Heaps :
         /\ h0 = [NoHeap EXCEPT !.end = PAGE_SZ] /\ h0.mem = NoHeap.mem
         /\ h0.free = NoHeap.free /\ h0.quick = NoHeap.quick
         /\ h0.epi = -1 /\ h0.end = z /\ h0.fault = "none"
  <2>1. PICK h0 : h0 = [NoHeap EXCEPT !.end = z]
    OBVIOUS
  <2>2. /\ h0 \in Heaps /\ h0.mem = NoHeap.mem
        /\ h0.free = NoHeap.free /\ h0.quick = NoHeap.quick
        /\ h0.epi = NoHeap.epi /\ h0.end = z /\ h0.fault = NoHeap.fault
    BY <2>1, NoHeapFacts DEF Heaps
  <2> QED
    BY <1>1, <2>1, <2>2, NoHeapFacts
<1>5. PICK four \in Even, zero \in Even : four = 4 /\ zero = 0 /\ zero \in Nat
  BY DEF Even
<1>6. PICK yes \in BOOLEAN : yes = TRUE
  OBVIOUS
<1>7. PICK t1 \in Tags : /\ t1 = Tag(0, min, TRUE, TRUE, FALSE) /\ t1.size = 4
                         /\ t1.alloc = TRUE /\ t1.qk = FALSE
  <2>1. PICK t \in Tags : t = Tag(zero, four, TRUE, yes, FALSE) /\ Is(t, zero, four)
    BY <1>5, <1>6, UsedTag
  <2> QED
    BY <1>5, <1>6, <2>1 DEF Is, min
<1>8. PICK t2 \in Tags : /\ t2 = Tag(0, 0, TRUE, TRUE, FALSE) /\ t2.size = 0
                         /\ t2.alloc = TRUE /\ t2.qk = FALSE
  <2>1. PICK t \in Tags : t = Tag(zero, zero, TRUE, yes, FALSE) /\ Is(t, zero, zero)
    BY <1>5, <1>6, UsedTag
  <2> QED
    BY <1>5, <1>6, <2>1 DEF Is
<1>9. PICK t3 \in Tags : /\ t3 = Tag(0, n, FALSE, TRUE, FALSE) /\ t3.size = n
                         /\ t3.alloc = FALSE /\ t3.prv = TRUE /\ t3.qk = FALSE
  <2>1. PICK t \in Tags : /\ t = Tag(0, n, FALSE, yes, FALSE) /\ t.size = n
                          /\ t.alloc = FALSE /\ t.prv = yes /\ t.qk = FALSE
    BY FreeTag, ZenonT(60)
  <2> QED
    BY <1>6, <2>1
<1>10. PICK m1 \in [Addr -> Words] : Created(h0, 0, t1, m1)
  <2>1. zero # h0.epi
    <3>1. h0.epi = -1 /\ zero = 0
      BY <1>4, <1>5
    <3> QED
      BY <3>1
  <2>5. PICK s \in Nat : s = t1.size /\ s = 4
    BY <1>7
  <2>6. s >= 2 /\ 0 + s + 1 = 5
    BY <2>5
  <2>2. zero + t1.size + 1 = 5 /\ t1.size >= 2
    BY <1>5, <2>5, <2>6
  <2>3. zero + t1.size + 1 \in Addr
    BY <1>3, <2>2
  <2>4. \E m \in [Addr -> Words] : Created(h0, zero, t1, m)
    BY <1>5, <2>1, <2>2, <2>3, CreateFacts
  <2> QED
    BY <1>5, <2>4
<1>11. /\ CreateHeader(h0, 0, t1) = With(h0, m1) /\ m1[1] = t1
       /\ \A w \in Addr : w \notin {0, 1, 4, 5} => m1[w] = Blank
  <2>1. /\ CreateHeader(h0, 0, t1) = With(h0, m1) /\ m1[0 + 1] = t1
        /\ \A w \in Addr : w \notin {0, 0 + 1, 0 + 4, 0 + 4 + 1} => m1[w] = h0.mem[w]
    BY <1>7, <1>10 DEF Created
  <2>2. 0 + 1 = 1 /\ 0 + 4 = 4 /\ 0 + 4 + 1 = 5
    OBVIOUS
  <2>3. \A w \in Addr : h0.mem[w] = Blank
    BY <1>4, NoHeapFacts
  <2> QED
    BY <2>1, <2>2, <2>3
<1>12. PICK one \in Heaps : /\ one = With(h0, m1) /\ one.mem = m1 /\ one.free = h0.free
                            /\ one.quick = h0.quick /\ one.end = z /\ one.fault = "none"
  <2>1. PICK o \in Heaps : /\ o = With(h0, m1) /\ o.mem = m1 /\ o.free = h0.free
                           /\ o.quick = h0.quick /\ o.end = h0.end /\ o.fault = h0.fault
    BY WithFacts
  <2> QED
    BY <1>4, <2>1
<1>13. PICK h1 \in Heaps :
         /\ h1 = [one EXCEPT !.epi = e] /\ h1.mem = one.mem /\ h1.free = one.free
         /\ h1.quick = one.quick /\ h1.epi = e /\ h1.end = one.end /\ h1.fault = one.fault
  BY SetEpi
<1>14. PICK m2 : m2 = [m1 EXCEPT ![e + 1] = t2]
  OBVIOUS
<1>15. CreateHeader(h1, e, t2) = With(h1, m2)
  <2>1. h1.mem = m1 /\ m2 = [h1.mem EXCEPT ![e + 1] = t2]
    BY <1>12, <1>13, <1>14
  <2> QED
    BY <1>2, <1>3, <1>13, <2>1, CreateEpilogue
<1>16. /\ m2 \in [Addr -> Words] /\ m2[e + 1] = t2 /\ m2[1] = t1
       /\ \A w \in Addr : w \notin {0, 1, 4, 5, e + 1} => m2[w] = Blank
  <2>1. t2 \in Words
    BY TagFacts
  <2>2. 1 # e + 1
    BY <1>2
  <2> QED
    BY <1>3, <1>11, <1>14, <2>1, <2>2
<1>17. PICK two \in Heaps : /\ two = With(h1, m2) /\ two.mem = m2 /\ two.free = h0.free
                            /\ two.quick = h0.quick /\ two.end = z /\ two.fault = "none"
                            /\ two.epi = e
  <2>1. PICK two \in Heaps : /\ two = With(h1, m2) /\ two.mem = m2 /\ two.free = h1.free
                            /\ two.quick = h1.quick /\ two.end = h1.end /\ two.fault = h1.fault
                            /\ two.epi = h1.epi
    BY <1>16, WithFacts
  <2> QED
    BY <1>12, <1>13, <2>1
<1>18. PICK m3 \in [Addr -> Words] : Created(two, 4, t3, m3)
  <2>5. two.epi = e /\ four = 4 /\ t3.size = n
    BY <1>5, <1>9, <1>17
  <2>6. 4 # e /\ n >= 2
    BY <1>1, <1>2
  <2>1. four # two.epi /\ t3.size >= 2 /\ four \in Nat
    BY <2>5, <2>6
  <2>2. four + t3.size + 1 = e + 1
    BY <1>1, <1>2, <1>5, <1>9
  <2>3. four + t3.size + 1 \in Addr
    BY <1>3, <2>2
  <2>4. \E m \in [Addr -> Words] : Created(two, four, t3, m)
    BY <2>1, <2>3, CreateFacts
  <2> QED
    BY <1>5, <2>4
<1>19. /\ CreateHeader(two, 4, t3) = With(two, m3) /\ m3[5] = t3
       /\ m3[e] = t3 /\ m3[e + 1] = Prv(t2, FALSE)
       /\ \A w \in Addr : w \notin {4, 5, e, e + 1} => m3[w] = m2[w]
  <2>1. /\ CreateHeader(two, 4, t3) = With(two, m3) /\ m3[4 + 1] = t3
        /\ m3[4 + n] = NewFooter(t3, two.mem[4 + n])
        /\ m3[4 + n + 1] = Prv(two.mem[4 + n + 1], t3.alloc)
        /\ \A w \in Addr : w \notin {4, 4 + 1, 4 + n, 4 + n + 1} => m3[w] = two.mem[w]
    BY <1>9, <1>18 DEF Created
  <2>2. 4 + n = e /\ 4 + n + 1 = e + 1 /\ 4 + 1 = 5
    BY <1>1, <1>2
  <2>3. NewFooter(t3, two.mem[4 + n]) = t3
    BY <1>9 DEF NewFooter
  <2> QED
    BY <1>9, <1>16, <1>17, <2>1, <2>2, <2>3
<1>20. PICK three \in Heaps : /\ three = With(two, m3) /\ three.mem = m3 /\ three.free = h0.free
                              /\ three.quick = h0.quick /\ three.end = z
                              /\ three.fault = "none" /\ three.epi = e
  <2>1. PICK three \in Heaps :
                  /\ three = With(two, m3) /\ three.mem = m3 /\ three.free = two.free
                  /\ three.quick = two.quick /\ three.end = two.end /\ three.fault = two.fault
                  /\ three.epi = two.epi
    BY WithFacts
  <2> QED
    BY <1>17, <2>1
<1>21. m3[1] = t1
  <2>1. 1 \notin {4, 5, e, e + 1}
    BY <1>2
  <2> QED
    BY <1>3, <1>16, <1>19, <2>1
<1>22. PICK m4 : m4 = [m3 EXCEPT ![4] = t1]
  OBVIOUS
<1>23. /\ m4 \in [Addr -> Words] /\ m4[4] = t1 /\ \A w \in Addr : w # 4 => m4[w] = m3[w]
  BY <1>3, <1>22, TagFacts
<1>24. Repaired(three, pro) = With(three, m4)
  <2>6. pro + 1 = 1 /\ pro + 4 = 4
    BY DEF pro
  <2>7. Header(three, pro) = t1
    BY <1>20, <1>21, <2>6 DEF Header
  <2>1. NextBlock(three, pro) = 4 /\ Header(three, pro) = t1
    BY <1>7, <2>6, <2>7 DEF NextBlock, SizeOf
  <2>2. Repaired(three, pro) = [three EXCEPT !.mem[4] = t1]
    BY <2>1 DEF Repaired
  <2>3. t1 \in Words
    BY TagFacts
  <2>4. PICK x : x = 4
    OBVIOUS
  <2>5. [three EXCEPT !.mem[x] = t1] = With(three, [three.mem EXCEPT ![x] = t1])
    BY DEF With, Heaps
  <2> QED
    BY <1>20, <1>22, <2>2, <2>4, <2>5
<1>25. PICK four4 \in Heaps :
                  /\ four4 = With(three, m4) /\ four4.mem = m4 /\ four4.free = h0.free
                  /\ four4.quick = h0.quick /\ four4.end = z /\ four4.fault = "none"
                  /\ four4.epi = e
  <2>1. PICK q \in Heaps :
                  /\ q = With(three, m4) /\ q.mem = m4 /\ q.free = three.free
                  /\ q.quick = three.quick /\ q.end = three.end /\ q.fault = three.fault
                  /\ q.epi = three.epi
    BY <1>23, WithFacts
  <2> QED
    BY <1>20, <2>1
<1>26. PICK B : B = {}
  OBVIOUS
<1>27. Spare(four4, m4, B)
  <2> SUFFICES ASSUME NEW i \in 0 .. NUM_FREE_LISTS - 1
               PROVE  Lists(four4.free[i], Class(m4, B, i))
    BY DEF Spare
  <2>1. four4.free[i] = <<>>
    BY <1>4, <1>25, NoHeapFacts
  <2>2. Class(m4, B, i) = {}
    BY <1>26 DEF Class
  <2> QED
    BY <2>1, <2>2, EmptyLists
<1>28. /\ m4[1] = t1 /\ m4[4] = t1 /\ m4[5] = t3 /\ m4[e] = t3 /\ m4[e + 1] = Prv(t2, FALSE)
       /\ \A w \in Addr : w >= e + 2 => m4[w] = Blank
  <2>1. 1 # 4 /\ 5 # 4 /\ e # 4 /\ e + 1 # 4
    BY <1>2
  <2>2. ASSUME NEW w \in Addr, w >= e + 2
        PROVE  m4[w] = Blank
    <3>1. w # 4 /\ w \notin {4, 5, e, e + 1} /\ w \notin {0, 1, 4, 5, e + 1}
      BY <1>2, <1>3, <2>2
    <3> QED
      BY <1>16, <1>19, <1>23, <3>1
  <2> QED
    BY <1>3, <1>19, <1>21, <1>23, <2>1, <2>2
<1>29. PICK g \in Heaps : PutOn(four4, four, m4, B, n, g)
  <2>2. four + 1 = 5 /\ four + 3 = 7
    BY <1>5
  <2>1. n = four4.mem[four + 1].size /\ four + 3 \in Addr /\ four \notin B
    BY <1>3, <1>9, <1>25, <1>26, <1>28, <2>2
  <2> QED
    BY <1>2, <1>27, <2>1, PutTypes
<1>30. /\ PutBlock(four4, 4) = g
       /\ g.quick = h0.quick /\ g.epi = e /\ g.end = z /\ g.fault = "none"
       /\ g.mem[6] = Link
       /\ \A w \in Addr : w # 6 /\ w # 7 => g.mem[w] = m4[w]
       /\ \A i \in 0 .. NUM_FREE_LISTS - 1 :
             Lists(g.free[i], Class(m4, B, i) \cup (IF i = GetIndex(n) THEN {4} ELSE {}))
  <2>1. 4 + 2 = 6 /\ 4 + 3 = 7
    OBVIOUS
  <2> QED
    BY <1>5, <1>25, <1>29, <2>1 DEF PutOn
<1>31. Initialize(NoHeap) = g
  <2>1. CreateHeader([NoHeap EXCEPT !.end = PAGE_SZ], pro, Tag(0, min, TRUE, TRUE, FALSE)) = one
    BY <1>4, <1>7, <1>11, <1>12 DEF pro
  <2>2. CreateHeader([one EXCEPT !.epi = PAGE_SZ - 2], PAGE_SZ - 2, Tag(0, 0, TRUE, TRUE, FALSE))
          = two
    BY <1>1, <1>8, <1>13, <1>15, <1>17
  <2>3. CreateHeader(two, min, Tag(0, PAGE_SZ - 6, FALSE, TRUE, FALSE)) = three
    BY <1>1, <1>9, <1>19, <1>20 DEF min
  <2>4. PutBlock(Repaired(three, pro), min) = g
    BY <1>24, <1>25, <1>30 DEF min
  <2> QED
    BY <2>1, <2>2, <2>3, <2>4 DEF Initialize
<1>32. /\ g.mem[1] = t1 /\ g.mem[4] = t1 /\ g.mem[5] = t3 /\ g.mem[e] = t3
       /\ g.mem[e + 1] = Prv(t2, FALSE)
       /\ \A w \in Addr : w >= e + 2 => g.mem[w] = Blank
  <2>1. /\ 1 # 6 /\ 1 # 7 /\ 4 # 6 /\ 4 # 7 /\ 5 # 6 /\ 5 # 7 /\ e # 6 /\ e # 7
        /\ e + 1 # 6 /\ e + 1 # 7
    BY <1>2
  <2>2. \A w \in Addr : w >= e + 2 => w # 6 /\ w # 7
    BY <1>2, <1>3
  <2> QED
    BY <1>3, <1>28, <1>30, <2>1, <2>2, ZenonT(60)
<1>33. Epilogue(Prv(t2, FALSE)) /\ Prv(t2, FALSE).prv = FALSE
  <2>1. PICK no \in BOOLEAN : no = FALSE
    OBVIOUS
  <2>2. t2 \in Words
    BY TagFacts
  <2>3. /\ Prv(t2, no) \in Tags /\ Prv(t2, no).size = t2.size /\ Prv(t2, no).alloc = t2.alloc
        /\ Prv(t2, no).prv = no /\ Prv(t2, no).qk = t2.qk
    BY <2>2, PrvFacts
  <2> QED
    BY <1>8, <2>1, <2>3 DEF Epilogue
<1>34. Fresh(g.mem, e, n)
  <2>1. Prologue(g.mem[1])
    BY <1>7, <1>32 DEF Prologue
  <2> QED
    BY <1>7, <1>9, <1>32, <1>33, <2>1 DEF Fresh
<1>35. \A i \in 0 .. NUM_FREE_LISTS - 1 :
          Lists(g.free[i], IF i = GetIndex(n) THEN {4} ELSE {})
  <2> SUFFICES ASSUME NEW i \in 0 .. NUM_FREE_LISTS - 1
               PROVE  Lists(g.free[i], IF i = GetIndex(n) THEN {4} ELSE {})
    OBVIOUS
  <2>1. Lists(g.free[i], Class(m4, B, i) \cup (IF i = GetIndex(n) THEN {4} ELSE {}))
    BY <1>30
  <2>2. Class(m4, B, i) = {}
    BY <1>26 DEF Class
  <2>3. PICK T : T = (IF i = GetIndex(n) THEN {4} ELSE {})
    OBVIOUS
  <2>4. {} \cup T = T
    OBVIOUS
  <2> QED
    BY <2>1, <2>2, <2>3, <2>4
<1>36. \A i \in 0 .. NUM_QUICK_LISTS - 1 : g.quick[i] = <<>>
  BY <1>4, <1>30, NoHeapFacts
<1>37. FreshHeap(g)
  BY <1>1, <1>30, <1>34, <1>35, <1>36 DEF FreshHeap
<1> QED
  BY <1>31, <1>37

\* Which is a sound heap, in which nothing is held.
LEMMA FreshSound ==
    ASSUME NEW g, FreshHeap(g)
    PROVE  /\ Sound(g, {0, 4}, -1, {}) /\ Quick(g, {0, 4}, {})
           /\ Held(g.mem, {0, 4}) = {} /\ Alloc(g.mem, {0, 4}) = {0}
<1>1. PICK e \in Even, n \in Even, z \in Even :
         z = PAGE_SZ /\ e = PAGE_SZ - 2 /\ n = PAGE_SZ - 6 /\ z = e + 2 /\ e = 4 + n /\ n >= 4
  BY SizesAssumption DEF Even
<1>2. e \in Nat /\ n \in Nat /\ z \in Nat /\ Top \in Nat /\ PAGE_SZ <= Top /\ e >= 8
      /\ e + 1 \in Addr
  <2>1. e \in Nat /\ n \in Nat /\ z \in Nat /\ Top \in Nat /\ PAGE_SZ <= Top /\ e >= 8
    BY <1>1, Bounds, EvenFacts
  <2> QED
    BY <1>1, <2>1 DEF Addr
<1>3. PICK m : m = g.mem
  OBVIOUS
<1>4. /\ g \in Heaps /\ g.fault = "none" /\ g.end = z /\ g.epi = e /\ Fresh(m, e, n)
      /\ m[6] = Link /\ m \in [Addr -> Words]
      /\ \A i \in 0 .. NUM_QUICK_LISTS - 1 : g.quick[i] = <<>>
      /\ \A i \in 0 .. NUM_FREE_LISTS - 1 :
            Lists(g.free[i], IF i = GetIndex(n) THEN {4} ELSE {})
  <2>1. g \in Heaps /\ g.mem \in [Addr -> Words]
    BY HeapFacts DEF FreshHeap
  <2> QED
    BY <1>1, <1>3, <2>1 DEF FreshHeap
<1>5. PICK t1 \in Tags, t3 \in Tags :
         /\ t1 = m[1] /\ t3 = m[5] /\ t1.size = 4 /\ t1.alloc = TRUE /\ t1.qk = FALSE
         /\ t3.size = n /\ t3.alloc = FALSE /\ t3.prv = TRUE /\ t3.qk = FALSE
  BY <1>4 DEF Fresh, Prologue
<1>6. PICK zero \in Even, four \in Even : zero = 0 /\ four = 4
  BY DEF Even
<1>7. PICK C : C = {0, 4}
  OBVIOUS
<1>8. zero + 1 = 1 /\ zero + 4 = four /\ four + 1 = 5 /\ four + n = e /\ n >= 4
  BY <1>1, <1>6
<1>9. Chain(m, C, pro, e)
  <2>1. Chain(m, {zero}, zero, zero + t1.size)
    <3>1. t1 = m[zero + 1] /\ t1.size >= 4
      BY <1>5, <1>8
    <3> QED
      BY <1>6, <3>1, ChainOne
  <2>2. Chain(m, {four}, four, four + t3.size)
    <3>1. t3 = m[four + 1] /\ t3.size >= 4
      BY <1>5, <1>8
    <3> QED
      BY <1>6, <3>1, ChainOne
  <2>3. Chain(m, {zero}, zero, four) /\ Chain(m, {four}, four, e)
    BY <1>5, <1>8, <2>1, <2>2
  <2>4. Chain(m, {zero} \cup {four}, zero, e)
    BY <2>3, ChainGlue
  <2>5. C = {zero} \cup {four} /\ zero = pro
    BY <1>6, <1>7 DEF pro
  <2> QED
    BY <2>4, <2>5
<1>10. Epilogue(m[e + 1]) /\ m[e + 1].prv = FALSE /\ m[e] \in Tags /\ m[e].size = n
       /\ m[e].alloc = FALSE /\ m[4] \in Tags /\ m[4].size = 4 /\ Prologue(m[1])
       /\ \A w \in Addr : w >= e + 2 => m[w] = Blank
  BY <1>4 DEF Fresh
<1>11. Joint(m, 0, -1)
  <2>1. PICK u : u = four
    OBVIOUS
  <2>2. t1 = m[0 + 1] /\ u = 0 + t1.size
    BY <1>5, <1>6, <1>8, <2>1
  <2>3. m[u + 1].prv = t1.alloc /\ m[u].size = t1.size
    BY <1>5, <1>6, <1>8, <1>10, <2>1
  <2> QED
    BY <1>5, <2>2, <2>3, JointIs
<1>12. Joint(m, 4, -1)
  <2>2. t3 = m[4 + 1] /\ e = 4 + t3.size
    BY <1>1, <1>5
  <2>3. m[e + 1].prv = t3.alloc /\ m[e].size = t3.size /\ m[e + 1].alloc = TRUE
    BY <1>5, <1>10 DEF Epilogue
  <2> QED
    BY <1>5, <1>10, <2>2, <2>3, JointIs, ZenonT(60)
<1>13. Shape(m, C, e, -1)
  <2>1. pro < e /\ pro + 1 = 1
    BY <1>2 DEF pro
  <2>2. \A b \in C : Joint(m, b, -1)
    BY <1>7, <1>11, <1>12
  <2> QED
    BY <1>2, <1>4, <1>9, <1>10, <2>1, <2>2 DEF Shape
<1>14. \A b \in C : (b = 0 /\ m[b + 1] = t1) \/ (b = 4 /\ m[b + 1] = t3)
  <2>1. m[0 + 1] = t1 /\ m[4 + 1] = t3
    BY <1>5
  <2> SUFFICES ASSUME NEW b \in C
               PROVE  (b = 0 /\ m[b + 1] = t1) \/ (b = 4 /\ m[b + 1] = t3)
    OBVIOUS
  <2>2. CASE b = 0
    BY <2>1, <2>2
  <2>3. CASE b = 4
    BY <2>1, <2>3
  <2> QED
    BY <1>7, <2>2, <2>3
<1>15. \A i \in 0 .. NUM_FREE_LISTS - 1 : Lists(g.free[i], Class(m, C \ {}, i))
  <2> SUFFICES ASSUME NEW i \in 0 .. NUM_FREE_LISTS - 1
               PROVE  Lists(g.free[i], Class(m, C \ {}, i))
    OBVIOUS
  <2>1. PICK T : T = (IF i = GetIndex(n) THEN {4} ELSE {})
    OBVIOUS
  <2>2. Class(m, C \ {}, i) = T
    <3>1. ASSUME NEW b \in C
          PROVE  m[b + 1].alloc = FALSE /\ GetIndex(m[b + 1].size) = i <=> b \in T
      <4>1. CASE b = 0
        <5>1. m[b + 1].alloc = TRUE /\ b \notin {4}
          BY <1>5, <1>14, <4>1
        <5> QED
          BY <2>1, <5>1
      <4>2. CASE b = 4
        <5>1. m[b + 1].alloc = FALSE /\ m[b + 1].size = n /\ b \in {4}
          BY <1>5, <1>14, <4>2
        <5> QED
          BY <2>1, <5>1
      <4> QED
        BY <1>7, <3>1, <4>1, <4>2
    <3>2. T \subseteq C
      BY <1>7, <2>1
    <3>3. C \ {} = C
      OBVIOUS
    <3> QED
      BY <3>1, <3>2, <3>3 DEF Class
  <2>3. Lists(g.free[i], T)
    BY <1>4, <2>1
  <2> QED
    BY <2>2, <2>3
<1>16. \A b \in C \ {} : m[b + 1].alloc = FALSE => m[b + 2] = Link
  <2> SUFFICES ASSUME NEW b \in C, m[b + 1].alloc = FALSE
               PROVE  m[b + 2] = Link
    OBVIOUS
  <2>1. b = 4
    BY <1>5, <1>14
  <2>2. b + 2 = 6
    BY <2>1
  <2> QED
    BY <1>4, <2>2
<1>17. Ended(g)
  <2>1. 1 \in 1 .. MaxPages /\ z = 1 * PAGE_SZ
    BY <1>1, Bounds
  <2>2. \A w \in Addr : w >= z => m[w] = Blank
    BY <1>1, <1>10
  <2> QED
    BY <1>3, <1>4, <2>1, <2>2 DEF Ended
<1>18. Sound(g, C, -1, {})
  <2>1. Listed(g, C, {})
    BY <1>3, <1>15, <1>16 DEF Listed
  <2>2. g.epi = g.end - 2
    BY <1>1, <1>4
  <2> QED
    BY <1>3, <1>4, <1>13, <1>17, <2>1, <2>2 DEF Sound
<1>19. Quick(g, C, {})
  <2> SUFFICES ASSUME NEW i \in 0 .. NUM_QUICK_LISTS - 1
               PROVE  /\ Lists(g.quick[i], Parked(g.mem, C, i) \ {})
                      /\ Len(g.quick[i]) <= QUICK_LIST_MAX
    BY DEF Quick
  <2>1. \A b \in C : m[b + 1].qk = FALSE
    BY <1>5, <1>14
  <2>2. Parked(g.mem, C, i) = {}
    BY <1>3, <2>1 DEF Parked
  <2>3. Parked(g.mem, C, i) \ {} = {}
    BY <2>2
  <2>4. g.quick[i] = <<>>
    BY <1>4
  <2>5. Len(<<>>) <= QUICK_LIST_MAX
    BY SizesAssumption
  <2> QED
    BY <2>3, <2>4, <2>5, EmptyLists
<1>20. Held(g.mem, C) = {}
  <2> SUFFICES ASSUME NEW b \in C, b # pro, m[b + 1].alloc = TRUE
               PROVE  FALSE
    BY <1>3 DEF Held
  <2> QED
    BY <1>5, <1>14 DEF pro
<1>21. Alloc(g.mem, C) = {0}
  <2>1. \A b \in C : m[b + 1].alloc = TRUE <=> b = 0
    BY <1>5, <1>14
  <2> QED
    BY <1>3, <1>7, <2>1 DEF Alloc
<1> QED
  BY <1>7, <1>18, <1>19, <1>20, <1>21

-----------------------------------------------------------------------------
\* The statistics.

\* The sum over the addresses, by what it is up to each of them.
LEMMA SumExists ==
    ASSUME NEW X, NEW f \in [X -> Nat]
    PROVE  \E s : Adds(f, s)
<1>1. \A n : At(f, n) \in Nat
  BY DEF At
<1>2. PICK N \in Nat : N = Top
  BY Bounds
<1> DEFINE step == [x \in (0 .. N) \X Nat |-> x[2] + At(f, x[1] - 1)]
<1>3. PICK p \in [0 .. N -> Nat] : /\ p[0] = 0
                                   /\ \A i \in 1 .. N : p[i] = p[i - 1] + At(f, i - 1)
  <2>1. step \in [(0 .. N) \X Nat -> Nat]
    <3>1. \A x \in (0 .. N) \X Nat : x[2] + At(f, x[1] - 1) \in Nat
      BY <1>1
    <3> QED
      BY <3>1
  <2>6. \A i \in 0 .. N, v \in Nat : step[<<i, v>>] = v + At(f, i - 1)
    OBVIOUS
  <2> HIDE DEF step
  <2>2. PICK V, first : V = Nat /\ first = 0
    OBVIOUS
  <2>3. PICK st \in [(0 .. N) \X V -> V] : st = step
    BY <2>1, <2>2
  <2>4. first \in V
    BY <2>2
  <2>5. PICK p \in [0 .. N -> V] : Iterates(N, first, st, p)
    BY <2>4, Iteration
  <2>7. p \in [0 .. N -> Nat] /\ p[0] = 0
    BY <2>2, <2>5 DEF Iterates
  <2>8. \A i \in 1 .. N : p[i] = p[i - 1] + At(f, i - 1)
    <3> SUFFICES ASSUME NEW i \in 1 .. N
                 PROVE  p[i] = p[i - 1] + At(f, i - 1)
      OBVIOUS
    <3>1. i - 1 \in 0 .. N /\ i \in 0 .. N
      OBVIOUS
    <3>2. p[i] = step[<<i, p[i - 1]>>] /\ p[i - 1] \in Nat
      BY <2>3, <2>5, <2>7, <3>1 DEF Iterates
    <3> QED
      BY <2>6, <3>1, <3>2
  <2> QED
    BY <2>7, <2>8
<1>4. p = [n \in 0 .. N |-> IF n = 0 THEN 0
                            ELSE p[n - 1] + (IF n - 1 \in DOMAIN f THEN f[n - 1] ELSE 0)]
  <2>1. \A i \in 0 .. N :
           p[i] = IF i = 0 THEN 0
                  ELSE p[i - 1] + (IF i - 1 \in DOMAIN f THEN f[i - 1] ELSE 0)
    <3> SUFFICES ASSUME NEW i \in 0 .. N, i # 0
                 PROVE  p[i] = p[i - 1] + (IF i - 1 \in DOMAIN f THEN f[i - 1] ELSE 0)
      BY <1>3
    <3>1. i \in 1 .. N
      OBVIOUS
    <3> QED
      BY <1>3, <3>1 DEF At
  <2> QED
    BY <1>3, <2>1
<1>5. PICK s : /\ s = [n \in 0 .. Top |-> IF n = 0 THEN 0
                            ELSE s[n - 1] + (IF n - 1 \in DOMAIN f THEN f[n - 1] ELSE 0)]
               /\ SumOf(f) = s[Top]
  BY <1>2, <1>4 DEF SumOf
<1>6. /\ s[0] = 0
      /\ \A n \in 1 .. Top : s[n] = s[n - 1] + At(f, n - 1)
  <2>1. Top \in Nat
    BY Bounds
  <2>2. s[0] = 0
    BY <1>5, <2>1
  <2> SUFFICES ASSUME NEW n \in 1 .. Top
               PROVE  s[n] = s[n - 1] + At(f, n - 1)
    BY <2>2
  <2>3. n \in 0 .. Top /\ n # 0
    BY <2>1
  <2> QED
    BY <1>5, <2>3 DEF At
<1>7. \A n \in 0 .. Top : s[n] \in Nat
  <2> DEFINE T == {j \in Nat : j <= Top => s[j] \in Nat}
  <2>1. 0 \in T
    BY <1>6
  <2>2. \A j \in Nat : j \in T => j + 1 \in T
    <3> SUFFICES ASSUME NEW j \in Nat, j \in T, j + 1 <= Top
                 PROVE  s[j + 1] \in Nat
      OBVIOUS
    <3>1. j <= Top /\ j + 1 \in 1 .. Top /\ (j + 1) - 1 = j
      BY Bounds
    <3>2. s[j] \in Nat /\ s[j + 1] = s[j] + At(f, j)
      BY <1>6, <3>1
    <3> QED
      BY <1>1, <3>2
  <2>3. Nat \subseteq T
    <3> HIDE DEF T
    <3> QED
      BY <2>1, <2>2, SetInduction
  <2> QED
    BY <2>3
<1> QED
  BY <1>5, <1>6, <1>7 DEF Adds

\* Two functions that differ at b only.
LEMMA SumPoint ==
    ASSUME NEW X, NEW f \in [X -> Nat], NEW Y, NEW g \in [Y -> Nat], NEW b \in Addr,
           \A n : n # b => At(f, n) = At(g, n)
    PROVE  SumOf(f) \in Nat /\ SumOf(g) \in Nat /\ SumOf(g) + At(f, b) = SumOf(f) + At(g, b)
<1>1. PICK s : Adds(f, s)
  BY SumExists
<1>2. PICK t : Adds(g, t)
  BY SumExists
<1>3. At(f, b) \in Nat /\ At(g, b) \in Nat /\ \A n : At(f, n) \in Nat
  BY DEF At
<1>4. Top \in Nat /\ b \in Nat /\ b < Top
  BY Bounds DEF Addr
<1>5. /\ SumOf(f) = s[Top] /\ s[0] = 0 /\ SumOf(g) = t[Top] /\ t[0] = 0
      /\ \A n \in 0 .. Top : s[n] \in Nat /\ t[n] \in Nat
      /\ \A n \in 1 .. Top : s[n] = s[n - 1] + At(f, n - 1)
      /\ \A n \in 1 .. Top : t[n] = t[n - 1] + At(g, n - 1)
  BY <1>1, <1>2 DEF Adds
<1> DEFINE Agree(j) == IF j <= b THEN t[j] = s[j] ELSE t[j] + At(f, b) = s[j] + At(g, b)
           T == {j \in Nat : j <= Top => Agree(j)}
<1>6. 0 \in T
  BY <1>4, <1>5
<1>7. \A j \in Nat : j \in T => j + 1 \in T
  <2> SUFFICES ASSUME NEW j \in Nat, j \in T, j + 1 <= Top
               PROVE  Agree(j + 1)
    OBVIOUS
  <2>1. j <= Top /\ j + 1 \in 1 .. Top /\ j \in 0 .. Top /\ j + 1 \in 0 .. Top
        /\ (j + 1) - 1 = j
    BY <1>4
  <2>2. Agree(j)
    BY <2>1
  <2>3. PICK x \in Nat, y \in Nat, v \in Nat, w \in Nat :
           x = s[j] /\ y = t[j] /\ v = s[j + 1] /\ w = t[j + 1]
    BY <1>5, <2>1
  <2>4. v = x + At(f, j) /\ w = y + At(g, j)
    BY <1>5, <2>1, <2>3
  <2>5. CASE j < b
    <3>1. At(f, j) = At(g, j) /\ y = x /\ j + 1 <= b
      BY <1>4, <2>2, <2>3, <2>5
    <3> QED
      BY <2>3, <2>4, <3>1
  <2>6. CASE j = b
    <3>1. y = x /\ ~(j + 1 <= b)
      BY <1>4, <2>2, <2>3, <2>6
    <3>2. w + At(f, b) = v + At(g, b)
      BY <1>3, <2>4, <2>6, <3>1
    <3> QED
      BY <2>3, <3>1, <3>2
  <2>7. CASE j > b
    <3>1. At(f, j) = At(g, j) /\ y + At(f, b) = x + At(g, b) /\ ~(j + 1 <= b)
      BY <1>4, <2>2, <2>3, <2>7
    <3>2. w + At(f, b) = v + At(g, b)
      BY <1>3, <2>4, <3>1
    <3> QED
      BY <2>3, <3>1, <3>2
  <2> QED
    BY <1>4, <2>5, <2>6, <2>7
<1>8. Nat \subseteq T
  <2> HIDE DEF T
  <2> QED
    BY <1>6, <1>7, SetInduction
<1>9. t[Top] + At(f, b) = s[Top] + At(g, b)
  <2>1. Agree(Top) /\ ~(Top <= b)
    BY <1>4, <1>8
  <2> QED
    BY <2>1
<1>10. s[Top] \in Nat /\ t[Top] \in Nat
  BY <1>4, <1>5
<1> QED
  BY <1>5, <1>9, <1>10

\* What is held grows by the block that is given.
LEMMA SumGiven ==
    ASSUME NEW X \in SUBSET Addr, NEW f \in [X -> Nat], NEW b \in Addr, b \notin X, NEW n \in Nat
    PROVE  SumOf(f) \in Nat /\ SumOf(Given(f, b, n)) = SumOf(f) + n
<1>1. PICK Y, g : Y = X \cup {b} /\ g = Given(f, b, n)
  OBVIOUS
<1>2. g \in [Y -> Nat] /\ At(f, b) = 0 /\ At(g, b) = n /\ \A i : i # b => At(f, i) = At(g, i)
  BY <1>1 DEF Given, At
<1>3. SumOf(f) \in Nat /\ SumOf(g) \in Nat /\ SumOf(g) + At(f, b) = SumOf(f) + At(g, b)
  BY <1>2, SumPoint
<1>4. SumOf(g) + 0 = SumOf(f) + n
  BY <1>2, <1>3
<1>5. SumOf(g) = SumOf(f) + n
  BY <1>3, <1>4
<1> QED
  BY <1>1, <1>3, <1>5

\* What is held shrinks by the block that is taken back.
LEMMA SumTaken ==
    ASSUME NEW X \in SUBSET Addr, NEW f \in [X -> Nat], NEW b \in X
    PROVE  SumOf(Taken(f, b)) \in Nat /\ SumOf(Taken(f, b)) = SumOf(f) - f[b]
<1>1. PICK Y, g : Y = X \ {b} /\ g = Taken(f, b)
  OBVIOUS
<1>2. g \in [Y -> Nat] /\ At(f, b) = f[b] /\ At(g, b) = 0 /\ \A i : i # b => At(f, i) = At(g, i)
  BY <1>1 DEF Taken, At
<1>3. SumOf(f) \in Nat /\ SumOf(g) \in Nat /\ SumOf(g) + At(f, b) = SumOf(f) + At(g, b)
  <2>1. b \in Addr
    OBVIOUS
  <2> QED
    BY <1>2, <2>1, SumPoint
<1>4. SumOf(g) + f[b] = SumOf(f) + 0 /\ f[b] \in Nat
  BY <1>2, <1>3
<1>5. SumOf(g) = SumOf(f) - f[b]
  BY <1>3, <1>4
<1> QED
  BY <1>1, <1>3, <1>5

\* A block of what is held has another size.
LEMMA SumChanged ==
    ASSUME NEW X \in SUBSET Addr, NEW f \in [X -> Nat], NEW b \in X, NEW n \in Nat
    PROVE  SumOf([f EXCEPT ![b] = n]) = SumOf(f) - f[b] + n
<1>1. PICK g : g = [f EXCEPT ![b] = n]
  OBVIOUS
<1>2. g \in [X -> Nat] /\ At(f, b) = f[b] /\ At(g, b) = n /\ \A i : i # b => At(f, i) = At(g, i)
  BY <1>1 DEF At
<1>3. SumOf(f) \in Nat /\ SumOf(g) \in Nat /\ SumOf(g) + At(f, b) = SumOf(f) + At(g, b)
  <2>1. b \in Addr
    OBVIOUS
  <2> QED
    BY <1>2, <2>1, SumPoint
<1>4. SumOf(g) + f[b] = SumOf(f) + n /\ f[b] \in Nat
  BY <1>2, <1>3
<1>5. SumOf(g) = SumOf(f) - f[b] + n
  BY <1>3, <1>4
<1> QED
  BY <1>1, <1>5

-----------------------------------------------------------------------------
\* The invariant.

\* A block that the user holds: its tag says what was asked for, and there is
\* room for it.
LEMMA GoodFacts ==
    ASSUME NEW h, NEW C, NEW f, Good(h, C, f)
    PROVE  /\ h \in Heaps /\ h.fault = "none" /\ h.end # 0
           /\ DOMAIN f = Held(h.mem, C) /\ f \in [DOMAIN f -> Nat] /\ DOMAIN f \in SUBSET Addr
           /\ Sizes(h, f) \in [DOMAIN f -> Nat]
           /\ \A b \in DOMAIN f : /\ b \in C /\ b # pro /\ b \in Even /\ b \in Addr /\ b \in Nat
                                  /\ h.mem[b + 1] \in Tags
                                  /\ Is(h.mem[b + 1], f[b], SizeOf(h, b))
                                  /\ f[b] \in Nat /\ SizeOf(h, b) \in Nat
                                  /\ f[b] + 1 <= SizeOf(h, b)
<1>1. Sound(h, C, -1, {}) /\ Holds(h, C, f)
  BY DEF Good
<1>2. h \in Heaps /\ h.fault = "none" /\ h.end = h.epi + 2 /\ h.epi \in Nat
  BY <1>1, SoundFacts
<1>3. /\ f \in [Held(h.mem, C) -> Nat]
      /\ \A b \in Held(h.mem, C) : h.mem[b + 1].payload = f[b] /\ f[b] + 1 <= h.mem[b + 1].size
  BY <1>1 DEF Holds
<1>4. DOMAIN f = Held(h.mem, C)
  BY <1>3
<1>5. ASSUME NEW b \in DOMAIN f
      PROVE  /\ b \in C /\ b # pro /\ b \in Even /\ b \in Addr /\ b \in Nat
             /\ h.mem[b + 1] \in Tags
             /\ Is(h.mem[b + 1], f[b], SizeOf(h, b))
             /\ f[b] \in Nat /\ SizeOf(h, b) \in Nat
             /\ f[b] + 1 <= SizeOf(h, b)
  <2>1. b \in C /\ b # pro /\ h.mem[b + 1].alloc = TRUE /\ h.mem[b + 1].qk = FALSE
    BY <1>4, <1>5 DEF Held
  <2>2. b \in Even /\ b \in Addr /\ b \in Nat /\ h.mem[b + 1] \in Tags
        /\ h.mem[b + 1].size \in Nat
    BY <1>1, <2>1, BlockTypes
  <2>3. SizeOf(h, b) = h.mem[b + 1].size
    BY DEF SizeOf, Header
  <2> QED
    BY <1>3, <1>4, <1>5, <2>1, <2>2, <2>3 DEF Is
<1>6. DOMAIN f \in SUBSET Addr
  BY <1>5
<1>7. Sizes(h, f) \in [DOMAIN f -> Nat]
  BY <1>5 DEF Sizes
<1> QED
  BY <1>2, <1>3, <1>4, <1>5, <1>6, <1>7

\* The user holds the block that sf_malloc has given.
LEMMA GivesGood ==
    ASSUME NEW h, NEW C, NEW f, Good(h, C, f), NEW size \in Request \cup {0},
           GetMinSize(size) # 0, NEW g, NEW D, NEW b, Gives(h, C, size, g, D, b)
    PROVE  Good(g, D, Given(f, b, size)) /\ More(h, f, g, b, size)
<1>1. Sound(h, C, -1, {}) /\ Quick(h, C, {}) /\ Holds(h, C, f)
  BY DEF Good
<1>2. /\ Sound(g, D, -1, {}) /\ Change(h, g, C, D, {b}, {b})
      /\ b \in D /\ b # pro /\ b \notin Held(h.mem, C)
      /\ Is(g.mem[b + 1], size, g.mem[b + 1].size)
      /\ g.mem[b + 1].size >= GetMinSize(size)
      /\ Quick(g, D, {})
  BY DEF Gives
<1>3. g.mem[b + 1].alloc = TRUE /\ g.mem[b + 1].qk = FALSE /\ g.mem[b + 1].payload = size
  BY <1>2 DEF Is
<1>4. /\ Held(g.mem, D) = (Held(h.mem, C) \ {b}) \cup (Held(g.mem, D) \cap {b})
      /\ Kept(h.mem, g.mem, Held(h.mem, C) \ {b})
  BY <1>1, <1>2, ChangeHeld
<1>5. b \in Held(g.mem, D)
  BY <1>2, <1>3 DEF Held
<1>6. /\ Held(g.mem, D) = Held(h.mem, C) \cup {b}
      /\ Kept(h.mem, g.mem, Held(h.mem, C))
  <2>1. Held(h.mem, C) \ {b} = Held(h.mem, C)
    BY <1>2
  <2> QED
    BY <1>4, <1>5, <2>1
<1>7. /\ DOMAIN f = Held(h.mem, C) /\ f \in [DOMAIN f -> Nat]
      /\ \A c \in DOMAIN f : f[c] \in Nat /\ SizeOf(h, c) \in Nat
                             /\ h.mem[c + 1].payload = f[c] /\ f[c] + 1 <= SizeOf(h, c)
  <2>1. DOMAIN f = Held(h.mem, C) /\ f \in [DOMAIN f -> Nat]
    BY GoodFacts
  <2> SUFFICES ASSUME NEW c \in DOMAIN f
               PROVE  f[c] \in Nat /\ SizeOf(h, c) \in Nat
                      /\ h.mem[c + 1].payload = f[c] /\ f[c] + 1 <= SizeOf(h, c)
    BY <2>1
  <2>2. /\ f[c] \in Nat /\ SizeOf(h, c) \in Nat /\ f[c] + 1 <= SizeOf(h, c)
        /\ Is(h.mem[c + 1], f[c], SizeOf(h, c))
    BY GoodFacts
  <2> QED
    BY <2>2 DEF Is
<1>8. size \in Nat
  BY SizesAssumption
<1>9. PICK q : q = Given(f, b, size)
  OBVIOUS
<1>10. /\ q \in [Held(g.mem, D) -> Nat] /\ DOMAIN q = DOMAIN f \cup {b} /\ q[b] = size
       /\ \A c \in DOMAIN f : q[c] = f[c] /\ c # b
  <2>1. \A c \in DOMAIN f \cup {b} : (IF c = b THEN size ELSE f[c]) \in Nat
    BY <1>7, <1>8
  <2>2. q = [c \in DOMAIN f \cup {b} |-> IF c = b THEN size ELSE f[c]]
    BY <1>9 DEF Given
  <2>3. DOMAIN f \cup {b} = Held(g.mem, D) /\ b \notin DOMAIN f
    BY <1>2, <1>6, <1>7
  <2> QED
    BY <2>1, <2>2, <2>3
<1>11. \A c \in DOMAIN f : SizeOf(g, c) = SizeOf(h, c) /\ g.mem[c + 1].payload = h.mem[c + 1].payload
  BY <1>6, <1>7 DEF Kept, Same, SizeOf, Header
<1>12. size + 1 <= g.mem[b + 1].size /\ b \in Even /\ b \in Addr /\ g.mem[b + 1].size \in Nat
  <2>1. b \in Even /\ b \in Addr /\ g.mem[b + 1].size \in Nat
    BY <1>2, BlockTypes
  <2>2. GetMinSize(size) \in Nat /\ GetMinSize(size) >= size + 1
    BY MinSizeFacts, EvenFacts
  <2> QED
    BY <1>2, <1>8, <2>1, <2>2
<1>13. Holds(g, D, q)
  <2>1. ASSUME NEW c \in Held(g.mem, D)
        PROVE  g.mem[c + 1].payload = q[c] /\ q[c] + 1 <= g.mem[c + 1].size
    <3>1. CASE c = b
      BY <1>3, <1>10, <1>12, <3>1
    <3>2. CASE c # b
      <4>1. c \in DOMAIN f
        BY <1>6, <1>7, <2>1, <3>2
      <4>2. q[c] = f[c] /\ g.mem[c + 1].size = SizeOf(h, c)
            /\ g.mem[c + 1].payload = h.mem[c + 1].payload
        BY <1>10, <1>11, <4>1 DEF SizeOf, Header
      <4> QED
        BY <1>7, <4>1, <4>2
    <3> QED
      BY <3>1, <3>2
  <2> QED
    BY <1>10, <2>1 DEF Holds
<1>14. Sizes(g, q) = Given(Sizes(h, f), b, SizeOf(g, b))
  <2>1. DOMAIN q = DOMAIN Sizes(h, f) \cup {b}
    BY <1>10 DEF Sizes
  <2>2. \A c \in DOMAIN q : SizeOf(g, c) = IF c = b THEN SizeOf(g, b) ELSE Sizes(h, f)[c]
    BY <1>10, <1>11 DEF Sizes
  <2> QED
    BY <2>1, <2>2 DEF Sizes, Given
<1>15. SizeOf(g, b) \in Nat
  BY <1>12 DEF SizeOf, Header
<1> QED
  BY <1>2, <1>6, <1>7, <1>9, <1>10, <1>12, <1>13, <1>14, <1>15 DEF Good, More

\* sf_malloc, from any state: what it does, starting from the heap that it makes
\* when it finds none.
LEMMA MallocFinds ==
    ASSUME NEW h, NEW f, Ready(h, f), NEW size \in Request \cup {0}
    PROVE  \E h0 \in Heaps : /\ h.end # 0 => h0 = h
                             /\ \E C : Good(h0, C, f) /\ Finds(h0, C, size, Malloc(h, size))
                             /\ \/ GetMinSize(size) # 0
                                \/ Malloc(h, size).heap.fault \in Undefined
<1>3. ASSUME NEW g \in Heaps, GetMinSize(size) = 0
      PROVE  MallocFrom(g, size).heap.fault \in Undefined
  <2>1. GetMinSize(size) < min
    BY <1>3 DEF min
  <2>2. MallocFrom(g, size) = Got(Fails(g, "request wraps"), pro)
    BY <2>1 DEF MallocFrom
  <2>3. PICK why \in Faults : why = "request wraps" /\ why \in Undefined
    BY FaultFacts, Zenon
  <2>4. PICK r \in Heaps : r = Fails(g, why) /\ r.fault = why
    BY FailsFacts
  <2>5. MallocFrom(g, size) = Got(r, pro)
    BY <2>2, <2>3, <2>4, Zenon
  <2>6. Got(r, pro).heap = r
    BY DEF Got
  <2> QED
    BY <2>3, <2>4, <2>5, <2>6
<1>1. CASE h.end # 0
  <2>1. h # NoHeap
    BY <1>1, NoHeapFacts
  <2>2. PICK C : Good(h, C, f)
    BY <2>1 DEF Ready
  <2>3. Sound(h, C, -1, {}) /\ Quick(h, C, {}) /\ h \in Heaps
    BY <2>2, GoodFacts DEF Good
  <2>4. Finds(h, C, size, MallocFrom(h, size))
    BY <2>3, MallocFromFinds
  <2>5. Malloc(h, size) = MallocFrom(h, size)
    BY <1>1 DEF Malloc
  <2> QED
    BY <1>3, <2>2, <2>3, <2>4, <2>5
<1>2. CASE h.end = 0
  <2>1. h = NoHeap /\ DOMAIN f = {} /\ f \in [{} -> Nat]
    BY <1>2 DEF Ready
  <2>2. PICK g \in Heaps : Initialize(NoHeap) = g /\ FreshHeap(g)
    BY Initialized
  <2>3. PICK C : C = {0, 4}
    OBVIOUS
  <2>4. Sound(g, C, -1, {}) /\ Quick(g, C, {}) /\ Held(g.mem, C) = {}
    BY <2>2, <2>3, FreshSound
  <2>5. Good(g, C, f)
    BY <2>1, <2>4 DEF Good, Holds
  <2>6. Finds(g, C, size, MallocFrom(g, size))
    BY <2>4, MallocFromFinds
  <2>7. Malloc(h, size) = MallocFrom(g, size)
    BY <1>2, <2>1, <2>2 DEF Malloc
  <2> QED
    BY <1>2, <1>3, <2>5, <2>6, <2>7
<1> QED
  BY <1>1, <1>2

\* At first the user holds nothing.
LEMMA NothingHeld ==
    <<>> \in [{} -> Nat] /\ DOMAIN <<>> = {}
OBVIOUS

\* What is known of a heap that is ready, whether or not it has been started.
LEMMA ReadyTypes ==
    ASSUME NEW h, NEW f, Ready(h, f)
    PROVE  /\ h \in Heaps /\ h.fault = "none" /\ f \in [DOMAIN f -> Nat]
           /\ DOMAIN f \in SUBSET Addr /\ DOMAIN f \in SUBSET Even
           /\ Sizes(h, f) \in [DOMAIN f -> Nat]
<1>1. CASE h = NoHeap /\ DOMAIN f = {} /\ f \in [{} -> Nat]
  BY <1>1, NoHeapFacts DEF Sizes
<1>2. CASE h.end # 0 /\ \E C : Good(h, C, f)
  <2>1. PICK C : Good(h, C, f)
    BY <1>2
  <2>2. /\ h \in Heaps /\ h.fault = "none" /\ f \in [DOMAIN f -> Nat]
        /\ DOMAIN f \in SUBSET Addr /\ Sizes(h, f) \in [DOMAIN f -> Nat]
    BY <2>1, GoodFacts
  <2>3. \A b \in DOMAIN f : b \in Even
    BY <2>1, GoodFacts
  <2> QED
    BY <2>2, <2>3
<1> QED
  BY <1>1, <1>2 DEF Ready

\* A step into a heap that is ready and has the right totals.
LEMMA WellStep ==
    ASSUME NEW h, NEW f, NEW payload, NEW blocks, Well(h, f, payload, blocks),
           heap' = h, live' = f, totalPayload' = payload, totalBlocks' = blocks
    PROVE  IInv'
<1>1. /\ h \in Heaps /\ h.fault = "none" /\ f \in [DOMAIN f -> Nat]
      /\ DOMAIN f \in SUBSET Addr /\ DOMAIN f \in SUBSET Even
      /\ Sizes(h, f) \in [DOMAIN f -> Nat]
  BY ReadyTypes DEF Well
<1>2. payload = SumOf(f) /\ blocks = SumOf(Sizes(h, f)) /\ Ready(h, f)
  BY DEF Well, Totals
<1>3. PICK b \in Addr : TRUE
  BY Bounds DEF Addr
<1>4. SumOf(f) \in Nat
  <2>1. \A n : n # b => At(f, n) = At(f, n)
    OBVIOUS
  <2> QED
    BY <1>1, <2>1, SumPoint
<1>5. SumOf(Sizes(h, f)) \in Nat
  <2>1. PICK s : s = Sizes(h, f)
    OBVIOUS
  <2>2. s \in [DOMAIN f -> Nat] /\ \A n : n # b => At(s, n) = At(s, n)
    BY <1>1, <2>1
  <2>3. SumOf(s) \in Nat
    BY <2>2, SumPoint
  <2> QED
    BY <2>1, <2>3
<1>6. TypeOK'
  BY <1>1, <1>2, <1>4, <1>5 DEF TypeOK
<1>7. (heap.fault # "abort")'
  BY <1>1
<1>8. Ready(heap, live)' /\ Totals(heap, live, totalPayload, totalBlocks)'
  BY <1>2 DEF Totals
<1> QED
  BY <1>6, <1>7, <1>8 DEF IInv

\* A step that goes wrong in a way that tells nothing of what comes after.
LEMMA UndefinedStep ==
    ASSUME NEW h, NEW f, NEW payload, NEW blocks, Ends(h, f, payload, blocks),
           h.fault \in Undefined
    PROVE  IInv' /\ KeepsData
<1>1. PICK why : why = h.fault
  OBVIOUS
<1>2. why \in Faults /\ why # "none" /\ why # "abort" /\ why \in Undefined
  BY <1>1 DEF Undefined, Faults
<1>3. PICK g \in Heaps : g = Fails(NoHeap, why) /\ g.fault = why
  BY <1>2, NoHeapFacts, FailsFacts
<1>4. heap' = g /\ live' = <<>> /\ totalPayload' = 0 /\ totalBlocks' = 0
  BY <1>1, <1>2, <1>3 DEF Ends
<1>5. heap' \in Heaps /\ heap'.fault = why
  BY <1>3, <1>4
<1>6. ~Works'
  BY <1>2, <1>5 DEF Works
<1>7. TypeOK'
  BY <1>4, <1>5, NothingHeld DEF TypeOK
<1> QED
  BY <1>2, <1>5, <1>6, <1>7 DEF IInv, KeepsData

\* The other faults, after which the model follows the heap no further.
LEMMA FaultyStep ==
    ASSUME NEW h \in Heaps, NEW f, NEW payload \in Int, NEW blocks \in Nat,
           Ends(h, f, payload, blocks), h.fault \notin Undefined, h.fault # "none",
           h.fault # "abort", f \in [DOMAIN f -> Nat], DOMAIN f \in SUBSET Even
    PROVE  IInv' /\ KeepsData
<1>1. heap' = h /\ live' = f /\ totalPayload' = payload /\ totalBlocks' = blocks
  BY DEF Ends
<1>2. TypeOK' /\ ~Works' /\ heap'.fault # "abort"
  BY <1>1 DEF TypeOK, Works
<1> QED
  BY <1>2 DEF IInv, KeepsData

-----------------------------------------------------------------------------
\* sf_malloc, and the user's own writes.

\* The payload of a block lies between its header and the next one.
LEMMA PayloadFacts ==
    ASSUME NEW h, NEW C, NEW f, Good(h, C, f), NEW b \in DOMAIN f, NEW n \in Nat, n <= f[b],
           NEW w \in Payload(b, n)
    PROVE  /\ w \in Addr /\ w \in Nat /\ b + 1 < w /\ w <= Nx(h.mem, b)
           /\ w <= NextBlock(h, b) /\ w \in Payload(b, f[b])
<1>1. /\ b \in C /\ b \in Nat /\ f[b] \in Nat /\ SizeOf(h, b) \in Nat
      /\ f[b] + 1 <= SizeOf(h, b)
  BY GoodFacts
<1>2. Nx(h.mem, b) \in Addr
  <2>1. Sound(h, C, -1, {})
    BY DEF Good
  <2> QED
    BY <1>1, <2>1, BlockTypes
<1>3. Nx(h.mem, b) = b + SizeOf(h, b) /\ NextBlock(h, b) = b + SizeOf(h, b)
  BY DEF Nx, NextBlock, SizeOf, Header
<1>4. w \in Nat /\ b + 2 <= w /\ w <= b + 1 + n
  BY <1>1 DEF Payload
<1>5. b + 1 < w /\ w <= b + SizeOf(h, b) /\ w \in b + 2 .. b + 1 + f[b]
  BY <1>1, <1>4
<1>6. w \in Addr
  BY <1>2, <1>3, <1>4, <1>5, Bounds DEF Addr
<1> QED
  BY <1>3, <1>4, <1>5, <1>6 DEF Payload

\* A block that is as it was keeps what the user wrote.
LEMMA KeptArrives ==
    ASSUME NEW h, NEW C, NEW f, Good(h, C, f), NEW b \in DOMAIN f, NEW n \in Nat, n <= f[b],
           NEW g, NEW S, Kept(h.mem, g.mem, S), b \in S
    PROVE  Arrives(h, b, g, b, n)
<1> SUFFICES ASSUME NEW w \in Payload(b, n)
             PROVE  w <= NextBlock(h, b) /\ (h.mem[w] = Data => g.mem[w - b + b] = Data)
  BY DEF Arrives
<1>1. w \in Addr /\ w \in Nat /\ b + 1 < w /\ w <= Nx(h.mem, b) /\ w <= NextBlock(h, b)
  BY PayloadFacts
<1>2. g.mem[w] = h.mem[w]
  BY <1>1 DEF Kept
<1>3. w - b + b = w
  <2>1. b \in Nat
    BY GoodFacts
  <2> QED
    BY <1>1, <2>1
<1> QED
  BY <1>1, <1>2, <1>3

\* The smaller of two sizes.
LEMMA MinOfTwo ==
    ASSUME NEW x \in Nat, NEW y \in Nat
    PROVE  Min({x, y}) \in Nat /\ Min({x, y}) <= x /\ Min({x, y}) <= y
<1>1. {x, y} \in SUBSET Nat /\ {x, y} # {}
  OBVIOUS
<1> QED
  BY <1>1, MinFacts

\* No block is given back, and those of the user are as they were.
LEMMA KeptData ==
    ASSUME NEW C, Good(heap, C, live), NEW S, Kept(heap.mem, heap'.mem, S),
           DOMAIN live \subseteq S, live' \in [DOMAIN live' -> Nat],
           DOMAIN live \subseteq DOMAIN live'
    PROVE  KeepsData
<1>1. DOMAIN live \ DOMAIN live' = {}
  OBVIOUS
<1>2. ASSUME NEW b \in DOMAIN live \cap DOMAIN live'
      PROVE  Arrives(heap, b, heap', b, Min({live[b], live'[b]}))
  <2>1. live[b] \in Nat /\ live'[b] \in Nat
    BY GoodFacts
  <2>2. PICK n \in Nat : n = Min({live[b], live'[b]}) /\ n <= live[b]
    BY <2>1, MinOfTwo
  <2>3. b \in DOMAIN live /\ b \in S
    OBVIOUS
  <2>4. Arrives(heap, b, heap', b, n)
    BY <2>2, <2>3, KeptArrives
  <2> QED
    BY <2>2, <2>4
<1> QED
  BY <1>1, <1>2 DEF KeepsData

\* Nothing changes.
LEMMA KeptAll ==
    ASSUME NEW h, NEW C, NEW f, Good(h, C, f)
    PROVE  Kept(h.mem, h.mem, DOMAIN f)
<1> SUFFICES ASSUME NEW c \in DOMAIN f
             PROVE  h.mem[c + 1] \in Tags
  BY DEF Kept, Same
<1> QED
  BY GoodFacts

\* The user holds nothing: there is no data to keep.
LEMMA NoData ==
    ASSUME DOMAIN live = {}
    PROVE  KeepsData
BY DEF KeepsData

\* No block has a size.
LEMMA NoSizes ==
    ASSUME NEW h, NEW g, NEW f, DOMAIN f = {}
    PROVE  Sizes(h, f) = Sizes(g, f)
BY DEF Sizes

\* sf_malloc keeps the invariant and what the user has written.
LEMMA MallocStep ==
    ASSUME IInv, NEW size \in Request, sf_malloc(size)
    PROVE  IInv' /\ KeepsData
<1>1. PICK got : got = Malloc(heap, size)
  OBVIOUS
<1>2. /\ Works
      /\ IF got.block = pro THEN Ends(got.heap, live, totalPayload, totalBlocks)
         ELSE Ends(got.heap, Given(live, got.block, size), totalPayload + size,
                   totalBlocks + SizeOf(got.heap, got.block))
  BY <1>1 DEF sf_malloc
<1>3. /\ Ready(heap, live) /\ Totals(heap, live, totalPayload, totalBlocks)
      /\ totalPayload \in Int /\ totalBlocks \in Nat /\ size \in Nat
  BY <1>2, SizesAssumption DEF IInv, TypeOK
<1>4. /\ heap \in Heaps /\ live \in [DOMAIN live -> Nat] /\ DOMAIN live \in SUBSET Addr
      /\ DOMAIN live \in SUBSET Even /\ Sizes(heap, live) \in [DOMAIN live -> Nat]
  BY <1>3, ReadyTypes
<1>5. PICK h0 \in Heaps : /\ heap.end # 0 => h0 = heap
                          /\ \E C : Good(h0, C, live) /\ Finds(h0, C, size, got)
                          /\ GetMinSize(size) # 0 \/ got.heap.fault \in Undefined
  BY <1>1, <1>3, MallocFinds
<1>6. PICK C : Good(h0, C, live) /\ Finds(h0, C, size, got)
  BY <1>5
<1>7. h0 = heap \/ DOMAIN live = {}
  BY <1>3, <1>5, NoHeapFacts DEF Ready
<1>8. h0.fault = "none" /\ h0.end # 0
  BY <1>6, GoodFacts
<1>9. Sizes(h0, live) = Sizes(heap, live)
  BY <1>7, NoSizes
<1>10. CASE got.heap.fault \in Undefined
  <2>1. CASE got.block = pro
    BY <1>2, <1>10, <2>1, UndefinedStep
  <2>2. CASE got.block # pro
    BY <1>2, <1>10, <2>2, UndefinedStep
  <2> QED
    BY <2>1, <2>2
<1>11. CASE got = Got(h0, pro)
  <2>1. got.heap = h0 /\ got.block = pro
    BY <1>11 DEF Got
  <2>2. h0.fault \notin Undefined
    BY <1>8, FaultFacts
  <2>3. heap' = h0 /\ live' = live /\ totalPayload' = totalPayload /\ totalBlocks' = totalBlocks
    BY <1>2, <2>1, <2>2 DEF Ends
  <2>4. Well(h0, live, totalPayload, totalBlocks)
    BY <1>3, <1>6, <1>8, <1>9 DEF Well, Totals, Ready
  <2>5. IInv'
    BY <2>3, <2>4, WellStep
  <2>6. KeepsData
    <3>1. CASE DOMAIN live = {}
      BY <3>1, NoData
    <3>2. CASE h0 = heap
      <4>1. Good(heap, C, live) /\ Kept(heap.mem, heap'.mem, DOMAIN live)
        BY <1>6, <2>3, <3>2, KeptAll
      <4>2. live' \in [DOMAIN live' -> Nat] /\ DOMAIN live \subseteq DOMAIN live'
        BY <1>4, <2>3
      <4> QED
        BY <4>1, <4>2, KeptData
    <3> QED
      BY <1>7, <3>1, <3>2
  <2> QED
    BY <2>5, <2>6
<1>12. CASE got.heap.fault \notin Undefined /\ \E g \in Heaps, b \in Even :
          got = Got(g, b) /\ \E D : Gives(h0, C, size, g, D, b)
  <2>1. PICK g \in Heaps, b \in Even :
          got = Got(g, b) /\ \E D : Gives(h0, C, size, g, D, b)
    BY <1>12
  <2>2. PICK D : Gives(h0, C, size, g, D, b)
    BY <2>1
  <2>3. got.heap = g /\ got.block = b
    BY <2>1 DEF Got
  <2>4. PICK q : q = Given(live, b, size)
    OBVIOUS
  <2>5. size \in Request \cup {0} /\ GetMinSize(size) # 0
    BY <1>5, <1>12
  <2>6. Good(g, D, q) /\ More(h0, live, g, b, size)
    BY <1>6, <2>2, <2>4, <2>5, GivesGood
  <2>7. /\ b \notin DOMAIN live /\ b \in Addr /\ b # pro /\ SizeOf(g, b) \in Nat
        /\ DOMAIN q = DOMAIN live \cup {b} /\ Kept(h0.mem, g.mem, DOMAIN live)
        /\ Sizes(g, q) = Given(Sizes(heap, live), b, SizeOf(g, b))
    BY <1>9, <2>4, <2>6 DEF More
  <2>8. g.fault = "none" /\ g.end # 0 /\ q \in [DOMAIN q -> Nat]
    BY <2>6, GoodFacts
  <2>9. /\ heap' = g /\ live' = q /\ totalPayload' = totalPayload + size
        /\ totalBlocks' = totalBlocks + SizeOf(g, b)
    <3>1. g.fault \notin Undefined
      BY <2>8, FaultFacts
    <3> QED
      BY <1>2, <2>3, <2>4, <2>7, <3>1 DEF Ends
  <2>10. SumOf(q) = SumOf(live) + size
    BY <1>3, <1>4, <2>4, <2>7, SumGiven
  <2>11. SumOf(Sizes(g, q)) = SumOf(Sizes(heap, live)) + SizeOf(g, b)
    <3>0. PICK n \in Nat : n = SizeOf(g, b)
      BY <2>7
    <3>1. PICK s : s = Sizes(heap, live) /\ n = SizeOf(g, b)
      BY <3>0
    <3>2. s \in [DOMAIN live -> Nat]
      BY <1>4, <3>1
    <3>3. SumOf(Given(s, b, n)) = SumOf(s) + n
      BY <1>4, <2>7, <3>2, SumGiven
    <3> QED
      BY <2>7, <3>1, <3>3
  <2>12. Well(g, q, totalPayload + size, totalBlocks + SizeOf(g, b))
    BY <1>3, <2>6, <2>8, <2>10, <2>11 DEF Well, Totals, Ready
  <2>13. IInv'
    BY <2>9, <2>12, WellStep
  <2>14. KeepsData
    <3>1. CASE DOMAIN live = {}
      BY <3>1, NoData
    <3>2. CASE h0 = heap
      <4>1. Good(heap, C, live) /\ Kept(heap.mem, heap'.mem, DOMAIN live)
        BY <1>6, <2>7, <2>9, <3>2
      <4>2. live' \in [DOMAIN live' -> Nat] /\ DOMAIN live \subseteq DOMAIN live'
        BY <2>7, <2>8, <2>9
      <4> QED
        BY <4>1, <4>2, KeptData
    <3> QED
      BY <1>7, <3>1, <3>2
  <2> QED
    BY <2>13, <2>14
<1>13. CASE \E g \in Heaps, b \in Even :
               got = Got(g, b) /\ g.fault \in Broken /\ (b = pro \/ g.mem[b + 1].size \in Nat)
  <2>1. PICK g \in Heaps, b \in Even :
               got = Got(g, b) /\ g.fault \in Broken /\ (b = pro \/ g.mem[b + 1].size \in Nat)
    BY <1>13
  <2>2. got.heap = g /\ got.block = b
    BY <2>1 DEF Got
  <2>3. g.fault \notin Undefined /\ g.fault # "none" /\ g.fault # "abort"
    BY <2>1 DEF Broken, Undefined
  <2>4. CASE b = pro
    <3>1. Ends(g, live, totalPayload, totalBlocks)
      BY <1>2, <2>2, <2>4
    <3> QED
      BY <1>3, <1>4, <2>3, <3>1, FaultyStep
  <2>5. CASE b # pro
    <3>1. PICK q : q = Given(live, b, size)
      OBVIOUS
    <3>2. PICK p \in Int, t \in Nat : /\ p = totalPayload + size
                                      /\ t = totalBlocks + SizeOf(g, b)
      <4>1. SizeOf(g, b) \in Nat
        BY <2>1, <2>5 DEF SizeOf, Header
      <4> QED
        BY <1>3, <4>1
    <3>3. Ends(g, q, p, t)
      BY <1>2, <2>2, <2>5, <3>1, <3>2
    <3>4. q \in [DOMAIN q -> Nat] /\ DOMAIN q \in SUBSET Even
      BY <1>3, <1>4, <3>1 DEF Given
    <3> QED
      BY <2>3, <3>3, <3>4, FaultyStep
  <2> QED
    BY <2>4, <2>5
<1> QED
  BY <1>6, <1>10, <1>11, <1>12, <1>13 DEF Finds

\* The user still holds a block whose tag or contents changed.
LEMMA TouchedGood ==
    ASSUME NEW h, NEW C, NEW f, Good(h, C, f), NEW b \in DOMAIN f, NEW n, NEW g,
           Touched(h, C, b, n, g), NEW q, q = [f EXCEPT ![b] = n]
    PROVE  /\ Good(g, C, q) /\ Kept(h.mem, g.mem, DOMAIN f \ {b})
           /\ DOMAIN q = DOMAIN f /\ Sizes(g, q) = Sizes(h, f)
           /\ q[b] = n /\ \A c \in DOMAIN f : c # b => q[c] = f[c]
<1>1. Sound(h, C, -1, {}) /\ Quick(h, C, {}) /\ Holds(h, C, f)
  BY DEF Good
<1>2. /\ Sound(g, C, -1, {}) /\ Replaced(h, g, C, C, {b}, {b})
      /\ Is(g.mem[b + 1], n, h.mem[b + 1].size) /\ n \in Nat /\ n + 1 <= h.mem[b + 1].size
  BY DEF Touched
<1>3. /\ b \in C /\ b # pro /\ b \in Held(h.mem, C) /\ DOMAIN f = Held(h.mem, C)
      /\ f \in [DOMAIN f -> Nat]
  BY GoodFacts
<1>4. h.mem[b + 1].qk = FALSE /\ g.mem[b + 1].qk = FALSE /\ g.mem[b + 1].alloc = TRUE
      /\ g.mem[b + 1].payload = n /\ g.mem[b + 1].size = h.mem[b + 1].size
  BY <1>2, <1>3 DEF Held, Is
<1>5. Alloc(g.mem, {b}) = {b}
  BY <1>4 DEF Alloc
<1>6. Change(h, g, C, C, {b}, {b})
  <2>1. Change(h, g, C, C, {b}, Alloc(g.mem, {b}))
    BY <1>2, ReplacedChange
  <2> QED
    BY <1>5, <2>1
<1>7. Quick(g, C, {})
  <2>1. g.quick = h.quick
    BY <1>2 DEF Replaced
  <2> QED
    BY <1>1, <1>2, <1>4, <1>6, <2>1, QuickKept
<1>8. /\ Held(g.mem, C) = (Held(h.mem, C) \ {b}) \cup (Held(g.mem, C) \cap {b})
      /\ Kept(h.mem, g.mem, Held(h.mem, C) \ {b})
  BY <1>1, <1>2, <1>6, ChangeHeld
<1>9. b \in Held(g.mem, C)
  BY <1>3, <1>4 DEF Held
<1>10. Held(g.mem, C) = DOMAIN f /\ Kept(h.mem, g.mem, DOMAIN f \ {b})
  BY <1>3, <1>8, <1>9
<1>11. /\ q \in [DOMAIN f -> Nat] /\ DOMAIN q = DOMAIN f /\ q[b] = n
       /\ \A c \in DOMAIN f : c # b => q[c] = f[c]
  BY <1>2, <1>3
<1>12. \A c \in DOMAIN f : c # b => /\ g.mem[c + 1].size = h.mem[c + 1].size
                                    /\ g.mem[c + 1].payload = h.mem[c + 1].payload
  BY <1>10 DEF Kept, Same
<1>13. Holds(g, C, q)
  <2> SUFFICES ASSUME NEW c \in Held(g.mem, C)
               PROVE  g.mem[c + 1].payload = q[c] /\ q[c] + 1 <= g.mem[c + 1].size
    BY <1>10, <1>11 DEF Holds
  <2>1. CASE c = b
    BY <1>2, <1>4, <1>11, <2>1
  <2>2. CASE c # b
    <3>1. c \in DOMAIN f
      BY <1>10
    <3>2. h.mem[c + 1].payload = f[c] /\ f[c] + 1 <= h.mem[c + 1].size
      BY <1>1, <1>3, <3>1 DEF Holds
    <3> QED
      BY <1>11, <1>12, <2>2, <3>1, <3>2
  <2> QED
    BY <2>1, <2>2
<1>14. Sizes(g, q) = Sizes(h, f)
  <2>1. \A c \in DOMAIN f : SizeOf(g, c) = SizeOf(h, c)
    BY <1>4, <1>12 DEF SizeOf, Header
  <2> QED
    BY <1>11, <2>1 DEF Sizes
<1> QED
  BY <1>2, <1>7, <1>10, <1>11, <1>13, <1>14 DEF Good

\* What the user had in a block that keeps its place.
LEMMA TouchedData ==
    ASSUME NEW C, Good(heap, C, live), NEW b \in DOMAIN live,
           Kept(heap.mem, heap'.mem, DOMAIN live \ {b}), live' \in [DOMAIN live' -> Nat],
           DOMAIN live' = DOMAIN live,
           Arrives(heap, b, heap', b, Min({live[b], live'[b]}))
    PROVE  KeepsData
<1>1. DOMAIN live \ DOMAIN live' = {}
  OBVIOUS
<1>2. ASSUME NEW c \in DOMAIN live \cap DOMAIN live'
      PROVE  Arrives(heap, c, heap', c, Min({live[c], live'[c]}))
  <2>1. CASE c = b
    BY <2>1
  <2>2. CASE c # b
    <3>1. live[c] \in Nat /\ live'[c] \in Nat
      BY GoodFacts
    <3>2. PICK n \in Nat : n = Min({live[c], live'[c]}) /\ n <= live[c]
      BY <3>1, MinOfTwo
    <3>3. c \in DOMAIN live
      OBVIOUS
    <3>4. PICK S : S = DOMAIN live \ {b} /\ c \in S
      BY <2>2
    <3>5. Kept(heap.mem, heap'.mem, S)
      BY <3>4
    <3>6. Arrives(heap, c, heap', c, n)
      BY <3>2, <3>3, <3>4, <3>5, KeptArrives
    <3> QED
      BY <3>2, <3>6
  <2> QED
    BY <2>1, <2>2
<1> QED
  BY <1>1, <1>2 DEF KeepsData

\* A state in which the user holds something has a heap.
LEMMA Started0 ==
    ASSUME NEW h, NEW f, Ready(h, f), NEW b \in DOMAIN f
    PROVE  \E C : Good(h, C, f)
BY DEF Ready

\* The user's writes keep the invariant and what the others hold.
LEMMA WriteStep ==
    ASSUME IInv, NEW b \in DOMAIN live, NEW n \in Request, Write(b, n)
    PROVE  IInv' /\ KeepsData
<1>1. /\ Works /\ n <= live[b] /\ n \in Nat
      /\ live' = live /\ totalPayload' = totalPayload /\ totalBlocks' = totalBlocks
      /\ Ready(heap, live) /\ Totals(heap, live, totalPayload, totalBlocks)
      /\ heap \in Heaps
  BY SizesAssumption DEF Write, IInv, TypeOK
<1>2. PICK C : Good(heap, C, live)
  BY <1>1, Started0
<1>3. Sound(heap, C, -1, {})
  BY <1>2 DEF Good
<1>4. PICK k : k = [w \in Addr |-> IF w \in Payload(b, n) THEN Data ELSE heap.mem[w]]
  OBVIOUS
<1>5. heap.mem \in [Addr -> Words] /\ DOMAIN heap.mem = Addr /\ k \in [Addr -> Words]
  <2>1. heap.mem \in [Addr -> Words]
    BY <1>1, HeapFacts
  <2> QED
    BY <1>4, <2>1, WordFacts
<1>6. heap' = With(heap, k)
  <2>1. heap' = [heap EXCEPT !.mem = [w \in DOMAIN @ |-> IF w \in Payload(b, n) THEN Data
                                                        ELSE @[w]]]
    BY DEF Write
  <2>2. heap' = [heap EXCEPT !.mem = [w \in DOMAIN heap.mem |->
                                         IF w \in Payload(b, n) THEN Data ELSE heap.mem[w]]]
    BY <1>1, <2>1 DEF Heaps
  <2> QED
    BY <1>4, <1>5, <2>2 DEF With
<1>7. PICK g \in Heaps : /\ g = With(heap, k) /\ g.mem = k
                         /\ g.quick = heap.quick /\ g.end = heap.end
  BY <1>1, <1>5, WithFacts
<1>8. /\ b \in C /\ b # pro /\ heap.mem[b + 1].alloc = TRUE /\ heap.mem[b + 1] \in Tags
      /\ Is(heap.mem[b + 1], live[b], heap.mem[b + 1].size)
      /\ live[b] \in Nat /\ live[b] + 1 <= heap.mem[b + 1].size /\ b + 1 \in Addr
      /\ b \in Nat /\ Nx(heap.mem, b) \in Addr /\ Nx(heap.mem, b) \in Nat
  <2>1. /\ b \in C /\ b # pro /\ b \in Nat /\ live[b] \in Nat /\ heap.mem[b + 1] \in Tags
        /\ Is(heap.mem[b + 1], live[b], SizeOf(heap, b)) /\ live[b] + 1 <= SizeOf(heap, b)
    BY <1>2, GoodFacts
  <2>2. SizeOf(heap, b) = heap.mem[b + 1].size
    BY DEF SizeOf, Header
  <2>3. b + 1 \in Addr /\ Nx(heap.mem, b) \in Addr /\ Nx(heap.mem, b) \in Nat
    BY <1>3, <2>1, BlockTypes
  <2> QED
    BY <2>1, <2>2, <2>3 DEF Is
<1>9. \A w \in Payload(b, n) : b + 1 < w /\ w <= Nx(heap.mem, b) /\ w \in Addr
  BY <1>1, <1>2, PayloadFacts
<1>10. Scribbled(heap, k, b)
  <2>1. \A w \in Addr : w <= b + 1 \/ w > Nx(heap.mem, b) => w \notin Payload(b, n)
    <3> SUFFICES ASSUME NEW w \in Payload(b, n)
                 PROVE  ~(w <= b + 1) /\ ~(w > Nx(heap.mem, b))
      OBVIOUS
    <3>1. b + 1 < w /\ w <= Nx(heap.mem, b) /\ w \in Nat
      BY <1>1, <1>2, PayloadFacts
    <3> QED
      BY <1>8, <3>1
  <2>2. \A w \in Addr : w <= b + 1 \/ w > Nx(heap.mem, b) => k[w] = heap.mem[w]
    BY <1>4, <2>1
  <2>3. k[Nx(heap.mem, b)] \in Tags => k[Nx(heap.mem, b)] = heap.mem[Nx(heap.mem, b)]
    <3>1. Data \notin Tags
      BY WordFacts
    <3> QED
      BY <1>4, <1>8, <3>1
  <2> QED
    BY <1>5, <2>2, <2>3 DEF Scribbled
<1>11. Sound(g, C, -1, {}) /\ Replaced(heap, g, C, C, {b}, {b})
  BY <1>3, <1>7, <1>8, <1>10, ScribbledSound
<1>12. g.mem[b + 1] = heap.mem[b + 1]
  <2>1. b + 1 <= b + 1
    BY <1>8
  <2> QED
    BY <1>7, <1>8, <1>10, <2>1 DEF Scribbled
<1>13. Touched(heap, C, b, live[b], g)
  BY <1>8, <1>11, <1>12 DEF Touched
<1>14. live = [live EXCEPT ![b] = live[b]]
  <2>1. live \in [DOMAIN live -> Nat]
    BY <1>2, GoodFacts
  <2> QED
    BY <2>1
<1>15. PICK x : x = live[b]
  OBVIOUS
<1>16. Good(g, C, live) /\ Kept(heap.mem, g.mem, DOMAIN live \ {b})
       /\ Sizes(g, live) = Sizes(heap, live)
  <2>1. live = [live EXCEPT ![b] = x] /\ Touched(heap, C, b, x, g)
    BY <1>13, <1>14, <1>15
  <2> QED
    BY <1>2, <2>1, TouchedGood
<1>17. g.end # 0
  BY <1>16, GoodFacts
<1>18. Well(g, live, totalPayload, totalBlocks)
  BY <1>1, <1>16, <1>17 DEF Well, Ready, Totals
<1>19. IInv'
  BY <1>1, <1>6, <1>7, <1>18, WellStep
<1>20. Arrives(heap, b, heap', b, Min({live[b], live'[b]}))
  <2>1. Min({live[b], live'[b]}) \in Nat /\ Min({live[b], live'[b]}) <= live[b]
    BY <1>1, <1>8, MinOfTwo
  <2>2. PICK m \in Nat : m = Min({live[b], live'[b]}) /\ m <= live[b]
    BY <2>1
  <2> SUFFICES ASSUME NEW w \in Payload(b, m)
               PROVE  /\ w <= NextBlock(heap, b)
                      /\ heap.mem[w] = Data => heap'.mem[w - b + b] = Data
    BY <2>2 DEF Arrives
  <2>3. w \in Addr /\ w \in Nat /\ w <= NextBlock(heap, b)
    BY <1>2, <2>2, PayloadFacts
  <2>4. w - b + b = w
    BY <1>8, <2>3
  <2>5. heap'.mem[w] = k[w]
    BY <1>6, <1>7
  <2> QED
    BY <1>4, <2>3, <2>4, <2>5
<1>21. KeepsData
  <2>1. live' \in [DOMAIN live' -> Nat] /\ DOMAIN live' = DOMAIN live
    BY <1>1, <1>2, GoodFacts
  <2>2. Kept(heap.mem, heap'.mem, DOMAIN live \ {b})
    BY <1>6, <1>7, <1>16
  <2> QED
    BY <1>2, <1>20, <2>1, <2>2, TouchedData
<1> QED
  BY <1>19, <1>21

-----------------------------------------------------------------------------
\* sf_free.

\* valid_pointer accepts every block that the user holds.
LEMMA Accepted ==
    ASSUME NEW h, NEW C, NEW f, Good(h, C, f), NEW b \in DOMAIN f
    PROVE  ValidPointer(h, b)
<1>1. Sound(h, C, -1, {}) /\ Shape(h.mem, C, h.epi, -1)
  BY SoundFacts DEF Good
<1>2. /\ b \in C /\ b # pro /\ b \in Nat /\ h.mem[b + 1] \in Tags
      /\ Is(h.mem[b + 1], f[b], SizeOf(h, b))
  BY GoodFacts
<1>3. /\ h.mem[b + 1].size >= 4 /\ b + 4 <= Nx(h.mem, b) /\ Nx(h.mem, b) <= h.epi
      /\ Nx(h.mem, b) \in Nat
  BY <1>1, <1>2, BlockTypes
<1>4. h.epi \in Nat /\ pro \in C /\ h.mem[pro + 1] \in Tags
  BY <1>1, SoundFacts
<1>5. SizeOf(h, b) >= min /\ Header(h, b).alloc
  BY <1>2, <1>3 DEF SizeOf, Header, min, Is
<1>6. b >= pro + min
  <2>1. h.mem[pro + 1].size = 4
    BY <1>1 DEF Shape, Prologue
  <2>2. pro < b
    BY <1>2 DEF pro
  <2>3. Nx(h.mem, pro) <= b
    BY <1>1, <1>2, <1>4, <2>2, Apart
  <2>4. Nx(h.mem, pro) = pro + 4
    BY <2>1 DEF Nx
  <2> QED
    BY <2>3, <2>4 DEF min
<1>7. b < h.epi - 2
  BY <1>2, <1>3, <1>4
<1>8. Header(h, b).prv \/ ~Footer(h, b).alloc
  <2>1. b \in C \cup {h.epi}
    BY <1>2
  <2>2. PICK a \in C : a < b /\ Nx(h.mem, a) = b /\ Joint(h.mem, a, -1)
    BY <1>1, <1>2, <2>1, Before
  <2>3. h.mem[a + 1].alloc \in BOOLEAN
    BY <1>1, BlockTypes, TagFacts
  <2>4. h.mem[b + 1].prv = h.mem[a + 1].alloc
    BY <2>2 DEF Joint
  <2>5. CASE h.mem[a + 1].alloc = TRUE
    BY <2>4, <2>5 DEF Header
  <2>6. CASE h.mem[a + 1].alloc = FALSE
    <3>1. h.mem[b].alloc = FALSE
      BY <2>2, <2>6 DEF Joint
    <3> QED
      BY <3>1 DEF Footer
  <2> QED
    BY <2>3, <2>5, <2>6
<1> QED
  BY <1>5, <1>6, <1>7, <1>8 DEF ValidPointer

\* release_block on a block of the user or of a quick list.
LEMMA ReleaseOne ==
    ASSUME NEW h, NEW C, Sound(h, C, -1, {}), NEW b \in C, b # pro, h.mem[b + 1].alloc = TRUE
    PROVE  \E g \in Heaps : ReleaseBlock(h, b) = g /\ Frees(h, b, C, g)
<1>1. CASE ~IsTag(Footer(h, b))
  <2>1. PICK why \in Faults : why = "data read as a footer" /\ why \in Undefined
    BY FaultFacts
  <2>2. h \in Heaps
    BY SoundFacts
  <2>3. PICK g \in Heaps : g = Fails(h, why) /\ g.fault = why
    BY <2>2, FailsFacts
  <2>4. ReleaseBlock(h, b) = g
    BY <1>1, <2>1, <2>3 DEF ReleaseBlock
  <2> QED
    BY <2>1, <2>3, <2>4 DEF Frees
<1>2. CASE IsTag(Footer(h, b))
  <2>1. Sound(h, C, -1, {b})
    <3>1. PICK X, Z : X = {} /\ Z = {b}
      OBVIOUS
    <3>2. Sound(h, C, -1, X) /\ \A c \in C : h.mem[c + 1].alloc = FALSE => (c \in X <=> c \in Z)
      BY <3>1
    <3>3. Sound(h, C, -1, Z)
      BY <3>2, SameSound
    <3> QED
      BY <3>1, <3>3
  <2>2. CanRelease(h, b, C, -1)
    BY <1>2, <2>1 DEF CanRelease
  <2>3. PICK g \in Heaps : \E D, P, s : Released(h, b, C, g, D, P, s)
    BY <2>2, ReleaseSound
  <2>4. PICK D, P, s : Released(h, b, C, g, D, P, s)
    BY <2>3
  <2>5. /\ ReleaseBlock(h, b) = g /\ Sound(g, D, -1, {}) /\ Replaced(h, g, C, D, P, {s})
        /\ b \in P /\ g.mem[s + 1].alloc = FALSE
        /\ \A c \in P \ {b} : h.mem[c + 1].alloc = FALSE
    BY <2>4 DEF Released
  <2>6. Change(h, g, C, D, P, Alloc(g.mem, {s}))
    BY <2>5, ReplacedChange
  <2>7. Alloc(g.mem, {s}) = {} /\ Alloc(h.mem, C) \ P = Alloc(h.mem, C) \ {b}
    BY <2>5 DEF Alloc
  <2>8. Change(h, g, C, D, {b}, {})
    BY <2>6, <2>7 DEF Change
  <2>9. g.quick = h.quick
    BY <2>5 DEF Replaced
  <2>10. Frees(h, b, C, g)
    BY <2>5, <2>8, <2>9 DEF Frees
  <2> QED
    BY <2>5, <2>10
<1> QED
  BY <1>1, <1>2

\* The user no longer holds a block that is released or parked.
LEMMA TakenGood ==
    ASSUME NEW h, NEW C, NEW f, Good(h, C, f), NEW b \in DOMAIN f,
           NEW g, NEW D, Sound(g, D, -1, {}), Quick(g, D, {}),
           Held(g.mem, D) = Held(h.mem, C) \ {b}, Kept(h.mem, g.mem, Held(h.mem, C) \ {b})
    PROVE  Good(g, D, Taken(f, b)) /\ Less(h, f, g, b)
<1>1. Holds(h, C, f) /\ DOMAIN f = Held(h.mem, C) /\ f \in [DOMAIN f -> Nat]
  BY GoodFacts DEF Good
<1>2. PICK q : q = Taken(f, b)
  OBVIOUS
<1>3. /\ q \in [DOMAIN f \ {b} -> Nat] /\ DOMAIN q = DOMAIN f \ {b}
      /\ \A c \in DOMAIN f \ {b} : q[c] = f[c]
  BY <1>1, <1>2 DEF Taken
<1>4. \A c \in DOMAIN f \ {b} : /\ g.mem[c + 1].size = h.mem[c + 1].size
                                /\ g.mem[c + 1].payload = h.mem[c + 1].payload
  BY <1>1 DEF Kept, Same
<1>5. Holds(g, D, q)
  <2> SUFFICES ASSUME NEW c \in Held(g.mem, D)
               PROVE  g.mem[c + 1].payload = q[c] /\ q[c] + 1 <= g.mem[c + 1].size
    BY <1>1, <1>3 DEF Holds
  <2>1. c \in DOMAIN f \ {b} /\ c \in Held(h.mem, C)
    BY <1>1
  <2>2. h.mem[c + 1].payload = f[c] /\ f[c] + 1 <= h.mem[c + 1].size
    BY <1>1, <2>1 DEF Holds
  <2> QED
    BY <1>3, <1>4, <2>1, <2>2
<1>6. Sizes(g, q) = Taken(Sizes(h, f), b)
  <2>1. \A c \in DOMAIN f \ {b} : SizeOf(g, c) = SizeOf(h, c)
    BY <1>4 DEF SizeOf, Header
  <2>2. DOMAIN Sizes(h, f) = DOMAIN f
    BY DEF Sizes
  <2> QED
    BY <1>3, <2>1, <2>2 DEF Sizes, Taken
<1>7. Kept(h.mem, g.mem, DOMAIN f \ {b})
  BY <1>1
<1> QED
  BY <1>2, <1>3, <1>5, <1>6, <1>7 DEF Good, Less

\* The user no longer holds a block that was released.
LEMMA ReleaseGood ==
    ASSUME NEW h, NEW C, NEW f, Good(h, C, f), NEW b \in DOMAIN f,
           NEW g, NEW D, Sound(g, D, -1, {}), Change(h, g, C, D, {b}, {}), g.quick = h.quick
    PROVE  Good(g, D, Taken(f, b)) /\ Less(h, f, g, b)
<1>1. Sound(h, C, -1, {}) /\ Quick(h, C, {})
  BY DEF Good
<1>2. h.mem[b + 1].qk = FALSE
  <2>1. Is(h.mem[b + 1], f[b], SizeOf(h, b))
    BY GoodFacts
  <2> QED
    BY <2>1 DEF Is
<1>3. /\ Held(g.mem, D) = (Held(h.mem, C) \ {b}) \cup (Held(g.mem, D) \cap {})
      /\ Kept(h.mem, g.mem, Held(h.mem, C) \ {b})
  BY <1>1, ChangeHeld
<1>4. Quick(g, D, {})
  <2> SUFFICES ASSUME NEW i \in 0 .. NUM_QUICK_LISTS - 1
               PROVE  /\ Lists(g.quick[i], Parked(g.mem, D, i) \ {})
                      /\ Len(g.quick[i]) <= QUICK_LIST_MAX
    BY DEF Quick
  <2>1. Parked(g.mem, D, i) = (Parked(h.mem, C, i) \ {b}) \cup (Parked(g.mem, D, i) \cap {})
    BY <1>1, ChangeParked
  <2>2. b \notin Parked(h.mem, C, i)
    BY <1>2 DEF Parked
  <2>3. Parked(g.mem, D, i) \ {} = Parked(h.mem, C, i) \ {}
    BY <2>1, <2>2
  <2> QED
    BY <1>1, <2>3 DEF Quick
<1>5. Held(g.mem, D) = Held(h.mem, C) \ {b}
  BY <1>3
<1> QED
  BY <1>3, <1>4, <1>5, TakenGood

\* sf_free marks a small block for a quick list.
LEMMA MarkSound ==
    ASSUME NEW h, NEW C, NEW f, Good(h, C, f), NEW b \in DOMAIN f,
           NEW i, i = QuickIndex(SizeOf(h, b))
    PROVE  \E g \in Heaps : Mark(h, b, g) /\ Room(h, f, b, i, g, C) /\ g.quick = h.quick
<1>1. Sound(h, C, -1, {}) /\ Quick(h, C, {})
  BY DEF Good
<1>2. /\ b \in C /\ b # pro /\ h.mem[b + 1] \in Tags /\ DOMAIN f = Held(h.mem, C)
      /\ Is(h.mem[b + 1], f[b], SizeOf(h, b))
  BY GoodFacts
<1>3. PICK t \in Tags : /\ t = h.mem[b + 1] /\ t.alloc = TRUE /\ t.qk = FALSE
                        /\ QuickIndex(t.size) = i
  BY <1>2 DEF Is, SizeOf, Header
<1>4. PICK tag \in Tags : /\ tag = Tag(0, t.size, TRUE, t.prv, TRUE)
                          /\ tag.size = t.size /\ tag.alloc = TRUE /\ tag.prv = t.prv
                          /\ tag.qk = TRUE
  <2>1. PICK n \in Even, v \in BOOLEAN : n = t.size /\ v = t.prv
    BY TagFacts
  <2>2. PICK yes \in BOOLEAN, zero \in Nat : yes = TRUE /\ zero = 0
    OBVIOUS
  <2>3. /\ Tag(zero, n, yes, v, yes) \in Tags /\ Tag(zero, n, yes, v, yes).size = n
        /\ Tag(zero, n, yes, v, yes).alloc = yes /\ Tag(zero, n, yes, v, yes).prv = v
        /\ Tag(zero, n, yes, v, yes).qk = yes
    BY NewTag
  <2> QED
    BY <2>1, <2>2, <2>3
<1>5. CanRetag(h, b, tag, C, -1, {})
  BY <1>1, <1>2, <1>3, <1>4 DEF CanRetag
<1>6. PICK g \in Heaps : Retagged(h, b, tag, C, -1, {}, g)
  BY <1>4, <1>5, UsedSound
<1>7. /\ SetEntireHeader(h, b, tag) = g /\ Sound(g, C, -1, {})
      /\ Replaced(h, g, C, C, {b}, {b}) /\ g.mem[b + 1] = tag
  BY <1>6 DEF Retagged
<1>8. Mark(h, b, g)
  BY <1>3, <1>4, <1>7 DEF Mark, Header
<1>9. Change(h, g, C, C, {b}, {b})
  <2>1. Change(h, g, C, C, {b}, Alloc(g.mem, {b}))
    BY <1>7, ReplacedChange
  <2>2. Alloc(g.mem, {b}) = {b}
    BY <1>4, <1>7 DEF Alloc
  <2> QED
    BY <2>1, <2>2
<1>10. b \in Parked(g.mem, C, i)
  BY <1>2, <1>3, <1>4, <1>7 DEF Parked
<1>11. /\ Held(g.mem, C) = (Held(h.mem, C) \ {b}) \cup (Held(g.mem, C) \cap {b})
       /\ Kept(h.mem, g.mem, Held(h.mem, C) \ {b})
  <2>1. PICK A : A = {b}
    OBVIOUS
  <2>2. Change(h, g, C, C, A, A)
    BY <1>9, <2>1
  <2>3. /\ Held(g.mem, C) = (Held(h.mem, C) \ A) \cup (Held(g.mem, C) \cap A)
        /\ Kept(h.mem, g.mem, Held(h.mem, C) \ A)
    <3>1. Sound(h, C, -1, {})
      BY <1>1
    <3>2. Sound(g, C, -1, {})
      BY <1>7
    <3> QED
      BY <2>2, <3>1, <3>2, ChangeHeld
  <2> QED
    BY <2>1, <2>3
<1>12. b \notin Held(g.mem, C)
  BY <1>4, <1>7 DEF Held
<1>13. Held(g.mem, C) = DOMAIN f \ {b} /\ Kept(h.mem, g.mem, DOMAIN f \ {b})
  BY <1>2, <1>11, <1>12
<1>14. Quick(g, C, {b})
  <2> SUFFICES ASSUME NEW j \in 0 .. NUM_QUICK_LISTS - 1
               PROVE  /\ Lists(g.quick[j], Parked(g.mem, C, j) \ {b})
                      /\ Len(g.quick[j]) <= QUICK_LIST_MAX
    BY DEF Quick
  <2>1. PICK A : A = {b}
    OBVIOUS
  <2>2. Change(h, g, C, C, A, A)
    BY <1>9, <2>1
  <2>3. Parked(g.mem, C, j) = (Parked(h.mem, C, j) \ A) \cup (Parked(g.mem, C, j) \cap A)
    BY <1>1, <1>7, <2>2, ChangeParked
  <2>4. b \notin Parked(h.mem, C, j)
    BY <1>3 DEF Parked
  <2>5. Parked(g.mem, C, j) \ {b} = Parked(h.mem, C, j) \ {}
    BY <2>1, <2>3, <2>4
  <2>6. g.quick[j] = h.quick[j]
    BY <1>7 DEF Replaced
  <2> QED
    BY <1>1, <2>5, <2>6 DEF Quick
<1>15. Room(h, f, b, i, g, C)
  BY <1>2, <1>7, <1>10, <1>13, <1>14 DEF Room
<1>16. g.quick = h.quick
  BY <1>7 DEF Replaced
<1> QED
  BY <1>8, <1>15, <1>16

\* The block goes to the front of the quick list.
LEMMA OnListIs ==
    ASSUME NEW g \in Heaps, NEW b, NEW i \in 0 .. NUM_QUICK_LISTS - 1,
           NEW k, k = [g.mem EXCEPT ![b + 2] = Link], NEW v, v = With(g, k),
           NEW q, q = [g.quick EXCEPT ![i] = Cons(b, g.quick[i])]
    PROVE  OnList(g, b, i) = [v EXCEPT !.quick = q]
BY DEF OnList, With, Cons, Heaps

\* A block is put on a quick list that has room.
LEMMA ParkSound ==
    ASSUME NEW h, NEW C, NEW f, Good(h, C, f), NEW b \in DOMAIN f,
           NEW i \in 0 .. NUM_QUICK_LISTS - 1, NEW g, NEW D, Room(h, f, b, i, g, D),
           Len(g.quick[i]) < QUICK_LIST_MAX
    PROVE  \E e \in Heaps : /\ OnList(g, b, i) = e
                            /\ Good(e, D, Taken(f, b)) /\ Less(h, f, e, b)
<1>1. /\ Sound(g, D, -1, {}) /\ Quick(g, D, {b}) /\ b # pro /\ b \in Parked(g.mem, D, i)
      /\ Held(g.mem, D) = DOMAIN f \ {b} /\ Kept(h.mem, g.mem, DOMAIN f \ {b})
  BY DEF Room
<1>2. b \in D /\ g.mem[b + 1].qk = TRUE /\ QuickIndex(g.mem[b + 1].size) = i /\ g \in Heaps
  BY <1>1, SoundFacts DEF Parked
<1>3. g.mem[b + 1].alloc = TRUE
  BY <1>1, <1>2, Marked DEF Alloc
<1>4. /\ b \in Nat /\ b \in Even /\ b \in Addr /\ b + 1 \in Addr /\ Nx(g.mem, b) \in Nat
      /\ Nx(g.mem, b) \in Addr /\ b + 4 <= Nx(g.mem, b) /\ g.mem \in [Addr -> Words]
  BY <1>1, <1>2, BlockTypes, SoundFacts
<1>5. PICK k : k = [g.mem EXCEPT ![b + 2] = Link]
  OBVIOUS
<1>6. /\ k \in [Addr -> Words] /\ \A w \in Addr : w # b + 2 => k[w] = g.mem[w]
  BY <1>4, <1>5, WordFacts
<1>7. Scribbled(g, k, b)
  <2>1. \A w \in Addr : w <= b + 1 \/ w > Nx(g.mem, b) => w # b + 2
    BY <1>4 DEF Addr
  <2>2. Nx(g.mem, b) # b + 2
    BY <1>4
  <2> QED
    BY <1>4, <1>6, <2>1, <2>2 DEF Scribbled
<1>8. PICK v \in Heaps : v = With(g, k) /\ v.mem = k /\ v.quick = g.quick
  BY <1>2, <1>6, WithFacts
<1>9. Sound(v, D, -1, {}) /\ Replaced(g, v, D, D, {b}, {b})
  BY <1>1, <1>2, <1>3, <1>7, <1>8, ScribbledSound
<1>10. v.mem[b + 1] = g.mem[b + 1]
  <2>1. b + 1 # b + 2
    BY <1>4
  <2> QED
    BY <1>4, <1>6, <1>8, <2>1
<1>11. Change(g, v, D, D, {b}, {b})
  <2>1. Change(g, v, D, D, {b}, Alloc(v.mem, {b}))
    BY <1>9, ReplacedChange
  <2>2. Alloc(v.mem, {b}) = {b}
    BY <1>3, <1>10 DEF Alloc
  <2> QED
    BY <2>1, <2>2
<1>12. PICK l : l = g.quick
  OBVIOUS
<1>13. l \in [0 .. NUM_QUICK_LISTS - 1 -> Seq(Even)]
  BY <1>2, <1>12, HeapFacts
<1>14. /\ Lists(l[i], Parked(g.mem, D, i) \ {b}) /\ Len(l[i]) \in Nat
       /\ Len(l[i]) < QUICK_LIST_MAX
  <2>1. Lists(l[i], Parked(g.mem, D, i) \ {b})
    BY <1>1, <1>12 DEF Quick
  <2> QED
    BY <1>12, <2>1, ListFacts
<1>15. PICK r : r = Cons(b, l[i])
  OBVIOUS
<1>16. Lists(r, Parked(g.mem, D, i)) /\ Len(r) <= QUICK_LIST_MAX
  <2>1. PICK S : S = Parked(g.mem, D, i) \ {b}
    OBVIOUS
  <2>2. Lists(l[i], S) /\ b \notin S
    BY <1>14, <2>1
  <2>3. Lists(r, S \cup {b}) /\ Len(r) = Len(l[i]) + 1
    BY <1>4, <1>15, <2>2, ListCons
  <2>4. S \cup {b} = Parked(g.mem, D, i)
    BY <1>1, <2>1
  <2>5. Len(l[i]) + 1 <= QUICK_LIST_MAX
    BY <1>14, SizesAssumption
  <2> QED
    BY <2>3, <2>4, <2>5
<1>17. PICK q : q = [l EXCEPT ![i] = r]
  OBVIOUS
<1>18. /\ q \in [0 .. NUM_QUICK_LISTS - 1 -> Seq(Even)] /\ q[i] = r
       /\ \A j \in 0 .. NUM_QUICK_LISTS - 1 : j # i => q[j] = l[j]
  <2>1. r \in Seq(Even)
    BY <1>16 DEF Lists
  <2> QED
    BY <1>13, <1>17, <2>1
<1>19. PICK e : e = [v EXCEPT !.quick = q]
  OBVIOUS
<1>20. e \in Heaps /\ Sound(e, D, -1, {}) /\ e.quick = q /\ e.mem = k
  <2>1. e \in Heaps /\ Sound(e, D, -1, {}) /\ e.quick = q /\ e.mem = v.mem
    BY <1>9, <1>18, <1>19, QuickSet
  <2> QED
    BY <1>8, <2>1
<1>21. OnList(g, b, i) = e
  <2>1. q = [g.quick EXCEPT ![i] = Cons(b, g.quick[i])]
    BY <1>12, <1>15, <1>17
  <2> QED
    BY <1>2, <1>5, <1>8, <1>19, <2>1, OnListIs
<1>22. Change(g, e, D, D, {b}, {b})
  BY <1>8, <1>11, <1>20 DEF Change
<1>23. Held(e.mem, D) = DOMAIN f \ {b} /\ Kept(h.mem, e.mem, DOMAIN f \ {b})
  <2>1. /\ Held(e.mem, D) = (Held(g.mem, D) \ {b}) \cup (Held(e.mem, D) \cap {b})
        /\ Kept(g.mem, e.mem, Held(g.mem, D) \ {b})
    BY <1>1, <1>20, <1>22, ChangeHeld
  <2>2. b \notin Held(e.mem, D)
    BY <1>2, <1>8, <1>10, <1>20 DEF Held
  <2>3. Held(g.mem, D) \ {b} = DOMAIN f \ {b}
    BY <1>1
  <2>4. PICK S : S = DOMAIN f \ {b}
    OBVIOUS
  <2>5. Kept(h.mem, g.mem, S) /\ Kept(g.mem, e.mem, S)
    BY <1>1, <2>1, <2>3, <2>4
  <2>6. Kept(h.mem, e.mem, S)
    BY <2>5, KeptTrans
  <2> QED
    BY <2>1, <2>2, <2>3, <2>4, <2>6
<1>24. Quick(e, D, {})
  <2> SUFFICES ASSUME NEW j \in 0 .. NUM_QUICK_LISTS - 1
               PROVE  /\ Lists(e.quick[j], Parked(e.mem, D, j) \ {})
                      /\ Len(e.quick[j]) <= QUICK_LIST_MAX
    BY DEF Quick
  <2>1. PICK A : A = {b}
    OBVIOUS
  <2>2. Change(g, e, D, D, A, A)
    BY <1>22, <2>1
  <2>3. Parked(e.mem, D, j) = (Parked(g.mem, D, j) \ A) \cup (Parked(e.mem, D, j) \cap A)
    BY <1>1, <1>20, <2>2, ChangeParked
  <2>4. b \in Parked(e.mem, D, j) <=> b \in Parked(g.mem, D, j)
    BY <1>8, <1>10, <1>20 DEF Parked
  <2>5. Parked(e.mem, D, j) \ {} = Parked(g.mem, D, j)
    BY <2>1, <2>3, <2>4
  <2>6. CASE j = i
    BY <1>16, <1>18, <1>20, <2>5, <2>6
  <2>7. CASE j # i
    <3>1. b \notin Parked(g.mem, D, j)
      BY <1>2, <2>7 DEF Parked
    <3>2. Parked(g.mem, D, j) = Parked(g.mem, D, j) \ {b}
      BY <3>1
    <3>3. e.quick[j] = g.quick[j]
      BY <1>12, <1>18, <1>20, <2>7
    <3>4. Lists(g.quick[j], Parked(g.mem, D, j) \ {b}) /\ Len(g.quick[j]) <= QUICK_LIST_MAX
      BY <1>1 DEF Quick
    <3> QED
      BY <2>5, <3>2, <3>3, <3>4
  <2> QED
    BY <2>6, <2>7
<1>25. Good(e, D, Taken(f, b)) /\ Less(h, f, e, b)
  <2>1. DOMAIN f = Held(h.mem, C)
    BY GoodFacts
  <2>2. Held(e.mem, D) = Held(h.mem, C) \ {b} /\ Kept(h.mem, e.mem, Held(h.mem, C) \ {b})
    BY <1>23, <2>1
  <2> QED
    BY <1>20, <1>24, <2>2, TakenGood
<1> QED
  BY <1>20, <1>21, <1>25

\* One more block of a full quick list is released.
LEMMA ReleaseOneMore ==
    ASSUME NEW h, NEW C, NEW t, NEW S, Flushed(h, C, t, S), NEW n \in Nat, n < Len(t),
           NEW g, Frees1(h, C, t, n, g)
    PROVE  Frees1(h, C, t, n + 1, ReleaseNext(g, t[n + 1]))
<1>1. Lists(t, S) /\ S \subseteq Alloc(h.mem, C) /\ pro \notin S /\ g \in Heaps
      /\ Freeing(h, C, UpTo(t, n), g)
  BY DEF Flushed, Frees1
<1>2. PICK b : b = t[n + 1]
  OBVIOUS
<1>3. Len(t) \in Nat /\ n + 1 \in 1 .. Len(t) /\ b \in S /\ b \in Alloc(h.mem, C) /\ b # pro
      /\ \A i, j \in 1 .. Len(t) : t[i] = t[j] => i = j
  BY <1>1, <1>2, ListFacts
<1>4. PICK A : A = UpTo(t, n)
  OBVIOUS
<1>5. b \notin A
  <2> SUFFICES ASSUME NEW j \in 1 .. n, t[j] = b
               PROVE  FALSE
    BY <1>4 DEF UpTo
  <2>1. j \in 1 .. Len(t) /\ j # n + 1
    BY <1>3
  <2> QED
    BY <1>2, <1>3, <2>1
<1>6. UpTo(t, n + 1) = A \cup {b}
  <2>1. 1 .. n + 1 = (1 .. n) \cup {n + 1}
    OBVIOUS
  <2> QED
    BY <1>2, <1>4, <2>1 DEF UpTo
<1>7. CASE g.fault # "none"
  <2>1. g.fault \in Undefined
    BY <1>1, <1>7, SoundFacts DEF Freeing
  <2>2. ReleaseNext(g, b) = g
    BY <1>7 DEF ReleaseNext
  <2> QED
    BY <1>1, <1>2, <2>1, <2>2 DEF Frees1, Freeing
<1>8. CASE g.fault = "none"
  <2>1. g.fault \notin Undefined
    BY <1>8, FaultFacts
  <2>2. PICK D : Sound(g, D, -1, {}) /\ Change(h, g, C, D, A, {}) /\ g.quick = h.quick
    BY <1>1, <1>4, <2>1 DEF Freeing
  <2>3. b \in Alloc(g.mem, D)
    BY <1>3, <1>5, <2>2 DEF Change
  <2>4. b \in D /\ g.mem[b + 1].alloc = TRUE
    BY <2>3 DEF Alloc
  <2>5. PICK f \in Heaps : ReleaseBlock(g, b) = f /\ Frees(g, b, D, f)
    BY <1>3, <2>2, <2>4, ReleaseOne
  <2>6. ReleaseNext(g, b) = f
    BY <1>8, <2>5 DEF ReleaseNext
  <2>7. Freeing(h, C, A \cup {b}, f)
    <3>1. CASE f.fault \in Undefined
      BY <3>1 DEF Freeing
    <3>2. CASE \E E : Sound(f, E, -1, {}) /\ Change(g, f, D, E, {b}, {}) /\ f.quick = g.quick
      <4>1. PICK E : Sound(f, E, -1, {}) /\ Change(g, f, D, E, {b}, {}) /\ f.quick = g.quick
        BY <3>2
      <4>2. PICK B, N : B = {b} /\ N = {}
        OBVIOUS
      <4>3. Change(h, g, C, D, A, N) /\ Change(g, f, D, E, B, N)
        BY <2>2, <4>1, <4>2
      <4>4. Change(h, f, C, E, A \cup B, (N \ B) \cup N)
        BY <4>3, ChangeTwice
      <4>5. (N \ B) \cup N = {}
        BY <4>2
      <4>6. Change(h, f, C, E, A \cup {b}, {})
        BY <4>2, <4>4, <4>5
      <4> QED
        BY <2>2, <4>1, <4>6 DEF Freeing
    <3> QED
      BY <2>5, <3>1, <3>2 DEF Frees
  <2> QED
    BY <1>2, <1>6, <2>6, <2>7 DEF Frees1
<1> QED
  BY <1>7, <1>8

\* All blocks of a full quick list are released.
LEMMA ReleaseAllFrees ==
    ASSUME NEW h, NEW C, NEW t, NEW S, Flushed(h, C, t, S)
    PROVE  \E g \in Heaps : ReleaseAll(h, t) = g /\ Freeing(h, C, S, g)
<1>1. Sound(h, C, -1, {}) /\ Lists(t, S) /\ h \in Heaps
  BY SoundFacts DEF Flushed
<1>2. Len(t) \in Nat /\ (\A i \in 1 .. Len(t) : t[i] \in S)
      /\ (\A b \in S : \E i \in 1 .. Len(t) : t[i] = b)
  BY <1>1, ListFacts
<1>3. PICK N \in Nat : N = Len(t)
  BY <1>2
<1> DEFINE Fine(i, g) == Frees1(h, C, t, i, g)
           step == [x \in (0 .. N) \X Heaps |->
                       IF ReleaseNext(x[2], t[x[1]]) \in Heaps THEN ReleaseNext(x[2], t[x[1]])
                       ELSE h]
<1>4. Fine(0, h)
  <2>1. UpTo(t, 0) = {}
    BY DEF UpTo
  <2>2. PICK E : E = {}
    OBVIOUS
  <2>3. Change(h, h, C, C, E, E)
    BY <1>1, <2>2, ChangeNone
  <2> QED
    BY <1>1, <2>1, <2>2, <2>3 DEF Frees1, Freeing
<1>5. ASSUME NEW i \in 1 .. N, NEW g, Fine(i - 1, g)
      PROVE  Fine(i, ReleaseNext(g, t[i]))
  <2>1. PICK n \in Nat : n = i - 1 /\ n < Len(t) /\ n + 1 = i
    BY <1>3
  <2>2. Frees1(h, C, t, n, g)
    BY <1>5, <2>1
  <2>3. Frees1(h, C, t, n + 1, ReleaseNext(g, t[n + 1]))
    BY <2>1, <2>2, ReleaseOneMore
  <2> QED
    BY <2>1, <2>3
<1>6. \A i, g : Fine(i, g) => g \in Heaps
  BY DEF Frees1
<1> HIDE DEF Fine
<1>7. ASSUME NEW f, f[0] = h, \A j \in 1 .. N : Fine(j - 1, f[j - 1]) => Fine(j, f[j])
      PROVE  \A i \in 0 .. N : Fine(i, f[i])
  <2> DEFINE T == {j \in Nat : j <= N => Fine(j, f[j])}
  <2>1. 0 \in T
    BY <1>4, <1>7
  <2>2. \A j \in Nat : j \in T => j + 1 \in T
    <3> SUFFICES ASSUME NEW j \in Nat, j \in T, j + 1 <= N
                 PROVE  Fine(j + 1, f[j + 1])
      OBVIOUS
    <3>1. j <= N /\ j + 1 \in 1 .. N /\ (j + 1) - 1 = j
      OBVIOUS
    <3>2. Fine(j, f[j])
      BY <3>1
    <3> QED
      BY <1>7, <3>1, <3>2
  <2>3. Nat \subseteq T
    <3> HIDE DEF T
    <3> QED
      BY <2>1, <2>2, SetInduction
  <2> QED
    BY <2>3
<1>8. PICK f \in [0 .. N -> Heaps] : f[0] = h /\ \A i \in 1 .. N : f[i] = step[<<i, f[i - 1]>>]
  <2>1. step \in [(0 .. N) \X Heaps -> Heaps]
    BY <1>1
  <2> HIDE DEF step
  <2>2. PICK V : V = Heaps
    OBVIOUS
  <2>3. PICK st \in [(0 .. N) \X V -> V] : st = step
    BY <2>1, <2>2
  <2>4. h \in V
    BY <1>1, <2>2
  <2>5. \E g \in [0 .. N -> V] : Iterates(N, h, st, g)
    BY <2>4, Iteration
  <2> QED
    BY <2>2, <2>3, <2>5 DEF Iterates
<1>9. \A i \in 1 .. N : Fine(i - 1, f[i - 1]) =>
         f[i] = ReleaseNext(f[i - 1], t[i]) /\ Fine(i, f[i])
  <2> SUFFICES ASSUME NEW i \in 1 .. N, Fine(i - 1, f[i - 1])
               PROVE  f[i] = ReleaseNext(f[i - 1], t[i]) /\ Fine(i, f[i])
    OBVIOUS
  <2>1. i - 1 \in 0 .. N /\ i \in 0 .. N
    OBVIOUS
  <2>2. Fine(i, ReleaseNext(f[i - 1], t[i]))
    BY <1>5
  <2>3. ReleaseNext(f[i - 1], t[i]) \in Heaps
    BY <1>6, <2>2
  <2>4. <<i, f[i - 1]>> \in (0 .. N) \X Heaps
    BY <1>8, <2>1
  <2>5. step[<<i, f[i - 1]>>] = ReleaseNext(f[i - 1], t[i])
    BY <2>3, <2>4
  <2> HIDE DEF step
  <2>6. f[i] = step[<<i, f[i - 1]>>]
    BY <1>8
  <2> QED
    BY <2>2, <2>5, <2>6
<1> HIDE DEF step
<1>10. \A i \in 0 .. N : Fine(i, f[i])
  BY <1>7, <1>8, <1>9
<1>11. f = [i \in 0 .. N |-> IF i = 0 THEN h
                             ELSE IF f[i - 1].fault # "none" THEN f[i - 1]
                             ELSE ReleaseBlock(f[i - 1], t[i])]
  <2>1. \A i \in 0 .. N : f[i] = IF i = 0 THEN h
                                 ELSE IF f[i - 1].fault # "none" THEN f[i - 1]
                                 ELSE ReleaseBlock(f[i - 1], t[i])
    <3> SUFFICES ASSUME NEW i \in 0 .. N, i # 0
                 PROVE  f[i] = IF f[i - 1].fault # "none" THEN f[i - 1]
                               ELSE ReleaseBlock(f[i - 1], t[i])
      BY <1>8
    <3>1. i \in 1 .. N /\ i - 1 \in 0 .. N
      OBVIOUS
    <3>2. f[i] = ReleaseNext(f[i - 1], t[i])
      BY <1>9, <1>10, <3>1
    <3> QED
      BY <3>2 DEF ReleaseNext
  <2> QED
    BY <1>8, <2>1
<1>12. PICK r : /\ r = [i \in 0 .. N |-> IF i = 0 THEN h
                                         ELSE IF r[i - 1].fault # "none" THEN r[i - 1]
                                         ELSE ReleaseBlock(r[i - 1], t[i])]
                /\ ReleaseAll(h, t) = r[N]
  BY <1>3, <1>11 DEF ReleaseAll
<1>13. Fine(N, r[N])
  <2>1. r[0] = h
    BY <1>12
  <2>2. \A i \in 1 .. N : Fine(i - 1, r[i - 1]) => Fine(i, r[i])
    <3> SUFFICES ASSUME NEW i \in 1 .. N, Fine(i - 1, r[i - 1])
                 PROVE  Fine(i, r[i])
      OBVIOUS
    <3>1. i \in 0 .. N /\ i # 0
      OBVIOUS
    <3>2. r[i] = ReleaseNext(r[i - 1], t[i])
      BY <1>12, <3>1 DEF ReleaseNext
    <3> QED
      BY <1>5, <3>2
  <2>3. \A i \in 0 .. N : Fine(i, r[i])
    BY <1>7, <2>1, <2>2
  <2> QED
    BY <2>3
<1>14. UpTo(t, N) = S
  BY <1>2, <1>3 DEF UpTo
<1> QED
  BY <1>12, <1>13, <1>14 DEF Fine, Frees1

\* The prologue is on no quick list.
LEMMA NotParked ==
    ASSUME NEW h, NEW C, NEW y, NEW X, Sound(h, C, y, X)
    PROVE  h.mem[pro + 1].qk = FALSE
<1>1. Shape(h.mem, C, h.epi, y)
  BY SoundFacts
<1> QED
  BY <1>1 DEF Shape, Prologue

\* Putting a block on a quick list changes no fault.
LEMMA OnListTypes ==
    ASSUME NEW g \in Heaps, NEW b \in Even, NEW i \in 0 .. NUM_QUICK_LISTS - 1
    PROVE  OnList(g, b, i) \in Heaps /\ OnList(g, b, i).fault = g.fault
<1>1. PICK k : k = [g.mem EXCEPT ![b + 2] = Link]
  OBVIOUS
<1>2. k \in [Addr -> Words]
  BY <1>1, HeapFacts, WordFacts
<1>3. PICK v \in Heaps : v = With(g, k) /\ v.fault = g.fault
  BY <1>2, WithFacts
<1>4. PICK q : q = [g.quick EXCEPT ![i] = Cons(b, g.quick[i])]
  OBVIOUS
<1>5. q \in [0 .. NUM_QUICK_LISTS - 1 -> Seq(Even)]
  <2>1. g.quick \in [0 .. NUM_QUICK_LISTS - 1 -> Seq(Even)]
    BY HeapFacts
  <2>2. PICK t \in Seq(Even) : t = g.quick[i]
    BY <2>1
  <2>3. <<b>> \o t \in Seq(Even)
    BY ConcatProperties
  <2> QED
    BY <1>4, <2>1, <2>2, <2>3 DEF Cons
<1>6. OnList(g, b, i) = [v EXCEPT !.quick = q]
  BY <1>1, <1>3, <1>4, OnListIs
<1> QED
  BY <1>3, <1>5, <1>6 DEF Heaps

\* A full quick list is released, and the first one emptied: that is the same
\* list, or the other's blocks are lost.
LEMMA FlushSound ==
    ASSUME NEW h, NEW C, NEW f, Good(h, C, f), NEW b \in DOMAIN f,
           NEW i \in 0 .. NUM_QUICK_LISTS - 1, NEW g, Room(h, f, b, i, g, C)
    PROVE  \E e \in Heaps : Flush(g, i) = e /\ Flushes(h, f, b, i, e)
<1>1. /\ Sound(g, C, -1, {}) /\ Quick(g, C, {b}) /\ b # pro /\ b \in Parked(g.mem, C, i)
      /\ Held(g.mem, C) = DOMAIN f \ {b} /\ Kept(h.mem, g.mem, DOMAIN f \ {b})
  BY DEF Room
<1>2. b \in C /\ g.mem[b + 1].qk = TRUE /\ QuickIndex(g.mem[b + 1].size) = i
  BY <1>1 DEF Parked
<1>3. PICK t, S : t = g.quick[i] /\ S = Parked(g.mem, C, i) \ {b}
  OBVIOUS
<1>4. Lists(t, S)
  BY <1>1, <1>3 DEF Quick
<1>5. \A c \in S : c \in C /\ g.mem[c + 1].qk = TRUE /\ QuickIndex(g.mem[c + 1].size) = i /\ c # b
  BY <1>3 DEF Parked
<1>6. S \subseteq Alloc(g.mem, C) /\ b \in Alloc(g.mem, C) /\ b \notin S
  <2>1. \A c \in S : c \in Alloc(g.mem, C)
    BY <1>1, <1>5, Marked
  <2>2. b \in Alloc(g.mem, C)
    BY <1>1, <1>2, Marked
  <2> QED
    BY <1>5, <2>1, <2>2
<1>7. pro \notin S
  BY <1>1, <1>5, NotParked
<1>8. Flushed(g, C, t, S)
  BY <1>1, <1>4, <1>6, <1>7 DEF Flushed
<1>9. PICK r \in Heaps : ReleaseAll(g, t) = r /\ Freeing(g, C, S, r)
  BY <1>8, ReleaseAllFrees
<1>10. PICK q : q = [r.quick EXCEPT ![0] = <<>>]
  OBVIOUS
<1>11. /\ q \in [0 .. NUM_QUICK_LISTS - 1 -> Seq(Even)] /\ 0 \in 0 .. NUM_QUICK_LISTS - 1
       /\ q[0] = <<>> /\ \A j \in 0 .. NUM_QUICK_LISTS - 1 : j # 0 => q[j] = r.quick[j]
  <2>1. r.quick \in [0 .. NUM_QUICK_LISTS - 1 -> Seq(Even)]
    BY HeapFacts
  <2>2. <<>> \in Seq(Even)
    BY EmptySeq
  <2>3. 0 \in 0 .. NUM_QUICK_LISTS - 1
    BY SizesAssumption
  <2> QED
    BY <1>10, <2>1, <2>2, <2>3
<1>12. PICK e \in Heaps : /\ e = [r EXCEPT !.quick = q] /\ e.fault = r.fault
                          /\ e = [r EXCEPT !.quick[0] = <<>>]
  BY <1>10, <1>11 DEF Heaps
<1>13. Flush(g, i) = IF e.fault # "none" \/ i = 0 THEN e ELSE Fails(e, "wrong list emptied")
  BY <1>3, <1>9, <1>12 DEF Flush
<1>14. CASE r.fault \in Undefined
  <2>1. e.fault \in Undefined /\ e.fault # "none"
    BY <1>12, <1>14, FaultFacts
  <2> QED
    BY <1>13, <2>1 DEF Flushes
<1>15. CASE \E D : Sound(r, D, -1, {}) /\ Change(g, r, C, D, S, {}) /\ r.quick = g.quick
  <2>1. PICK D : Sound(r, D, -1, {}) /\ Change(g, r, C, D, S, {}) /\ r.quick = g.quick
    BY <1>15
  <2>2. /\ Sound(e, D, -1, {}) /\ e.quick = q /\ e.mem = r.mem /\ e.fault = r.fault
    BY <1>11, <1>12, <2>1, QuickSet
  <2>3. e.fault = "none"
    BY <2>1, <2>2, SoundFacts
  <2>4. CASE i # 0
    <3>1. PICK why \in Faults : why = "wrong list emptied"
      BY FaultFacts
    <3>2. PICK k \in Heaps : k = Fails(e, why) /\ k.fault = why
      BY FailsFacts
    <3>3. Flush(g, i) = k
      BY <1>13, <2>3, <2>4, <3>1, <3>2
    <3> QED
      BY <3>1, <3>2, <3>3 DEF Flushes
  <2>5. CASE i = 0
    <3>1. Flush(g, i) = e
      BY <1>13, <2>5
    <3>2. PICK N : N = {}
      OBVIOUS
    <3>3. Change(g, e, C, D, S, N)
      BY <2>1, <2>2, <3>2 DEF Change
    <3>4. /\ Held(e.mem, D) = (Held(g.mem, C) \ S) \cup (Held(e.mem, D) \cap N)
          /\ Kept(g.mem, e.mem, Held(g.mem, C) \ S)
      BY <1>1, <2>2, <3>3, ChangeHeld
    <3>5. Held(g.mem, C) \ S = Held(g.mem, C)
      BY <1>5 DEF Held
    <3>6. Held(e.mem, D) = DOMAIN f \ {b}
      BY <1>1, <3>2, <3>4, <3>5
    <3>7. Kept(h.mem, e.mem, DOMAIN f \ {b})
      <4>1. PICK H : H = DOMAIN f \ {b}
        OBVIOUS
      <4>2. Kept(h.mem, g.mem, H) /\ Kept(g.mem, e.mem, H)
        BY <1>1, <3>4, <3>5, <4>1
      <4>3. Kept(h.mem, e.mem, H)
        BY <4>2, KeptTrans
      <4> QED
        BY <4>1, <4>3
    <3>8. ASSUME NEW j
          PROVE  Parked(e.mem, D, j) = Parked(g.mem, C, j) \ S
      <4>1. Parked(e.mem, D, j) = (Parked(g.mem, C, j) \ S) \cup (Parked(e.mem, D, j) \cap N)
        BY <1>1, <2>2, <3>3, ChangeParked
      <4> QED
        BY <3>2, <4>1
    <3>9. b \in Parked(e.mem, D, i)
      <4>1. Parked(e.mem, D, i) = Parked(g.mem, C, i) \ S
        BY <3>8
      <4> QED
        BY <1>1, <1>6, <4>1
    <3>10. Quick(e, D, {b})
      <4> SUFFICES ASSUME NEW j \in 0 .. NUM_QUICK_LISTS - 1
                   PROVE  /\ Lists(e.quick[j], Parked(e.mem, D, j) \ {b})
                          /\ Len(e.quick[j]) <= QUICK_LIST_MAX
        BY DEF Quick
      <4>1. Parked(e.mem, D, j) = Parked(g.mem, C, j) \ S
        BY <3>8
      <4>2. CASE j = 0
        <5>1. Parked(e.mem, D, j) \ {b} = {}
          BY <1>3, <2>5, <4>1, <4>2
        <5>2. e.quick[j] = <<>>
          BY <1>11, <2>2, <4>2
        <5>3. Len(<<>>) <= QUICK_LIST_MAX
          BY SizesAssumption
        <5> QED
          BY <5>1, <5>2, <5>3, EmptyLists
      <4>3. CASE j # 0
        <5>1. Parked(g.mem, C, j) \cap S = {}
          BY <1>5, <2>5, <4>3 DEF Parked
        <5>2. Parked(e.mem, D, j) \ {b} = Parked(g.mem, C, j) \ {b}
          BY <4>1, <5>1
        <5>3. e.quick[j] = g.quick[j]
          BY <1>11, <2>1, <2>2, <4>3
        <5> QED
          BY <1>1, <5>2, <5>3 DEF Quick
      <4> QED
        BY <4>2, <4>3
    <3>11. Room(h, f, b, i, e, D)
      BY <1>1, <2>2, <3>6, <3>7, <3>9, <3>10 DEF Room
    <3>12. Len(e.quick[i]) < QUICK_LIST_MAX
      <4>1. e.quick[i] = <<>>
        BY <1>11, <2>2, <2>5
      <4>2. Len(<<>>) < QUICK_LIST_MAX
        BY SizesAssumption
      <4> QED
        BY <4>1, <4>2
    <3> QED
      BY <2>3, <3>1, <3>11, <3>12 DEF Flushes
  <2> QED
    BY <2>4, <2>5
<1> QED
  BY <1>9, <1>14, <1>15 DEF Freeing

\* sf_free of a small block: it is marked, the list flushed if it is full, and
\* the block put on it.
LEMMA ToQuickIs ==
    ASSUME NEW h, NEW b, NEW i, NEW g, Mark(h, b, g), g.quick = h.quick, NEW room,
           room = IF Len(g.quick[i]) >= QUICK_LIST_MAX THEN Flush(g, i) ELSE g
    PROVE  ToQuickList(h, b, i) = OnList(room, b, i)
BY DEF ToQuickList, Mark, OnList

\* sf_free of a block that the user holds.
LEMMA FreeGood ==
    ASSUME NEW h, NEW C, NEW f, Good(h, C, f), NEW b \in DOMAIN f
    PROVE  \E e \in Heaps : FreeFrom(h, b) = e /\ FreesOne(h, f, b, e)
<1>1. /\ Sound(h, C, -1, {}) /\ b \in C /\ b # pro /\ b \in Even /\ h.mem[b + 1] \in Tags
      /\ h.mem[b + 1].alloc = TRUE
  <2>1. Sound(h, C, -1, {})
    BY DEF Good
  <2>2. b \in C /\ b # pro /\ b \in Even /\ h.mem[b + 1] \in Tags
        /\ Is(h.mem[b + 1], f[b], SizeOf(h, b))
    BY GoodFacts
  <2> QED
    BY <2>1, <2>2 DEF Is
<1>2. PICK i : i = QuickIndex(SizeOf(h, b))
  OBVIOUS
<1>3. i \in Nat
  <2>1. SizeOf(h, b) \in Even /\ SizeOf(h, b) >= min
    BY <1>1, BlockTypes DEF SizeOf, Header, min
  <2> QED
    BY <1>2, <2>1, QuickIndexFacts
<1>4. FreeFrom(h, b) = IF i < NUM_QUICK_LISTS THEN ToQuickList(h, b, i) ELSE ReleaseBlock(h, b)
  <2>1. ValidPointer(h, b)
    BY Accepted
  <2> QED
    BY <1>2, <2>1 DEF FreeFrom
<1>5. CASE ~(i < NUM_QUICK_LISTS)
  <2>1. PICK e \in Heaps : ReleaseBlock(h, b) = e /\ Frees(h, b, C, e)
    BY <1>1, ReleaseOne
  <2>2. CASE e.fault \in Undefined
    BY <1>4, <1>5, <2>1, <2>2 DEF FreesOne
  <2>3. CASE \E D : Sound(e, D, -1, {}) /\ Change(h, e, C, D, {b}, {}) /\ e.quick = h.quick
    <3>1. PICK D : Sound(e, D, -1, {}) /\ Change(h, e, C, D, {b}, {}) /\ e.quick = h.quick
      BY <2>3
    <3>2. Good(e, D, Taken(f, b)) /\ Less(h, f, e, b)
      BY <3>1, ReleaseGood
    <3> QED
      BY <1>4, <1>5, <2>1, <3>2 DEF FreesOne
  <2> QED
    BY <2>1, <2>2, <2>3 DEF Frees
<1>6. CASE i < NUM_QUICK_LISTS
  <2>1. i \in 0 .. NUM_QUICK_LISTS - 1
    BY <1>3, <1>6, SizesAssumption
  <2>2. PICK g \in Heaps : Mark(h, b, g) /\ Room(h, f, b, i, g, C) /\ g.quick = h.quick
    BY <1>2, MarkSound
  <2>3. PICK room : room = IF Len(g.quick[i]) >= QUICK_LIST_MAX THEN Flush(g, i) ELSE g
    OBVIOUS
  <2>4. ToQuickList(h, b, i) = OnList(room, b, i)
    BY <2>2, <2>3, ToQuickIs
  <2>5. Len(g.quick[i]) \in Nat
    <3>1. g.quick \in [0 .. NUM_QUICK_LISTS - 1 -> Seq(Even)]
      BY HeapFacts
    <3>2. PICK q \in Seq(Even) : q = g.quick[i]
      BY <2>1, <3>1
    <3> QED
      BY <3>2, LenProperties
  <2>6. CASE Len(g.quick[i]) < QUICK_LIST_MAX
    <3>1. room = g
      BY <2>3, <2>5, <2>6, SizesAssumption
    <3>2. PICK e \in Heaps : /\ OnList(g, b, i) = e
                             /\ Good(e, C, Taken(f, b)) /\ Less(h, f, e, b)
      BY <2>1, <2>2, <2>6, ParkSound
    <3> QED
      BY <1>4, <1>6, <2>4, <3>1, <3>2 DEF FreesOne
  <2>7. CASE Len(g.quick[i]) >= QUICK_LIST_MAX
    <3>1. PICK r \in Heaps : Flush(g, i) = r /\ Flushes(h, f, b, i, r)
      BY <2>1, <2>2, FlushSound
    <3>2. ToQuickList(h, b, i) = OnList(r, b, i)
      BY <2>3, <2>4, <2>7, <3>1
    <3>3. PICK e \in Heaps : e = OnList(r, b, i) /\ e.fault = r.fault
      BY <1>1, <2>1, OnListTypes
    <3>4. FreeFrom(h, b) = e
      BY <1>4, <1>6, <3>2, <3>3
    <3>5. CASE r.fault \in Undefined \/ r.fault = "wrong list emptied"
      BY <3>3, <3>4, <3>5 DEF FreesOne
    <3>6. CASE \E D : Room(h, f, b, i, r, D) /\ Len(r.quick[i]) < QUICK_LIST_MAX
      <4>1. PICK D : Room(h, f, b, i, r, D) /\ Len(r.quick[i]) < QUICK_LIST_MAX
        BY <3>6
      <4>2. Good(e, D, Taken(f, b)) /\ Less(h, f, e, b)
        BY <2>1, <3>3, <4>1, ParkSound
      <4> QED
        BY <3>4, <4>2 DEF FreesOne
    <3> QED
      BY <3>1, <3>5, <3>6 DEF Flushes
  <2> QED
    BY <2>5, <2>6, <2>7, SizesAssumption
<1> QED
  BY <1>5, <1>6

\* The user gives the block b back, and what was in it is where it is said to be.
LEMMA GoneData ==
    ASSUME NEW C, Good(heap, C, live), NEW b \in DOMAIN live,
           Kept(heap.mem, heap'.mem, DOMAIN live \ {b}), live' \in [DOMAIN live' -> Nat],
           b \notin DOMAIN live', DOMAIN live \ {b} \subseteq DOMAIN live',
           \A c \in DOMAIN live' \ DOMAIN live : Arrives(heap, b, heap', c, live[b])
    PROVE  KeepsData
<1>1. DOMAIN live \ DOMAIN live' = {b}
  OBVIOUS
<1>2. ASSUME NEW c \in DOMAIN live \cap DOMAIN live'
      PROVE  Arrives(heap, c, heap', c, Min({live[c], live'[c]}))
  <2>1. live[c] \in Nat /\ live'[c] \in Nat
    BY GoodFacts
  <2>2. PICK n \in Nat : n = Min({live[c], live'[c]}) /\ n <= live[c]
    BY <2>1, MinOfTwo
  <2>3. c \in DOMAIN live
    OBVIOUS
  <2>4. PICK S : S = DOMAIN live \ {b} /\ c \in S
    OBVIOUS
  <2>5. Kept(heap.mem, heap'.mem, S)
    BY <2>4
  <2>6. Arrives(heap, c, heap', c, n)
    BY <2>2, <2>3, <2>4, <2>5, KeptArrives
  <2> QED
    BY <2>2, <2>6
<1>3. \A a \in DOMAIN live \ DOMAIN live', c \in DOMAIN live' \ DOMAIN live :
         Arrives(heap, a, heap', c, live[a])
  BY <1>1
<1> QED
  BY <1>2, <1>3 DEF KeepsData

\* Emptying the wrong list is a fault that is followed no further.
LEMMA WrongList ==
    ASSUME NEW h, h.fault = "wrong list emptied"
    PROVE  h.fault \notin Undefined /\ h.fault # "none" /\ h.fault # "abort"
BY DEF Undefined

\* sf_free keeps the invariant and what the user has in the other blocks.
LEMMA FreeStep ==
    ASSUME IInv, NEW b \in DOMAIN live, sf_free(b)
    PROVE  IInv' /\ KeepsData
<1>1. /\ Works /\ Ready(heap, live) /\ Totals(heap, live, totalPayload, totalBlocks)
      /\ Ends(FreeFrom(heap, b), Taken(live, b),
              totalPayload - Header(heap, b).payload, totalBlocks - SizeOf(heap, b))
      /\ totalPayload \in Int
  BY DEF sf_free, IInv, TypeOK
<1>2. PICK C : Good(heap, C, live)
  BY <1>1, Started0
<1>3. /\ live \in [DOMAIN live -> Nat] /\ DOMAIN live \in SUBSET Addr
      /\ DOMAIN live \in SUBSET Even /\ Sizes(heap, live) \in [DOMAIN live -> Nat]
  BY <1>1, ReadyTypes
<1>4. Is(heap.mem[b + 1], live[b], SizeOf(heap, b)) /\ SizeOf(heap, b) \in Nat /\ live[b] \in Nat
  BY <1>2, GoodFacts
<1>5. PICK q : q = Taken(live, b)
  OBVIOUS
<1>6. q \in [DOMAIN q -> Nat] /\ DOMAIN q = DOMAIN live \ {b} /\ DOMAIN q \in SUBSET Even
  BY <1>3, <1>5 DEF Taken
<1>7. SumOf(q) = SumOf(live) - live[b]
  BY <1>3, <1>5, SumTaken
<1>8. PICK s \in [DOMAIN live -> Nat] : s = Sizes(heap, live)
  BY <1>3
<1>9. s[b] = SizeOf(heap, b)
  BY <1>8 DEF Sizes
<1>10. SumOf(Taken(s, b)) = SumOf(s) - s[b] /\ SumOf(Taken(s, b)) \in Nat
  BY <1>3, SumTaken
<1>11. PICK p \in Int, t \in Nat : /\ p = totalPayload - Header(heap, b).payload
                                   /\ t = totalBlocks - SizeOf(heap, b)
                                   /\ p = SumOf(q) /\ t = SumOf(Taken(s, b))
  <2>1. Header(heap, b).payload = live[b]
    BY <1>4 DEF Is, Header
  <2>2. totalPayload = SumOf(live) /\ totalBlocks = SumOf(s)
    BY <1>1, <1>8 DEF Totals
  <2>3. totalPayload - Header(heap, b).payload = SumOf(q)
    BY <1>7, <2>1, <2>2
  <2>4. totalBlocks - SizeOf(heap, b) = SumOf(Taken(s, b))
    BY <1>9, <1>10, <2>2
  <2>5. totalPayload - Header(heap, b).payload \in Int
    BY <1>1, <1>4, <2>1
  <2> QED
    BY <1>10, <2>3, <2>4, <2>5
<1>12. PICK e \in Heaps : FreeFrom(heap, b) = e /\ FreesOne(heap, live, b, e)
  BY <1>2, FreeGood
<1>13. Ends(e, q, p, t)
  BY <1>1, <1>5, <1>11, <1>12
<1>14. CASE e.fault \in Undefined
  BY <1>13, <1>14, UndefinedStep
<1>15. CASE e.fault = "wrong list emptied"
  <2>1. e.fault \notin Undefined /\ e.fault # "none" /\ e.fault # "abort"
    BY <1>15, WrongList
  <2> QED
    BY <1>6, <1>13, <2>1, FaultyStep
<1>16. CASE \E D : Good(e, D, Taken(live, b)) /\ Less(heap, live, e, b)
  <2>1. PICK D : Good(e, D, q) /\ Less(heap, live, e, b)
    BY <1>5, <1>16
  <2>2. e.fault = "none" /\ e.end # 0
    BY <2>1, GoodFacts
  <2>3. heap' = e /\ live' = q /\ totalPayload' = p /\ totalBlocks' = t
    BY <1>13, <2>2, FaultFacts DEF Ends
  <2>4. Sizes(e, q) = Taken(s, b) /\ Kept(heap.mem, e.mem, DOMAIN live \ {b})
    BY <1>5, <1>8, <2>1 DEF Less
  <2>5. Well(e, q, p, t)
    BY <1>11, <2>1, <2>2, <2>4 DEF Well, Totals, Ready
  <2>6. IInv'
    BY <2>3, <2>5, WellStep
  <2>7. Kept(heap.mem, heap'.mem, DOMAIN live \ {b})
    BY <2>3, <2>4
  <2>8. live' \in [DOMAIN live' -> Nat] /\ DOMAIN live' = DOMAIN live \ {b}
    BY <1>6, <2>3
  <2>9. \A c \in DOMAIN live' \ DOMAIN live : Arrives(heap, b, heap', c, live[b])
    BY <2>8
  <2>10. b \notin DOMAIN live' /\ DOMAIN live \ {b} \subseteq DOMAIN live'
    BY <2>8
  <2> QED
    BY <1>2, <2>6, <2>7, <2>8, <2>9, <2>10, GoneData
<1> QED
  BY <1>12, <1>14, <1>15, <1>16 DEF FreesOne

-----------------------------------------------------------------------------
\* sf_realloc to a larger size.

\* memcpy to a larger block of the user.
LEMMA CopiedGood ==
    ASSUME NEW g, NEW D, NEW q, NEW b, NEW c, CanCopy(g, D, q, b, c),
           NEW n, n = SizeOf(g, b)
    PROVE  \E e \in Heaps : Copied(g, b, c, n) = e /\ Copies(g, D, q, b, c, e)
<1>1. /\ Good(g, D, q) /\ b \in DOMAIN q /\ c \in DOMAIN q /\ b # c /\ g \in Heaps
      /\ n + 2 <= SizeOf(g, c)
  BY GoodFacts DEF CanCopy
<1>2. /\ b \in D /\ c \in D /\ b \in Nat /\ c \in Nat /\ c # pro /\ n \in Nat
      /\ SizeOf(g, c) \in Nat /\ q[c] \in Nat /\ q[c] + 1 <= SizeOf(g, c)
      /\ Is(g.mem[c + 1], q[c], SizeOf(g, c))
  BY <1>1, GoodFacts
<1>3. Sound(g, D, -1, {})
  BY <1>1 DEF Good
<1>4. /\ Nx(g.mem, b) = b + n /\ Nx(g.mem, c) = c + SizeOf(g, c)
  BY DEF Nx, SizeOf, Header
<1>5. /\ b + n + 1 \in Addr /\ c + SizeOf(g, c) \in Addr /\ c + 1 \in Addr
      /\ g.mem \in [Addr -> Words]
  <2>1. Nx(g.mem, b) + 1 \in Addr /\ Nx(g.mem, c) \in Addr /\ c + 1 \in Addr
    BY <1>2, <1>3, BlockTypes
  <2> QED
    BY <1>1, <1>4, <2>1, HeapFacts
<1>6. PICK k : k = [w \in Addr |-> IF w \in Payload(c, n) THEN g.mem[w - c + b] ELSE g.mem[w]]
  OBVIOUS
<1>7. \A w \in Payload(c, n) : /\ w \in Nat /\ c + 1 < w /\ w < c + SizeOf(g, c)
                               /\ w \in Addr /\ w - c + b \in Addr
  <2> SUFFICES ASSUME NEW w \in Payload(c, n)
               PROVE  /\ w \in Nat /\ c + 1 < w /\ w < c + SizeOf(g, c)
                      /\ w \in Addr /\ w - c + b \in Addr
    OBVIOUS
  <2>1. w \in Int /\ c + 2 <= w /\ w <= c + 1 + n
    BY <1>2 DEF Payload
  <2>2. w \in Nat /\ c + 1 < w /\ w < c + SizeOf(g, c)
    BY <1>1, <1>2, <2>1
  <2>3. w \in Addr
    BY <1>2, <1>5, <2>2, Bounds DEF Addr
  <2>4. w - c + b \in Nat /\ w - c + b <= b + n + 1
    BY <1>2, <2>1
  <2>5. w - c + b \in Addr
    BY <1>2, <1>5, <2>4, Bounds DEF Addr
  <2> QED
    BY <2>2, <2>3, <2>5
<1>8. k \in [Addr -> Words]
  BY <1>5, <1>6, <1>7
<1>9. PICK e \in Heaps : /\ e = With(g, k) /\ e.mem = k
  BY <1>1, <1>8, WithFacts
<1>10. Copied(g, b, c, n) = e
  <2>1. Copied(g, b, c, n) = [g EXCEPT !.mem = [w \in DOMAIN g.mem |->
                                 IF w \in Payload(c, n) THEN g.mem[w - c + b] ELSE g.mem[w]]]
    BY <1>1 DEF Copied, Heaps
  <2>2. DOMAIN g.mem = Addr
    BY <1>5
  <2> QED
    BY <1>6, <1>9, <2>1, <2>2 DEF With
<1>11. Scribbled(g, k, c)
  <2>1. \A w \in Addr : w <= c + 1 \/ w > Nx(g.mem, c) => w \notin Payload(c, n)
    <3> SUFFICES ASSUME NEW w \in Payload(c, n)
                 PROVE  ~(w <= c + 1) /\ ~(w > Nx(g.mem, c))
      OBVIOUS
    <3>1. w \in Nat /\ c + 1 < w /\ w < Nx(g.mem, c) /\ Nx(g.mem, c) \in Nat
      BY <1>2, <1>4, <1>7
    <3> QED
      BY <1>2, <3>1
  <2>2. \A w \in Addr : w <= c + 1 \/ w > Nx(g.mem, c) => k[w] = g.mem[w]
    BY <1>6, <2>1
  <2>3. Nx(g.mem, c) \notin Payload(c, n)
    BY <1>2, <1>4, <1>7
  <2>4. k[Nx(g.mem, c)] = g.mem[Nx(g.mem, c)]
    BY <1>4, <1>5, <1>6, <2>3
  <2> QED
    BY <1>8, <2>2, <2>4 DEF Scribbled
<1>12. Sound(e, D, -1, {}) /\ Replaced(g, e, D, D, {c}, {c})
  <2>1. g.mem[c + 1].alloc = TRUE
    BY <1>2 DEF Is
  <2> QED
    BY <1>2, <1>3, <1>9, <1>11, <2>1, ScribbledSound
<1>13. e.mem[c + 1] = g.mem[c + 1]
  <2>1. c + 1 <= c + 1
    BY <1>2
  <2> QED
    BY <1>5, <1>9, <1>11, <2>1 DEF Scribbled
<1>14. PICK x : x = q[c]
  OBVIOUS
<1>15. Touched(g, D, c, x, e)
  <2>1. SizeOf(g, c) = g.mem[c + 1].size
    BY DEF SizeOf, Header
  <2> QED
    BY <1>2, <1>12, <1>13, <1>14, <2>1 DEF Touched
<1>16. q = [q EXCEPT ![c] = x]
  <2>1. q \in [DOMAIN q -> Nat]
    BY <1>1, GoodFacts
  <2> QED
    BY <1>14, <2>1
<1>17. Good(e, D, q) /\ Kept(g.mem, e.mem, DOMAIN q \ {c}) /\ Sizes(e, q) = Sizes(g, q)
  <2>1. PICK r : r = [q EXCEPT ![c] = x] /\ r = q
    BY <1>16
  <2>2. Good(g, D, q) /\ c \in DOMAIN q
    BY <1>1
  <2>3. Good(e, D, r) /\ Kept(g.mem, e.mem, DOMAIN q \ {c}) /\ Sizes(e, r) = Sizes(g, q)
    BY <1>15, <2>1, <2>2, TouchedGood
  <2> QED
    BY <2>1, <2>3
<1>18. ASSUME NEW w \in Payload(b, n)
       PROVE  e.mem[w - b + c] = g.mem[w]
  <2>1. w \in Int /\ b + 2 <= w /\ w <= b + 1 + n
    BY <1>2 DEF Payload
  <2>2. PICK v : v = w - b + c
    OBVIOUS
  <2>3. v \in Int /\ c + 2 <= v /\ v <= c + 1 + n /\ v - c + b = w
    BY <1>2, <2>1, <2>2
  <2>4. v \in Payload(c, n)
    BY <1>2, <2>3 DEF Payload
  <2>5. k[v] = g.mem[v - c + b]
    BY <1>6, <1>7, <2>4
  <2> QED
    BY <1>9, <2>2, <2>3, <2>5
<1> QED
  BY <1>10, <1>17, <1>18 DEF Copies

\* sf_realloc to a larger block: what was found is given, what was held is
\* copied to it and then freed.
LEMMA MoveGood ==
    ASSUME NEW h, NEW C, NEW f, NEW b, NEW size, NEW g, NEW D, NEW c,
           CanMove(h, C, f, b, size, g, D, c)
    PROVE  \E e \in Heaps : /\ FreeFrom(Copied(g, b, c, SizeOf(h, b)), b) = e
                            /\ Moves(h, f, b, size, g, c, e)
<1>1. PICK q : q = Given(f, c, size)
  OBVIOUS
<1>2. /\ Good(h, C, f) /\ b \in DOMAIN f /\ Good(g, D, q) /\ More(h, f, g, c, size)
      /\ SizeOf(h, b) + 2 <= SizeOf(g, c)
  BY <1>1 DEF CanMove
<1>3. /\ c \notin DOMAIN f /\ DOMAIN q = DOMAIN f \cup {c} /\ Kept(h.mem, g.mem, DOMAIN f)
      /\ Sizes(g, q) = Given(Sizes(h, f), c, SizeOf(g, c))
  BY <1>1, <1>2 DEF More
<1>4. b # c /\ b \in DOMAIN q /\ c \in DOMAIN q
  BY <1>2, <1>3
<1>5. PICK n : n = SizeOf(h, b)
  OBVIOUS
<1>6. n = SizeOf(g, b)
  BY <1>2, <1>3, <1>5 DEF Kept, Same, SizeOf, Header
<1>7. CanCopy(g, D, q, b, c)
  BY <1>2, <1>4, <1>5, <1>6 DEF CanCopy
<1>8. PICK e0 \in Heaps : Copied(g, b, c, n) = e0 /\ Copies(g, D, q, b, c, e0)
  BY <1>6, <1>7, CopiedGood
<1>9. /\ Good(e0, D, q) /\ Kept(g.mem, e0.mem, DOMAIN q \ {c}) /\ Sizes(e0, q) = Sizes(g, q)
      /\ \A w \in Payload(b, n) : e0.mem[w - b + c] = g.mem[w]
  BY <1>6, <1>8 DEF Copies
<1>10. PICK e \in Heaps : FreeFrom(e0, b) = e /\ FreesOne(e0, q, b, e)
  BY <1>4, <1>9, FreeGood
<1>11. FreeFrom(Copied(g, b, c, SizeOf(h, b)), b) = e
  BY <1>5, <1>8, <1>10
<1>12. CASE e.fault \in Undefined \/ e.fault = "wrong list emptied"
  BY <1>11, <1>12 DEF Moves
<1>13. CASE \E E : Good(e, E, Taken(q, b)) /\ Less(e0, q, e, b)
  <2>1. PICK E : Good(e, E, Taken(q, b)) /\ Less(e0, q, e, b)
    BY <1>13
  <2>2. Kept(e0.mem, e.mem, DOMAIN q \ {b}) /\ Sizes(e, Taken(q, b)) = Taken(Sizes(e0, q), b)
    BY <2>1 DEF Less
  <2>3. Sizes(e, Taken(q, b)) = Taken(Given(Sizes(h, f), c, SizeOf(g, c)), b)
    BY <1>3, <1>9, <2>2
  <2>4. PICK S : S = DOMAIN f \ {b}
    OBVIOUS
  <2>5. Kept(h.mem, e.mem, S)
    <3>1. Kept(h.mem, g.mem, S)
      BY <1>3, <2>4, KeptPart
    <3>2. S \subseteq DOMAIN q \ {c} /\ S \subseteq DOMAIN q \ {b}
      BY <1>3, <2>4
    <3>3. Kept(g.mem, e0.mem, S)
      BY <1>9, <3>2, KeptPart
    <3>4. Kept(e0.mem, e.mem, S)
      BY <2>2, <3>2, KeptPart
    <3>5. Kept(h.mem, e0.mem, S)
      BY <3>1, <3>3, KeptTrans
    <3> QED
      BY <3>4, <3>5, KeptTrans
  <2>6. Arrives(h, b, e, c, f[b])
    <3>1. /\ f[b] \in Nat /\ n \in Nat /\ f[b] + 1 <= n /\ b \in Nat
      BY <1>2, <1>5, GoodFacts
    <3>2. PICK m \in Nat : m = f[b] /\ m <= f[b]
      BY <3>1
    <3>3. /\ c \in Nat /\ c \in D
      BY <1>2, <1>4, GoodFacts
    <3>4. Sound(e0, D, -1, {})
      BY <1>9 DEF Good
    <3>5. Nx(e0.mem, c) \in Addr /\ Nx(e0.mem, c) \in Nat
      BY <3>3, <3>4, BlockTypes
    <3>6. Nx(e0.mem, c) = c + SizeOf(g, c) /\ SizeOf(g, c) \in Nat
      <4>1. Sizes(e0, q)[c] = Sizes(g, q)[c]
        BY <1>9
      <4>2. SizeOf(e0, c) = SizeOf(g, c)
        BY <1>4, <4>1 DEF Sizes
      <4>3. SizeOf(g, c) \in Nat
        BY <1>2, <1>4, GoodFacts
      <4> QED
        BY <4>2, <4>3 DEF Nx, SizeOf, Header
    <3> SUFFICES ASSUME NEW w \in Payload(b, m)
                 PROVE  /\ w <= NextBlock(h, b)
                        /\ h.mem[w] = Data => e.mem[w - b + c] = Data
      BY <3>2 DEF Arrives
    <3>7. /\ w \in Addr /\ w \in Nat /\ b + 1 < w /\ w <= Nx(h.mem, b) /\ w <= NextBlock(h, b)
      BY <1>2, <3>2, PayloadFacts
    <3>8. w \in Int /\ b + 2 <= w /\ w <= b + 1 + m
      BY <3>1 DEF Payload
    <3>9. w \in Payload(b, n)
      BY <3>1, <3>2, <3>8 DEF Payload
    <3>10. e0.mem[w - b + c] = g.mem[w]
      BY <1>9, <3>9
    <3>11. g.mem[w] = h.mem[w]
      BY <1>2, <1>3, <3>7 DEF Kept
    <3>12. PICK v : v = w - b + c
      OBVIOUS
    <3>13. v \in Int /\ c + 1 < v /\ v <= Nx(e0.mem, c)
      BY <1>2, <1>5, <3>1, <3>2, <3>3, <3>6, <3>8, <3>12
    <3>14. v \in Addr
      BY <3>3, <3>5, <3>13, Bounds DEF Addr
    <3>15. e.mem[v] = e0.mem[v]
      <4>1. c \in DOMAIN q \ {b}
        BY <1>4
      <4> QED
        BY <2>2, <3>13, <3>14, <4>1 DEF Kept
    <3> QED
      BY <3>7, <3>10, <3>11, <3>12, <3>15
  <2>7. Arrived(h, f, b, size, g, c, Taken(q, b), e)
    BY <2>1, <2>3, <2>4, <2>5, <2>6 DEF Arrived
  <2> QED
    BY <1>1, <1>11, <2>7 DEF Moves
<1> QED
  BY <1>10, <1>12, <1>13 DEF FreesOne

\* One block given and another taken, in either order.
LEMMA GivenTaken ==
    ASSUME NEW f, NEW b, NEW c, NEW size, b # c
    PROVE  Taken(Given(f, c, size), b) = Given(Taken(f, b), c, size)
BY DEF Taken, Given

\* The statistics after a move.
LEMMA MovedTotals ==
    ASSUME NEW X \in SUBSET Addr, NEW f \in [X -> Nat], NEW b \in X, NEW c \in Addr, c \notin X,
           NEW n \in Nat
    PROVE  /\ SumOf(Taken(Given(f, c, n), b)) = SumOf(f) + n - f[b]
           /\ SumOf(Taken(Given(f, c, n), b)) \in Nat
<1>1. PICK g : g = Given(f, c, n)
  OBVIOUS
<1>2. PICK Y \in SUBSET Addr : Y = X \cup {c}
  OBVIOUS
<1>3. g \in [Y -> Nat] /\ b \in Y /\ g[b] = f[b]
  BY <1>1, <1>2 DEF Given
<1>4. SumOf(f) \in Nat /\ SumOf(g) = SumOf(f) + n
  BY <1>1, SumGiven
<1>5. SumOf(Taken(g, b)) \in Nat /\ SumOf(Taken(g, b)) = SumOf(g) - g[b]
  BY <1>3, SumTaken
<1> QED
  BY <1>1, <1>3, <1>4, <1>5

\* A larger block has room for all that is copied.
LEMMA RoomToCopy ==
    ASSUME NEW n \in Even, NEW need \in Even, NEW s \in Nat, n < need, need <= s
    PROVE  n + 2 <= s
BY DEF Even

\* A payload taken from the total but not given back is a fault.
LEMMA ForgottenFacts ==
    ASSUME NEW h, h.fault = "payload forgotten"
    PROVE  h.fault \notin Undefined /\ h.fault # "none" /\ h.fault # "abort"
BY DEF Undefined

\* sf_realloc to a larger size keeps the invariant, and what the user had
\* arrives in the new block.
LEMMA MoveStep ==
    ASSUME IInv, NEW b \in DOMAIN live, NEW size \in Request \cup {0}, ReallocMove(b, size)
    PROVE  IInv' /\ KeepsData
<1>1. PICK got : got = Malloc(heap, size)
  OBVIOUS
<1>2. PICK n, pay : n = SizeOf(heap, b) /\ pay = Header(heap, b).payload
  OBVIOUS
<1>3. /\ Works /\ Ready(heap, live) /\ Totals(heap, live, totalPayload, totalBlocks)
      /\ GetMinSize(size) > n /\ totalPayload \in Int /\ totalBlocks \in Nat
      /\ IF got.block = pro
         THEN Ends(IF got.heap.fault = "none" THEN Fails(got.heap, "payload forgotten")
                   ELSE got.heap,
                   live, totalPayload - pay, totalBlocks)
         ELSE Ends(IF got.heap.fault = "none" THEN FreeFrom(Copied(got.heap, b, got.block, n), b)
                   ELSE got.heap,
                   Given(Taken(live, b), got.block, size),
                   totalPayload + size - pay,
                   totalBlocks + SizeOf(got.heap, got.block) - n)
  BY <1>1, <1>2 DEF ReallocMove, IInv, TypeOK
<1>4. PICK C0 : Good(heap, C0, live)
  BY <1>3, Started0
<1>5. /\ live \in [DOMAIN live -> Nat] /\ DOMAIN live \in SUBSET Addr
      /\ DOMAIN live \in SUBSET Even /\ Sizes(heap, live) \in [DOMAIN live -> Nat]
  BY <1>3, ReadyTypes
<1>6. /\ Is(heap.mem[b + 1], live[b], n) /\ n \in Nat /\ live[b] \in Nat /\ heap.end # 0
      /\ heap.mem[b + 1] \in Tags /\ heap.fault = "none" /\ heap \in Heaps
  BY <1>2, <1>4, GoodFacts
<1>7. pay = live[b] /\ n \in Even
  BY <1>2, <1>6, TagFacts DEF Is, Header, SizeOf
<1>8. PICK h0 \in Heaps : /\ heap.end # 0 => h0 = heap
                          /\ \E C : Good(h0, C, live) /\ Finds(h0, C, size, got)
                          /\ GetMinSize(size) # 0 \/ got.heap.fault \in Undefined
  BY <1>1, <1>3, MallocFinds
<1>9. PICK C : Good(heap, C, live) /\ Finds(heap, C, size, got)
  BY <1>6, <1>8
<1>18. totalPayload \in Int /\ totalBlocks \in Nat /\ GetMinSize(size) > n
  BY <1>3
<1>10. /\ GetMinSize(size) # 0 /\ GetMinSize(size) \in Even /\ size \in Nat
  <2>1. GetMinSize(size) = 0 \/ GetMinSize(size) \in Even
    BY MinSizeFacts
  <2>2. size \in Nat
    BY SizesAssumption
  <2>3. 0 \in Even
    BY EvenFacts
  <2>4. GetMinSize(size) # 0
    BY <1>6, <1>18
  <2> QED
    BY <2>1, <2>2, <2>4
<1>19. pay \in Int /\ totalPayload - pay \in Int /\ totalPayload + size - pay \in Int
  <2>1. pay \in Int
    BY <1>6, <1>7
  <2> QED
    BY <1>10, <1>18, <2>1
<1>11. PICK s \in [DOMAIN live -> Nat] : s = Sizes(heap, live) /\ s[b] = n
  BY <1>2, <1>5 DEF Sizes
<1>12. totalPayload = SumOf(live) /\ totalBlocks = SumOf(s)
  BY <1>3, <1>11 DEF Totals
<1>13. totalBlocks - n \in Nat
  <2>1. SumOf(Taken(s, b)) \in Nat /\ SumOf(Taken(s, b)) = SumOf(s) - s[b]
    BY <1>5, SumTaken
  <2> QED
    BY <1>11, <1>12, <2>1
<1>14. CASE got.heap.fault \in Undefined
  <2>1. got.heap.fault # "none"
    BY <1>14, FaultFacts
  <2>2. CASE got.block = pro
    <3>1. Ends(got.heap, live, totalPayload - pay, totalBlocks)
      BY <1>3, <2>1, <2>2
    <3> QED
      BY <1>14, <3>1, UndefinedStep
  <2>3. CASE got.block # pro
    <3>1. PICK q, p, t : Ends(got.heap, q, p, t)
      BY <1>3, <2>1, <2>3
    <3> QED
      BY <1>14, <3>1, UndefinedStep
  <2> QED
    BY <2>2, <2>3
<1>15. CASE got = Got(heap, pro)
  <2>1. got.heap = heap /\ got.block = pro
    BY <1>15 DEF Got
  <2>2. PICK why \in Faults : why = "payload forgotten"
    BY FaultFacts
  <2>3. PICK g \in Heaps : g = Fails(heap, why) /\ g.fault = why
    BY <1>6, FailsFacts
  <2>4. PICK p \in Int : p = totalPayload - pay
    BY <1>19
  <2>5. Ends(g, live, p, totalBlocks)
    BY <1>3, <1>6, <2>1, <2>2, <2>3, <2>4
  <2>6. g.fault \notin Undefined /\ g.fault # "none" /\ g.fault # "abort"
    BY <2>2, <2>3, ForgottenFacts
  <2> QED
    BY <1>3, <1>5, <2>5, <2>6, FaultyStep
<1>16. CASE got.heap.fault \notin Undefined /\ \E g \in Heaps, c \in Even :
          got = Got(g, c) /\ \E D : Gives(heap, C, size, g, D, c)
  <2>1. PICK g \in Heaps, c \in Even :
          got = Got(g, c) /\ \E D : Gives(heap, C, size, g, D, c)
    BY <1>16
  <2>2. PICK D : Gives(heap, C, size, g, D, c)
    BY <2>1
  <2>3. got.heap = g /\ got.block = c
    BY <2>1 DEF Got
  <2>4. Good(g, D, Given(live, c, size)) /\ More(heap, live, g, c, size)
    BY <1>9, <1>10, <2>2, GivesGood
  <2>5. c \notin DOMAIN live /\ c \in Addr /\ c # pro /\ SizeOf(g, c) \in Nat
    BY <2>4 DEF More
  <2>6. GetMinSize(size) <= SizeOf(g, c)
    <3>1. g.mem[c + 1].size >= GetMinSize(size)
      BY <2>2 DEF Gives
    <3>2. SizeOf(g, c) = g.mem[c + 1].size
      BY DEF SizeOf, Header
    <3> QED
      BY <1>10, <2>5, <3>1, <3>2 DEF Even
  <2>7. n + 2 <= SizeOf(g, c)
    <3>1. n < GetMinSize(size)
      BY <1>3, <1>6, <1>10 DEF Even
    <3> QED
      BY <1>7, <1>10, <2>5, <2>6, <3>1, RoomToCopy
  <2>8. CanMove(heap, C, live, b, size, g, D, c)
    BY <1>2, <1>9, <2>4, <2>7 DEF CanMove
  <2>9. PICK e \in Heaps : /\ FreeFrom(Copied(g, b, c, SizeOf(heap, b)), b) = e
                           /\ Moves(heap, live, b, size, g, c, e)
    BY <2>8, MoveGood
  <2>10. PICK q : q = Given(Taken(live, b), c, size)
    OBVIOUS
  <2>11. q = Taken(Given(live, c, size), b)
    BY <2>5, <2>10, GivenTaken
  <2>12. SumOf(q) = SumOf(live) + size - live[b]
    BY <1>5, <1>10, <2>5, <2>11, MovedTotals
  <2>13. PICK m \in Nat : m = SizeOf(g, c)
    BY <2>5
  <2>14. PICK z : z = Taken(Given(s, c, m), b)
    OBVIOUS
  <2>15. SumOf(z) = SumOf(s) + m - n /\ SumOf(z) \in Nat
    <3>1. SumOf(Taken(Given(s, c, m), b)) = SumOf(s) + m - s[b]
          /\ SumOf(Taken(Given(s, c, m), b)) \in Nat
      BY <1>5, <2>5, MovedTotals
    <3> QED
      BY <1>11, <2>14, <3>1
  <2>16. PICK p \in Int, t \in Nat : /\ p = totalPayload + size - pay
                                     /\ t = totalBlocks + SizeOf(g, c) - n
                                     /\ p = SumOf(q) /\ t = SumOf(z)
    <3>1. totalPayload + size - pay = SumOf(q)
      BY <1>7, <1>12, <2>12
    <3>2. totalBlocks + SizeOf(g, c) - n = SumOf(z)
      BY <1>12, <2>13, <2>15
    <3>3. totalPayload + size - pay \in Int
      BY <1>19
    <3> QED
      BY <2>15, <3>1, <3>2, <3>3
  <2>17. g.fault = "none"
    BY <2>4, GoodFacts
  <2>18. Ends(e, q, p, t)
    BY <1>2, <1>3, <2>3, <2>5, <2>9, <2>10, <2>16, <2>17
  <2>19. CASE e.fault \in Undefined
    BY <2>18, <2>19, UndefinedStep
  <2>20. /\ q \in [DOMAIN q -> Nat] /\ DOMAIN q = (DOMAIN live \ {b}) \cup {c}
         /\ DOMAIN q \in SUBSET Even
    BY <1>5, <1>10, <2>10 DEF Given, Taken
  <2>21. CASE e.fault = "wrong list emptied"
    <3>1. e.fault \notin Undefined /\ e.fault # "none" /\ e.fault # "abort"
      BY <2>21, WrongList
    <3> QED
      BY <2>18, <2>20, <3>1, FaultyStep
  <2>22. CASE Arrived(heap, live, b, size, g, c, q, e)
    <3>1. /\ Kept(heap.mem, e.mem, DOMAIN live \ {b}) /\ Arrives(heap, b, e, c, live[b])
          /\ Sizes(e, q) = z
      BY <1>11, <2>13, <2>14, <2>22 DEF Arrived
    <3>2. PICK E : Good(e, E, q)
      BY <2>22 DEF Arrived
    <3>3. e.fault = "none" /\ e.end # 0
      BY <3>2, GoodFacts
    <3>4. heap' = e /\ live' = q /\ totalPayload' = p /\ totalBlocks' = t
      BY <2>18, <3>3, FaultFacts DEF Ends
    <3>5. Well(e, q, p, t)
      BY <2>16, <3>1, <3>2, <3>3 DEF Well, Totals, Ready
    <3>6. IInv'
      BY <3>4, <3>5, WellStep
    <3>7. Kept(heap.mem, heap'.mem, DOMAIN live \ {b})
      BY <3>1, <3>4
    <3>8. live' \in [DOMAIN live' -> Nat] /\ DOMAIN live' = (DOMAIN live \ {b}) \cup {c}
      BY <2>20, <3>4
    <3>9. \A a \in DOMAIN live' \ DOMAIN live : Arrives(heap, b, heap', a, live[b])
      <4>1. \A a \in DOMAIN live' \ DOMAIN live : a = c
        BY <3>8
      <4> QED
        BY <3>1, <3>4, <4>1
    <3>10. b \notin DOMAIN live' /\ DOMAIN live \ {b} \subseteq DOMAIN live'
      BY <2>5, <3>8
    <3> QED
      BY <1>4, <3>6, <3>7, <3>8, <3>9, <3>10, GoneData
  <2> QED
    BY <2>9, <2>11, <2>19, <2>21, <2>22 DEF Moves
<1>17. CASE \E g \in Heaps, c \in Even :
               got = Got(g, c) /\ g.fault \in Broken /\ (c = pro \/ g.mem[c + 1].size \in Nat)
  <2>1. PICK g \in Heaps, c \in Even :
               got = Got(g, c) /\ g.fault \in Broken /\ (c = pro \/ g.mem[c + 1].size \in Nat)
    BY <1>17
  <2>2. got.heap = g /\ got.block = c
    BY <2>1 DEF Got
  <2>3. g.fault \notin Undefined /\ g.fault # "none" /\ g.fault # "abort"
    BY <2>1 DEF Broken, Undefined
  <2>4. CASE c = pro
    <3>1. PICK p \in Int : p = totalPayload - pay
      BY <1>19
    <3>2. Ends(g, live, p, totalBlocks)
      BY <1>3, <2>2, <2>3, <2>4, <3>1
    <3> QED
      BY <1>3, <1>5, <2>3, <3>2, FaultyStep
  <2>5. CASE c # pro
    <3>1. PICK q : q = Given(Taken(live, b), c, size)
      OBVIOUS
    <3>2. PICK p \in Int, t \in Nat : /\ p = totalPayload + size - pay
                                      /\ t = totalBlocks + SizeOf(g, c) - n
      <4>1. SizeOf(g, c) \in Nat
        <5>1. SizeOf(g, c) = g.mem[c + 1].size
          BY DEF SizeOf, Header
        <5> QED
          BY <2>1, <2>5, <5>1
      <4>2. totalBlocks + SizeOf(g, c) - n \in Nat
        BY <1>6, <1>13, <1>18, <4>1
      <4>3. totalPayload + size - pay \in Int
        BY <1>19
      <4> QED
        BY <4>2, <4>3
    <3>3. Ends(g, q, p, t)
      BY <1>3, <2>2, <2>3, <2>5, <3>1, <3>2
    <3>4. q \in [DOMAIN q -> Nat] /\ DOMAIN q \in SUBSET Even
      BY <1>5, <1>10, <3>1 DEF Given, Taken
    <3> QED
      BY <2>3, <3>3, <3>4, FaultyStep
  <2> QED
    BY <2>4, <2>5
<1> QED
  BY <1>9, <1>14, <1>15, <1>16, <1>17 DEF Finds

-----------------------------------------------------------------------------
\* sf_realloc to a smaller size.

\* The user holds a block of another size.
LEMMA ResizedGood ==
    ASSUME NEW h, NEW C, NEW f, Good(h, C, f), NEW b \in DOMAIN f, NEW n, NEW z, NEW e, NEW D,
           Resized(h, C, b, n, z, e, D)
    PROVE  /\ Good(e, D, NewSize(f, b, n)) /\ Kept(h.mem, e.mem, DOMAIN f \ {b})
           /\ Sizes(e, NewSize(f, b, n)) = NewSize(Sizes(h, f), b, z)
<1> DEFINE q == NewSize(f, b, n)
<1>1. Sound(h, C, -1, {}) /\ Quick(h, C, {}) /\ Holds(h, C, f)
  BY DEF Good
<1>2. /\ Sound(e, D, -1, {}) /\ Change(h, e, C, D, {b}, {b}) /\ e.quick = h.quick
      /\ Is(e.mem[b + 1], n, z) /\ n \in Nat /\ z \in Nat /\ n + 1 <= z
  BY DEF Resized
<1>3. /\ b \in C /\ b # pro /\ b \in Held(h.mem, C) /\ DOMAIN f = Held(h.mem, C)
      /\ f \in [DOMAIN f -> Nat]
  BY GoodFacts
<1>4. h.mem[b + 1].qk = FALSE /\ e.mem[b + 1].qk = FALSE /\ e.mem[b + 1].alloc = TRUE
      /\ e.mem[b + 1].payload = n /\ e.mem[b + 1].size = z
  BY <1>2, <1>3 DEF Held, Is
<1>5. Quick(e, D, {})
  BY <1>1, <1>2, <1>4, QuickKept
<1>6. /\ Held(e.mem, D) = (Held(h.mem, C) \ {b}) \cup (Held(e.mem, D) \cap {b})
      /\ Kept(h.mem, e.mem, Held(h.mem, C) \ {b})
  BY <1>1, <1>2, ChangeHeld
<1>7. b \in D
  BY <1>2 DEF Change, Alloc
<1>8. b \in Held(e.mem, D)
  BY <1>3, <1>4, <1>7 DEF Held
<1>9. Held(e.mem, D) = DOMAIN f /\ Kept(h.mem, e.mem, DOMAIN f \ {b})
  BY <1>3, <1>6, <1>8
<1>10. /\ q \in [DOMAIN f -> Nat] /\ DOMAIN q = DOMAIN f /\ q[b] = n
       /\ \A c \in DOMAIN f : c # b => q[c] = f[c]
  BY <1>2, <1>3 DEF NewSize
<1> HIDE DEF q
<1>11. \A c \in DOMAIN f : c # b => /\ e.mem[c + 1].size = h.mem[c + 1].size
                                    /\ e.mem[c + 1].payload = h.mem[c + 1].payload
  BY <1>9 DEF Kept, Same
<1>12. Holds(e, D, q)
  <2> SUFFICES ASSUME NEW c \in Held(e.mem, D)
               PROVE  e.mem[c + 1].payload = q[c] /\ q[c] + 1 <= e.mem[c + 1].size
    BY <1>9, <1>10 DEF Holds
  <2>1. CASE c = b
    BY <1>2, <1>4, <1>10, <2>1
  <2>2. CASE c # b
    <3>1. c \in DOMAIN f
      BY <1>9
    <3>2. h.mem[c + 1].payload = f[c] /\ f[c] + 1 <= h.mem[c + 1].size
      BY <1>1, <1>3, <3>1 DEF Holds
    <3> QED
      BY <1>10, <1>11, <2>2, <3>1, <3>2
  <2> QED
    BY <2>1, <2>2
<1>13. Sizes(e, q) = NewSize(Sizes(h, f), b, z)
  <2>1. \A c \in DOMAIN f : c # b => SizeOf(e, c) = SizeOf(h, c)
    BY <1>11 DEF SizeOf, Header
  <2>2. SizeOf(e, b) = z
    BY <1>4 DEF SizeOf, Header
  <2> QED
    BY <1>10, <2>1, <2>2 DEF Sizes, NewSize
<1> QED
  BY <1>2, <1>5, <1>9, <1>12, <1>13 DEF Good, q

\* A block that is not split.
LEMMA WholeSound ==
    ASSUME NEW h, NEW C, NEW f, Good(h, C, f), NEW b \in DOMAIN f, NEW size \in Nat,
           size + 1 <= SizeOf(h, b)
    PROVE  \E g \in Heaps : /\ Allocated(h, b, size) = g
                            /\ Resized(h, C, b, size, SizeOf(h, b), g, C) /\ Contents(h, g, b)
<1>1. Sound(h, C, -1, {})
  BY DEF Good
<1>2. /\ b \in C /\ b # pro /\ h.mem[b + 1] \in Tags
      /\ Is(h.mem[b + 1], f[b], SizeOf(h, b)) /\ SizeOf(h, b) \in Nat
  BY GoodFacts
<1>3. PICK t \in Tags : /\ t = h.mem[b + 1] /\ t.alloc = TRUE /\ t.size = SizeOf(h, b)
  BY <1>2 DEF Is
<1>4. PICK v \in BOOLEAN, n \in Even : v = t.prv /\ n = t.size
  BY TagFacts
<1>5. PICK tag \in Tags : /\ tag = Tag(size, n, TRUE, v, FALSE)
                          /\ Is(tag, size, n) /\ tag.prv = v
  BY UsedTag
<1>6. CanRetag(h, b, tag, C, -1, {}) /\ tag.alloc = TRUE
  BY <1>1, <1>2, <1>3, <1>4, <1>5 DEF CanRetag, Is
<1>7. PICK g \in Heaps : Retagged(h, b, tag, C, -1, {}, g) /\ Contents(h, g, b)
  BY <1>5, <1>6, UsedSound
<1>8. /\ SetEntireHeader(h, b, tag) = g /\ Sound(g, C, -1, {})
      /\ Replaced(h, g, C, C, {b}, {b}) /\ g.mem[b + 1] = tag
  BY <1>7 DEF Retagged
<1>9. Allocated(h, b, size) = g
  BY <1>3, <1>4, <1>5, <1>8 DEF Allocated, SizeOf, Header
<1>10. Change(h, g, C, C, {b}, {b})
  <2>1. Change(h, g, C, C, {b}, Alloc(g.mem, {b}))
    BY <1>8, ReplacedChange
  <2>2. Alloc(g.mem, {b}) = {b}
    BY <1>6, <1>8 DEF Alloc
  <2> QED
    BY <2>1, <2>2
<1>11. Resized(h, C, b, size, SizeOf(h, b), g, C)
  <2>1. g.quick = h.quick
    BY <1>8 DEF Replaced
  <2> QED
    BY <1>2, <1>3, <1>4, <1>5, <1>8, <1>10, <2>1 DEF Resized
<1> QED
  BY <1>7, <1>9, <1>11

\* sf_realloc to a smaller size: what is split off is released, joining a free
\* block after it.
LEMMA ShrinkGood ==
    ASSUME NEW h, NEW C, NEW f, NEW b, NEW size \in Nat, NEW need,
           CanShrink(h, C, f, b, size, need)
    PROVE  /\ SplitBlock(h, b, need).fault = "none"
           /\ \E g \in Heaps, e \in Heaps :
                 /\ Divided(SplitBlock(h, b, need), b, size) = g /\ g.fault = "none"
                 /\ ReleaseBlock(g, b + need) = e /\ Shrinks(h, C, b, size, need, e)
<1>1. /\ Good(h, C, f) /\ b \in DOMAIN f /\ need \in Even /\ need >= min /\ size + 1 <= need
      /\ need + min <= SizeOf(h, b) /\ Clean(h, b, need) /\ Sound(h, C, -1, {})
  BY DEF CanShrink, Good
<1>2. /\ b \in C /\ b # pro /\ b \in Nat /\ h.mem[b + 1] \in Tags
      /\ Is(h.mem[b + 1], f[b], SizeOf(h, b)) /\ SizeOf(h, b) \in Nat
  BY <1>1, GoodFacts
<1>3. CanCut(h, b, need, C, {})
  <2>1. h.mem[b + 1].alloc = TRUE /\ h.mem[b + 1].size = SizeOf(h, b)
    BY <1>2 DEF Is
  <2> QED
    BY <1>1, <1>2, <2>1 DEF CanCut
<1>4. SplitBlock(h, b, need).fault = "none"
  <2>1. PICK g \in Heaps, t \in Tags, p \in Even, u \in Even :
           Cut(h, b, need, C, {}, g, t, p, u)
    BY <1>3, CutSound
  <2>2. SplitBlock(h, b, need) = g /\ Sound(g, C \cup {p}, p, {} \cup {b, p})
    BY <2>1 DEF Cut
  <2>3. g.fault = "none"
    BY <2>2, SoundFacts
  <2> QED
    BY <2>2, <2>3
<1>5. PICK g \in Heaps, p \in Even, u \in Even : Halved(h, b, need, size, C, {}, g, p, u)
  BY <1>3, HalvedSound
<1>6. PICK E : E = C \cup {p}
  OBVIOUS
<1>7. /\ Divided(SplitBlock(h, b, need), b, size) = g
      /\ p = b + need /\ Sound(g, E, p, {p}) /\ Replaced(h, g, C, E, {b}, {b, p})
      /\ Is(g.mem[b + 1], size, need) /\ g.mem[p + 1].alloc = FALSE
      /\ p \notin C /\ p \in E /\ b \in E
      /\ \A w \in Addr : b + 1 < w /\ w < p => g.mem[w] = h.mem[w]
  <2>1. {} \cup {p} = {p}
    OBVIOUS
  <2> QED
    BY <1>2, <1>5, <1>6, <2>1 DEF Halved
<1>8. g.fault = "none" /\ b # p
  BY <1>2, <1>7, SoundFacts
<1>9. Change(h, g, C, E, {b}, {b})
  <2>1. Change(h, g, C, E, {b}, Alloc(g.mem, {b, p}))
    BY <1>7, ReplacedChange
  <2>2. Alloc(g.mem, {b, p}) = {b}
    BY <1>7 DEF Alloc, Is
  <2> QED
    BY <2>1, <2>2
<1>10. CASE ~IsTag(Footer(g, p))
  <2>1. PICK why \in Faults : why = "data read as a footer" /\ why \in Undefined
    BY FaultFacts
  <2>2. PICK e \in Heaps : e = Fails(g, why) /\ e.fault = why
    BY FailsFacts
  <2>3. ReleaseBlock(g, p) = e
    BY <1>10, <2>1, <2>2 DEF ReleaseBlock
  <2>4. Shrinks(h, C, b, size, need, e)
    BY <2>1, <2>2 DEF Shrinks
  <2>5. ReleaseBlock(g, b + need) = e
    BY <1>7, <2>3
  <2> QED
    BY <1>4, <1>7, <1>8, <2>4, <2>5
<1>11. CASE IsTag(Footer(g, p))
  <2>1. p # pro
    <3>1. need \in Nat
      BY <1>1, EvenFacts
    <3>2. b + need > 0
      BY <1>1, <1>2, <3>1 DEF min
    <3> QED
      BY <1>7, <3>2 DEF pro
  <2>2. CanRelease(g, p, E, p)
    BY <1>7, <1>11, <2>1 DEF CanRelease
  <2>3. PICK e \in Heaps : \E D, P, s : Released(g, p, E, e, D, P, s)
    BY <2>2, ReleaseSound
  <2>4. PICK D, P, s : Released(g, p, E, e, D, P, s)
    BY <2>3
  <2>5. /\ ReleaseBlock(g, p) = e /\ Sound(e, D, -1, {}) /\ Replaced(g, e, E, D, P, {s})
        /\ p \in P /\ e.mem[s + 1].alloc = FALSE
        /\ \A c \in P \ {p} : g.mem[c + 1].alloc = FALSE
    BY <2>4 DEF Released
  <2>6. Change(g, e, E, D, P, Alloc(e.mem, {s}))
    BY <2>5, ReplacedChange
  <2>7. Alloc(e.mem, {s}) = {} /\ Alloc(g.mem, E) \ P = Alloc(g.mem, E)
    BY <1>7, <2>5 DEF Alloc
  <2>8. PICK N : N = {}
    OBVIOUS
  <2>9. Change(g, e, E, D, N, N)
    BY <2>6, <2>7, <2>8 DEF Change
  <2>10. PICK A : A = {b}
    OBVIOUS
  <2>11. Change(h, e, C, D, A \cup N, (A \ N) \cup N)
    BY <1>9, <2>9, <2>10, ChangeTwice
  <2>12. Change(h, e, C, D, {b}, {b})
    BY <2>8, <2>10, <2>11
  <2>13. e.quick = h.quick
    BY <1>7, <2>5 DEF Replaced
  <2>14. b \in Alloc(g.mem, E)
    BY <1>7 DEF Alloc, Is
  <2>15. Kept(g.mem, e.mem, Alloc(g.mem, E))
    BY <2>6, <2>7 DEF Change
  <2>16. /\ e.mem[b + 1] \in Tags /\ Same(e.mem[b + 1], g.mem[b + 1])
         /\ \A w \in Addr : b + 1 < w /\ w <= Nx(g.mem, b) => e.mem[w] = g.mem[w]
    BY <2>14, <2>15 DEF Kept
  <2>17. Is(e.mem[b + 1], size, need)
    BY <1>7, <2>16 DEF Is, Same
  <2>18. Nx(g.mem, b) = p
    BY <1>7 DEF Is, Nx
  <2>19. Resized(h, C, b, size, need, e, D)
    <3>1. need \in Nat
      BY <1>1, EvenFacts
    <3> QED
      BY <1>1, <2>5, <2>12, <2>13, <2>17, <3>1 DEF Resized
  <2>20. ASSUME NEW w \in Addr, b + 1 < w, w < b + need
         PROVE  e.mem[w] = h.mem[w]
    <3>1. w \in Nat /\ p \in Nat
      BY Bounds, EvenFacts DEF Addr
    <3>2. w < p /\ w <= p
      BY <1>7, <2>20, <3>1
    <3> QED
      BY <1>7, <2>16, <2>18, <2>20, <3>2
  <2>21. Shrinks(h, C, b, size, need, e)
    BY <2>19, <2>20 DEF Shrinks
  <2> QED
    BY <1>4, <1>7, <1>8, <2>5, <2>21
<1> QED
  BY <1>10, <1>11

\* What the user had in a block that becomes smaller.
LEMMA ShrunkArrives ==
    ASSUME NEW h, NEW C, NEW f, Good(h, C, f), NEW b \in DOMAIN f, NEW size \in Nat, NEW e,
           NEW need \in Nat, size + 1 <= need,
           \A w \in Addr : b + 1 < w /\ w < b + need => e.mem[w] = h.mem[w],
           b + need \in Payload(b, size) => h.mem[b + need] # Data
    PROVE  Arrives(h, b, e, b, Min({f[b], size}))
<1>1. b \in Nat /\ f[b] \in Nat
  BY GoodFacts
<1>2. PICK m \in Nat : m = Min({f[b], size}) /\ m <= f[b] /\ m <= size
  BY <1>1, MinOfTwo
<1> SUFFICES ASSUME NEW w \in Payload(b, m)
             PROVE  /\ w <= NextBlock(h, b)
                    /\ h.mem[w] = Data => e.mem[w - b + b] = Data
  BY <1>2 DEF Arrives
<1>3. /\ w \in Addr /\ w \in Nat /\ b + 1 < w /\ w <= NextBlock(h, b)
  BY <1>2, PayloadFacts
<1>4. w \in Int /\ b + 2 <= w /\ w <= b + 1 + m
  BY <1>1, <1>2 DEF Payload
<1>5. w - b + b = w
  BY <1>1, <1>3
<1>6. w <= b + need
  BY <1>1, <1>2, <1>4
<1>7. CASE w = b + need
  <2>1. w \in Payload(b, size)
    BY <1>1, <1>2, <1>4 DEF Payload
  <2>2. h.mem[w] # Data
    BY <1>7, <2>1
  <2> QED
    BY <1>3, <2>2
<1>8. CASE w # b + need
  <2>1. w < b + need
    BY <1>1, <1>3, <1>6, <1>8
  <2>2. e.mem[w] = h.mem[w]
    BY <1>3, <2>1
  <2> QED
    BY <1>3, <1>5, <2>2
<1> QED
  BY <1>7, <1>8

\* A block of the user gets another size in place.
LEMMA ResizedStep ==
    ASSUME NEW C, NEW b, NEW size, NEW z, NEW e, Resizes(C, b, size, z, e),
           NEW q, q = NewSize(live, b, size), NEW p, NEW t,
           p = totalPayload - live[b] + size, t = totalBlocks - SizeOf(heap, b) + z,
           Ends(e, q, p, t)
    PROVE  IInv' /\ KeepsData
<1>1. /\ Good(heap, C, live) /\ b \in DOMAIN live /\ size \in Nat
      /\ Totals(heap, live, totalPayload, totalBlocks)
      /\ Arrives(heap, b, e, b, Min({live[b], size}))
  BY DEF Resizes
<1>2. PICK D : Resized(heap, C, b, size, z, e, D)
  BY DEF Resizes
<1>3. /\ Good(e, D, q) /\ Kept(heap.mem, e.mem, DOMAIN live \ {b})
      /\ Sizes(e, q) = NewSize(Sizes(heap, live), b, z)
  <2>1. Good(heap, C, live) /\ b \in DOMAIN live
    BY <1>1
  <2>2. /\ Good(e, D, NewSize(live, b, size)) /\ Kept(heap.mem, e.mem, DOMAIN live \ {b})
        /\ Sizes(e, NewSize(live, b, size)) = NewSize(Sizes(heap, live), b, z)
    BY <1>2, <2>1, ResizedGood
  <2> QED
    BY <2>2
<1>4. z \in Nat
  BY <1>2 DEF Resized
<1>5. /\ live \in [DOMAIN live -> Nat] /\ DOMAIN live \in SUBSET Addr
      /\ Sizes(heap, live) \in [DOMAIN live -> Nat]
  BY <1>1, GoodFacts
<1>6. e.fault = "none" /\ e.end # 0
  BY <1>3, GoodFacts
<1>7. heap' = e /\ live' = q /\ totalPayload' = p /\ totalBlocks' = t
  BY <1>6, FaultFacts DEF Ends
<1>8. SumOf(q) = SumOf(live) - live[b] + size
  BY <1>1, <1>5, SumChanged DEF NewSize
<1>9. PICK s \in [DOMAIN live -> Nat] : s = Sizes(heap, live)
  BY <1>5
<1>10. SumOf(NewSize(s, b, z)) = SumOf(s) - s[b] + z
  BY <1>1, <1>4, <1>5, SumChanged DEF NewSize
<1>11. s[b] = SizeOf(heap, b)
  BY <1>1, <1>9 DEF Sizes
<1>12. totalPayload = SumOf(live) /\ totalBlocks = SumOf(s)
  BY <1>1, <1>9 DEF Totals
<1>13. p = SumOf(q)
  BY <1>8, <1>12
<1>14. t = SumOf(Sizes(e, q))
  BY <1>3, <1>9, <1>10, <1>11, <1>12
<1>15. Well(e, q, p, t)
  BY <1>3, <1>6, <1>13, <1>14 DEF Well, Totals, Ready
<1>16. IInv'
  BY <1>7, <1>15, WellStep
<1>17. live' \in [DOMAIN live' -> Nat] /\ DOMAIN live' = DOMAIN live /\ live'[b] = size
  BY <1>1, <1>5, <1>7 DEF NewSize
<1>18. Kept(heap.mem, heap'.mem, DOMAIN live \ {b})
  BY <1>3, <1>7
<1>19. Arrives(heap, b, heap', b, Min({live[b], live'[b]}))
  BY <1>1, <1>7, <1>17
<1>20. KeepsData
  BY <1>1, <1>17, <1>18, <1>19, TouchedData
<1> QED
  BY <1>16, <1>20

\* sf_realloc to a smaller size, by the heap that it leaves.
LEMMA ShrunkIs ==
    ASSUME NEW b, NEW size, ReallocShrink(b, size)
    PROVE  /\ Works /\ GetMinSize(size) <= SizeOf(heap, b)
           /\ Ends(Shrunk(heap, b, size), NewSize(live, b, size),
                   totalPayload - Header(heap, b).payload + size,
                   IF SizeOf(heap, b) - GetMinSize(size) < min THEN totalBlocks
                   ELSE totalBlocks - SizeOf(heap, b) + GetMinSize(size))
BY DEF ReallocShrink, Shrunk, Parted, NewSize

\* The cases of it: the request wraps, the block is too small to split, or it
\* is split.
LEMMA ShrunkCases ==
    ASSUME NEW h, NEW b, NEW size, NEW need \in Int, need = GetMinSize(size)
    PROVE  /\ need < min => Shrunk(h, b, size) = Fails(h, "request wraps")
           /\ ~(need < min) /\ need >= min /\ SizeOf(h, b) - need < min =>
                 Shrunk(h, b, size) = Allocated(h, b, size)
           /\ ~(need < min) /\ ~(SizeOf(h, b) - need < min) =>
                 Shrunk(h, b, size) = Parted(h, b, size, need)
<1>1. PICK s, x, y, z : /\ s = SizeOf(h, b) - need /\ x = Fails(h, "request wraps")
                        /\ y = Allocated(h, b, size) /\ z = Parted(h, b, size, need)
  OBVIOUS
<1>2. PICK m : m = min
  OBVIOUS
<1>3. Shrunk(h, b, size) =
         CASE need < m -> x [] need >= m /\ s < m -> y [] OTHER -> z
  BY <1>1, <1>2 DEF Shrunk
<1>4. ASSUME need < m
      PROVE  Shrunk(h, b, size) = x
  <2>1. (CASE need < m -> x [] need >= m /\ s < m -> y [] OTHER -> z) = x
    BY <1>2, <1>4 DEF min
  <2> QED
    BY <1>3, <2>1, Zenon
<1>5. ASSUME ~(need < m), ~(s < m)
      PROVE  Shrunk(h, b, size) = z
  <2>1. (CASE need < m -> x [] need >= m /\ s < m -> y [] OTHER -> z) = z
    BY <1>5
  <2> QED
    BY <1>3, <2>1, Zenon
<1>6. ASSUME ~(need < m), need >= m, s < m
      PROVE  Shrunk(h, b, size) = y
  <2>1. (CASE need < m -> x [] need >= m /\ s < m -> y [] OTHER -> z) = y
    BY <1>6
  <2> QED
    BY <1>3, <2>1, Zenon
<1> QED
  BY <1>1, <1>2, <1>4, <1>5, <1>6

\* What becomes of the part that is split off.
LEMMA PartedCases ==
    ASSUME NEW h, NEW b, NEW size, NEW need, NEW cut, cut = SplitBlock(h, b, need)
    PROVE  Parted(h, b, size, need) =
              IF cut.fault # "none" THEN cut
              ELSE IF b + need \in Payload(b, size) /\ Footer(h, b + need) = Data
                   THEN Fails(Divided(cut, b, size), "footer over data")
              ELSE ReleaseBlock(Divided(cut, b, size), b + need)
BY DEF Parted

\* A footer over the user's data is a fault.
LEMMA FooterFault ==
    ASSUME NEW h, h.fault = "footer over data"
    PROVE  h.fault \notin Undefined /\ h.fault # "none" /\ h.fault # "abort"
BY DEF Undefined

\* A header computed from old contents is undefined.
LEMMA UncleanCut ==
    ASSUME NEW h, NEW b, NEW need, ~Clean(h, b, need)
    PROVE  /\ SplitBlock(h, b, need).fault \in Undefined
           /\ SplitBlock(h, b, need).fault # "none"
BY DEF Clean, Undefined

\* sf_realloc to a smaller size keeps the invariant and what still fits of
\* what the user had.
LEMMA ShrinkStep ==
    ASSUME IInv, NEW b \in DOMAIN live, NEW size \in Request \cup {0}, ReallocShrink(b, size)
    PROVE  IInv' /\ KeepsData
<1>1. PICK need, n : need = GetMinSize(size) /\ n = SizeOf(heap, b)
  OBVIOUS
<1>2. PICK h, q, p, t :
         /\ h = Shrunk(heap, b, size) /\ q = NewSize(live, b, size)
         /\ p = totalPayload - Header(heap, b).payload + size
         /\ t = IF n - need < min THEN totalBlocks ELSE totalBlocks - n + need
  OBVIOUS
<1>3. Works /\ need <= n /\ Ends(h, q, p, t)
  BY <1>1, <1>2, ShrunkIs
<1>4. /\ Ready(heap, live) /\ Totals(heap, live, totalPayload, totalBlocks)
      /\ totalPayload \in Int /\ totalBlocks \in Nat
  BY <1>3 DEF IInv, TypeOK
<1>5. PICK C : Good(heap, C, live)
  BY <1>4, Started0
<1>6. /\ live \in [DOMAIN live -> Nat] /\ DOMAIN live \in SUBSET Addr
      /\ DOMAIN live \in SUBSET Even /\ Sizes(heap, live) \in [DOMAIN live -> Nat]
  BY <1>4, ReadyTypes
<1>7. /\ Is(heap.mem[b + 1], live[b], n) /\ n \in Nat /\ live[b] \in Nat /\ b \in Nat
      /\ heap.mem[b + 1] \in Tags /\ heap.fault = "none" /\ heap \in Heaps
  BY <1>1, <1>5, GoodFacts
<1>8. Header(heap, b).payload = live[b] /\ n \in Even
  BY <1>1, <1>7, TagFacts DEF Is, Header, SizeOf
<1>9. p = totalPayload - live[b] + size
  BY <1>2, <1>8
<1>10. size \in Nat
  BY SizesAssumption
<1>11. \/ need = 0
       \/ need \in Even /\ need >= min /\ need >= size + 1
  BY <1>1, MinSizeFacts
<1>12. PICK cut : cut = SplitBlock(heap, b, need)
  OBVIOUS
<1>13. CASE need = 0
  <2>1. PICK why \in Faults : why = "request wraps" /\ why \in Undefined
    BY FaultFacts
  <2>2. PICK g \in Heaps : g = Fails(heap, why) /\ g.fault = why
    BY <1>7, FailsFacts
  <2>3. need < min
    BY <1>13 DEF min
  <2>5. need \in Int
    BY <1>13
  <2>4. h = g
    BY <1>1, <1>2, <2>1, <2>2, <2>3, <2>5, ShrunkCases
  <2> QED
    BY <1>3, <2>1, <2>2, <2>4, UndefinedStep
<1>14. CASE need \in Even /\ need >= min /\ need >= size + 1
  <2>1. need \in Nat /\ ~(need < min) /\ size + 1 <= need /\ need \in Int
    <3>1. need \in Nat
      BY <1>14, EvenFacts
    <3> QED
      BY <1>10, <1>14, <3>1 DEF min
  <2>2. CASE n - need < min
    <3>1. h = Allocated(heap, b, size)
      BY <1>1, <1>2, <1>14, <2>1, <2>2, ShrunkCases
    <3>2. size + 1 <= n
      BY <1>3, <1>7, <1>10, <2>1
    <3>3. PICK g \in Heaps : /\ Allocated(heap, b, size) = g
                             /\ Resized(heap, C, b, size, n, g, C) /\ Contents(heap, g, b)
      BY <1>1, <1>5, <1>10, <3>2, WholeSound
    <3>4. Arrives(heap, b, g, b, Min({live[b], size}))
      <4>1. PICK m \in Nat : m = Min({live[b], size}) /\ m <= live[b]
        BY <1>7, <1>10, MinOfTwo
      <4> SUFFICES ASSUME NEW w \in Payload(b, m)
                   PROVE  /\ w <= NextBlock(heap, b)
                          /\ heap.mem[w] = Data => g.mem[w - b + b] = Data
        BY <4>1 DEF Arrives
      <4>2. /\ w \in Addr /\ w \in Nat /\ b + 1 < w /\ w <= Nx(heap.mem, b)
            /\ w <= NextBlock(heap, b)
        BY <1>5, <4>1, PayloadFacts
      <4>3. g.mem[w] = heap.mem[w]
        BY <3>3, <4>2 DEF Contents
      <4>4. w - b + b = w
        BY <1>7, <4>2
      <4> QED
        BY <4>2, <4>3, <4>4
    <3>5. Resizes(C, b, size, n, g)
      BY <1>4, <1>5, <1>10, <3>3, <3>4 DEF Resizes
    <3>6. t = totalBlocks - SizeOf(heap, b) + n
      BY <1>1, <1>2, <1>4, <1>7, <2>2
    <3>7. Ends(g, q, p, t)
      BY <1>3, <3>1, <3>3
    <3>8. q = [live EXCEPT ![b] = size] /\ p = totalPayload - live[b] + size
      BY <1>2, <1>9 DEF NewSize
    <3> QED
      BY <1>2, <1>9, <3>5, <3>6, <3>7, ResizedStep
  <2>3. CASE ~(n - need < min)
    <3>1. h = IF cut.fault # "none" THEN cut
              ELSE IF b + need \in Payload(b, size) /\ Footer(heap, b + need) = Data
                   THEN Fails(Divided(cut, b, size), "footer over data")
              ELSE ReleaseBlock(Divided(cut, b, size), b + need)
      <4>1. h = Parted(heap, b, size, need)
        BY <1>1, <1>2, <2>1, <2>3, ShrunkCases
      <4> QED
        BY <1>12, <4>1 DEF Parted
    <3>2. need + min <= n /\ min \in Nat
      BY <1>7, <2>1, <2>3 DEF min
    <3>3. CASE ~Clean(heap, b, need)
      <4>1. cut.fault # "none" /\ cut.fault \in Undefined
        BY <1>12, <3>3, UncleanCut
      <4>2. h = cut
        BY <3>1, <4>1
      <4> QED
        BY <1>3, <4>1, <4>2, UndefinedStep
    <3>4. CASE Clean(heap, b, need)
      <4>1. CanShrink(heap, C, live, b, size, need)
        BY <1>1, <1>5, <1>14, <2>1, <3>2, <3>4 DEF CanShrink
      <4>2. cut.fault = "none"
        BY <1>10, <1>12, <4>1, ShrinkGood
      <4>3. PICK g \in Heaps, e \in Heaps :
                 /\ Divided(SplitBlock(heap, b, need), b, size) = g /\ g.fault = "none"
                 /\ ReleaseBlock(g, b + need) = e /\ Shrinks(heap, C, b, size, need, e)
        BY <1>10, <4>1, ShrinkGood
      <4>4. t = totalBlocks - n + need
        BY <1>2, <2>3
      <4>5. CASE b + need \in Payload(b, size) /\ Footer(heap, b + need) = Data
        <5>1. PICK why \in Faults : why = "footer over data"
          BY FaultFacts
        <5>2. PICK r \in Heaps : r = Fails(g, why) /\ r.fault = why
          BY FailsFacts
        <5>3. h = r
          BY <1>12, <3>1, <4>2, <4>3, <4>5, <5>1, <5>2
        <5>4. r.fault \notin Undefined /\ r.fault # "none" /\ r.fault # "abort"
          BY <5>1, <5>2, FooterFault
        <5>5. p \in Int
          BY <1>4, <1>7, <1>9, <1>10
        <5>6. t \in Nat
          <6>1. PICK s \in [DOMAIN live -> Nat] : s = Sizes(heap, live) /\ s[b] = n
            BY <1>1, <1>6 DEF Sizes
          <6>2. SumOf(Taken(s, b)) \in Nat /\ SumOf(Taken(s, b)) = SumOf(s) - s[b]
            BY <1>6, SumTaken
          <6>3. totalBlocks = SumOf(s)
            BY <1>4, <6>1 DEF Totals
          <6>4. totalBlocks - n \in Nat
            BY <6>1, <6>2, <6>3
          <6> QED
            BY <1>4, <1>7, <2>1, <4>4, <6>4
        <5>7. q \in [DOMAIN q -> Nat] /\ DOMAIN q \in SUBSET Even
          BY <1>2, <1>6, <1>10 DEF NewSize
        <5>8. Ends(r, q, p, t)
          BY <1>3, <5>3
        <5> QED
          BY <5>4, <5>5, <5>6, <5>7, <5>8, FaultyStep
      <4>6. CASE ~(b + need \in Payload(b, size) /\ Footer(heap, b + need) = Data)
        <5>1. h = e
          BY <1>12, <3>1, <4>2, <4>3, <4>6
        <5>2. CASE e.fault \in Undefined
          BY <1>3, <5>1, <5>2, UndefinedStep
        <5>3. CASE /\ \E D : Resized(heap, C, b, size, need, e, D)
                   /\ \A w \in Addr : b + 1 < w /\ w < b + need => e.mem[w] = heap.mem[w]
          <6>1. b + need \in Payload(b, size) => heap.mem[b + need] # Data
            BY <4>6 DEF Footer
          <6>2. Arrives(heap, b, e, b, Min({live[b], size}))
            BY <1>5, <1>10, <2>1, <5>3, <6>1, ShrunkArrives
          <6>3. Resizes(C, b, size, need, e)
            BY <1>4, <1>5, <1>10, <5>3, <6>2 DEF Resizes
          <6>4. t = totalBlocks - SizeOf(heap, b) + need
            BY <1>1, <4>4
          <6>5. Ends(e, q, p, t)
            BY <1>3, <5>1
          <6> QED
            BY <1>2, <1>9, <6>3, <6>4, <6>5, ResizedStep
        <5> QED
          BY <4>3, <5>2, <5>3 DEF Shrinks
      <4> QED
        BY <4>5, <4>6
    <3> QED
      BY <3>3, <3>4
  <2> QED
    BY <2>2, <2>3
<1> QED
  BY <1>11, <1>13, <1>14

-----------------------------------------------------------------------------
\* Every step keeps the invariant.

\* The invariant holds at first.
LEMMA InitIInv ==
    Init => IInv
<1> SUFFICES ASSUME Init
             PROVE  IInv
  OBVIOUS
<1>1. heap = NoHeap /\ live = <<>> /\ totalPayload = 0 /\ totalBlocks = 0
  BY DEF Init
<1>2. live \in [{} -> Nat] /\ DOMAIN live = {}
  BY <1>1, NothingHeld
<1>3. Ready(heap, live)
  BY <1>1, <1>2 DEF Ready
<1>4. TypeOK /\ heap.fault # "abort"
  <2>1. heap \in Heaps /\ heap.fault = "none"
    BY <1>1, NoHeapFacts
  <2>2. DOMAIN live \subseteq Even /\ live \in [DOMAIN live -> Nat]
    BY <1>2
  <2>3. totalPayload \in Int /\ totalBlocks \in Nat
    BY <1>1
  <2> QED
    BY <2>1, <2>2, <2>3 DEF TypeOK
<1>5. Totals(heap, live, 0, 0)
  <2>1. \A f : DOMAIN f = {} /\ f \in [{} -> Nat] => SumOf(f) = 0
    <3> SUFFICES ASSUME NEW f \in [{} -> Nat]
                 PROVE  SumOf(f) = 0
      OBVIOUS
    <3>4. PICK X : X = {} /\ f \in [X -> Nat]
      OBVIOUS
    <3>1. PICK s : Adds(f, s)
      BY <3>4, SumExists
    <3>2. s[0] = 0 /\ \A n \in 1 .. Top : s[n] = s[n - 1]
      <4>1. \A n : At(f, n) = 0
        BY DEF At
      <4> SUFFICES ASSUME NEW n \in 1 .. Top
                   PROVE  s[n] = s[n - 1]
        BY <3>1 DEF Adds
      <4>2. s[n] = s[n - 1] + 0
        BY <3>1, <4>1 DEF Adds
      <4>3. n - 1 \in 0 .. Top
        BY Bounds
      <4>4. s[n - 1] \in Nat
        BY <3>1, <4>3 DEF Adds
      <4> QED
        BY <4>2, <4>4
    <3>3. \A n \in Nat : n <= Top => s[n] = 0
      <4> DEFINE Z == {n \in Nat : n <= Top => s[n] = 0}
      <4>1. 0 \in Z
        BY <3>2
      <4>2. \A n \in Z : n + 1 \in Z
        <5> SUFFICES ASSUME NEW n \in Z, n + 1 <= Top
                     PROVE  s[n + 1] = 0
          OBVIOUS
        <5>1. n \in Nat /\ n + 1 \in 1 .. Top /\ n <= Top /\ (n + 1) - 1 = n
          BY Bounds
        <5>2. s[n + 1] = s[(n + 1) - 1]
          BY <3>2, <5>1
        <5> QED
          BY <5>1, <5>2
      <4>3. Z \in SUBSET Nat
        OBVIOUS
      <4> HIDE DEF Z
      <4>4. Nat \subseteq Z
        BY <4>1, <4>2, <4>3, SetInduction
      <4> QED
        BY <4>4 DEF Z
    <3> QED
      BY <3>1, <3>3, Bounds DEF Adds
  <2>2. DOMAIN Sizes(heap, live) = {} /\ Sizes(heap, live) \in [{} -> Nat]
    BY <1>2 DEF Sizes
  <2> QED
    BY <1>2, <2>1, <2>2 DEF Totals
<1> QED
  BY <1>1, <1>3, <1>4, <1>5 DEF IInv

\* It holds after a step that changes nothing.
LEMMA SameStep ==
    ASSUME IInv, UNCHANGED vars
    PROVE  IInv' /\ KeepsData
<1>1. heap' = heap /\ live' = live /\ totalPayload' = totalPayload /\ totalBlocks' = totalBlocks
  BY DEF vars
<1>2. IInv'
  BY <1>1 DEF IInv, TypeOK, Works
<1>3. KeepsData
  <2>1. CASE Works
    <3>1. Ready(heap, live)
      BY <2>1 DEF IInv
    <3>2. CASE DOMAIN live = {}
      BY <3>2, NoData
    <3>3. CASE \E C : Good(heap, C, live)
      <4>1. PICK C : Good(heap, C, live)
        BY <3>3
      <4>2. Kept(heap.mem, heap'.mem, DOMAIN live)
        BY <1>1, <4>1, KeptAll
      <4>3. live' \in [DOMAIN live' -> Nat] /\ DOMAIN live \subseteq DOMAIN live'
        BY <1>1, <4>1, GoodFacts
      <4> QED
        BY <4>1, <4>2, <4>3, KeptData
    <3> QED
      BY <3>1, <3>2, <3>3 DEF Ready
  <2>2. CASE ~Works
    BY <1>1, <2>2 DEF KeepsData, Works
  <2> QED
    BY <2>1, <2>2
<1> QED
  BY <1>2, <1>3

\* It holds after every step, and every step keeps what the user has written.
LEMMA NextIInv ==
    ASSUME IInv, [Next]_vars
    PROVE  IInv' /\ KeepsData
<1>1. ASSUME NEW size \in Request, sf_malloc(size)
      PROVE  IInv' /\ KeepsData
  BY <1>1, MallocStep
<1>2. ASSUME NEW b \in DOMAIN live, sf_free(b)
      PROVE  IInv' /\ KeepsData
  BY <1>2, FreeStep
<1>3. ASSUME NEW b \in DOMAIN live, NEW n \in Request, Write(b, n)
      PROVE  IInv' /\ KeepsData
  BY <1>3, WriteStep
<1>4. ASSUME NEW b \in DOMAIN live, NEW size \in Request \cup {0}, ReallocMove(b, size)
      PROVE  IInv' /\ KeepsData
  BY <1>4, MoveStep
<1>5. ASSUME NEW b \in DOMAIN live, NEW size \in Request \cup {0}, ReallocShrink(b, size)
      PROVE  IInv' /\ KeepsData
  BY <1>5, ShrinkStep
<1>6. CASE Faulted \/ UNCHANGED vars
  BY <1>6, SameStep DEF Faulted
<1> QED
  BY <1>1, <1>2, <1>3, <1>4, <1>5, <1>6 DEF Next

\* Every call of sf_malloc, sf_free and sf_realloc leaves the allocator in a
\* state of the inductive invariant, or in a fault.
THEOREM Invariant ==
    Spec => []IInv
<1>1. IInv /\ [Next]_vars => IInv'
  BY NextIInv
<1> QED
  BY <1>1, InitIInv, PTL DEF Spec

\* No call changes what the user has written in a block that it keeps, and what
\* sf_realloc moves arrives in the new block.
THEOREM UserData ==
    Spec => UserDataKept
<1>1. IInv /\ [Next]_vars => [KeepsData]_vars
  BY NextIInv
<1> QED
  BY <1>1, Invariant, PTL DEF Spec, UserDataKept

-----------------------------------------------------------------------------
\* The blocks that are found from the prologue on, and the properties.

\* The next block of a heap lies above.
LEMMA GoesUp ==
    ASSUME NEW C, NEW y, NEW X, Sound(heap, C, y, X), NEW b \in 0 .. heap.end, Goes(b)
    PROVE  NextBlock(heap, b) \in 0 .. heap.end /\ NextBlock(heap, b) > b
<1>1. /\ heap.mem \in [Addr -> Words] /\ heap.epi \in Nat /\ heap.end = heap.epi + 2
      /\ heap.epi + 1 \in Addr
  BY SoundFacts
<1>2. b \in Nat /\ b < heap.epi /\ IsTag(Header(heap, b)) /\ SizeOf(heap, b) >= min
      /\ NextBlock(heap, b) <= heap.end
  BY <1>1 DEF Goes
<1>3. b + 1 \in Addr
  BY <1>1, <1>2, Bounds DEF Addr
<1>4. heap.mem[b + 1] \in Tags
  BY <1>1, <1>2, <1>3, WordFacts DEF Header
<1>5. SizeOf(heap, b) \in Nat
  BY <1>4, TagFacts DEF SizeOf, Header
<1> QED
  BY <1>1, <1>2, <1>5 DEF NextBlock, min

\* Every set of addresses has a greatest.
LEMMA GreatestBelow ==
    ASSUME NEW N \in Nat, NEW T \in SUBSET (0 .. N), T # {}
    PROVE  \E x \in T : \A z \in T : z <= x
<1> DEFINE R == {n \in Nat : N - n \in T}
<1>1. R \in SUBSET Nat /\ R # {}
  <2>1. PICK x \in T : x \in 0 .. N
    OBVIOUS
  <2>2. N - x \in Nat /\ N - (N - x) = x
    BY <2>1
  <2> QED
    BY <2>2
<1>2. PICK r \in R : \A q \in R : r <= q
  <2> HIDE DEF R
  <2> QED
    BY <1>1, LeastNatural
<1>3. N - r \in T
  OBVIOUS
<1>4. \A z \in T : z <= N - r
  <2> SUFFICES ASSUME NEW z \in T
               PROVE  z <= N - r
    OBVIOUS
  <2>1. z \in Nat /\ N - z \in Nat /\ N - (N - z) = z
    OBVIOUS
  <2>2. N - z \in R
    BY <2>1
  <2>3. r <= N - z /\ r \in Nat
    BY <1>2, <2>2
  <2> QED
    BY <2>1, <2>3
<1> QED
  BY <1>3, <1>4

\* The recursion that collects the blocks satisfies its definition.
LEMMA ChainedExists ==
    ASSUME NEW C, NEW y, NEW X, Sound(heap, C, y, X)
    PROVE  \E f : Chained(f)
<1> DEFINE S == 0 .. heap.end
           V == SUBSET Nat
           below == [b \in S |-> {k \in S : k > b}]
           D == [f \in [S -> V] |->
                    [b \in S |-> IF Goes(b) THEN {b} \cup f[NextBlock(heap, b)] ELSE {b}]]
<1>1. heap.end \in Nat
  <2>1. heap.epi \in Nat /\ heap.end = heap.epi + 2
    BY SoundFacts
  <2> QED
    BY <2>1
<1>2. Founded(S, below)
  <2>1. below \in [S -> SUBSET S]
    OBVIOUS
  <2>2. ASSUME NEW T \in SUBSET S, T # {}
        PROVE  \E x \in T : below[x] \cap T = {}
    <3>4. PICK x \in T : \A z \in T : z <= x
      BY <1>1, <2>2, GreatestBelow
    <3>5. \A k \in below[x] : k > x /\ k \in Int
      BY <2>2, <3>4
    <3>6. ASSUME NEW k \in below[x] \cap T
          PROVE  FALSE
      <4>1. k > x /\ k <= x /\ k \in Int /\ x \in Int
        BY <2>2, <3>4, <3>5
      <4> QED
        BY <4>1
    <3> QED
      BY <3>6
  <2> QED
    BY <2>1, <2>2 DEF Founded
<1>3. D \in [[S -> V] -> [S -> V]]
  <2> SUFFICES ASSUME NEW f \in [S -> V], NEW b \in S
               PROVE  (IF Goes(b) THEN {b} \cup f[NextBlock(heap, b)] ELSE {b}) \in V
    OBVIOUS
  <2>1. CASE Goes(b)
    <3>1. NextBlock(heap, b) \in S
      BY <2>1, GoesUp
    <3> QED
      BY <2>1, <3>1
  <2> QED
    BY <2>1
<1>4. Local(S, V, below, D)
  <2>1. ASSUME NEW f \in [S -> V], NEW g \in [S -> V], NEW b \in S,
               \A k \in below[b] : f[k] = g[k]
        PROVE  D[f][b] = D[g][b]
    <3>1. CASE Goes(b)
      <4>1. NextBlock(heap, b) \in S /\ NextBlock(heap, b) > b
        BY <3>1, GoesUp
      <4>2. f[NextBlock(heap, b)] = g[NextBlock(heap, b)]
        BY <2>1, <4>1
      <4> QED
        BY <4>2
    <3>2. CASE ~Goes(b)
      BY <3>2
    <3> QED
      BY <3>1, <3>2
  <2> QED
    BY <1>3, <2>1 DEF Local
<1>5. {} \in V
  OBVIOUS
<1>6. PICK f \in [S -> V] : f = D[f]
  <2> HIDE DEF S, V, below, D
  <2> QED
    BY <1>2, <1>4, <1>5, RecursiveFunctionExists
<1>7. Chained(f)
  BY <1>6 DEF Chained
<1> QED
  BY <1>7

\* From a block it collects that block and all that come after.
LEMMA ChainedIs ==
    ASSUME NEW C, NEW y, NEW X, Sound(heap, C, y, X), NEW f, Chained(f)
    PROVE  \A c \in C \cup {heap.epi} : f[c] = Rest(C, heap.epi, c)
<1>1. /\ heap.epi \in Nat /\ heap.end = heap.epi + 2 /\ heap.epi \notin C
      /\ Shape(heap.mem, C, heap.epi, y)
  BY SoundFacts
<1>2. PICK e : e = heap.epi
  OBVIOUS
<1>3. ASSUME NEW c \in C
      PROVE  /\ c \in Nat /\ c < e /\ Goes(c) /\ NextBlock(heap, c) \in C \cup {e}
             /\ NextBlock(heap, c) \in Nat /\ c < NextBlock(heap, c)
             /\ NextBlock(heap, c) <= e
  <2>1. /\ c \in Nat /\ c < e /\ heap.mem[c + 1] \in Tags /\ heap.mem[c + 1].size >= 4
        /\ Nx(heap.mem, c) \in C \cup {e} /\ Nx(heap.mem, c) \in Nat /\ c + 4 <= Nx(heap.mem, c)
        /\ Nx(heap.mem, c) <= e
    BY <1>2, BlockTypes
  <2>2. NextBlock(heap, c) = Nx(heap.mem, c)
    BY DEF NextBlock, Nx, SizeOf, Header
  <2>3. IsTag(Header(heap, c)) /\ SizeOf(heap, c) >= min
    BY <2>1, TagFacts DEF Header, SizeOf, min
  <2>4. NextBlock(heap, c) <= heap.end /\ c < NextBlock(heap, c)
    BY <1>1, <1>2, <2>1, <2>2
  <2> QED
    BY <1>2, <2>1, <2>2, <2>3, <2>4 DEF Goes
<1>4. \A b, c \in C : b < c => NextBlock(heap, b) <= c
  BY <1>1 DEF Shape, Chain, NextBlock, Nx, SizeOf, Header
<1>5. \A c \in 0 .. heap.end :
         f[c] = IF Goes(c) THEN {c} \cup f[NextBlock(heap, c)] ELSE {c}
  BY DEF Chained
<1> DEFINE T == {n \in Nat : \A c \in C \cup {e} : e - c = n => f[c] = Rest(C, e, c)}
<1>6. ASSUME NEW n \in Nat, \A k \in Nat : k < n => k \in T
      PROVE  n \in T
  <2> SUFFICES ASSUME NEW c \in C \cup {e}, e - c = n
               PROVE  f[c] = Rest(C, e, c)
    OBVIOUS
  <2>1. CASE c = e
    <3>1. c \in 0 .. heap.end /\ ~Goes(c)
      BY <1>1, <1>2, <2>1 DEF Goes
    <3>2. f[c] = {c}
      BY <1>5, <3>1
    <3>3. Rest(C, e, c) = {e}
      <4>1. \A b \in C : ~(b >= e)
        <5> SUFFICES ASSUME NEW b \in C
                     PROVE  ~(b >= e)
          OBVIOUS
        <5>1. b \in Nat /\ b < e
          BY <1>3
        <5> QED
          BY <1>1, <1>2, <5>1
      <4> QED
        BY <1>1, <1>2, <2>1, <4>1 DEF Rest
    <3> QED
      BY <2>1, <3>2, <3>3
  <2>2. CASE c \in C
    <3>1. PICK m : m = NextBlock(heap, c)
      OBVIOUS
    <3>2. /\ c \in Nat /\ c < e /\ Goes(c) /\ m \in C \cup {e}
          /\ m \in Nat /\ c < m /\ m <= e
      BY <1>3, <2>2, <3>1
    <3>3. f[c] = {c} \cup f[m]
      <4>1. c \in 0 .. heap.end
        BY <1>1, <1>2, <3>2
      <4> QED
        BY <1>5, <3>1, <3>2, <4>1
    <3>4. e - m \in Nat /\ e - m < n
      BY <1>1, <1>2, <3>2
    <3>5. f[m] = Rest(C, e, m)
      BY <1>6, <3>2, <3>4
    <3>6. Rest(C, e, c) = {c} \cup Rest(C, e, m)
      <4>1. ASSUME NEW b \in Rest(C, e, c)
            PROVE  b \in {c} \cup Rest(C, e, m)
        <5>1. b \in C \cup {e} /\ b >= c
          BY DEF Rest
        <5>2. CASE b = e \/ b = c
          BY <3>2, <5>1, <5>2 DEF Rest
        <5>3. CASE b \in C /\ b # c
          <6>1. b \in Nat /\ c < b
            BY <1>3, <3>2, <5>1, <5>3
          <6>2. m <= b
            BY <1>4, <2>2, <3>1, <5>3, <6>1
          <6> QED
            BY <3>2, <5>3, <6>1, <6>2 DEF Rest
        <5> QED
          BY <5>1, <5>2, <5>3
      <4>2. ASSUME NEW b \in {c} \cup Rest(C, e, m)
            PROVE  b \in Rest(C, e, c)
        <5>1. CASE b = c
          BY <2>2, <3>2, <5>1 DEF Rest
        <5>2. CASE b \in C \cup {e} /\ b >= m
          <6>1. b \in Nat
            BY <1>1, <1>2, <1>3, <5>2
          <6>2. b >= c
            BY <3>2, <5>2, <6>1
          <6> QED
            BY <5>2, <6>2 DEF Rest
        <5> QED
          BY <5>1, <5>2 DEF Rest
      <4> QED
        BY <4>1, <4>2
    <3> QED
      BY <3>3, <3>5, <3>6
  <2> QED
    BY <2>1, <2>2
<1>7. Nat \subseteq T
  <2> HIDE DEF T
  <2> QED
    BY <1>6, StrongInduction
<1> QED
  <2> SUFFICES ASSUME NEW c \in C \cup {e}
               PROVE  f[c] = Rest(C, e, c)
    BY <1>2
  <2>1. e - c \in Nat
    BY <1>1, <1>2, <1>3
  <2> QED
    BY <1>7, <2>1

\* The blocks that are found from the prologue on are those of the invariant.
LEMMA BlocksAre ==
    ASSUME NEW C, NEW y, NEW X, Sound(heap, C, y, X)
    PROVE  Blocks = C \cup {heap.epi} /\ InUse = C
<1>1. PICK g : Chained(g)
  BY ChainedExists
<1>2. PICK f : Chained(f) /\ Blocks = f[pro]
  <2> DEFINE P(f) == f = [b \in 0 .. heap.end |->
                             IF /\ b < heap.epi /\ IsTag(Header(heap, b)) /\ SizeOf(heap, b) >= min
                                /\ NextBlock(heap, b) <= heap.end
                             THEN {b} \cup f[NextBlock(heap, b)] ELSE {b}]
  <2>1. P(g)
    BY <1>1 DEF Chained, Goes
  <2>2. P(CHOOSE f : P(f))
    BY <2>1
  <2>3. Blocks = (CHOOSE f : P(f))[pro]
    BY DEF Blocks
  <2>4. PICK f : f = (CHOOSE r : P(r)) /\ P(f) /\ Blocks = f[pro]
    BY <2>2, <2>3
  <2>5. Chained(f)
    BY <2>4 DEF Chained, Goes
  <2> QED
    BY <2>4, <2>5
<1>3. pro \in C /\ heap.epi \notin C /\ heap.epi \in Nat
  BY SoundFacts
<1>4. f[pro] = Rest(C, heap.epi, pro)
  BY <1>2, <1>3, ChainedIs
<1>5. \A b \in C \cup {heap.epi} : b >= pro
  <2>1. \A b \in C : b \in Nat
    BY BlockTypes
  <2> QED
    BY <1>3, <2>1 DEF pro
<1>6. Blocks = C \cup {heap.epi}
  BY <1>2, <1>4, <1>5 DEF Rest
<1> QED
  BY <1>3, <1>6 DEF InUse

\* A heap that works and has been started is a heap of the invariant.
LEMMA StartedGood ==
    ASSUME IInv, Started
    PROVE  \E C : /\ Good(heap, C, live) /\ Sound(heap, C, -1, {}) /\ Quick(heap, C, {})
                  /\ Blocks = C \cup {heap.epi} /\ InUse = C
<1>1. Ready(heap, live) /\ heap.end > 0
  BY DEF IInv, Started
<1>2. heap.end # 0
  <2>1. heap.end \in Nat
    BY <1>1, ReadyTypes, HeapFacts, EvenFacts
  <2> QED
    BY <1>1, <2>1
<1>3. PICK C : Good(heap, C, live)
  BY <1>1, <1>2, NoHeapFacts DEF Ready
<1>4. Sound(heap, C, -1, {}) /\ Quick(heap, C, {})
  BY <1>3 DEF Good
<1>5. Blocks = C \cup {heap.epi} /\ InUse = C
  BY <1>4, BlocksAre
<1> QED
  BY <1>3, <1>4, <1>5

\* The tags of neighbours agree.
LEMMA TagsFollow ==
    ASSUME IInv
    PROVE  TagsAgree
<1> SUFFICES ASSUME Started
             PROVE  /\ heap.epi = heap.end - 2 /\ heap.epi \in Blocks
                    /\ \A b \in InUse :
                          LET n == NextBlock(heap, b)
                          IN  /\ n \in Blocks
                              /\ Header(heap, n).prv = Header(heap, b).alloc
                              /\ ~Header(heap, b).alloc =>
                                    /\ Header(heap, n).alloc
                                    /\ IsTag(Footer(heap, n))
                                    /\ Footer(heap, n).size = SizeOf(heap, b)
                                    /\ ~Footer(heap, n).alloc
  BY DEF TagsAgree
<1>1. PICK C : /\ Good(heap, C, live) /\ Sound(heap, C, -1, {})
               /\ Blocks = C \cup {heap.epi} /\ InUse = C
  BY StartedGood
<1>2. heap.epi = heap.end - 2
  BY <1>1 DEF Sound
<1>3. ASSUME NEW b \in C, NEW n, n = NextBlock(heap, b)
      PROVE  /\ n \in Blocks
             /\ Header(heap, n).prv = Header(heap, b).alloc
             /\ ~Header(heap, b).alloc =>
                   /\ Header(heap, n).alloc
                   /\ IsTag(Footer(heap, n))
                   /\ Footer(heap, n).size = SizeOf(heap, b)
                   /\ ~Footer(heap, n).alloc
  <2>1. /\ b \in Nat /\ heap.mem[b + 1] \in Tags /\ Nx(heap.mem, b) \in C \cup {heap.epi}
        /\ Joint(heap.mem, b, -1) /\ Nx(heap.mem, b) \in Nat
    BY <1>1, BlockTypes
  <2>2. n = Nx(heap.mem, b)
    BY <1>3 DEF NextBlock, Nx, SizeOf, Header
  <2>3. n \in Blocks
    BY <1>1, <2>1, <2>2
  <2>4. heap.mem[n + 1].prv = heap.mem[b + 1].alloc
    BY <2>1, <2>2 DEF Joint
  <2>5. ASSUME ~heap.mem[b + 1].alloc
        PROVE  /\ heap.mem[n + 1].alloc = TRUE /\ heap.mem[n] \in Tags
               /\ heap.mem[n].alloc = FALSE /\ heap.mem[n].size = heap.mem[b + 1].size
    <3>1. heap.mem[b + 1].alloc = FALSE
      BY <2>1, <2>5, TagFacts
    <3>2. b # -1 /\ n # -1
      BY <2>1, <2>2
    <3> QED
      BY <2>1, <2>2, <3>1, <3>2 DEF Joint
  <2> QED
    BY <2>3, <2>4, <2>5, TagFacts DEF Header, Footer, SizeOf
<1> QED
  BY <1>1, <1>2, <1>3

\* A footer that is read is that of the block before.
LEMMA FootersFollow ==
    ASSUME IInv
    PROVE  OldFootersTrue
<1>1. heap.fault # "abort"
  BY DEF IInv
<1>2. ASSUME Started, NEW b \in InUse, IsTag(Footer(heap, NextBlock(heap, b)))
      PROVE  Footer(heap, NextBlock(heap, b)).size = SizeOf(heap, b)
  <2>1. PICK C : Sound(heap, C, -1, {}) /\ InUse = C
    BY <1>2, StartedGood
  <2>2. /\ Nx(heap.mem, b) \in Addr /\ Joint(heap.mem, b, -1) /\ heap.mem \in [Addr -> Words]
    BY <1>2, <2>1, BlockTypes, SoundFacts
  <2>3. NextBlock(heap, b) = Nx(heap.mem, b)
    BY DEF NextBlock, Nx, SizeOf, Header
  <2>4. heap.mem[Nx(heap.mem, b)] \in Tags
    BY <1>2, <2>2, <2>3, WordFacts DEF Footer
  <2> QED
    BY <2>2, <2>3, <2>4 DEF Joint, Footer, SizeOf, Header
<1> QED
  BY <1>1, <1>2 DEF OldFootersTrue

\* Every free block is once on the free list of its class.
LEMMA FreeFollow ==
    ASSUME NEW C, Sound(heap, C, -1, {})
    PROVE  FreeExact(C)
<1>1. /\ heap.free \in [0 .. NUM_FREE_LISTS - 1 -> Seq(Even)] /\ C \ {} = C
      /\ \A i \in 0 .. NUM_FREE_LISTS - 1 : Lists(heap.free[i], Class(heap.mem, C \ {}, i))
  <2>1. heap \in Heaps /\ Listed(heap, C, {})
    BY DEF Sound
  <2> QED
    BY <2>1, HeapFacts DEF Listed
<1> SUFFICES ASSUME NEW i \in 0 .. NUM_FREE_LISTS - 1
             PROVE  /\ ToSet(heap.free[i]) = {b \in C : /\ ~Header(heap, b).alloc
                                                        /\ GetIndex(SizeOf(heap, b)) = i}
                    /\ IsInjective(heap.free[i])
  BY <1>1 DEF FreeExact
<1>2. Lists(heap.free[i], Class(heap.mem, C, i))
  BY <1>1
<1>3. ASSUME NEW b \in C
      PROVE  heap.mem[b + 1].alloc = FALSE <=> ~heap.mem[b + 1].alloc
  <2>1. heap.mem[b + 1].alloc \in BOOLEAN
    BY BlockTypes, TagFacts
  <2> QED
    BY <2>1
<1>4. Class(heap.mem, C, i) = {b \in C : /\ ~Header(heap, b).alloc
                                         /\ GetIndex(SizeOf(heap, b)) = i}
  BY <1>3 DEF Class, Header, SizeOf
<1> QED
  BY <1>2, <1>4 DEF Lists

\* Every block marked for a quick list is once on the list of its size.
LEMMA QuickFollow ==
    ASSUME NEW C, Sound(heap, C, -1, {}), Quick(heap, C, {})
    PROVE  QuickExact(C)
<1>1. heap.quick \in [0 .. NUM_QUICK_LISTS - 1 -> Seq(Even)]
  <2>1. heap \in Heaps
    BY DEF Sound
  <2> QED
    BY <2>1, HeapFacts
<1> SUFFICES ASSUME NEW i \in 0 .. NUM_QUICK_LISTS - 1
             PROVE  /\ ToSet(heap.quick[i]) = {b \in C : /\ Header(heap, b).qk
                                                         /\ QuickIndex(SizeOf(heap, b)) = i}
                    /\ IsInjective(heap.quick[i])
                    /\ Len(heap.quick[i]) <= QUICK_LIST_MAX
  BY <1>1 DEF QuickExact
<1>2. /\ Lists(heap.quick[i], Parked(heap.mem, C, i) \ {})
      /\ Len(heap.quick[i]) <= QUICK_LIST_MAX
  BY DEF Quick
<1>3. Parked(heap.mem, C, i) \ {} = Parked(heap.mem, C, i)
  OBVIOUS
<1>4. ASSUME NEW b \in C
      PROVE  heap.mem[b + 1].qk = TRUE <=> heap.mem[b + 1].qk
  <2>1. heap.mem[b + 1].qk \in BOOLEAN
    BY BlockTypes, TagFacts
  <2> QED
    BY <2>1
<1>5. Parked(heap.mem, C, i) = {b \in C : /\ Header(heap, b).qk
                                          /\ QuickIndex(SizeOf(heap, b)) = i}
  BY <1>4 DEF Parked, Header, SizeOf
<1> QED
  BY <1>2, <1>3, <1>5 DEF Lists

\* Every block is in one place, and the statistics are right.
LEMMA ListsFollow ==
    ASSUME IInv
    PROVE  ListsExact
<1>1. Works => /\ totalPayload = SumOf(live)
               /\ totalBlocks = SumOf([b \in DOMAIN live |-> SizeOf(heap, b)])
  BY DEF IInv, Totals, Sizes
<1>2. ASSUME Started
      PROVE  /\ \A b \in InUse \ {pro} :
                   LET tag == Header(heap, b)
                   IN  /\ b \in DOMAIN live <=> tag.alloc /\ ~tag.qk
                       /\ b \in DOMAIN live => tag.payload = live[b]
             /\ DOMAIN live \subseteq InUse \ {pro}
             /\ FreeExact(InUse) /\ QuickExact(InUse)
  <2>1. PICK C : /\ Good(heap, C, live) /\ Sound(heap, C, -1, {}) /\ Quick(heap, C, {})
                 /\ InUse = C
    BY <1>2, StartedGood
  <2>2. /\ DOMAIN live = Held(heap.mem, C)
        /\ \A b \in DOMAIN live : Is(heap.mem[b + 1], live[b], SizeOf(heap, b))
    BY <2>1, GoodFacts
  <2>3. ASSUME NEW b \in C \ {pro}
        PROVE  /\ b \in DOMAIN live <=> Header(heap, b).alloc /\ ~Header(heap, b).qk
               /\ b \in DOMAIN live => Header(heap, b).payload = live[b]
    <3>1. PICK t \in Tags : t = heap.mem[b + 1]
      BY <2>1, BlockTypes
    <3>2. t.alloc \in BOOLEAN /\ t.qk \in BOOLEAN
      BY TagFacts
    <3>3. b \in DOMAIN live <=> t.alloc = TRUE /\ t.qk = FALSE
      BY <2>2, <3>1 DEF Held
    <3>4. b \in DOMAIN live => t.payload = live[b]
      BY <2>2, <3>1 DEF Is
    <3> QED
      BY <3>1, <3>2, <3>3, <3>4 DEF Header
  <2>4. DOMAIN live \subseteq C \ {pro}
    BY <2>2 DEF Held
  <2>5. FreeExact(C) /\ QuickExact(C)
    BY <2>1, FreeFollow, QuickFollow
  <2> QED
    BY <2>1, <2>3, <2>4, <2>5
<1> QED
  BY <1>1, <1>2 DEF ListsExact, FreeExact, QuickExact

\* Memory holds whole words, and sizes and addresses stay aligned.
THEOREM HeapTypes ==
    Spec => []TypeOK
<1>1. IInv => TypeOK
  BY DEF IInv
<1> QED
  BY <1>1, Invariant, PTL

\* Before every call the blocks tile the heap, the tags of neighbours agree, and
\* a footer that release_block follows is that of the block before, also when
\* that block is allocated; valid_pointer never aborts on a block that is held.
THEOREM HeapWellFormed ==
    Spec => []HeapInv
<1>1. IInv => HeapInv
  BY TagsFollow, FootersFollow DEF HeapInv, IInv
<1> QED
  BY <1>1, Invariant, PTL

\* Every block is in exactly one place, held by the user, on the quick list of
\* its size or on the free list of its class, and the totals that the statistics
\* are computed from are those of the blocks that the user holds.
THEOREM ListsAreExact ==
    Spec => []ListsExact
<1>1. IInv => ListsExact
  BY ListsFollow
<1> QED
  BY <1>1, Invariant, PTL
=============================================================================
