---------------------------- MODULE SfmmInvariant ----------------------------
(***************************************************************************)
(* What is true of the allocator of hw3 (module Sfmm) between two calls,   *)
(* and what the parts of a call make of it: the words of the proofs in     *)
(* module SfmmProofs.                                                      *)
(*                                                                         *)
(* The properties of Sfmm are not inductive.  They find the blocks by      *)
(* following the sizes from the prologue on, which says nothing of memory  *)
(* beyond the heap, of the links of the lists, or of the order in which    *)
(* the setters write.  The invariant IInv has the set C of the blocks      *)
(* instead (Good): C is a chain from the prologue to the epilogue (Shape), *)
(* whose joints agree (Joint), the free lists hold the free blocks of C    *)
(* (Listed), the quick lists those that are marked (Quick), and the user   *)
(* all others (Holds).                                                     *)
(***************************************************************************)
EXTENDS Sfmm

-----------------------------------------------------------------------------
\* Words, tags, the setters of headers, and chains of blocks.

\* What a header becomes when the block before it changes its state.
Prv(word, alloc) == IF IsTag(word) THEN [word EXCEPT !.prv = alloc] ELSE word

\* A heap with other contents.
With(h, m) == [h EXCEPT !.mem = m]

\* The contents m after set_header.
HeaderSet(h, b, tag, m) ==
    /\ SetHeader(h, b, tag) = With(h, m)
    /\ m[b + 1] = tag
    /\ m[b + tag.size] = NewFooter(tag, h.mem[b + tag.size])
    /\ m[b + tag.size + 1] = Prv(h.mem[b + tag.size + 1], tag.alloc)
    /\ \A w \in Addr : w \notin {b + 1, b + tag.size, b + tag.size + 1} => m[w] = h.mem[w]

\* set_entire_header makes a free block of b, no smaller than it was.
Freed(h, b, tag, m) ==
    /\ SetEntireHeader(h, b, tag) = With(h, m)
    /\ m[b + 1] = tag /\ m[b + tag.size] = tag
    /\ m[b + tag.size + 1] = Prv(h.mem[b + tag.size + 1], FALSE)
    /\ \A w \in Addr : w <= b \/ w > b + tag.size + 1 => m[w] = h.mem[w]

\* set_entire_header changes what an allocated block's header says, but not its size.
Used(h, b, tag, m) ==
    /\ SetEntireHeader(h, b, tag) = With(h, m)
    /\ m[b + 1] = tag
    /\ m[b + tag.size + 1] = Prv(h.mem[b + tag.size + 1], TRUE)
    /\ \A w \in Addr : w \notin {b + 1, b + tag.size + 1} => m[w] = h.mem[w]

\* A new header, where there was none; the footer before it is written over.
Created(h, p, tag, m) ==
    /\ CreateHeader(h, p, tag) = With(h, m)
    /\ m[p + 1] = tag
    /\ m[p + tag.size] = NewFooter(tag, h.mem[p + tag.size])
    /\ m[p + tag.size + 1] = Prv(h.mem[p + tag.size + 1], tag.alloc)
    /\ \A w \in Addr : w \notin {p, p + 1, p + tag.size, p + tag.size + 1} => m[w] = h.mem[w]

\* split_block, when it finds blank words where the new header goes.
Clean(h, b, size) == SplitBlock(h, b, size).fault # "split over old contents"

\* The block b, whose tag is t, has room for two.
CanSplit(h, b, size, t) ==
    /\ t = h.mem[b + 1] /\ size >= min /\ size + min <= t.size /\ b + t.size + 1 \in Addr
    /\ b + size # h.epi /\ Clean(h, b, size)

\* The contents m after split_block: c is the tag of the first part, r that of
\* the rest.
Split(h, b, size, t, c, r, m) ==
    /\ SplitBlock(h, b, size) = With(h, m)
    /\ c = Tag(t.payload, size, t.alloc, t.prv, t.qk)
    /\ r = Tag(0, t.size - size, FALSE, t.alloc, FALSE)
    /\ m[b + 1] = c /\ m[b + size] = c
    /\ m[b + size + 1] = r /\ m[b + t.size] = r
    /\ m[b + t.size + 1] = Prv(h.mem[b + t.size + 1], FALSE)
    /\ \A w \in Addr : w \notin {b + 1, b + size, b + size + 1, b + t.size, b + t.size + 1}
                          => m[w] = h.mem[w]

\* Where the block after b starts, in the contents m.
Nx(m, b) == b + m[b + 1].size

\* C are the blocks from s to u, one after the other.
Chain(m, C, s, u) ==
    /\ C \subseteq Even /\ s \in Even /\ u \in Even /\ s <= u
    /\ \A b \in C : /\ s <= b /\ b < u /\ m[b + 1] \in Tags /\ m[b + 1].size >= 4
                    /\ Nx(m, b) \in C \cup {u} /\ Nx(m, b) <= u
    /\ \A b, c \in C : b < c => Nx(m, b) <= c
    /\ \A c \in C : c # s => \E b \in C : b < c /\ Nx(m, b) = c
    /\ s < u => s \in C /\ \E b \in C : Nx(m, b) = u

\* A block and the block after it; two free blocks side by side only at y.
Joint(m, b, y) ==
    /\ m[Nx(m, b) + 1].prv = m[b + 1].alloc
    /\ m[Nx(m, b)] \in Tags => m[Nx(m, b)].size = m[b + 1].size
    /\ m[b + 1].alloc = FALSE =>
          /\ m[b + 1].qk = FALSE /\ m[Nx(m, b)] \in Tags /\ m[Nx(m, b)].alloc = FALSE
          /\ m[Nx(m, b) + 1].alloc = TRUE \/ b = y \/ Nx(m, b) = y

\* The header at the end of the heap.
Epilogue(t) == t \in Tags /\ t.alloc = TRUE /\ t.qk = FALSE /\ t.size = 0

\* The header at its start.
Prologue(t) == t \in Tags /\ t.alloc = TRUE /\ t.qk = FALSE /\ t.size = 4

\* The contents m have the blocks C, from the prologue to the epilogue at e;
\* y may be free beside a free block (-1 if none is).
Shape(m, C, e, y) ==
    /\ m \in [Addr -> Words] /\ Chain(m, C, pro, e) /\ pro < e /\ e + 1 \in Addr
    /\ Epilogue(m[e + 1]) /\ Prologue(m[pro + 1])
    /\ \A b \in C : Joint(m, b, y)

\* Two tags that differ in what they say of the block before.
Same(t, u) ==
    t.payload = u.payload /\ t.size = u.size /\ t.alloc = u.alloc /\ t.qk = u.qk

\* Blocks that are as they were, what is in them included.
Kept(m, k, C) ==
    \A c \in C : /\ k[c + 1] \in Tags /\ Same(k[c + 1], m[c + 1])
                 /\ \A w \in Addr : c + 1 < w /\ w <= Nx(m, c) => k[w] = m[w]

\* The blocks before s.
Below(C, s) == {b \in C : b < s}

\* The blocks from u on.
From(C, u) == {b \in C : b >= u}

\* Nothing is written before s + 1.
LowerSame(m, k, C, e, s, x, y) ==
    /\ s \in C \cup {e} /\ s # pro
    /\ x = -1 \/ (x \in Nat /\ x >= s)
    /\ \A w \in Addr : w <= s => k[w] = m[w]
    /\ k[s + 1] \in Tags /\ k[s + 1].prv = m[s + 1].prv
    /\ k[s + 1].alloc = TRUE \/ m[s + 1].prv = TRUE \/ s = y

\* The blocks before s are a chain that ends in s.
LowerPart(m, k, C, s, y) ==
    /\ Chain(k, Below(C, s), pro, s) /\ \A b \in Below(C, s) : Joint(k, b, y)
    /\ Kept(m, k, Below(C, s)) /\ Prologue(k[pro + 1]) /\ pro < s

-----------------------------------------------------------------------------
\* A piece of the heap is rewritten.

\* The blocks from u on, when nothing is written after u + 1, and there only
\* what the header says of the block before.
UpperSame(m, k, C, e, u, x, y) ==
    /\ u \in C \cup {e} /\ u # pro
    /\ x = y \/ (x \in Int /\ x < u)
    /\ \A w \in Addr : w > u + 1 => k[w] = m[w]
    /\ k[u + 1] \in Tags /\ Same(k[u + 1], m[u + 1])

\* The blocks from u on are a chain that ends in the epilogue.
UpperPart(m, k, C, e, u, y) ==
    /\ Chain(k, From(C, u), u, e) /\ \A b \in From(C, u) : Joint(k, b, y)
    /\ Kept(m, k, From(C, u)) /\ Epilogue(k[e + 1])

\* What may be written when the blocks from s to u become N.
Rewrites(m, k, C, e, x, s, u, y) ==
    /\ s \in C /\ s # pro /\ u \in C \cup {e} /\ s < u
    /\ x = -1 \/ (x \in Nat /\ x >= s)
    /\ x = y \/ x < u
    /\ \A w \in Addr : w <= s \/ w > u + 1 => k[w] = m[w]
    /\ k[s + 1] \in Tags /\ k[s + 1].prv = m[s + 1].prv
    /\ k[s + 1].alloc = TRUE \/ m[s + 1].prv = TRUE \/ s = y
    /\ k[u + 1] \in Tags /\ Same(k[u + 1], m[u + 1])

\* The blocks from s on that are before u.
Between(C, s, u) == {b \in C : s <= b /\ b < u}

-----------------------------------------------------------------------------
\* Lists.

\* t holds each element of S once, and nothing else.
Lists(t, S) == t \in Seq(Even) /\ ToSet(t) = S /\ IsInjective(t)

-----------------------------------------------------------------------------
\* Sound heaps.

\* The free blocks of class i.
Class(m, C, i) == {b \in C : m[b + 1].alloc = FALSE /\ GetIndex(m[b + 1].size) = i}

\* The blocks of quick list i.
Parked(m, C, i) == {b \in C : m[b + 1].qk = TRUE /\ QuickIndex(m[b + 1].size) = i}

\* The free lists hold the free blocks, without those of X.
Listed(h, C, X) ==
    /\ \A i \in 0 .. NUM_FREE_LISTS - 1 : Lists(h.free[i], Class(h.mem, C \ X, i))
    /\ \A b \in C \ X : h.mem[b + 1].alloc = FALSE => h.mem[b + 2] = Link

\* The heap ends with a page, and what comes after was never written.
Ended(h) ==
    /\ \E n \in 1 .. MaxPages : h.end = n * PAGE_SZ
    /\ \A w \in Addr : w >= h.end => h.mem[w] = Blank

\* A heap with the blocks C, of which y may be free beside a free block, and
\* those of X may be off the lists although they are free.
Sound(h, C, y, X) ==
    /\ h \in Heaps /\ h.fault = "none" /\ h.epi = h.end - 2 /\ Ended(h)
    /\ Shape(h.mem, C, h.epi, y) /\ Listed(h, C, X)

\* The blocks P of C have been replaced by N; the others are as they were.
Replaced(h, g, C, D, P, N) ==
    /\ P \subseteq C /\ D = (C \ P) \cup N /\ N \cap (C \ P) = {}
    /\ Kept(h.mem, g.mem, C \ P) /\ g.quick = h.quick /\ g.epi = h.epi

\* The same, with names for the parts.
Redone(h, C, x, X, k, s, u, y, N, P, D) ==
    /\ Sound(h, C, x, X) /\ k \in [Addr -> Words]
    /\ Rewrites(h.mem, k, C, h.epi, x, s, u, y) /\ Chain(k, N, s, u)
    /\ P = Between(C, s, u) /\ D = (C \ P) \cup N
    /\ \A b \in N : Joint(k, b, y)
    /\ \A b \in P \ X : h.mem[b + 1].alloc = TRUE

-----------------------------------------------------------------------------
\* One block on a list or off it, with another tag, split or joined.

\* A free block is put on the list of its class.
Put(h, b, C, X, g) ==
    /\ PutBlock(h, b) = g
    /\ Sound(g, C, -1, X \ {b}) /\ Replaced(h, g, C, C, {b}, {b})
    /\ g.mem[b + 1] = h.mem[b + 1] /\ g.end = h.end

\* A block gets another tag of the same size.
Retagged(h, b, tag, C, y, X, g) ==
    /\ SetEntireHeader(h, b, tag) = g
    /\ Sound(g, C, y, X) /\ Replaced(h, g, C, C, {b}, {b})
    /\ g.mem[b + 1] = tag /\ g.end = h.end

\* What is in a block is as it was.
Contents(h, g, b) ==
    \A w \in Addr : b + 1 < w /\ w <= Nx(h.mem, b) => g.mem[w] = h.mem[w]

\* The block b can become one with this tag.
CanRetag(h, b, tag, C, x, X) ==
    /\ Sound(h, C, x, X) /\ b \in C /\ b # pro /\ tag \in Tags
    /\ tag.size = h.mem[b + 1].size /\ tag.prv = h.mem[b + 1].prv
    /\ h.mem[b + 1].alloc = TRUE \/ b \in X

\* The blocks from s to u become one that is free.
CanFree(h, s, u, tag, C, x, X, y) ==
    /\ Sound(h, C, x, X) /\ s \in C /\ s # pro /\ u \in C \cup {h.epi} /\ s < u /\ tag \in Tags
    /\ tag.size = u - s /\ tag.prv = h.mem[s + 1].prv
    /\ tag.alloc = FALSE /\ tag.qk = FALSE
    /\ x = -1 \/ (x \in Nat /\ x >= s)
    /\ x = y \/ x < u
    /\ s = y \/ (tag.prv = TRUE /\ h.mem[u + 1].alloc = TRUE)
    /\ \A b \in Between(C, s, u) \ X : h.mem[b + 1].alloc = TRUE

\* What becomes of the heap then.
Joined(h, s, u, tag, C, X, y, g) ==
    LET P == Between(C, s, u)
        D == (C \ P) \cup {s}
    IN  /\ SetEntireHeader(h, s, tag) = g
        /\ Sound(g, D, y, X \cup {s}) /\ Replaced(h, g, C, D, P, {s})
        /\ g.mem[s + 1] = tag /\ g.end = h.end

\* A block can be split.
CanCut(h, b, size, C, X) ==
    /\ Sound(h, C, -1, X) /\ b \in C /\ b # pro
    /\ size \in Even /\ size >= min /\ size + min <= h.mem[b + 1].size
    /\ h.mem[b + 1].alloc = TRUE \/ b \in X
    /\ Clean(h, b, size)

\* What becomes of it: b ends at p, where a free block starts that ends at u.
Cut(h, b, size, C, X, g, t, p, u) ==
    /\ SplitBlock(h, b, size) = g
    /\ t = h.mem[b + 1] /\ p = b + size /\ u = Nx(h.mem, b)
    /\ Sound(g, C \cup {p}, p, X \cup {b, p}) /\ Replaced(h, g, C, C \cup {p}, {b}, {b, p})
    /\ g.mem[b + 1] = Tag(t.payload, size, t.alloc, t.prv, t.qk)
    /\ g.mem[p + 1] = Tag(0, t.size - size, FALSE, t.alloc, FALSE)
    /\ g.mem[u + 1].alloc = h.mem[u + 1].alloc
    /\ Nx(g.mem, b) = p /\ Nx(g.mem, p) = u /\ p \notin C /\ g.end = h.end
    /\ p \in Even /\ b + 4 <= p /\ p + 4 <= u
    /\ \A w \in Addr : b + 1 < w /\ w < p => g.mem[w] = h.mem[w]

\* The tag of a block that the user holds.
Is(t, size, need) ==
    t \in Tags /\ t.payload = size /\ t.size = need /\ t.alloc = TRUE /\ t.qk = FALSE

\* A block has been split, and its first part is the user's.
Halved(h, b, need, size, C, X, g, p, u) ==
    /\ Divided(SplitBlock(h, b, need), b, size) = g
    /\ p = b + need /\ u = Nx(h.mem, b)
    /\ Sound(g, C \cup {p}, p, X \cup {p}) /\ Replaced(h, g, C, C \cup {p}, {b}, {b, p})
    /\ Is(g.mem[b + 1], size, need)
    /\ g.mem[p + 1].alloc = FALSE /\ g.mem[p + 1].prv = TRUE
    /\ g.mem[u + 1].alloc = h.mem[u + 1].alloc
    /\ Nx(g.mem, p) = u /\ p \notin C /\ g.end = h.end
    /\ \A w \in Addr : b + 1 < w /\ w < p => g.mem[w] = h.mem[w]

-----------------------------------------------------------------------------
\* release_block.

\* The block b, which is on no list, can be released.
CanRelease(h, b, C, x) ==
    /\ Sound(h, C, x, {b}) /\ b \in C /\ b # pro /\ (x = -1 \/ x = b)
    /\ IsTag(Footer(h, b))

\* What is joined: the blocks P from s to u, a before b and n after it.
Joins(h, b, C, a, n, s, u, P) ==
    /\ a \in C /\ a < b /\ Nx(h.mem, a) = b /\ PrevBlock(h, b) = a
    /\ n = Nx(h.mem, b) /\ NextBlock(h, b) = n
    /\ s \in C /\ s # pro /\ u \in C \cup {h.epi} /\ s <= b /\ b < u /\ s \in Even /\ u \in Even
    /\ IF JoinsPrev(h, a) THEN s = a /\ h.mem[a + 1].alloc = FALSE ELSE s = b
    /\ IF JoinsNext(h, n) THEN n \in C /\ h.mem[n + 1].alloc = FALSE /\ u = NextBlock(h, n)
       ELSE u = n
    /\ P = Between(C, s, u)
    /\ P = {b} \cup (IF JoinsPrev(h, a) THEN {a} ELSE {})
               \cup (IF JoinsNext(h, n) THEN {n} ELSE {})
    /\ h.mem[s + 1].prv = TRUE /\ h.mem[u + 1].alloc = TRUE

\* What release_block makes of the heap: the blocks P have become one, s.
Released(h, b, C, g, D, P, s) ==
    /\ ReleaseBlock(h, b) = g /\ Sound(g, D, -1, {}) /\ Replaced(h, g, C, D, P, {s})
    /\ b \in P /\ g.end = h.end /\ g.mem[s + 1].alloc = FALSE /\ g.mem[s + 1].qk = FALSE
    /\ \A c \in P \ {b} : h.mem[c + 1].alloc = FALSE

-----------------------------------------------------------------------------
\* What is allocated, what is parked, and what the user holds.

\* The blocks that are allocated.
Alloc(m, C) == {b \in C : m[b + 1].alloc = TRUE}

\* Those that the user holds: not the prologue, and not marked for a quick list.
Held(m, C) == {b \in C : b # pro /\ m[b + 1].alloc = TRUE /\ m[b + 1].qk = FALSE}

\* The blocks A are allocated no more, the blocks B are now, and the others are as they were.
Change(h, g, C, D, A, B) ==
    /\ Alloc(g.mem, D) = (Alloc(h.mem, C) \ A) \cup B
    /\ Kept(h.mem, g.mem, Alloc(h.mem, C) \ A)

\* The quick lists hold the blocks that are marked, without those of Y.
Quick(h, C, Y) ==
    \A i \in 0 .. NUM_QUICK_LISTS - 1 :
        /\ Lists(h.quick[i], Parked(h.mem, C, i) \ Y)
        /\ Len(h.quick[i]) <= QUICK_LIST_MAX

\* Words inside a block that is allocated change.
Scribbled(h, k, b) ==
    /\ k \in [Addr -> Words]
    /\ \A w \in Addr : w <= b + 1 \/ w > Nx(h.mem, b) => k[w] = h.mem[w]
    /\ k[Nx(h.mem, b)] \in Tags => k[Nx(h.mem, b)] = h.mem[Nx(h.mem, b)]

-----------------------------------------------------------------------------
\* sf_malloc from a quick list or a free list.

\* The call has found the block b for the user, who did not hold it.
Gives(h, C, size, g, D, b) ==
    /\ Sound(g, D, -1, {}) /\ Change(h, g, C, D, {b}, {b})
    /\ b \in D /\ b # pro /\ b \notin Held(h.mem, C)
    /\ Is(g.mem[b + 1], size, g.mem[b + 1].size)
    /\ g.mem[b + 1].size >= GetMinSize(size)
    /\ Quick(g, D, {})

\* The faults after which the heap may be ill-formed, but is still one.
Broken == {"left on its list", "epilogue left behind", "epilogue miscounts"}

\* What a call of sf_malloc may come to in a heap that is there.
Finds(h, C, size, got) ==
    \/ got.heap.fault \in Undefined
    \/ got = Got(h, pro)
    \/ \E g \in Heaps, b \in Even :
          got = Got(g, b) /\ \E D : Gives(h, C, size, g, D, b)
    \/ \E g \in Heaps, b \in Even :
          got = Got(g, b) /\ g.fault \in Broken /\ (b = pro \/ g.mem[b + 1].size \in Nat)

\* What is written when a block is given, whatever the lists.
CanAllot(h, b, t) == b # h.epi /\ t = h.mem[b + 1] /\ t.size >= 2 /\ b + t.size + 1 \in Addr

\* What is written then.
Allots(h, b, size, t, g, k) ==
    /\ Allocated(h, b, size) = g /\ g = With(h, k) /\ g.mem = k
    /\ Is(k[b + 1], size, t.size)
    /\ k[b + 1].prv = t.prv
    /\ k[b + t.size + 1] = Prv(h.mem[b + t.size + 1], TRUE)
    /\ \A w \in Addr : w # b + 1 /\ w # b + t.size + 1 => k[w] = h.mem[w]

-----------------------------------------------------------------------------
\* sf_malloc by growing the heap.

\* The free lists hold the free blocks among B, and b may be on some of them.
Spare(g, m, B) == \A i \in 0 .. NUM_FREE_LISTS - 1 : Lists(g.free[i], Class(m, B, i))

\* The same, when b may still be on one of them.
Kin(g, m, B, b) ==
    \A i \in 0 .. NUM_FREE_LISTS - 1 :
        \E S \in SUBSET {b} : Lists(g.free[i], Class(m, B, i) \cup S)

\* The heap but for its lists.
Alike(g, f) ==
    /\ f.mem = g.mem /\ f.quick = g.quick /\ f.epi = g.epi /\ f.end = g.end
    /\ f.fault = g.fault

\* b has been taken off its list.
Unlisted(g, b, m, B, f) == RemoveList(g, b) = f /\ Alike(g, f) /\ Spare(f, m, B)

\* b, of size n, has been put on the list of its class.
PutOn(g, b, m, B, n, f) ==
    /\ PutBlock(g, b) = f
    /\ f.quick = g.quick /\ f.epi = g.epi /\ f.end = g.end /\ f.fault = g.fault
    /\ f.mem[b + 2] = Link
    /\ \A w \in Addr : w # b + 2 /\ w # b + 3 => f.mem[w] = g.mem[w]
    /\ \A i \in 0 .. NUM_FREE_LISTS - 1 :
          Lists(f.free[i], Class(m, B, i) \cup (IF i = GetIndex(n) THEN {b} ELSE {}))

\* The last block a of a heap that has grown from h, of size s, with the end at z.
Grown(h, B, a, s, z, g) ==
    /\ g \in Heaps /\ g.quick = h.quick /\ g.epi = h.epi /\ g.fault = "none" /\ g.end = z
    /\ \A w \in Addr : w <= a => g.mem[w] = h.mem[w]
    /\ g.mem[a + 1] \in Tags /\ g.mem[a + 1].size = s /\ g.mem[a + 1].prv = h.mem[a + 1].prv
    /\ \A w \in Addr : w >= z => g.mem[w] = Blank
    /\ Kin(g, h.mem, B, a) /\ (g.mem[a + 2] = Blank => Spare(g, h.mem, B))
    /\ z = a + s + 2

\* It can grow by one page more.
CanGrow(h, B, a, s, z) ==
    /\ a \in Even /\ a \notin B /\ s \in Even /\ z \in Even /\ (a = h.epi \/ s >= 2)
    /\ z + PAGE_SZ <= Top

\* The last block can get a larger size.
CanRetagLast(h, a, tag) ==
    /\ tag.alloc = FALSE
    /\ h.mem[a + 1] \in Tags /\ (a = h.epi \/ h.mem[a + 1].size >= 2)
    /\ h.mem[a + 1].size <= tag.size /\ tag.size >= 2 /\ a + tag.size + 1 \in Addr

\* What is written then.
LastTag(h, a, tag, k) ==
    /\ SetEntireHeader(h, a, tag) = With(h, k) /\ k[a + 1] = tag
    /\ \A w \in Addr : w <= a \/ w > a + tag.size + 1 => k[w] = h.mem[w]

\* It has grown by one page more.
Grows(h, B, a, s, z, g, f) ==
    /\ Grow(g, a) = f /\ Grown(h, B, a, s + PAGE_SZ, z + PAGE_SZ, f)
    /\ f.mem[a + 1].alloc = FALSE /\ f.mem[a + 1].qk = FALSE

\* f gives the results of a step, from the first on.
Iterates(N, first, step, f) ==
    f[0] = first /\ \A n \in 1 .. N : f[n] = step[<<n, f[n - 1]>>]

\* The last block of the heap, which is free, or the epilogue, and its size.
CanLast(h, C, a, s) ==
    /\ Sound(h, C, -1, {})
    /\ \/ a = h.epi /\ s = 0
       \/ /\ a \in C /\ a # pro /\ h.mem[a + 1].alloc = FALSE /\ s = h.mem[a + 1].size
          /\ Nx(h.mem, a) = h.epi

\* It has grown by n pages.
Bigger(h, C, a, s, n, f) ==
    /\ Grew(h, a, n) = f
    /\ Grown(h, C \ {a}, a, s + n * PAGE_SZ, h.end + n * PAGE_SZ, f)
    /\ n >= 1 => f.mem[a + 1].alloc = FALSE /\ f.mem[a + 1].qk = FALSE

\* The last block ends at the epilogue.
LastAt(h, a, s) == a \in Nat /\ s \in Nat /\ a + s = h.epi

\* What memory is when the last block has been given, and its rest is free.
Ending(h, a, need, size, S, k) ==
    /\ \A w \in Addr : w <= a => k[w] = h.mem[w]
    /\ Is(k[a + 1], size, need) /\ k[a + 1].prv = h.mem[a + 1].prv
    /\ k[a + need] \in Tags /\ k[a + need].size = need
    /\ k[a + need + 1] \in Tags /\ k[a + need + 1].size = S - need
    /\ k[a + need + 1].alloc = FALSE /\ k[a + need + 1].prv = TRUE
    /\ k[a + need + 1].qk = FALSE /\ k[a + need + 2] = Link
    /\ k[a + S] \in Tags /\ k[a + S].size = S - need /\ k[a + S].alloc = FALSE
    /\ Epilogue(k[a + S + 1]) /\ k[a + S + 1].prv = FALSE
    /\ \A w \in Addr : w >= a + S + 2 => k[w] = Blank

\* The last block, of size s and grown to S, has room for what is needed and for
\* a block more.
CanEnd(h, C, a, s, need, S) ==
    /\ CanLast(h, C, a, s) /\ need \in Even /\ need >= min /\ S \in Even /\ need + min <= S
    /\ a + S + 1 \in Addr /\ s < need

\* The blocks D of the heap then.
Ends1(h, C, a, p, e, k, D) ==
    /\ D = (C \ {a}) \cup {a, p} /\ Shape(k, D, e, -1) /\ Kept(h.mem, k, C \ {a})
    /\ p \in Even /\ p \notin C /\ a < p

\* A heap g whose last block has been given.
GrowthDone(h, C, a, need, size, S, g) ==
    /\ g \in Heaps /\ g.fault = "none" /\ g.quick = h.quick /\ g.epi = a + S
    /\ g.end = a + S + 2 /\ (\E n \in 1 .. MaxPages : g.end = n * PAGE_SZ)
    /\ Ending(h, a, need, size, S, g.mem)
    /\ \A i \in 0 .. NUM_FREE_LISTS - 1 :
          Lists(g.free[i], Class(h.mem, C \ {a}, i)
                           \cup (IF i = GetIndex(S - need) THEN {a + need} ELSE {}))

\* The epilogue is put at the end of the heap.
Moved(h, e, g, k) ==
    /\ MoveEpilogue(h) = g /\ g.mem = k /\ g.free = h.free /\ g.quick = h.quick
    /\ g.epi = e /\ g.end = h.end /\ g.fault = h.fault
    /\ Epilogue(k[e + 1])
    /\ k[e + 1].prv = (IsTag(h.mem[e]) /\ h.mem[e].alloc)
    /\ \A w \in Addr : w # e + 1 => k[w] = h.mem[w]

\* The heap that has grown, with its last block off the lists.
CanGive(h, C, a, s, need, S, w) ==
    /\ CanLast(h, C, a, s) /\ need \in Even /\ need >= min /\ S \in Even /\ need <= S
    /\ s < need /\ a + S + 1 \in Addr
    /\ w \in Heaps /\ w.quick = h.quick /\ w.epi = h.epi /\ w.fault = "none"
    /\ w.end = a + S + 2 /\ (\E n \in 1 .. MaxPages : w.end = n * PAGE_SZ)
    /\ \A x \in Addr : x <= a => w.mem[x] = h.mem[x]
    /\ w.mem[a + 1] \in Tags /\ w.mem[a + 1].size = S /\ w.mem[a + 1].prv = h.mem[a + 1].prv
    /\ w.mem[a + 1].alloc = FALSE /\ w.mem[a + 1].qk = FALSE
    /\ \A x \in Addr : x >= a + S + 2 => w.mem[x] = Blank
    /\ Spare(w, h.mem, C \ {a})

\* The block is given whole: the epilogue is then told that the one before is free.
Miscounts(w, a, size, g) ==
    /\ g = Fails(MoveEpilogue(Allocated([w EXCEPT !.epi = w.end - 2], a, size)),
                 "epilogue miscounts")
    /\ g.fault \in Broken /\ g.mem[a + 1].size \in Nat

\* The heap after the split, by the functions of the code.
GivenFrom(w, a, need, size) ==
    LET cut == SplitBlock(w, a, need)
        put == PutBlock(SetEntireHeader(cut, a + need, Header(cut, a + need)), a + need)
    IN  MoveEpilogue(Allocated([put EXCEPT !.epi = put.end - 2], a, size))

\* What the last block is, by the footer before the epilogue.
LastOf(h) ==
    LET before == PrevBlock(h, h.epi)
    IN  IF Header(h, before).alloc THEN h.epi ELSE before

-----------------------------------------------------------------------------
\* sf_malloc from any heap, and from none.

\* The contents of the first page, with the epilogue at e and one free block of
\* size n.
Fresh(m, e, n) ==
    /\ Prologue(m[1]) /\ m[4] \in Tags /\ m[4].size = 4
    /\ m[5] \in Tags /\ m[5].size = n /\ m[5].alloc = FALSE /\ m[5].prv = TRUE /\ m[5].qk = FALSE
    /\ m[e] \in Tags /\ m[e].size = n /\ m[e].alloc = FALSE
    /\ Epilogue(m[e + 1]) /\ m[e + 1].prv = FALSE
    /\ \A w \in Addr : w >= e + 2 => m[w] = Blank

\* The heap that the first call of sf_malloc makes.
FreshHeap(g) ==
    /\ g \in Heaps /\ g.fault = "none" /\ g.end = PAGE_SZ /\ g.epi = PAGE_SZ - 2
    /\ \A i \in 0 .. NUM_QUICK_LISTS - 1 : g.quick[i] = <<>>
    /\ Fresh(g.mem, PAGE_SZ - 2, PAGE_SZ - 6) /\ g.mem[6] = Link
    /\ \A i \in 0 .. NUM_FREE_LISTS - 1 :
          Lists(g.free[i], IF i = GetIndex(PAGE_SZ - 6) THEN {4} ELSE {})

-----------------------------------------------------------------------------
\* The statistics.

\* What f gives, or 0.
At(f, n) == IF n \in DOMAIN f THEN f[n] ELSE 0

\* s[n] is what f gives for the addresses below n.
Adds(f, s) ==
    /\ SumOf(f) = s[Top] /\ s[0] = 0
    /\ \A n \in 0 .. Top : s[n] \in Nat
    /\ \A n \in 1 .. Top : s[n] = s[n - 1] + At(f, n - 1)

-----------------------------------------------------------------------------
\* The invariant.

\* The user holds the blocks that are allocated and not on a quick list, f gives
\* what was asked for, and there is room for it.
Holds(h, C, f) ==
    /\ f \in [Held(h.mem, C) -> Nat]
    /\ \A b \in Held(h.mem, C) : h.mem[b + 1].payload = f[b] /\ f[b] + 1 <= h.mem[b + 1].size

\* A heap between two calls, with the blocks C; f says what the user holds.
Good(h, C, f) == Sound(h, C, -1, {}) /\ Quick(h, C, {}) /\ Holds(h, C, f)

\* The same, or no heap yet.
Ready(h, f) ==
    \/ h = NoHeap /\ DOMAIN f = {} /\ f \in [{} -> Nat]
    \/ h.end # 0 /\ \E C : Good(h, C, f)

\* The sizes of the blocks that the user holds.
Sizes(h, f) == [b \in DOMAIN f |-> SizeOf(h, b)]

\* A block more.
More(h, f, g, b, size) ==
    /\ b \notin DOMAIN f /\ b \in Addr /\ b \in Even /\ b # pro /\ SizeOf(g, b) \in Nat
    /\ DOMAIN Given(f, b, size) = DOMAIN f \cup {b}
    /\ Kept(h.mem, g.mem, DOMAIN f)
    /\ Sizes(g, Given(f, b, size)) = Given(Sizes(h, f), b, SizeOf(g, b))

\* The totals that sf_internal_fragmentation and sf_peak_utilization read.
Totals(h, f, payload, blocks) == payload = SumOf(f) /\ blocks = SumOf(Sizes(h, f))

\* The inductive invariant.
IInv ==
    /\ TypeOK /\ heap.fault # "abort"
    /\ Works => Ready(heap, live) /\ Totals(heap, live, totalPayload, totalBlocks)

\* A step that leaves the heap well-formed.
Well(h, f, payload, blocks) == Ready(h, f) /\ Totals(h, f, payload, blocks)

-----------------------------------------------------------------------------
\* sf_malloc, and the user's own writes.

\* A block of the user is touched, and its payload may have another size.
Touched(h, C, b, n, g) ==
    /\ Sound(g, C, -1, {}) /\ Replaced(h, g, C, C, {b}, {b})
    /\ Is(g.mem[b + 1], n, h.mem[b + 1].size) /\ n \in Nat /\ n + 1 <= h.mem[b + 1].size

-----------------------------------------------------------------------------
\* sf_free.

\* What release_block makes of an allocated block.
Frees(h, b, C, g) ==
    \/ g.fault \in Undefined
    \/ \E D : Sound(g, D, -1, {}) /\ Change(h, g, C, D, {b}, {}) /\ g.quick = h.quick

\* A block less.
Less(h, f, g, b) ==
    /\ DOMAIN Taken(f, b) = DOMAIN f \ {b} /\ Kept(h.mem, g.mem, DOMAIN f \ {b})
    /\ Sizes(g, Taken(f, b)) = Taken(Sizes(h, f), b)

\* The block b of the user is marked for quick list i, and not yet on it.
Room(h, f, b, i, g, D) ==
    /\ Sound(g, D, -1, {}) /\ Quick(g, D, {b}) /\ b # pro /\ b \in Parked(g.mem, D, i)
    /\ Held(g.mem, D) = DOMAIN f \ {b} /\ Kept(h.mem, g.mem, DOMAIN f \ {b})

\* What sf_free first does to a small block.
Mark(h, b, g) ==
    SetEntireHeader(h, b, Tag(0, Header(h, b).size, Header(h, b).alloc, Header(h, b).prv, TRUE)) = g

\* What it does when the list has room.
OnList(g, b, i) == [g EXCEPT !.quick[i] = <<b>> \o @, !.mem[b + 2] = Link]

\* What comes of releasing the allocated blocks A.
Freeing(h, C, A, g) ==
    \/ g.fault \in Undefined
    \/ \E D : Sound(g, D, -1, {}) /\ Change(h, g, C, D, A, {}) /\ g.quick = h.quick

\* One step of a flush.
ReleaseNext(g, b) == IF g.fault # "none" THEN g ELSE ReleaseBlock(g, b)

\* The first n of a list.
UpTo(t, n) == {t[j] : j \in 1 .. n}

\* What has come of the first n.
Frees1(h, C, t, n, g) == g \in Heaps /\ Freeing(h, C, UpTo(t, n), g)

\* The list t of the allocated blocks S can be released.
Flushed(h, C, t, S) ==
    Sound(h, C, -1, {}) /\ Lists(t, S) /\ S \subseteq Alloc(h.mem, C) /\ pro \notin S

\* What comes of releasing the blocks of a full list.
Flushes(h, f, b, i, e) ==
    \/ e.fault \in Undefined
    \/ e.fault = "wrong list emptied"
    \/ e.fault = "none" /\ \E D : Room(h, f, b, i, e, D) /\ Len(e.quick[i]) < QUICK_LIST_MAX

\* What sf_free makes of a heap.
FreesOne(h, f, b, e) ==
    \/ e.fault \in Undefined
    \/ e.fault = "wrong list emptied"
    \/ \E D : Good(e, D, Taken(f, b)) /\ Less(h, f, e, b)

-----------------------------------------------------------------------------
\* sf_realloc to a larger size.

\* What is copied from the block b to the block c.
Copies(g, D, q, b, c, e) ==
    /\ Good(e, D, q) /\ Kept(g.mem, e.mem, DOMAIN q \ {c}) /\ Sizes(e, q) = Sizes(g, q)
    /\ \A w \in Payload(b, SizeOf(g, b)) : e.mem[w - b + c] = g.mem[w]

\* The user holds both blocks, and the second is larger.
CanCopy(g, D, q, b, c) ==
    /\ Good(g, D, q) /\ b \in DOMAIN q /\ c \in DOMAIN q /\ b # c
    /\ SizeOf(g, b) + 2 <= SizeOf(g, c)

\* The block b was found a new place c in the heap g, which it is copied to and freed.
CanMove(h, C, f, b, size, g, D, c) ==
    /\ Good(h, C, f) /\ b \in DOMAIN f
    /\ Good(g, D, Given(f, c, size)) /\ More(h, f, g, c, size)
    /\ SizeOf(h, b) + 2 <= SizeOf(g, c)

\* What the heap is when that is done.
Arrived(h, f, b, size, g, c, q, e) ==
    /\ \E E : Good(e, E, q)
    /\ Kept(h.mem, e.mem, DOMAIN f \ {b}) /\ Arrives(h, b, e, c, f[b])
    /\ Sizes(e, q) = Taken(Given(Sizes(h, f), c, SizeOf(g, c)), b)

\* What may come of it.
Moves(h, f, b, size, g, c, e) ==
    \/ e.fault \in Undefined
    \/ e.fault = "wrong list emptied"
    \/ Arrived(h, f, b, size, g, c, Taken(Given(f, c, size), b), e)

-----------------------------------------------------------------------------
\* sf_realloc to a smaller size.

\* A block of the user has another size, and the others are as they were.
Resized(h, C, b, n, z, e, D) ==
    /\ Sound(e, D, -1, {}) /\ Change(h, e, C, D, {b}, {b}) /\ e.quick = h.quick
    /\ Is(e.mem[b + 1], n, z) /\ n \in Nat /\ z \in Nat /\ n + 1 <= z

\* The user holds n in the block b.
NewSize(f, b, n) == [f EXCEPT ![b] = n]

\* A block that is split, and the rest of it released.
Shrinks(h, C, b, size, need, e) ==
    \/ e.fault \in Undefined
    \/ /\ \E D : Resized(h, C, b, size, need, e, D)
       /\ \A w \in Addr : b + 1 < w /\ w < b + need => e.mem[w] = h.mem[w]

\* It can be split.
CanShrink(h, C, f, b, size, need) ==
    /\ Good(h, C, f) /\ b \in DOMAIN f /\ need \in Even /\ need >= min /\ size + 1 <= need
    /\ need + min <= SizeOf(h, b) /\ Clean(h, b, need)

\* A block of the user has another size: the invariant and what is in it.
Resizes(C, b, size, z, e) ==
    /\ Good(heap, C, live) /\ b \in DOMAIN live /\ size \in Nat
    /\ Totals(heap, live, totalPayload, totalBlocks)
    /\ \E D : Resized(heap, C, b, size, z, e, D)
    /\ Arrives(heap, b, e, b, Min({live[b], size}))

\* The heap after sf_realloc has split a block.
Parted(h, b, size, need) ==
    LET cut == SplitBlock(h, b, need)
        rest == Divided(cut, b, size)
    IN  IF cut.fault # "none" THEN cut
        ELSE IF b + need \in Payload(b, size) /\ Footer(h, b + need) = Data
             THEN Fails(rest, "footer over data")
        ELSE ReleaseBlock(rest, b + need)

\* The heap after sf_realloc to a smaller block, by cases.
Shrunk(h, b, size) ==
    LET need == GetMinSize(size)
    IN  CASE need < min -> Fails(h, "request wraps")
          [] need >= min /\ SizeOf(h, b) - need < min -> Allocated(h, b, size)
          [] OTHER -> Parted(h, b, size, need)

-----------------------------------------------------------------------------
\* The blocks that are found from the prologue on, and the properties.

\* What comes after the block b is looked at.
Goes(b) == /\ b < heap.epi /\ IsTag(Header(heap, b)) /\ SizeOf(heap, b) >= min
           /\ NextBlock(heap, b) <= heap.end

\* The blocks from b on, by where the next one starts.
Chained(f) ==
    f = [b \in 0 .. heap.end |-> IF Goes(b) THEN {b} \cup f[NextBlock(heap, b)] ELSE {b}]

\* The block c and all that come after.
Rest(C, e, c) == {b \in C \cup {e} : b >= c}

\* What the free lists are, if the blocks are C.
FreeExact(C) ==
    \A i \in DOMAIN heap.free :
        /\ ToSet(heap.free[i]) = {b \in C : /\ ~Header(heap, b).alloc
                                            /\ GetIndex(SizeOf(heap, b)) = i}
        /\ IsInjective(heap.free[i])

\* What the quick lists are.
QuickExact(C) ==
    \A i \in DOMAIN heap.quick :
        /\ ToSet(heap.quick[i]) = {b \in C : /\ Header(heap, b).qk
                                             /\ QuickIndex(SizeOf(heap, b)) = i}
        /\ IsInjective(heap.quick[i])
        /\ Len(heap.quick[i]) <= QUICK_LIST_MAX
=============================================================================
