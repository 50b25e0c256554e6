---------------------------- MODULE BufferProofs ----------------------------
(***************************************************************************)
(* For any items, any size of the first block and any number of blocks:    *)
(* BufferInv is an invariant of Spec (the blocks of a buffer lie end to    *)
(* end, full up to the current one), and Buffer implements Items.          *)
(***************************************************************************)
EXTENDS Buffer, TLAPS, SequenceTheorems

USE BufferAssumption

-----------------------------------------------------------------------------
(* The invariant. *)

LEMMA NewBlockType ==
  ASSUME NEW max \in Nat, NEW previous \in Nat
  PROVE  /\ NewBlock(max, previous) \in Block
         /\ Len(NewBlock(max, previous).items) = max
         /\ NewBlock(max, previous).maxhere = max
         /\ NewBlock(max, previous).numprevious = previous
         /\ NewBlock(max, previous).numhere = 0
<1> DEFINE new == [i \in 1..max |-> Null]
<1>1. new \in Seq(Item \cup {Null}) /\ Len(new) = max
  OBVIOUS
<1> QED
  BY <1>1 DEF NewBlock, Block

LEMMA StoreType ==
  ASSUME NEW blk \in Block, Len(blk.items) = blk.maxhere, blk.numhere < blk.maxhere, NEW x \in Item
  PROVE  /\ Store(blk, x) \in Block
         /\ Store(blk, x).maxhere = blk.maxhere
         /\ Store(blk, x).numprevious = blk.numprevious
         /\ Store(blk, x).numhere = blk.numhere + 1
         /\ Len(Store(blk, x).items) = blk.maxhere
         /\ Store(blk, x).items[blk.numhere + 1] = x
         /\ \A i \in 1..blk.numhere : Store(blk, x).items[i] = blk.items[i]
<1> DEFINE items == [blk.items EXCEPT ![blk.numhere + 1] = x]
<1>1. blk.numhere \in Nat /\ blk.maxhere \in Nat /\ blk.items \in Seq(Item \cup {Null})
  BY DEF Block
<1>2. blk.numhere + 1 \in DOMAIN blk.items
  BY <1>1
<1>3. /\ items \in Seq(Item \cup {Null}) /\ Len(items) = blk.maxhere
      /\ items[blk.numhere + 1] = x
      /\ \A i \in 1..blk.numhere : items[i] = blk.items[i]
  BY <1>1, <1>2
<1>4. Store(blk, x) = [maxhere |-> blk.maxhere, numprevious |-> blk.numprevious,
                       numhere |-> blk.numhere + 1, items |-> items]
  BY DEF Store
<1> HIDE DEF items
<1> QED
  BY <1>1, <1>3, <1>4 DEF Block

LEMMA EmptiedType ==
  ASSUME NEW blk \in Block
  PROVE  /\ Emptied(blk) \in Block /\ Emptied(blk).maxhere = blk.maxhere
         /\ Emptied(blk).numprevious = blk.numprevious /\ Emptied(blk).items = blk.items
         /\ Emptied(blk).numhere = 0
BY DEF Emptied, Block

LEMMA InvInit == Init => BufferInv
<1> SUFFICES ASSUME Init
             PROVE  BufferInv
  OBVIOUS
<1> DEFINE b0 == NewBlock(MaxHere, 0)
<1>1. /\ b0 \in Block /\ Len(b0.items) = MaxHere /\ b0.maxhere = MaxHere
      /\ b0.numprevious = 0 /\ b0.numhere = 0
  BY NewBlockType
<1>2. /\ blocks \in Seq(Block) /\ Len(blocks) = 1 /\ blocks[1] = b0
      /\ current = 1 /\ nextblk = 1 /\ nextindex = 0
  BY <1>1 DEF Init
<1>3. DOMAIN blocks = {1}
  BY <1>2
<1> HIDE DEF b0
<1>4. TypeOK /\ Filled /\ CursorInside
  BY <1>1, <1>2, <1>3 DEF TypeOK, Filled, CursorInside
<1>5. Contiguous
  BY <1>1, <1>2, <1>3 DEF Contiguous, End, InSlots
<1> QED
  BY <1>4, <1>5 DEF BufferInv

\* What the invariant says of the blocks, in one place.
LEMMA BlockFacts ==
  ASSUME BufferInv
  PROVE  /\ blocks \in Seq(Block) /\ DOMAIN blocks = 1..Len(blocks) /\ Len(blocks) \in Nat \ {0}
         /\ current \in DOMAIN blocks
         /\ \A b \in DOMAIN blocks :
              /\ blocks[b] \in Block
              /\ blocks[b].maxhere \in Nat \ {0} /\ blocks[b].numprevious \in Nat
              /\ blocks[b].numhere \in 0..blocks[b].maxhere
              /\ Len(blocks[b].items) = blocks[b].maxhere
              /\ End(b) = blocks[b].numprevious + blocks[b].maxhere
<1>1. blocks \in Seq(Block) /\ current \in DOMAIN blocks
  BY DEF BufferInv, TypeOK
<1>2. DOMAIN blocks = 1..Len(blocks) /\ Len(blocks) \in Nat \ {0}
  BY <1>1
<1>3. \A b \in DOMAIN blocks : blocks[b] \in Block
  BY <1>1, <1>2
<1>4. ASSUME NEW b \in DOMAIN blocks
      PROVE  blocks[b].numhere \in 0..blocks[b].maxhere
  <2>1. blocks[b].numhere \in Nat /\ blocks[b].maxhere \in Nat /\ b \in Nat /\ current \in Nat
    BY SMTT(60), <1>1, <1>2, <1>3, <1>4 DEF Block
  <2> QED
    BY <2>1, <1>4 DEF BufferInv, Filled
<1> QED
  BY SMTT(60), <1>1, <1>2, <1>3, <1>4 DEF BufferInv, Contiguous, Block, End

\* A step that leaves the extents of the blocks alone keeps them contiguous.
LEMMA ContiguousKept ==
  ASSUME Contiguous, DOMAIN blocks' = DOMAIN blocks, Len(blocks') = Len(blocks), 1 \in DOMAIN blocks,
         Len(blocks) \in DOMAIN blocks,
         \A b \in DOMAIN blocks : /\ blocks'[b].maxhere = blocks[b].maxhere
                                  /\ blocks'[b].numprevious = blocks[b].numprevious
                                  /\ Len(blocks'[b].items) = Len(blocks[b].items)
  PROVE  Contiguous'
<1>1. \A b \in DOMAIN blocks : End(b)' = End(b)
  BY DEF End
<1>2. \A i, b : b \in DOMAIN blocks => (InSlots(i, b)' <=> InSlots(i, b))
  BY <1>1 DEF InSlots
<1>3. \A b \in DOMAIN blocks : b + 1 \in DOMAIN blocks => blocks'[b + 1].numprevious = End(b)'
  BY <1>1 DEF Contiguous
<1>4. \A b, c \in DOMAIN blocks : b < c => End(b)' <= blocks'[c].numprevious
  BY <1>1 DEF Contiguous
<1>5. \A i \in 1..End(Len(blocks)) : \E b \in DOMAIN blocks : InSlots(i, b)'
  BY <1>2 DEF Contiguous
<1>6. End(Len(blocks))' = End(Len(blocks))
  BY DEF End
<1>7. /\ blocks'[1].numprevious = 0
      /\ \A b \in DOMAIN blocks : blocks'[b].maxhere > 0 /\ Len(blocks'[b].items) = blocks'[b].maxhere
  BY DEF Contiguous
<1> QED
  BY <1>3, <1>4, <1>5, <1>6, <1>7 DEF Contiguous

LEMMA InvStep == BufferInv /\ [Next]_vars => BufferInv'
<1> SUFFICES ASSUME BufferInv, [Next]_vars
             PROVE  BufferInv'
  OBVIOUS
<1>0. TypeOK /\ Contiguous /\ Filled /\ CursorInside
  BY DEF BufferInv
<1>f. /\ blocks \in Seq(Block) /\ DOMAIN blocks = 1..Len(blocks) /\ Len(blocks) \in Nat \ {0}
      /\ current \in DOMAIN blocks
      /\ \A b \in DOMAIN blocks :
              /\ blocks[b] \in Block
              /\ blocks[b].maxhere \in Nat \ {0} /\ blocks[b].numprevious \in Nat
              /\ blocks[b].numhere \in 0..blocks[b].maxhere
              /\ Len(blocks[b].items) = blocks[b].maxhere
              /\ End(b) = blocks[b].numprevious + blocks[b].maxhere
  BY BlockFacts
<1>t. nextblk \in 0..Len(blocks) /\ nextindex \in Nat
  BY <1>0 DEF TypeOK
<1>1. ASSUME NEW x \in Item, NEW k \in DOMAIN blocks,
             blocks' = [blocks EXCEPT ![k] = Store(@, x)], blocks[k].numhere < blocks[k].maxhere,
             UNCHANGED <<nextblk, nextindex>>
      PROVE  /\ blocks' \in Seq(Block) /\ DOMAIN blocks' = DOMAIN blocks /\ Len(blocks') = Len(blocks)
             /\ blocks'[k].numhere = blocks[k].numhere + 1
             /\ \A b \in DOMAIN blocks : blocks'[b].maxhere = blocks[b].maxhere
             /\ \A b \in DOMAIN blocks \ {k} : blocks'[b].numhere = blocks[b].numhere
             /\ Contiguous' /\ CursorInside'
  <2> DEFINE st == Store(blocks[k], x)
  <2>1. /\ st \in Block /\ st.maxhere = blocks[k].maxhere /\ st.numprevious = blocks[k].numprevious
        /\ st.numhere = blocks[k].numhere + 1 /\ Len(st.items) = blocks[k].maxhere
    BY <1>1, <1>f, StoreType
  <2> HIDE DEF st
  <2>2. blocks' = [blocks EXCEPT ![k] = st]
    BY <1>1 DEF st
  <2>3. /\ blocks' \in Seq(Block) /\ DOMAIN blocks' = DOMAIN blocks /\ Len(blocks') = Len(blocks)
        /\ blocks'[k] = st /\ \A b \in DOMAIN blocks \ {k} : blocks'[b] = blocks[b]
    BY <2>1, <2>2, <1>f
  <2>4. \A b \in DOMAIN blocks : /\ blocks'[b].maxhere = blocks[b].maxhere
                                 /\ blocks'[b].numprevious = blocks[b].numprevious
                                 /\ Len(blocks'[b].items) = Len(blocks[b].items)
    BY <2>1, <2>3, <1>f
  <2>5. 1 \in DOMAIN blocks /\ Len(blocks) \in DOMAIN blocks
    BY <1>f
  <2>6. Contiguous'
    BY <2>3, <2>4, <2>5, <1>0, ContiguousKept
  <2>7. CursorInside'
    BY <1>0, <1>1, <1>f, <1>t, <2>4 DEF CursorInside
  <2> QED
    BY <2>1, <2>3, <2>4, <2>6, <2>7
<1>2. ASSUME NEW x \in Item, AdditemHere(x)
      PROVE  BufferInv'
  <2>1. blocks[current].numhere < blocks[current].maxhere
    BY <1>2, <1>f DEF AdditemHere, Full, Blk
  <2>2. /\ blocks' \in Seq(Block) /\ DOMAIN blocks' = DOMAIN blocks /\ Len(blocks') = Len(blocks)
        /\ blocks'[current].numhere = blocks[current].numhere + 1
        /\ \A b \in DOMAIN blocks : blocks'[b].maxhere = blocks[b].maxhere
        /\ \A b \in DOMAIN blocks \ {current} : blocks'[b].numhere = blocks[b].numhere
        /\ Contiguous' /\ CursorInside' /\ current' = current /\ nextblk' = nextblk /\ nextindex' = nextindex
    BY <1>1, <1>2, <2>1, <1>f DEF AdditemHere
  <2>3. TypeOK'
    BY <2>2, <1>f, <1>t DEF TypeOK
  <2>4. Filled'
    BY <2>1, <2>2, <1>0, <1>f DEF Filled
  <2> QED
    BY <2>2, <2>3, <2>4 DEF BufferInv
<1>3. ASSUME NEW x \in Item, AdditemNextBlock(x)
      PROVE  BufferInv'
  <2>1. /\ current + 1 \in DOMAIN blocks /\ blocks[current].numhere = blocks[current].maxhere
        /\ blocks[current + 1].numhere < blocks[current + 1].maxhere
    <3>1. current + 1 \in DOMAIN blocks
      BY <1>3, <1>f DEF AdditemNextBlock
    <3>2. blocks[current + 1].numhere = 0
      BY <3>1, <1>0, <1>f DEF Filled
    <3> QED
      BY <3>1, <3>2, <1>3, <1>f DEF AdditemNextBlock, Full, Blk
  <2>2. /\ blocks' \in Seq(Block) /\ DOMAIN blocks' = DOMAIN blocks /\ Len(blocks') = Len(blocks)
        /\ blocks'[current + 1].numhere = blocks[current + 1].numhere + 1
        /\ \A b \in DOMAIN blocks : blocks'[b].maxhere = blocks[b].maxhere
        /\ \A b \in DOMAIN blocks \ {current + 1} : blocks'[b].numhere = blocks[b].numhere
        /\ Contiguous' /\ CursorInside' /\ current' = current + 1 /\ nextblk' = nextblk /\ nextindex' = nextindex
    BY <1>1, <1>3, <2>1, <1>f DEF AdditemNextBlock
  <2>3. TypeOK'
    BY <2>1, <2>2, <1>f, <1>t DEF TypeOK
  <2>4. Filled'
    BY <2>1, <2>2, <1>0, <1>f DEF Filled
  <2> QED
    BY <2>2, <2>3, <2>4 DEF BufferInv
<1>4. ASSUME NEW x \in Item, AdditemNewBlock(x)
      PROVE  BufferInv'
  <2> PICK n \in Nat : n = Len(blocks)
    BY <1>f
  <2> DEFINE nb == NewBlock(2 * Blk.maxhere, Blk.numprevious + Blk.numhere)
             st == Store(nb, x)
  <2>1. /\ current = n /\ Blk = blocks[n] /\ blocks[n].numhere = blocks[n].maxhere
        /\ blocks' = Append(blocks, st) /\ current' = n + 1
        /\ nextblk' = nextblk /\ nextindex' = nextindex
    BY <1>4, <1>f DEF AdditemNewBlock, Full, Blk
  <2>2. 2 * blocks[n].maxhere \in Nat \ {0} /\ blocks[n].numprevious + blocks[n].numhere = End(n)
        /\ End(n) \in Nat
    BY <2>1, <1>f
  <2>3. /\ nb \in Block /\ Len(nb.items) = 2 * blocks[n].maxhere /\ nb.maxhere = 2 * blocks[n].maxhere
        /\ nb.numprevious = End(n) /\ nb.numhere = 0
    BY <2>1, <2>2, NewBlockType
  <2> HIDE DEF nb
  <2>4. /\ st \in Block /\ st.maxhere = 2 * blocks[n].maxhere /\ st.numprevious = End(n)
        /\ st.numhere = 1 /\ Len(st.items) = st.maxhere
    BY <2>2, <2>3, StoreType
  <2> HIDE DEF st
  <2>5. /\ blocks' \in Seq(Block) /\ Len(blocks') = n + 1 /\ DOMAIN blocks' = 1..(n + 1)
        /\ blocks'[n + 1] = st /\ \A b \in 1..n : blocks'[b] = blocks[b]
    BY <2>1, <2>4, <1>f
  <2>6. n \in Nat \ {0} /\ DOMAIN blocks = 1..n
    BY <1>f
  <2>7. TypeOK' /\ CursorInside'
    BY <2>1, <2>5, <2>6, <1>0, <1>f, <1>t DEF TypeOK, CursorInside
  <2>8. Filled'
    BY <2>1, <2>2, <2>4, <2>5, <2>6, <1>0, <1>f DEF Filled
  <2>9. Contiguous'
    <3>1. /\ \A b \in 1..n : End(b)' = End(b) /\ End(b) \in Nat
          /\ End(n + 1)' = End(n) + st.maxhere /\ st.maxhere \in Nat \ {0}
      <4>1. \A b \in 1..n : End(b) \in Nat /\ blocks'[b] = blocks[b]
        BY <2>5, <2>6, <1>f
      <4>2. \A b \in 1..n : End(b)' = End(b)
        BY <4>1 DEF End
      <4>3. st.maxhere \in Nat \ {0}
        BY <2>2, <2>4
      <4>4. End(n + 1)' = End(n) + st.maxhere
        BY <2>4, <2>5 DEF End
      <4> QED
        BY <4>1, <4>2, <4>3, <4>4
    <3>2. ASSUME NEW b \in DOMAIN blocks', NEW c \in DOMAIN blocks', b < c
          PROVE  End(b)' <= blocks'[c].numprevious
      <4>1. CASE c \in 1..n
        BY <4>1, <3>1, <3>2, <2>5, <2>6, <1>0 DEF Contiguous
      <4>2. CASE c = n + 1
        <5>1. b \in 1..n /\ (b = n \/ b < n)
          BY <4>2, <3>2, <2>5, <2>6
        <5>2. End(b) <= End(n)
          <6>1. CASE b = n
            BY <6>1, <3>1, <5>1
          <6>2. CASE b < n
            <7>1. End(b) <= blocks[n].numprevious
              BY <6>2, <5>1, <2>6, <1>0 DEF Contiguous
            <7> QED
              BY SMTT(60), <7>1, <5>1, <2>6, <3>1, <1>f
          <6> QED
            BY <5>1, <6>1, <6>2
        <5> QED
          BY <4>2, <5>1, <5>2, <3>1, <2>4, <2>5
      <4> QED
        BY <4>1, <4>2, <2>5, <2>6
    <3>3. ASSUME NEW i \in (1..End(Len(blocks)))'
          PROVE  \E b \in DOMAIN blocks' : InSlots(i, b)'
      <4>1. i \in 1..(End(n) + st.maxhere)
        <5>1. End(Len(blocks))' = End(n + 1)'
          BY <2>5 DEF End
        <5> QED
          BY <5>1, <3>1, <3>3
      <4>2. CASE i <= End(n)
        <5>1. i \in 1..End(Len(blocks))
          BY <4>1, <4>2, <3>1, <2>6
        <5>2. PICK b \in DOMAIN blocks : InSlots(i, b)
          BY <5>1, <1>0 DEF Contiguous
        <5>3. b \in DOMAIN blocks' /\ InSlots(i, b)'
          BY <5>2, <3>1, <2>5, <2>6 DEF InSlots
        <5> QED
          BY <5>3
      <4>3. CASE ~ (i <= End(n))
        <5>1. InSlots(i, n + 1)'
          BY <4>1, <4>3, <3>1, <2>4, <2>5, <2>6 DEF InSlots
        <5> QED
          BY <5>1, <2>5, <2>6
      <4> QED
        BY <4>2, <4>3
    <3>4. /\ blocks'[1].numprevious = 0
          /\ \A b \in DOMAIN blocks' : /\ blocks'[b].maxhere > 0
                                       /\ Len(blocks'[b].items) = blocks'[b].maxhere
      <4>1. 1 \in 1..n /\ n + 1 \in DOMAIN blocks' /\ \A b \in DOMAIN blocks' : b \in 1..n \/ b = n + 1
        BY <2>5, <2>6
      <4>2. \A b \in 1..n : blocks[b].maxhere > 0 /\ Len(blocks[b].items) = blocks[b].maxhere
        BY <2>6, <1>0 DEF Contiguous
      <4>3. blocks[1].numprevious = 0 /\ st.maxhere > 0
        BY <3>1, <1>0 DEF Contiguous
      <4> QED
        BY <4>1, <4>2, <4>3, <2>4, <2>5
    <3>5. ASSUME NEW b \in DOMAIN blocks', b + 1 \in DOMAIN blocks'
          PROVE  blocks'[b + 1].numprevious = End(b)'
      <4>1. CASE b + 1 \in 1..n
        BY <4>1, <3>1, <3>5, <2>5, <2>6, <1>0 DEF Contiguous
      <4>2. CASE b = n
        BY <4>2, <3>1, <2>4, <2>5, <2>6
      <4> QED
        BY <4>1, <4>2, <3>5, <2>5, <2>6
    <3> QED
      BY <3>2, <3>3, <3>4, <3>5 DEF Contiguous
  <2> QED
    BY <2>7, <2>8, <2>9 DEF BufferInv
<1>5. CASE Clearbuffer
  <2>1. /\ DOMAIN blocks' = DOMAIN blocks /\ current' = 1
        /\ \A b \in DOMAIN blocks : blocks'[b] = Emptied(blocks[b])
        /\ nextblk' = nextblk /\ nextindex' = nextindex
    BY <1>5 DEF Clearbuffer
  <2>2. \A b \in DOMAIN blocks : /\ blocks'[b] \in Block /\ blocks'[b].maxhere = blocks[b].maxhere
                                 /\ blocks'[b].numprevious = blocks[b].numprevious
                                 /\ blocks'[b].items = blocks[b].items
                                 /\ blocks'[b].numhere = 0
    BY <2>1, <1>f, EmptiedType
  <2>3. blocks' \in Seq(Block) /\ Len(blocks') = Len(blocks) /\ 1 \in DOMAIN blocks
        /\ Len(blocks) \in DOMAIN blocks
    <3>1. blocks' = [b \in 1..Len(blocks) |-> blocks'[b]]
      BY <1>5, <1>f DEF Clearbuffer
    <3>2. blocks' \in [1..Len(blocks) -> Block]
      BY <3>1, <2>2, <1>f
    <3> QED
      BY SMTT(60), <3>2, <1>f
  <2>4. Contiguous'
    BY <2>1, <2>2, <2>3, <1>0, ContiguousKept
  <2>5. TypeOK'
    <3>1. /\ current' \in DOMAIN blocks'
          /\ nextblk' \in 0..Len(blocks') /\ nextindex' \in Nat
      BY <2>1, <2>3, <1>t
    <3> QED
      BY <3>1, <2>3 DEF TypeOK
  <2>7. CursorInside'
    <3>1. CASE nextblk = 0
      BY <3>1, <2>1 DEF CursorInside
    <3>2. CASE nextblk # 0
      <4>1. nextblk \in DOMAIN blocks /\ nextindex < blocks[nextblk].maxhere
        BY <3>2, <1>t, <1>0, <1>f DEF CursorInside
      <4> QED
        BY <4>1, <2>1, <2>2 DEF CursorInside
    <3> QED
      BY <3>1, <3>2
  <2>6. Filled'
    BY <2>1, <2>2, <1>f DEF Filled
  <2> QED
    BY <2>4, <2>5, <2>6, <2>7 DEF BufferInv
<1>6. CASE Rewindbuffer
  BY <1>6, <1>0, <1>f DEF Rewindbuffer, BufferInv, TypeOK, Contiguous, Filled, CursorInside, End, InSlots
<1>7. CASE NextitemOne
  <2>1. TypeOK' /\ CursorInside'
    BY <1>7, <1>0, <1>f, <1>t DEF NextitemOne, TypeOK, CursorInside
  <2>2. Contiguous' /\ Filled'
    BY <1>7, <1>0 DEF NextitemOne, Contiguous, Filled, End, InSlots
  <2> QED
    BY <2>1, <2>2 DEF BufferInv
<1>8. CASE UNCHANGED <<blocks, current, nextblk, nextindex>>
  BY <1>8, <1>0 DEF BufferInv, TypeOK, Contiguous, Filled, CursorInside, End, InSlots
<1> QED
  BY <1>2, <1>3, <1>4, <1>5, <1>6, <1>7, <1>8
  DEF Next, Additem, AdditemFails, Numitems, Copyitems, NextitemNone, vars

(* The counters of the blocks agree, whatever is added, cleared and iterated *)
(* (buffer.c:99-137).                                                        *)
THEOREM BufferInvariant == Spec => []BufferInv
<1>1. BufferInv /\ UNCHANGED vars => BufferInv'
  BY InvStep
<1> QED
  BY InvInit, InvStep, <1>1, PTL DEF Spec

-----------------------------------------------------------------------------
(* The refinement. *)

\* What Copied is, without CHOOSE.
CopiedAt ==
  /\ Count \in Nat
  /\ \A b \in 1..current : blocks[b].numprevious + blocks[b].numhere <= Count
  /\ \A i \in 1..Count : \E c \in 1..current : InBlock(i, c)
  /\ \A i \in 1..Count : \A c \in 1..current :
       InBlock(i, c) => Copied[i] = blocks[c].items[i - blocks[c].numprevious]

LEMMA CopiedFacts == BufferInv => CopiedAt
<1> SUFFICES ASSUME BufferInv
             PROVE  CopiedAt
  OBVIOUS
<1>0. Contiguous /\ Filled
  BY DEF BufferInv
<1>f. /\ blocks \in Seq(Block) /\ DOMAIN blocks = 1..Len(blocks) /\ Len(blocks) \in Nat \ {0}
      /\ current \in DOMAIN blocks
      /\ \A b \in DOMAIN blocks :
              /\ blocks[b] \in Block
              /\ blocks[b].maxhere \in Nat \ {0} /\ blocks[b].numprevious \in Nat
              /\ blocks[b].numhere \in 0..blocks[b].maxhere
              /\ Len(blocks[b].items) = blocks[b].maxhere
              /\ End(b) = blocks[b].numprevious + blocks[b].maxhere
  BY BlockFacts
<1>1. Count \in Nat /\ Count = blocks[current].numprevious + blocks[current].numhere /\ Count <= End(current)
  BY <1>f DEF Count, Blk
<1>2. ASSUME NEW b \in 1..current
      PROVE  /\ b \in DOMAIN blocks
             /\ b < current => End(b) <= blocks[current].numprevious /\ blocks[b].numhere = blocks[b].maxhere
             /\ blocks[b].numprevious + blocks[b].numhere <= Count
  <2>1. b \in DOMAIN blocks /\ (b = current \/ b < current)
    BY <1>f
  <2>2. CASE b = current
    BY <2>1, <2>2, <1>1, <1>f
  <2>3. CASE b < current
    <3>1. End(b) <= blocks[current].numprevious /\ blocks[b].numhere = blocks[b].maxhere
      BY <2>1, <2>3, <1>0, <1>f DEF Contiguous, Filled
    <3>2. current \in DOMAIN blocks /\ blocks[current].numprevious <= Count
      BY <1>1, <1>f
    <3>3. blocks[b].numprevious + blocks[b].numhere = End(b)
      BY <3>1, <2>1, <1>f
    <3>4. End(b) \in Nat /\ blocks[current].numprevious \in Nat
      BY <2>1, <3>2, <1>f
    <3> QED
      BY <3>1, <3>2, <3>3, <3>4, <2>1, <2>3, <1>1
  <2> QED
    BY <2>1, <2>2, <2>3
<1>3. ASSUME NEW i \in 1..Count
      PROVE  \E c \in 1..current : InBlock(i, c)
  <2>1. End(current) <= End(Len(blocks))
    <3>1. CASE current = Len(blocks)
      BY <3>1, <1>f
    <3>2. CASE current < Len(blocks)
      <4>1. Len(blocks) \in DOMAIN blocks
        BY <1>f
      <4>2. End(current) <= blocks[Len(blocks)].numprevious
        BY <3>2, <4>1, <1>0, <1>f DEF Contiguous
      <4> QED
        BY SMTT(60), <4>1, <4>2, <1>f
    <3> QED
      BY <3>1, <3>2, <1>f
  <2>2. i \in 1..End(Len(blocks))
    <3>1. Len(blocks) \in DOMAIN blocks
      BY <1>f
    <3>2. \A b \in DOMAIN blocks : End(b) \in Nat
      BY <1>f
    <3>3. End(Len(blocks)) \in Nat /\ End(current) \in Nat
      BY <3>1, <3>2, <1>f
    <3> QED
      BY <3>3, <2>1, <1>1, <1>3
  <2>3. PICK b \in DOMAIN blocks : InSlots(i, b)
    BY <2>2, <1>0 DEF Contiguous
  <2>4. b <= current
    <3>1. SUFFICES ASSUME current < b
                   PROVE  FALSE
      BY <1>f
    <3>2. End(current) <= blocks[b].numprevious
      BY <3>1, <1>0, <1>f DEF Contiguous
    <3> QED
      BY <3>2, <2>3, <1>1, <1>3, <1>f DEF InSlots
  <2>5. b \in 1..current
    BY <2>4, <1>f
  <2>6. InBlock(i, b)
    <3>1. CASE b = current
      BY <3>1, <2>3, <1>1, <1>3, <1>f DEF InSlots, InBlock
    <3>2. CASE b < current
      BY <3>2, <2>3, <2>5, <1>2, <1>f DEF InSlots, InBlock
    <3> QED
      BY <3>1, <3>2, <2>4, <1>f
  <2> QED
    BY <2>5, <2>6
<1>4. ASSUME NEW i \in 1..Count, NEW b \in 1..current, NEW c \in 1..current, InBlock(i, b), InBlock(i, c)
      PROVE  b = c
  <2>1. SUFFICES ASSUME NEW d \in 1..current, NEW e \in 1..current, InBlock(i, d), InBlock(i, e), d < e
                 PROVE  FALSE
    BY <1>4, <1>f
  <2>2. d \in DOMAIN blocks /\ e \in DOMAIN blocks
    BY <1>2
  <2>3. End(d) <= blocks[e].numprevious
    BY <2>1, <2>2, <1>0 DEF Contiguous
  <2> QED
    BY SMTT(60), <2>1, <2>2, <2>3, <1>f DEF InBlock
<1>5. ASSUME NEW i \in 1..Count, NEW c \in 1..current, InBlock(i, c)
      PROVE  Copied[i] = blocks[c].items[i - blocks[c].numprevious]
  <2> DEFINE ch == CHOOSE d \in DOMAIN blocks : d <= current /\ InBlock(i, d)
  <2>1. c \in DOMAIN blocks /\ c <= current
    BY <1>2, <1>f
  <2>2. ch \in DOMAIN blocks /\ ch <= current /\ InBlock(i, ch)
    BY <2>1, <1>5
  <2>3. ch \in 1..current
    BY <2>2, <1>f
  <2>4. ch = c
    BY <2>2, <2>3, <1>4, <1>5
  <2> QED
    BY <2>4 DEF Copied
<1> QED
  BY <1>1, <1>2, <1>3, <1>5 DEF CopiedAt

LEMMA CopiedFactsNext == BufferInv' => CopiedAt'
BY CopiedFacts, PTL

LEMMA AppendedSeq ==
  ASSUME NEW n \in Nat, NEW s, NEW t, NEW x,
         s = [i \in 1..n |-> s[i]], t = [i \in 1..(n + 1) |-> t[i]],
         \A i \in 1..n : t[i] = s[i], t[n + 1] = x
  PROVE  t = Append(s, x)
<1> DEFINE S == {t[i] : i \in 1..(n + 1)}
<1>1. x \in S /\ \A i \in 1..(n + 1) : t[i] \in S
  <2>1. n + 1 \in 1..(n + 1)
    OBVIOUS
  <2>2. \A i \in 1..(n + 1) : t[i] \in S
    OBVIOUS
  <2> QED
    BY <2>1, <2>2
<1> HIDE DEF S
<1>2. ASSUME NEW i \in 1..n
      PROVE  s[i] \in S
  <2>1. i \in 1..(n + 1)
    OBVIOUS
  <2> QED
    BY <2>1, <1>1
<1>3. s \in Seq(S) /\ Len(s) = n
  <2>1. s \in [1..n -> S]
    BY <1>2
  <2> QED
    BY SMTT(60), <2>1
<1>4. t \in Seq(S) /\ Len(t) = n + 1
  <2>1. t \in [1..(n + 1) -> S]
    BY <1>1
  <2> QED
    BY <2>1
<1>5. /\ Append(s, x) \in Seq(S) /\ Len(Append(s, x)) = n + 1
      /\ \A i \in 1..n : Append(s, x)[i] = s[i]
      /\ Append(s, x)[n + 1] = x
  BY <1>1, <1>3, AppendProperties
<1>6. ASSUME NEW i \in 1..(n + 1)
      PROVE  t[i] = Append(s, x)[i]
  <2>1. i \in 1..n \/ i = n + 1
    OBVIOUS
  <2> QED
    BY <2>1, <1>5
<1> QED
  BY <1>3, <1>4, <1>5, <1>6, SeqEqual

\* A step that adds x to the block k, which becomes the current one, appends x.
LEMMA Appended ==
  ASSUME BufferInv, BufferInv', NEW x \in Item, NEW k \in 1..Len(blocks'), current' = k,
         Count' = Count + 1,
         blocks'[k].items[(Count + 1) - blocks'[k].numprevious] = x,
         blocks'[k].numprevious < Count + 1,
         Count + 1 <= blocks'[k].numprevious + blocks'[k].numhere,
         \A b \in 1..current : /\ b \in 1..k
                               /\ blocks'[b].numprevious = blocks[b].numprevious
                               /\ blocks'[b].numhere >= blocks[b].numhere
                               /\ blocks'[b].numhere \in Nat
                               /\ \A j \in 1..blocks[b].numhere : blocks'[b].items[j] = blocks[b].items[j]
  PROVE  Copied' = Append(Copied, x)
<1>1. CopiedAt /\ CopiedAt'
  BY CopiedFacts, CopiedFactsNext
<1>2. /\ DOMAIN Copied = 1..Count /\ Count \in Nat /\ DOMAIN Copied' = 1..(Count + 1)
  BY <1>1 DEF Copied, CopiedAt
<1>3. Copied'[Count + 1] = x
  <2>1. Count + 1 \in 1..Count' /\ k \in 1..current'
    BY <1>2
  <2>2. \A i \in 1..Count' : \A c \in 1..current' :
          blocks'[c].numprevious < i /\ i <= blocks'[c].numprevious + blocks'[c].numhere
          => Copied'[i] = blocks'[c].items[i - blocks'[c].numprevious]
    BY <1>1 DEF CopiedAt, InBlock
  <2> QED
    BY <2>1, <2>2
<1>4. ASSUME NEW i \in 1..Count
      PROVE  Copied'[i] = Copied[i]
  <2>1. PICK c \in 1..current : InBlock(i, c)
    BY <1>1 DEF CopiedAt
  <2>2. Copied[i] = blocks[c].items[i - blocks[c].numprevious]
    BY <1>1, <2>1 DEF CopiedAt
  <2>3. blocks[c].numprevious \in Nat /\ blocks[c].numhere \in Nat
    BY <2>1, BlockFacts
  <2>4. i - blocks[c].numprevious \in 1..blocks[c].numhere
    BY SMTT(60), <2>1, <2>3, <1>2 DEF InBlock
  <2>5. InBlock(i, c)'
    BY <2>1, <2>3, <1>2 DEF InBlock
  <2>6. i \in 1..Count' /\ c \in 1..current'
    BY <2>1, <1>2
  <2>7. Copied'[i] = blocks'[c].items[i - blocks'[c].numprevious]
    BY <1>1, <2>5, <2>6 DEF CopiedAt
  <2> QED
    BY <2>1, <2>2, <2>4, <2>7
<1>5. Copied = [i \in 1..Count |-> Copied[i]] /\ Copied' = [i \in 1..(Count + 1) |-> Copied'[i]]
  BY <1>2 DEF Copied
<1> QED
  BY <1>2, <1>3, <1>4, <1>5, AppendedSeq

LEMMA RefineInit == Init => Promise!Init
<1> SUFFICES ASSUME Init
             PROVE  Promise!Init
  OBVIOUS
<1>1. blocks[1] = NewBlock(MaxHere, 0) /\ current = 1 /\ nextblk = 1 /\ nextindex = 0 /\ ret = Null
  BY DEF Init
<1>2. blocks[1].numprevious = 0 /\ blocks[1].numhere = 0
  BY <1>1, NewBlockType
<1>3. Count = 0 /\ Cursor = 0
  BY <1>1, <1>2 DEF Count, Blk, Cursor
<1>4. Copied = <<>>
  BY <1>3 DEF Copied
<1> QED
  BY <1>1, <1>3, <1>4 DEF Promise!Init

\* The cursor is a place in the sequence, or past its end.
LEMMA CursorFacts ==
  ASSUME BufferInv
  PROVE  /\ Cursor = Null <=> nextblk = 0
         /\ nextblk # 0 => /\ nextblk \in DOMAIN blocks /\ Cursor \in Nat
                           /\ Cursor = blocks[nextblk].numprevious + nextindex
                           /\ (Cursor < Count <=> nextindex < blocks[nextblk].numhere)
                           /\ nextindex < blocks[nextblk].numhere => nextblk \in 1..current
<1>f. /\ DOMAIN blocks = 1..Len(blocks) /\ Len(blocks) \in Nat \ {0}
      /\ current \in DOMAIN blocks
      /\ \A b \in DOMAIN blocks :
              /\ blocks[b].maxhere \in Nat \ {0} /\ blocks[b].numprevious \in Nat
              /\ blocks[b].numhere \in 0..blocks[b].maxhere
              /\ End(b) = blocks[b].numprevious + blocks[b].maxhere
  BY BlockFacts
<1>0. Contiguous /\ Filled /\ CursorInside /\ nextblk \in 0..Len(blocks) /\ nextindex \in Nat
  BY DEF BufferInv, TypeOK
<1>1. CASE nextblk = 0
  BY <1>1 DEF Cursor
<1>2. CASE nextblk # 0
  <2>1. nextblk \in DOMAIN blocks /\ Cursor = blocks[nextblk].numprevious + nextindex
    BY <1>2, <1>0, <1>f DEF Cursor
  <2>2. Cursor \in Nat /\ Cursor # Null
    <3>1. blocks[nextblk].numprevious \in Nat
      BY <2>1, <1>f
    <3> QED
      BY <3>1, <2>1, <1>0
  <2>3. Count = blocks[current].numprevious + blocks[current].numhere
    BY DEF Count, Blk
  <2>4. CASE nextblk < current
    <3>1. blocks[nextblk].numhere = blocks[nextblk].maxhere /\ End(nextblk) <= blocks[current].numprevious
      BY <2>1, <2>4, <1>0, <1>f DEF Contiguous, Filled
    <3>2. nextindex < blocks[nextblk].maxhere
      BY <1>0, <1>2 DEF CursorInside
    <3>3. End(nextblk) = blocks[nextblk].numprevious + blocks[nextblk].maxhere
      BY <2>1, <1>f
    <3>4. /\ blocks[nextblk].numprevious \in Nat /\ blocks[nextblk].maxhere \in Nat
          /\ blocks[current].numprevious \in Nat /\ blocks[current].numhere \in Nat
      BY <2>1, <1>f
    <3>5. Cursor < Count
      <4>1. Cursor < End(nextblk)
        BY <3>2, <3>3, <3>4, <2>1, <1>0
      <4>2. End(nextblk) <= Count /\ End(nextblk) \in Nat /\ Count \in Nat
        BY <3>1, <3>3, <3>4, <2>3
      <4> QED
        BY <4>1, <4>2, <2>2
    <3> QED
      BY <3>1, <3>2, <3>5, <2>1, <2>2, <2>4, <1>2, <1>f
  <2>5. CASE nextblk = current
    BY <2>1, <2>2, <2>3, <2>5, <1>2, <1>0, <1>f
  <2>6. CASE nextblk > current
    <3>1. blocks[nextblk].numhere = 0 /\ End(current) <= blocks[nextblk].numprevious
      BY <2>1, <2>6, <1>0, <1>f DEF Contiguous, Filled
    <3>2. /\ blocks[nextblk].numprevious \in Nat /\ End(current) \in Nat /\ Count \in Nat
          /\ Count <= End(current)
      BY SMTT(60), <2>1, <2>3, <1>f
    <3>3. ~ (Cursor < Count)
      BY <3>1, <3>2, <2>1, <1>0
    <3> QED
      BY <3>1, <3>3, <2>1, <2>2, <1>2, <1>0
  <2> QED
    BY <2>4, <2>5, <2>6, <2>1, <1>f
<1> QED
  BY <1>1, <1>2

LEMMA RefineStep ==
  BufferInv /\ BufferInv' /\ [Next]_vars => [Promise!Next]_<<Copied, Cursor, ret>>
<1> SUFFICES ASSUME BufferInv, BufferInv', [Next]_vars
             PROVE  [Promise!Next]_<<Copied, Cursor, ret>>
  OBVIOUS
<1>f. /\ blocks \in Seq(Block) /\ DOMAIN blocks = 1..Len(blocks) /\ Len(blocks) \in Nat \ {0}
      /\ current \in DOMAIN blocks
      /\ \A b \in DOMAIN blocks :
              /\ blocks[b] \in Block
              /\ blocks[b].maxhere \in Nat \ {0} /\ blocks[b].numprevious \in Nat
              /\ blocks[b].numhere \in 0..blocks[b].maxhere
              /\ Len(blocks[b].items) = blocks[b].maxhere
              /\ End(b) = blocks[b].numprevious + blocks[b].maxhere
  BY BlockFacts
<1>t. nextblk \in 0..Len(blocks) /\ nextindex \in Nat /\ Contiguous /\ Filled /\ CursorInside
  BY DEF BufferInv, TypeOK
<1>c. Count \in Nat /\ Count = blocks[current].numprevious + blocks[current].numhere /\ Len(Copied) = Count
  <2>1. Count \in Nat
    BY CopiedFacts DEF CopiedAt
  <2> QED
    BY <2>1 DEF Count, Blk, Copied
<1>u. ASSUME UNCHANGED <<blocks, current>>
      PROVE  Copied' = Copied
  BY <1>u DEF Copied, Count, Blk, InBlock
<1>1. ASSUME NEW x \in Item, AdditemHere(x)
      PROVE  Promise!Additem(x)
  <2>1. blocks[current].numhere < blocks[current].maxhere
    BY <1>1, <1>f DEF AdditemHere, Full, Blk
  <2> DEFINE st == Store(blocks[current], x)
  <2>2. /\ st \in Block /\ st.numprevious = blocks[current].numprevious
        /\ st.numhere = blocks[current].numhere + 1
        /\ st.items[blocks[current].numhere + 1] = x
        /\ \A j \in 1..blocks[current].numhere : st.items[j] = blocks[current].items[j]
    BY <2>1, <1>f, StoreType
  <2> HIDE DEF st
  <2>3. /\ current' = current /\ nextblk' = nextblk /\ nextindex' = nextindex /\ ret' = Null
        /\ blocks' = [blocks EXCEPT ![current] = st]
    BY <1>1 DEF AdditemHere, st
  <2>4. /\ Len(blocks') = Len(blocks) /\ blocks'[current] = st
        /\ \A b \in DOMAIN blocks \ {current} : blocks'[b] = blocks[b]
    BY <2>2, <2>3, <1>f
  <2>5. Count' = Count + 1
    BY <2>2, <2>3, <2>4, <1>c, <1>f DEF Count, Blk
  <2>6. /\ st.items[(Count + 1) - st.numprevious] = x
        /\ blocks'[current].numprevious < Count + 1
        /\ Count + 1 <= blocks'[current].numprevious + blocks'[current].numhere
    <3>1. (Count + 1) - st.numprevious = blocks[current].numhere + 1
      BY <2>2, <1>c, <1>f
    <3>2. blocks'[current].numprevious < Count + 1
          /\ Count + 1 <= blocks'[current].numprevious + blocks'[current].numhere
      BY <2>2, <2>4, <1>c, <1>f
    <3> QED
      BY <3>1, <3>2, <2>2
  <2>7. ASSUME NEW b \in 1..current
        PROVE  /\ blocks'[b].numprevious = blocks[b].numprevious
               /\ blocks'[b].numhere >= blocks[b].numhere
               /\ blocks'[b].numhere \in Nat
               /\ \A j \in 1..blocks[b].numhere : blocks'[b].items[j] = blocks[b].items[j]
    <3>1. b \in DOMAIN blocks /\ blocks[b].numhere \in Nat
      BY <1>f
    <3>2. CASE b = current
      BY <3>1, <3>2, <2>2, <2>4
    <3>3. CASE b # current
      BY <3>1, <3>3, <2>4
    <3> QED
      BY <3>2, <3>3
  <2>8. current \in 1..Len(blocks')
    BY <2>4, <1>f
  <2>9. Copied' = Append(Copied, x)
    BY <2>3, <2>4, <2>5, <2>6, <2>7, <2>8, Appended
  <2>10. Cursor' = Cursor
    BY <2>2, <2>3, <2>4, <1>t, <1>f DEF Cursor
  <2> QED
    BY <2>3, <2>9, <2>10 DEF Promise!Additem
<1>2. ASSUME NEW x \in Item, AdditemNextBlock(x)
      PROVE  Promise!Additem(x)
  <2> DEFINE k == current + 1
             st == Store(blocks[current + 1], x)
  <2>1. /\ k \in DOMAIN blocks /\ blocks[k].numhere = 0 /\ blocks[current].numhere = blocks[current].maxhere
    <3>1. k \in DOMAIN blocks
      BY <1>2, <1>f DEF AdditemNextBlock
    <3>2. blocks[k].numhere = 0
      BY <3>1, <1>t, <1>f DEF Filled
    <3> QED
      BY <3>1, <3>2, <1>2, <1>f DEF AdditemNextBlock, Full, Blk
  <2>2. /\ st \in Block /\ st.numprevious = blocks[k].numprevious
        /\ st.numhere = 1 /\ st.items[1] = x
    <3>1. /\ blocks[k] \in Block /\ Len(blocks[k].items) = blocks[k].maxhere
          /\ blocks[k].numhere < blocks[k].maxhere /\ blocks[k].numhere + 1 = 1
      BY <2>1, <1>f
    <3> HIDE DEF k
    <3>2. /\ Store(blocks[k], x) \in Block /\ Store(blocks[k], x).numprevious = blocks[k].numprevious
          /\ Store(blocks[k], x).numhere = 1 /\ Store(blocks[k], x).items[1] = x
      BY <3>1, StoreType
    <3> USE DEF k
    <3> QED
      BY <3>2
  <2> HIDE DEF st
  <2>3. /\ current' = k /\ nextblk' = nextblk /\ nextindex' = nextindex /\ ret' = Null
        /\ blocks' = [blocks EXCEPT ![k] = st]
    BY <1>2 DEF AdditemNextBlock, st
  <2>4. /\ Len(blocks') = Len(blocks) /\ blocks'[k] = st
        /\ \A b \in DOMAIN blocks \ {k} : blocks'[b] = blocks[b]
    BY <2>1, <2>2, <2>3, <1>f
  <2>5. st.numprevious = Count /\ Count' = Count + 1
    <3>1. blocks[k].numprevious = End(current)
      BY <2>1, <1>t, <1>f DEF Contiguous
    <3> QED
      BY <3>1, <2>1, <2>2, <2>3, <2>4, <1>c, <1>f DEF Count, Blk
  <2>6. /\ st.items[(Count + 1) - st.numprevious] = x
        /\ blocks'[k].numprevious < Count + 1
        /\ Count + 1 <= blocks'[k].numprevious + blocks'[k].numhere
    <3>1. (Count + 1) - st.numprevious = 1
      BY <2>5, <1>c
    <3>2. blocks'[k].numprevious < Count + 1
          /\ Count + 1 <= blocks'[k].numprevious + blocks'[k].numhere
      BY <2>2, <2>4, <2>5, <1>c, <1>f
    <3> QED
      BY <3>1, <3>2, <2>2
  <2>7. ASSUME NEW b \in 1..current
        PROVE  b \in 1..k /\ b \in DOMAIN blocks \ {k} /\ blocks'[b] = blocks[b] /\ blocks[b].numhere \in Nat
    BY <2>4, <1>f
  <2>8. k \in 1..Len(blocks')
    BY <2>1, <2>4, <1>f
  <2>9. Copied' = Append(Copied, x)
    BY <2>3, <2>4, <2>5, <2>6, <2>7, <2>8, Appended
  <2>10. Cursor' = Cursor
    BY <2>2, <2>3, <2>4, <1>t, <1>f DEF Cursor
  <2> QED
    BY <2>3, <2>9, <2>10 DEF Promise!Additem
<1>3. ASSUME NEW x \in Item, AdditemNewBlock(x)
      PROVE  Promise!Additem(x)
  <2> DEFINE k == current + 1
             nb == NewBlock(2 * Blk.maxhere, Blk.numprevious + Blk.numhere)
             st == Store(nb, x)
  <2>1. /\ current = Len(blocks) /\ Blk = blocks[current] /\ blocks[current].numhere = blocks[current].maxhere
        /\ blocks' = Append(blocks, st) /\ current' = k
        /\ nextblk' = nextblk /\ nextindex' = nextindex /\ ret' = Null
    BY <1>3, <1>f DEF AdditemNewBlock, Full, Blk
  <2>2. 2 * Blk.maxhere \in Nat \ {0} /\ Blk.numprevious + Blk.numhere = Count
    BY <2>1, <1>c, <1>f
  <2>3. nb \in Block /\ Len(nb.items) = nb.maxhere /\ nb.numhere < nb.maxhere /\ nb.numprevious = Count /\ nb.numhere = 0
    BY <2>2, <1>c, NewBlockType
  <2> HIDE DEF nb
  <2>4. /\ st \in Block /\ st.numprevious = Count /\ st.numhere = 1 /\ st.items[1] = x
    BY <2>3, StoreType
  <2> HIDE DEF st
  <2>5. /\ Len(blocks') = k /\ blocks'[k] = st /\ \A b \in DOMAIN blocks : blocks'[b] = blocks[b]
    BY <2>1, <2>4, <1>f
  <2>6. Count' = Count + 1
    BY <2>1, <2>4, <2>5, <1>c DEF Count, Blk
  <2>7. /\ st.items[(Count + 1) - st.numprevious] = x
        /\ blocks'[k].numprevious < Count + 1
        /\ Count + 1 <= blocks'[k].numprevious + blocks'[k].numhere
    <3>1. (Count + 1) - st.numprevious = 1
      BY <2>4, <1>c
    <3>2. blocks'[k].numprevious < Count + 1
          /\ Count + 1 <= blocks'[k].numprevious + blocks'[k].numhere
      BY <2>4, <2>5, <1>c
    <3> QED
      BY <3>1, <3>2, <2>4
  <2>8. ASSUME NEW b \in 1..current
        PROVE  b \in 1..k /\ blocks'[b] = blocks[b] /\ blocks[b].numhere \in Nat
    <3>1. b \in DOMAIN blocks /\ b \in 1..k
      BY <1>f
    <3> QED
      BY <3>1, <2>5, <1>f
  <2>9. k \in 1..Len(blocks')
    BY <2>5, <1>f
  <2>10. Copied' = Append(Copied, x)
    BY <2>1, <2>5, <2>6, <2>7, <2>8, <2>9, Appended
  <2>11. Cursor' = Cursor
    BY <2>1, <2>5, <1>t, <1>f DEF Cursor
  <2> QED
    BY <2>1, <2>10, <2>11 DEF Promise!Additem
<1>4. ASSUME NEW x \in Item, AdditemFails
      PROVE  Promise!Additem(x)
  <2>1. Copied' = Copied /\ Cursor' = Cursor /\ ret' = Failed
    BY <1>4, <1>u DEF AdditemFails, Cursor
  <2> QED
    BY <2>1 DEF Promise!Additem
<1>5. ASSUME Clearbuffer
      PROVE  Promise!Clearbuffer
  <2>1. /\ DOMAIN blocks' = DOMAIN blocks /\ current' = 1 /\ nextblk' = nextblk /\ nextindex' = nextindex
        /\ ret' = Null /\ \A b \in DOMAIN blocks : blocks'[b] = Emptied(blocks[b])
    BY <1>5 DEF Clearbuffer
  <2>2. \A b \in DOMAIN blocks : blocks'[b].numprevious = blocks[b].numprevious /\ blocks'[b].numhere = 0
    BY <2>1, <1>f, EmptiedType
  <2>3. blocks[1].numprevious = 0 /\ 1 \in DOMAIN blocks
    BY <1>t, <1>f DEF Contiguous
  <2>4. Count' = 0
    BY <2>1, <2>2, <2>3 DEF Count, Blk
  <2>5. Copied' = <<>>
    BY <2>4 DEF Copied
  <2>6. Cursor' = Cursor
    BY <2>1, <2>2, <1>t, <1>f DEF Cursor
  <2> QED
    BY <2>1, <2>5, <2>6 DEF Promise!Clearbuffer
<1>6. ASSUME Numitems
      PROVE  Promise!Numitems
  <2>1. Copied' = Copied /\ Cursor' = Cursor /\ ret' = <<Len(Copied)>>
    BY <1>6, <1>u, <1>c DEF Numitems, Cursor
  <2> QED
    BY <2>1 DEF Promise!Numitems
<1>7. ASSUME Copyitems
      PROVE  Promise!Copyitems
  <2>1. Copied' = Copied /\ Cursor' = Cursor /\ ret' \in {Copied, Failed}
    BY <1>7, <1>u DEF Copyitems, Cursor
  <2> QED
    BY <2>1 DEF Promise!Copyitems
<1>8. ASSUME Rewindbuffer
      PROVE  Promise!Rewindbuffer
  <2>1. Copied' = Copied /\ ret' = Null /\ nextblk' = 1 /\ nextindex' = 0 /\ blocks' = blocks
    BY <1>8, <1>u DEF Rewindbuffer
  <2>2. blocks[1].numprevious = 0
    BY <1>t DEF Contiguous
  <2>3. Cursor' = 0
    BY <2>1, <2>2 DEF Cursor
  <2> QED
    BY <2>1, <2>3 DEF Promise!Rewindbuffer
<1>9. ASSUME NextitemNone
      PROVE  Promise!Nextitem
  <2>1. Copied' = Copied /\ Cursor' = Cursor /\ ret' = Null
    BY <1>9, <1>u DEF NextitemNone, Cursor
  <2>2. ~ (Cursor # Null /\ Cursor < Len(Copied))
    <3>1. CASE nextblk = 0
      BY <3>1, CursorFacts
    <3>2. CASE nextblk # 0
      <4>1. nextindex >= blocks[nextblk].numhere /\ blocks[nextblk].numhere \in Nat
        BY <3>2, <1>9, <1>t, <1>f DEF NextitemNone
      <4> QED
        BY <3>2, <4>1, <1>c, <1>t, CursorFacts
    <3> QED
      BY <3>1, <3>2
  <2> QED
    BY <2>1, <2>2 DEF Promise!Nextitem, Promise!End
<1>10. ASSUME NextitemOne
      PROVE  Promise!Nextitem
  <2>1. /\ nextblk # 0 /\ nextindex < blocks[nextblk].numhere /\ blocks' = blocks /\ current' = current
        /\ ret' = <<blocks[nextblk].items[nextindex + 1]>>
    BY <1>10 DEF NextitemOne
  <2>2. /\ nextblk \in DOMAIN blocks /\ nextblk \in 1..current
        /\ Cursor \in Nat /\ Cursor # Null /\ Cursor < Count
        /\ Cursor = blocks[nextblk].numprevious + nextindex
    BY <2>1, CursorFacts
  <2>3. Copied' = Copied
    BY <2>1, <1>u
  <2>4. ret' = <<Copied[Cursor + 1]>>
    <3>1. /\ blocks[nextblk].numprevious \in Nat /\ blocks[nextblk].numhere \in Nat
      BY <2>2, <1>f
    <3>2. Cursor + 1 \in 1..Count /\ InBlock(Cursor + 1, nextblk)
          /\ (Cursor + 1) - blocks[nextblk].numprevious = nextindex + 1
      <4>1. Cursor + 1 \in 1..Count
        BY <2>2, <1>c
      <4>2. (Cursor + 1) - blocks[nextblk].numprevious = nextindex + 1
        BY <3>1, <2>2, <1>t
      <4>3. InBlock(Cursor + 1, nextblk)
        BY <3>1, <2>1, <2>2, <1>t DEF InBlock
      <4> QED
        BY <4>1, <4>2, <4>3
    <3>3. Copied[Cursor + 1] = blocks[nextblk].items[nextindex + 1]
      BY <3>2, <2>2, CopiedFacts DEF CopiedAt
    <3> QED
      BY <3>3, <2>1
  <2>5. Cursor' = Cursor + 1 \/ (Cursor + 1 = Len(Copied) /\ Cursor' = Null)
    <3>f. /\ blocks[nextblk].numprevious \in Nat /\ blocks[nextblk].maxhere \in Nat
          /\ blocks[nextblk].numhere \in 0..blocks[nextblk].maxhere
          /\ End(nextblk) = blocks[nextblk].numprevious + blocks[nextblk].maxhere
      BY <2>2, <1>f
    <3>1. CASE nextindex + 1 < blocks[nextblk].maxhere
      <4>1. nextblk' = nextblk /\ nextindex' = nextindex + 1
        BY <3>1, <3>f, <1>10, <1>t DEF NextitemOne
      <4> QED
        BY SMTT(60), <4>1, <2>1, <2>2, <3>f, <1>t DEF Cursor
    <3>2. CASE nextindex + 1 >= blocks[nextblk].maxhere
      <4>0. nextindex + 1 = blocks[nextblk].maxhere /\ nextindex' = 0
            /\ nextblk' = IF nextblk < Len(blocks) THEN nextblk + 1 ELSE 0
        BY <3>2, <3>f, <2>1, <1>10, <1>t DEF NextitemOne
      <4>1. CASE nextblk < Len(blocks)
        <5>1. nextblk' = nextblk + 1 /\ nextblk + 1 \in DOMAIN blocks
          BY <4>0, <4>1, <2>2, <1>f
        <5>2. blocks[nextblk + 1].numprevious = End(nextblk)
          BY <5>1, <2>2, <1>t DEF Contiguous
        <5>3. Cursor' = blocks[nextblk + 1].numprevious + 0
          BY <5>1, <4>0, <2>1, <2>2, <1>f DEF Cursor
        <5> QED
          BY <5>2, <5>3, <4>0, <3>f, <2>2, <1>t
      <4>2. CASE ~ (nextblk < Len(blocks))
        <5>1. nextblk' = 0 /\ nextblk = current
          BY <4>0, <4>2, <2>2, <1>f
        <5>2. Cursor' = Null
          BY <5>1 DEF Cursor
        <5>3. Count = blocks[nextblk].numprevious + blocks[nextblk].numhere
          BY <5>1, <1>c
        <5>4. blocks[nextblk].numhere = nextindex + 1
          BY <4>0, <3>f, <2>1, <1>t
        <5>5. Cursor + 1 = Len(Copied)
          BY SMTT(60), <5>3, <5>4, <3>f, <2>2, <1>c, <1>t
        <5> QED
          BY <5>2, <5>5
      <4> QED
        BY <4>1, <4>2
    <3> QED
      BY <3>1, <3>2, <3>f, <1>t
  <2>6. Cursor # Null /\ Cursor < Len(Copied)
    BY <2>2, <1>c
  <2> QED
    BY <2>3, <2>4, <2>5, <2>6 DEF Promise!Nextitem, Promise!End
<1>11. ASSUME UNCHANGED vars
      PROVE  UNCHANGED <<Copied, Cursor, ret>>
  BY <1>11, <1>u DEF vars, Cursor
<1> QED
  BY <1>1, <1>2, <1>3, <1>4, <1>5, <1>6, <1>7, <1>8, <1>9, <1>10, <1>11
  DEF Next, Additem, Promise!Next

(* A buffer implements the sequence of buffer.h (buffer.c:99-209).           *)
THEOREM BufferImplementsItems == Spec => ImplementsItems
<1>1. BufferInv /\ [Next]_vars => BufferInv'
  BY InvStep
<1> QED
  BY RefineInit, RefineStep, InvInit, <1>1, PTL DEF Spec, ImplementsItems, Promise!Spec
=============================================================================
