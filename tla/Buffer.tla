------------------------------- MODULE Buffer -------------------------------
(***************************************************************************)
(* The growing array of par (hw2/src/buffer.c): a list of blocks, each     *)
(* twice as large as the one before it, which are kept and filled again    *)
(* when the buffer is cleared.  blocks is the list, current and nextblk    *)
(* the positions of the blocks those pointers point to (0 for NULL).       *)
(* malloc may fail in additem and copyitems.  ret is what the last call    *)
(* returned, a value as a sequence of one.                                 *)
(***************************************************************************)
EXTENDS Naturals, Sequences

CONSTANTS
  Item,        \* what is stored
  MaxHere,     \* the size of the first block
  MaxBlocks,   \* bound: malloc gives no more blocks than this
  Null,        \* the null pointer, and the value of a void function
  Failed       \* errmsg set to outofmem

ASSUME BufferAssumption ==
  /\ MaxHere \in Nat \ {0} /\ MaxBlocks \in Nat \ {0}
  /\ Null \notin Nat

VARIABLES blocks, current, nextblk, nextindex, ret

vars == <<blocks, current, nextblk, nextindex, ret>>

NewBlock(max, previous) ==
  [maxhere |-> max, numprevious |-> previous, numhere |-> 0, items |-> [i \in 1..max |-> Null]]

Init ==
  /\ blocks = <<NewBlock(MaxHere, 0)>>
  /\ current = 1 /\ nextblk = 1 /\ nextindex = 0
  /\ ret = Null

\* memcpy of the item and ++numhere.
Store(blk, x) ==
  [maxhere |-> blk.maxhere, numprevious |-> blk.numprevious, numhere |-> blk.numhere + 1,
   items |-> [blk.items EXCEPT ![blk.numhere + 1] = x]]

Blk == blocks[current]
Full == Blk.numhere = Blk.maxhere

AdditemHere(x) ==
  /\ ~ Full
  /\ blocks' = [blocks EXCEPT ![current] = Store(@, x)]
  /\ ret' = Null
  /\ UNCHANGED <<current, nextblk, nextindex>>

AdditemNextBlock(x) ==
  /\ Full /\ current < Len(blocks)
  /\ blocks' = [blocks EXCEPT ![current + 1] = Store(@, x)]
  /\ current' = current + 1
  /\ ret' = Null
  /\ UNCHANGED <<nextblk, nextindex>>

\* With numprevious copied from the block before (a variant the checks refute).
AdditemNewBlockCopied(x) ==
  /\ Full /\ current = Len(blocks) /\ Len(blocks) < MaxBlocks
  /\ blocks' = Append(blocks, Store(NewBlock(2 * Blk.maxhere, Blk.numprevious), x))
  /\ current' = current + 1
  /\ ret' = Null
  /\ UNCHANGED <<nextblk, nextindex>>

AdditemNewBlock(x) ==
  /\ Full /\ current = Len(blocks) /\ Len(blocks) < MaxBlocks
  /\ blocks' = Append(blocks, Store(NewBlock(2 * Blk.maxhere, Blk.numprevious + Blk.numhere), x))
  /\ current' = current + 1
  /\ ret' = Null
  /\ UNCHANGED <<nextblk, nextindex>>

AdditemFails ==
  /\ Full /\ current = Len(blocks)
  /\ ret' = Failed
  /\ UNCHANGED <<blocks, current, nextblk, nextindex>>

Additem(x) == AdditemHere(x) \/ AdditemNextBlock(x) \/ AdditemNewBlock(x) \/ AdditemFails

Emptied(blk) ==
  [maxhere |-> blk.maxhere, numprevious |-> blk.numprevious, numhere |-> 0, items |-> blk.items]

\* With only the current block emptied (a variant the checks refute).
ClearbufferCurrent ==
  /\ blocks' = [blocks EXCEPT ![current].numhere = 0]
  /\ current' = 1
  /\ ret' = Null
  /\ UNCHANGED <<nextblk, nextindex>>

Clearbuffer ==
  /\ blocks' = [b \in DOMAIN blocks |-> Emptied(blocks[b])]
  /\ current' = 1
  /\ ret' = Null
  /\ UNCHANGED <<nextblk, nextindex>>

\* How many items there are by the counters of the current block.
Count == Blk.numprevious + Blk.numhere

Numitems ==
  /\ ret' = <<Count>>
  /\ UNCHANGED <<blocks, current, nextblk, nextindex>>

\* The array copyitems fills, block after block, each from its numprevious on.
InBlock(i, b) ==
  /\ blocks[b].numprevious < i
  /\ i <= blocks[b].numprevious + blocks[b].numhere

Copied ==
  [i \in 1..Count |->
     LET b == CHOOSE c \in DOMAIN blocks : c <= current /\ InBlock(i, c)
     IN  blocks[b].items[i - blocks[b].numprevious]]

Copyitems ==
  /\ ret' \in {Copied, Failed}
  /\ ret' = Failed => Count > 0
  /\ UNCHANGED <<blocks, current, nextblk, nextindex>>

Rewindbuffer ==
  /\ nextblk' = 1 /\ nextindex' = 0
  /\ ret' = Null
  /\ UNCHANGED <<blocks, current>>

NextitemNone ==
  /\ nextblk # 0 => nextindex >= blocks[nextblk].numhere
  /\ ret' = Null
  /\ UNCHANGED <<blocks, current, nextblk, nextindex>>

NextitemOne ==
  /\ nextblk # 0 /\ nextindex < blocks[nextblk].numhere
  /\ ret' = <<blocks[nextblk].items[nextindex + 1]>>
  /\ IF nextindex + 1 >= blocks[nextblk].maxhere
     THEN /\ nextblk' = IF nextblk < Len(blocks) THEN nextblk + 1 ELSE 0
          /\ nextindex' = 0
     ELSE nextindex' = nextindex + 1 /\ UNCHANGED nextblk
  /\ UNCHANGED <<blocks, current>>

Next ==
  \/ \E x \in Item : Additem(x)
  \/ Clearbuffer \/ Numitems \/ Copyitems \/ Rewindbuffer \/ NextitemNone \/ NextitemOne

Spec == Init /\ [][Next]_vars

-----------------------------------------------------------------------------
End(b) == blocks[b].numprevious + blocks[b].maxhere

InSlots(i, b) == blocks[b].numprevious < i /\ i <= End(b)

Block == [maxhere : Nat, numprevious : Nat, numhere : Nat, items : Seq(Item \cup {Null})]

TypeOK ==
  /\ blocks \in Seq(Block)
  /\ current \in DOMAIN blocks
  /\ nextblk \in 0..Len(blocks)
  /\ nextindex \in Nat

\* The blocks are laid end to end, without a gap.
Contiguous ==
  /\ blocks[1].numprevious = 0
  /\ \A b \in DOMAIN blocks : /\ blocks[b].maxhere > 0
                              /\ Len(blocks[b].items) = blocks[b].maxhere
  /\ \A b \in DOMAIN blocks : b + 1 \in DOMAIN blocks => blocks[b + 1].numprevious = End(b)
  /\ \A b, c \in DOMAIN blocks : b < c => End(b) <= blocks[c].numprevious
  /\ \A i \in 1..End(Len(blocks)) : \E b \in DOMAIN blocks : InSlots(i, b)

\* The blocks before the current one are full, those after it are empty.
Filled ==
  \A b \in DOMAIN blocks :
    /\ b < current => blocks[b].numhere = blocks[b].maxhere
    /\ b = current => blocks[b].numhere <= blocks[b].maxhere
    /\ b > current => blocks[b].numhere = 0

CursorInside == nextblk # 0 => nextindex < blocks[nextblk].maxhere

(* The counters of the blocks agree with each other, also those of blocks   *)
(* that were filled before the buffer was cleared and whose numprevious is  *)
(* not written again (buffer.c:99-107, 119-137).                            *)
BufferInv == TypeOK /\ Contiguous /\ Filled /\ CursorInside

Cursor == IF nextblk = 0 THEN Null ELSE blocks[nextblk].numprevious + nextindex

Promise == INSTANCE Items WITH items <- Copied, cursor <- Cursor

(* A buffer is the sequence of items that buffer.h promises: copyitems and  *)
(* numitems tell what was added since the last clear, in order, and nextitem *)
(* goes through it, whatever blocks hold it (buffer.c:110-209).             *)
ImplementsItems == Promise!Spec
=============================================================================
