---------------------------- MODULE Sfmm ----------------------------
(* The storage allocator of hw3 (sfmm.c), word by word.                    *)
(*                                                                         *)
(* Addresses and sizes count words of 8 bytes, and a block is named by the *)
(* address of its sf_block, whose first word is the footer of the block    *)
(* before it.  A word of memory is a tag (a header or a footer), a link of *)
(* a list, data of the user, or blank (never written: pages come zeroed).  *)
(* The links of the lists are kept as sequences; the words that hold them  *)
(* are marked, because what a word held before matters when it becomes a   *)
(* header (split_block does not clear it).                                 *)
(*                                                                         *)
(* The code has several ways to leave the heap ill-formed.  Each sets      *)
(* heap.fault, after which the model follows it no further.                *)
EXTENDS Integers, Sequences, FiniteSetsExt, Functions, SequencesExt

CONSTANTS PAGE_SZ,         \* words in a page
          MaxPages,        \* pages that sf_mem_grow can hand out
          NUM_QUICK_LISTS, QUICK_LIST_MAX, NUM_FREE_LISTS,
          Request,         \* sizes asked for, in words
          Width            \* sf_size_t holds 0 .. Width - 1

ASSUME SizesAssumption ==
    /\ PAGE_SZ \in Nat /\ PAGE_SZ >= 10 /\ PAGE_SZ % 2 = 0
    /\ MaxPages \in Nat \ {0} /\ QUICK_LIST_MAX \in Nat \ {0}
    /\ NUM_QUICK_LISTS \in Nat /\ NUM_FREE_LISTS \in Nat \ {0, 1}
    /\ Request \subseteq 1 .. Width - 1
    /\ Width \in Nat /\ Width > PAGE_SZ * MaxPages /\ Width % 2 = 0

VARIABLES heap,            \* memory, lists, epi, the end of the heap, the fault
          live,            \* the blocks the user holds, with their payload sizes
          totalPayload, totalBlocks

vars == <<heap, live, totalPayload, totalBlocks>>

min == 4                   \* words of the smallest block
pro == 0                   \* the prologue; no payload is there, so also NULL

Blank == [kind |-> "blank"]
Link == [kind |-> "link"]
Data == [kind |-> "data"]
Tag(payload, size, alloc, prv, qk) ==
    [kind |-> "tag", payload |-> payload, size |-> size, alloc |-> alloc,
     prv |-> prv, qk |-> qk]
IsTag(w) == w.kind = "tag"

Even == {n \in Nat : n % 2 = 0}
Tags == [kind : {"tag"}, payload : Nat, size : Even, alloc : BOOLEAN, prv : BOOLEAN,
         qk : BOOLEAN]
Words == {Blank, Link, Data} \cup Tags

Top == PAGE_SZ * MaxPages
Addr == 0 .. Top - 1
Faults == {"none", "abort", "data read as a footer", "epilogue left behind",
           "epilogue miscounts", "footer over data", "left on its list",
           "payload forgotten", "request wraps", "size wraps",
           "split over old contents", "wrong list emptied"}
Heaps == [mem : [Addr -> Words],
          free : [0 .. NUM_FREE_LISTS - 1 -> Seq(Even)],
          quick : [0 .. NUM_QUICK_LISTS - 1 -> Seq(Even)],
          epi : Even \cup {-1}, end : Even, fault : Faults]

(***************************************************************************)
(* Blocks.                                                                 *)
(***************************************************************************)

Footer(h, b) == h.mem[b]   \* prev_footer
Header(h, b) == h.mem[b + 1]
SizeOf(h, b) == Header(h, b).size
NextBlock(h, b) == b + SizeOf(h, b)
PrevBlock(h, b) == b - Footer(h, b).size
Payload(b, size) == b + 2 .. b + 1 + size
Fails(h, why) == [h EXCEPT !.fault = why]

(* The smallest even size with room for the payload and a header.          *)
GetMinSize(size) ==
    LET whole == (size + 1) % Width
    IN  IF size <= 3 THEN min
        ELSE IF whole % 2 = 0 THEN whole ELSE ((size + 3) % Width) - (whole % 2)

Pow[i \in 0 .. NUM_FREE_LISTS] == IF i = 0 THEN 1 ELSE 2 * Pow[i - 1]

GetIndex(size) ==
    Min({i \in 0 .. NUM_FREE_LISTS - 2 : size <= min * Pow[i]} \cup {NUM_FREE_LISTS - 1})

QuickIndex(size) == (size - min) \div 2

(* Mutant: a footer for every block, as if without the footer optimization.*)
NewFooter_Always(tag, word) == tag
NewFooter(tag, word) == IF tag.alloc THEN word ELSE tag

(* A header brings the block after it up to date, the epilogue excepted.   *)
SetHeader(h, b, tag) ==
    LET n == b + tag.size
        own == [h.mem EXCEPT ![b + 1] = tag]
        both == [own EXCEPT ![n] = NewFooter(tag, @),
                            ![n + 1] = IF IsTag(@) THEN [@ EXCEPT !.prv = tag.alloc] ELSE @]
    IN  [h EXCEPT !.mem = IF b = h.epi THEN own ELSE both]

(* The five setters one after the other: up to the third the block still   *)
(* has its old size, and the block after that is changed as well.          *)
SetEntireHeader(h, b, tag) ==
    LET is == Header(h, b)
        old == Tag(tag.payload, is.size, tag.alloc, is.prv, is.qk)
    IN  SetHeader(SetHeader(h, b, old), b, tag)

(* The flag "create" turns a blank word into a header of zeros.            *)
CreateHeader(h, b, tag) ==
    SetEntireHeader([h EXCEPT !.mem[b + 1] = Tag(0, 0, FALSE, FALSE, FALSE)], b, tag)

PutBlock(h, b) ==
    [h EXCEPT !.free[GetIndex(SizeOf(h, b))] = Cons(b, @),
              !.mem = [h.mem EXCEPT ![b + 2] = Link, ![b + 3] = Link]]

(* Mutant: forgets to unlink the block.                                    *)
RemoveList_Nothing(h, b) == h
RemoveList(h, b) ==
    [h EXCEPT !.free = [i \in DOMAIN @ |-> RemoveFirst(@[i], b)]]

(* The setters, called before a new block has a size, write over the       *)
(* footer before it.                                                       *)
Repaired(h, b) == [h EXCEPT !.mem[NextBlock(h, b)] = Header(h, b)]

(* The rest of the block becomes one of its own; what its header word held *)
(* before goes into the computation of the new header.                     *)
SplitBlock(h, b, size) ==
    LET p == b + size
        rest == SizeOf(h, b) - size
        cut == SetHeader(h, b, [Header(h, b) EXCEPT !.size = size])
        new == CreateHeader(cut, p, Tag(0, rest, FALSE, Header(cut, b).alloc, FALSE))
    IN  IF Header(cut, p) # Blank THEN Fails(cut, "split over old contents")
        ELSE Repaired(new, b)

JoinsNext(h, n) == n # h.epi /\ ~Header(h, n).alloc

(* release_block finds the block before it by the footer, whatever the     *)
(* header says about that block being allocated; mutant: never joins it.   *)
JoinsPrev_Never(h, p) == FALSE
JoinsPrev(h, p) == p # pro /\ ~Header(h, p).alloc

ReleaseBlock(h, b) ==
    LET n == NextBlock(h, b)
        p == PrevBlock(h, b)
        after == IF JoinsNext(h, n) THEN RemoveList(h, n) ELSE h
        alone == IF JoinsPrev(h, p) THEN RemoveList(after, p) ELSE after
        start == IF JoinsPrev(h, p) THEN p ELSE b
        end == IF JoinsNext(h, n) THEN NextBlock(h, n) ELSE n
    IN  IF ~IsTag(Footer(h, b)) THEN Fails(h, "data read as a footer")
        ELSE PutBlock(SetEntireHeader(alone, start,
                          Tag(0, end - start, FALSE, Header(h, start).prv, FALSE)), start)

(***************************************************************************)
(* sf_malloc: the heap after it and the block it found, pro if none.       *)
(***************************************************************************)

Got(h, b) == [heap |-> h, block |-> b]

Initialize(h) ==
    LET one == CreateHeader([h EXCEPT !.end = PAGE_SZ], pro, Tag(0, min, TRUE, TRUE, FALSE))
        two == CreateHeader([one EXCEPT !.epi = PAGE_SZ - 2], PAGE_SZ - 2,
                            Tag(0, 0, TRUE, TRUE, FALSE))
        three == CreateHeader(two, min, Tag(0, PAGE_SZ - 6, FALSE, TRUE, FALSE))
    IN  PutBlock(Repaired(three, pro), min)

(* Give a block of the heap to the user, with the size it has.             *)
Allocated(h, b, size) ==
    SetEntireHeader(h, b, Tag(size, SizeOf(h, b), TRUE, Header(h, b).prv, FALSE))

FromQuickList(h, size) ==
    LET i == QuickIndex(GetMinSize(size))
    IN  Got(Allocated([h EXCEPT !.quick[i] = Tail(@)], Head(h.quick[i]), size),
            Head(h.quick[i]))

(* Both parts of a split get their headers.                                *)
Divided(cut, b, size) ==
    LET used == Allocated(cut, b, size)
        p == NextBlock(used, b)
        rest == Header(used, p)
    IN  SetEntireHeader(used, p, Tag(0, rest.size, FALSE, rest.prv, rest.qk))

(* The sizes are unsigned: the difference of a block that is too small     *)
(* wraps, and passes for a large one.                                      *)
Splits(h, b, need) == (SizeOf(h, b) - need) % Width >= min
Fits(h, b, need) == Splits(h, b, need) \/ SizeOf(h, b) >= need

FromFreeList(h, b, size) ==
    LET need == GetMinSize(size)
        cut == SplitBlock(RemoveList(h, b), b, need)
    IN  CASE Splits(h, b, need) /\ SizeOf(h, b) < need ->
                Got(Fails(h, "size wraps"), b)
          [] Splits(h, b, need) /\ SizeOf(h, b) >= need ->
                Got(IF cut.fault # "none" THEN cut
                    ELSE PutBlock(Divided(cut, b, size), b + need), b)
          [] OTHER -> Got(Fails(Allocated(h, b, size), "left on its list"), b)

(* The lists with a block that is taken, and the first such block.         *)
Fitting(h, need) ==
    {i \in GetIndex(need) .. NUM_FREE_LISTS - 1 :
        \E k \in DOMAIN h.free[i] : Fits(h, h.free[i][k], need)}
FirstFit(h, need) ==
    LET list == h.free[Min(Fitting(h, need))]
    IN  list[Min({k \in DOMAIN list : Fits(h, list[k], need)})]

(* One more page for the last block, which is on a list unless it is the   *)
(* old epilogue.                                                           *)
Grow(h, last) ==
    LET more == [h EXCEPT !.end = @ + PAGE_SZ]
        off == IF more.mem[last + 2] = Blank THEN more ELSE RemoveList(more, last)
    IN  PutBlock(SetEntireHeader(off, last,
                     Tag(0, SizeOf(off, last) + PAGE_SZ, FALSE, Header(off, last).prv,
                         FALSE)), last)

(* The same, for a number of pages.                                        *)
Grew(h, last, pages) ==
    LET grown[n \in 0 .. pages] == IF n = 0 THEN h ELSE Grow(grown[n - 1], last)
    IN  grown[pages]

MoveEpilogue(h) ==
    LET e == h.end - 2
        prv == IsTag(Footer(h, e)) /\ Footer(h, e).alloc
    IN  CreateHeader([h EXCEPT !.epi = e], e, Tag(0, 0, TRUE, prv, FALSE))

(* What is too much of the last block, taken off its list, is split off.  *)
GivenLast(whole, last, size) ==
    LET need == GetMinSize(size)
        exact == SizeOf(whole, last) - need < min
        cut == IF exact THEN whole ELSE SplitBlock(whole, last, need)
        put == IF exact THEN whole
               ELSE PutBlock(SetEntireHeader(cut, last + need, Header(cut, last + need)),
                             last + need)
        done == MoveEpilogue(Allocated([put EXCEPT !.epi = put.end - 2], last, size))
    IN  IF cut.fault # "none" THEN cut
        ELSE IF exact THEN Fails(done, "epilogue miscounts") ELSE done

FromGrowth(h, size) ==
    LET before == PrevBlock(h, h.epi)
        last == IF Header(h, before).alloc THEN h.epi ELSE before
        pages == (GetMinSize(size) - SizeOf(h, last) + PAGE_SZ - 1) \div PAGE_SZ
        left == MaxPages - h.end \div PAGE_SZ
    IN  CASE ~IsTag(Footer(h, h.epi)) -> Got(Fails(h, "data read as a footer"), pro)
          [] OTHER ->
             IF pages > left
             THEN Got(IF left = 0 THEN h
                      ELSE Fails(Grew(h, last, left), "epilogue left behind"), pro)
             ELSE Got(GivenLast(RemoveList(Grew(h, last, pages), last), last, size), last)

MallocFrom(h, size) ==
    LET need == GetMinSize(size)
        i == QuickIndex(need)
    IN  IF need < min THEN Got(Fails(h, "request wraps"), pro)
        ELSE IF i < NUM_QUICK_LISTS /\ h.quick[i] # <<>> THEN FromQuickList(h, size)
        ELSE IF Fitting(h, need) # {} THEN FromFreeList(h, FirstFit(h, need), size)
        ELSE FromGrowth(h, size)

(* The first call finds the heap empty.                                    *)
Malloc(h, size) == MallocFrom(IF h.end = 0 THEN Initialize(h) ELSE h, size)

(***************************************************************************)
(* sf_free: the heap after it.                                             *)
(***************************************************************************)

ValidPointer(h, b) ==
    /\ SizeOf(h, b) >= min /\ b >= pro + min /\ b < h.epi - 2
    /\ Header(h, b).alloc
    /\ Header(h, b).prv \/ ~Footer(h, b).alloc

ReleaseAll(h, all) ==
    LET released[n \in 0 .. Len(all)] ==
            IF n = 0 THEN h
            ELSE IF released[n - 1].fault # "none" THEN released[n - 1]
            ELSE ReleaseBlock(released[n - 1], all[n])
    IN  released[Len(all)]

(* A full quick list goes back to the free lists; the code then empties    *)
(* the first list, whichever it was.                                       *)
Flush(h, i) ==
    LET emptied == [ReleaseAll(h, h.quick[i]) EXCEPT !.quick[0] = <<>>]
    IN  IF emptied.fault # "none" \/ i = 0 THEN emptied
        ELSE Fails(emptied, "wrong list emptied")

ToQuickList(h, b, i) ==
    LET was == Header(h, b)
        marked == SetEntireHeader(h, b, Tag(0, was.size, was.alloc, was.prv, TRUE))
        room == IF Len(h.quick[i]) >= QUICK_LIST_MAX THEN Flush(marked, i) ELSE marked
    IN  [room EXCEPT !.quick[i] = <<b>> \o @, !.mem[b + 2] = Link]

FreeFrom(h, b) ==
    LET i == QuickIndex(SizeOf(h, b))
    IN  IF ~ValidPointer(h, b) THEN Fails(h, "abort")
        ELSE IF i < NUM_QUICK_LISTS THEN ToQuickList(h, b, i) ELSE ReleaseBlock(h, b)

(***************************************************************************)
(* The calls.  An action that sets the fault is the last one.              *)
(***************************************************************************)

Works == heap.fault = "none"

NoHeap == [mem |-> [w \in Addr |-> Blank],
           free |-> [i \in 0 .. NUM_FREE_LISTS - 1 |-> <<>>],
           quick |-> [i \in 0 .. NUM_QUICK_LISTS - 1 |-> <<>>],
           epi |-> -1, end |-> 0, fault |-> "none"]

(* The faults that compute an address from data: nothing is known after.   *)
Undefined == {"split over old contents", "data read as a footer", "size wraps",
              "request wraps"}

Ends(h, newLive, payload, blocks) ==
    IF h.fault \in Undefined
    THEN heap' = Fails(NoHeap, h.fault) /\ live' = <<>> /\ totalPayload' = 0 /\ totalBlocks' = 0
    ELSE heap' = h /\ live' = newLive /\ totalPayload' = payload /\ totalBlocks' = blocks

(* The user holds a block more, or has given one back.                     *)
Given(f, b, size) == [c \in DOMAIN f \cup {b} |-> IF c = b THEN size ELSE f[c]]
Taken(f, b) == [c \in DOMAIN f \ {b} |-> f[c]]

sf_malloc(size) ==
    LET got == Malloc(heap, size)
    IN  /\ Works
        /\ IF got.block = pro THEN Ends(got.heap, live, totalPayload, totalBlocks)
           ELSE Ends(got.heap, Given(live, got.block, size), totalPayload + size,
                     totalBlocks + SizeOf(got.heap, got.block))

sf_free(b) ==
    /\ Works
    /\ Ends(FreeFrom(heap, b), Taken(live, b),
            totalPayload - Header(heap, b).payload, totalBlocks - SizeOf(heap, b))

(* memcpy takes as many words as the whole block has.                      *)
Copied(h, from, to, size) ==
    [h EXCEPT !.mem = [w \in DOMAIN @ |-> IF w \in Payload(to, size)
                                          THEN @[w - to + from] ELSE @[w]]]

(* To a larger block: a new one is found, and the old one freed.           *)
ReallocMove(b, size) ==
    LET got == Malloc(heap, size)
        payload == Header(heap, b).payload
        copied == Copied(got.heap, b, got.block, SizeOf(heap, b))
    IN  /\ Works /\ GetMinSize(size) > SizeOf(heap, b)
        /\ IF got.block = pro
           THEN Ends(IF got.heap.fault = "none" THEN Fails(got.heap, "payload forgotten")
                     ELSE got.heap,
                     live, totalPayload - payload, totalBlocks)
           ELSE Ends(IF got.heap.fault = "none" THEN FreeFrom(copied, b) ELSE got.heap,
                     Given(Taken(live, b), got.block, size),
                     totalPayload + size - payload,
                     totalBlocks + SizeOf(got.heap, got.block) - SizeOf(heap, b))

(* To a smaller block: the same, less what can be split off.  The split    *)
(* leaves a footer in the last word of the block, which may be payload.    *)
ReallocShrink(b, size) ==
    LET need == GetMinSize(size)
        p == b + need
        whole == SizeOf(heap, b) - need < min
        cut == SplitBlock(heap, b, need)
        rest == Divided(cut, b, size)
        h == CASE need < min -> Fails(heap, "request wraps")
               [] need >= min /\ whole -> Allocated(heap, b, size)
               [] OTHER -> IF cut.fault # "none" THEN cut
                           ELSE IF p \in Payload(b, size) /\ Footer(heap, p) = Data
                                THEN Fails(rest, "footer over data")
                           ELSE ReleaseBlock(rest, p)
    IN  /\ Works /\ GetMinSize(size) <= SizeOf(heap, b)
        /\ Ends(h, [live EXCEPT ![b] = size], totalPayload - Header(heap, b).payload + size,
                IF whole THEN totalBlocks ELSE totalBlocks - SizeOf(heap, b) + need)

(* The user fills some of what it asked for.                               *)
Write(b, n) ==
    /\ Works /\ n <= live[b]
    /\ heap' = [heap EXCEPT !.mem = [w \in DOMAIN @ |-> IF w \in Payload(b, n) THEN Data
                                                        ELSE @[w]]]
    /\ UNCHANGED <<live, totalPayload, totalBlocks>>

Faulted == ~Works /\ UNCHANGED vars

Init ==
    /\ heap = NoHeap
    /\ live = <<>>
    /\ totalPayload = 0
    /\ totalBlocks = 0

Next ==
    \/ \E size \in Request : sf_malloc(size)
    \/ \E b \in DOMAIN live : sf_free(b)
    \/ \E b \in DOMAIN live, n \in Request : Write(b, n)
    \/ \E b \in DOMAIN live, size \in Request \cup {0} :
           ReallocMove(b, size) \/ ReallocShrink(b, size)
    \/ Faulted

Spec == Init /\ [][Next]_vars

(***************************************************************************)
(* Properties.                                                             *)
(***************************************************************************)

(* Memory holds whole words; sizes and addresses of blocks are aligned.    *)
TypeOK ==
    /\ heap \in Heaps
    /\ DOMAIN live \subseteq Even /\ live \in [DOMAIN live -> Nat]
    /\ totalPayload \in Int /\ totalBlocks \in Nat

(* The blocks, from the prologue to the epilogue.                          *)
Blocks ==
    LET from[b \in 0 .. heap.end] ==
            IF /\ b < heap.epi /\ IsTag(Header(heap, b)) /\ SizeOf(heap, b) >= min
               /\ NextBlock(heap, b) <= heap.end
            THEN {b} \cup from[NextBlock(heap, b)]
            ELSE {b}
    IN  from[pro]

InUse == Blocks \ {heap.epi}
Started == Works /\ heap.end > 0

(* The blocks tile the heap, and the tags of neighbours agree: the prv bit *)
(* says whether the block before is allocated, a free block has its footer *)
(* and no free neighbour (set_header, release_block).                      *)
TagsAgree ==
    Started =>
        /\ heap.epi = heap.end - 2 /\ heap.epi \in Blocks
        /\ \A b \in InUse :
              LET n == NextBlock(heap, b)
              IN  /\ n \in Blocks
                  /\ Header(heap, n).prv = Header(heap, b).alloc
                  /\ ~Header(heap, b).alloc =>
                        /\ Header(heap, n).alloc
                        /\ IsTag(Footer(heap, n))
                        /\ Footer(heap, n).size = SizeOf(heap, b)
                        /\ ~Footer(heap, n).alloc

(* The sum of what a function gives for some addresses.                    *)
SumOf(f) ==
    LET sum[n \in 0 .. Top] ==
            IF n = 0 THEN 0 ELSE sum[n - 1] + (IF n - 1 \in DOMAIN f THEN f[n - 1] ELSE 0)
    IN  sum[Top]

(* Every block is in exactly one place: held by the user, on the quick     *)
(* list of its size, or once on the free list of its class.  The           *)
(* statistics are those of the blocks that the user holds, through every   *)
(* move and split.  What the user holds is what the code has not freed: a  *)
(* block that sf_realloc was given with a size of 0 is held, with an empty *)
(* payload (sfmm.c 187-208), although sfmm.h 249-250 has it freed.         *)
ListsExact ==
    /\ Works => /\ totalPayload = SumOf(live)
                /\ totalBlocks = SumOf([b \in DOMAIN live |-> SizeOf(heap, b)])
    /\ Started =>
        /\ \A b \in InUse \ {pro} :
              LET tag == Header(heap, b)
              IN  /\ b \in DOMAIN live <=> tag.alloc /\ ~tag.qk
                  /\ b \in DOMAIN live => tag.payload = live[b]
        /\ DOMAIN live \subseteq InUse \ {pro}
        /\ \A i \in DOMAIN heap.free :
              /\ ToSet(heap.free[i]) = {b \in InUse : /\ ~Header(heap, b).alloc
                                                      /\ GetIndex(SizeOf(heap, b)) = i}
              /\ IsInjective(heap.free[i])
        /\ \A i \in DOMAIN heap.quick :
              /\ ToSet(heap.quick[i]) = {b \in InUse : /\ Header(heap, b).qk
                                                       /\ QuickIndex(SizeOf(heap, b)) = i}
              /\ IsInjective(heap.quick[i])
              /\ Len(heap.quick[i]) <= QUICK_LIST_MAX

(* release_block may follow a footer although the block before it is       *)
(* allocated, because a footer that the user has not overwritten is still  *)
(* that block's; and valid_pointer accepts all that the user holds.        *)
OldFootersTrue ==
    /\ Started => \A b \in InUse : LET w == Footer(heap, NextBlock(heap, b))
                                   IN  IsTag(w) => w.size = SizeOf(heap, b)
    /\ heap.fault # "abort"

(* The heap is what the next call takes it for. *)
HeapInv == TypeOK /\ TagsAgree /\ OldFootersTrue

\* What the user wrote in the block b is in the block c of another heap.
Arrives(h, b, g, c, size) ==
    \A w \in Payload(b, size) :
        w <= NextBlock(h, b) /\ (h.mem[w] = Data => g.mem[w - b + c] = Data)
KeepsData ==
    Works' => /\ \A b \in DOMAIN live \cap DOMAIN live' :
                    Arrives(heap, b, heap', b, Min({live[b], live'[b]}))
              /\ \A b \in DOMAIN live \ DOMAIN live', c \in DOMAIN live' \ DOMAIN live :
                    Arrives(heap, b, heap', c, live[b])

(* What the user holds fits its block, and no call changes it: the part of *)
(* a payload that a call leaves where it is keeps its contents, and what   *)
(* sf_realloc moves arrives.                                               *)
UserDataKept == [][KeepsData]_vars

=============================================================================
