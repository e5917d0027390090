------------------------------ MODULE FreeListHeap ------------------------------
(***************************************************************************)
(* pw_allocator: FreeListHeap on Block and FreeList.  The region is tiled   *)
(* by blocks whose headers form a doubly linked list; the free blocks that  *)
(* can hold a list node are also in the free list, in buckets by size.      *)
(* Addresses are offsets into the region, sizes are bytes.  The heap's      *)
(* statistics, which nothing reads back, are left out.                      *)
(***************************************************************************)
EXTENDS Naturals, Sequences, SequencesExt, FiniteSetsExt

CONSTANTS
    RegionSize,   \* bytes of the region
    Alignment,    \* alignof(Block)
    PoisonOffset, \* PW_ALLOCATOR_POISON_OFFSET
    BucketSizes,  \* sizes_, increasing
    MaxRequest    \* bound: the largest size asked for

\* sizeof(Block) and sizeof(FreeListNode): two pointers, a pointer and a size.
BlockHeader == 2 * Alignment
FreeListNode == 2 * Alignment

ASSUME HeapConstants ==
    /\ Alignment \in Nat \ {0} /\ MaxRequest \in Nat
    /\ PoisonOffset \in Nat /\ PoisonOffset % Alignment = 0
    /\ RegionSize \in Nat /\ RegionSize >= BlockHeader + 2 * PoisonOffset
    \* The end of the region leaves the two bits of next_ free that hold Used() and
    \* Last(); Block::Init checks the start of the region only.
    /\ RegionSize % 4 = 0
    /\ BucketSizes \in Seq(Nat)

VARIABLES
    blocks,   \* address -> the header there: next_, prev_, Used(), Last()
    chunks,   \* bucket -> its chain of nodes: address of the data, size
    asked     \* address -> size asked for, of the allocations handed out

heapVars == <<blocks, chunks, asked>>

NoBlock == RegionSize     \* nullptr as a prev_; no block starts there

Buckets == 1..(Len(BucketSizes) + 1)

UsableSpace(b) == b + BlockHeader + PoisonOffset
FromUsableSpace(p) == p - BlockHeader - PoisonOffset

InnerSize(bs, b) == bs[b].next - b - BlockHeader - 2 * PoisonOffset

BlockToSpan(bs, b) == [data |-> UsableSpace(b), size |-> InnerSize(bs, b)]

(* FindChunkPtrForSize: the first bucket for the size, of the ones that are *)
(* not empty if asked so; the implicit last bucket if there is none.        *)
FindChunkPtrForSize(cs, size, nonNull) ==
    Min({Len(BucketSizes) + 1} \cup
        {i \in DOMAIN BucketSizes :
            BucketSizes[i] >= size /\ (nonNull => cs[i] # <<>>)})

AddChunk(cs, chunk) ==
    IF chunk.size < FreeListNode THEN cs
    ELSE [cs EXCEPT ![FindChunkPtrForSize(cs, chunk.size, FALSE)] =
                        <<chunk>> \o @]

(* FindChunk: the first node that is large enough, bucket after bucket, in  *)
(* a set that is empty when there is none.                                  *)
FindChunk(cs, size) ==
    LET Fits(node) == size > 0 /\ node.size >= size
        buckets == {i \in Buckets :
                      /\ i >= FindChunkPtrForSize(cs, size, TRUE)
                      /\ \E j \in DOMAIN cs[i] : Fits(cs[i][j])}
        chain == cs[Min(buckets)]
    IN  IF buckets = {} THEN {} ELSE {chain[SelectInSeq(chain, Fits)]}

(* RemoveChunk; a chunk that is not found, because it was too small to be   *)
(* added, is ignored by every caller.                                       *)
RemoveChunk(cs, chunk) ==
    LET b == FindChunkPtrForSize(cs, chunk.size, TRUE)
    IN  [cs EXCEPT ![b] =
            RemoveFirstMatch(@, LAMBDA node : node.data = chunk.data)]

(* The head size that Split rounds up to. *)
AlignedSize(size) == ((size + Alignment - 1) \div Alignment) * Alignment

CanSplit(bs, b, size) ==
    /\ AlignedSize(size) <= InnerSize(bs, b)
    /\ InnerSize(bs, b) - AlignedSize(size) >= BlockHeader + 2 * PoisonOffset

SplitAt(b, size) == b + BlockHeader + 2 * PoisonOffset + AlignedSize(size)

\* Mutant of Split: the block after the new one keeps pointing at the head.
SplitKeepsPrev(bs, b, size) ==
    LET new == SplitAt(b, size)
    IN  [a \in DOMAIN bs \cup {new} |->
            CASE a = b -> [bs[b] EXCEPT !.next = new, !.last = FALSE]
              [] a = new -> [bs[b] EXCEPT !.prev = b]
              [] OTHER -> bs[a]]

(* Split: the tail of a free block becomes a block of its own and inherits  *)
(* the "last" flag; the block after it points back at it.                   *)
Split(bs, b, size) ==
    LET new == SplitAt(b, size)
    IN  [a \in DOMAIN bs \cup {new} |->
            CASE a = b -> [bs[b] EXCEPT !.next = new, !.last = FALSE]
              [] a = new -> [bs[b] EXCEPT !.prev = b]
              [] a \notin {b, new} /\ ~bs[b].last /\ a = bs[b].next ->
                   [bs[a] EXCEPT !.prev = new]
              [] OTHER -> bs[a]]

(* MergeNext of two free blocks. *)
MergeNext(bs, b) ==
    LET gone == bs[b].next
    IN  [a \in DOMAIN bs \ {gone} |->
            CASE a = b -> [bs[b] EXCEPT !.next = bs[gone].next,
                                        !.last = bs[gone].last]
              [] a # b /\ ~bs[gone].last /\ a = bs[gone].next ->
                   [bs[a] EXCEPT !.prev = b]
              [] OTHER -> bs[a]]

(* CheckStatus: a block and its neighbours point at each other.  Allocate   *)
(* and Free crash on a block that fails it: FreeMemoryIsListed says that    *)
(* none does.                                                               *)
IsValid(bs, b) ==
    /\ b % Alignment = 0
    /\ ~bs[b].last => b < bs[b].next /\ bs[bs[b].next].prev = b
    /\ bs[b].prev # NoBlock => bs[b].prev < b /\ bs[bs[b].prev].next = b

(* The constructor: one free block, in the free list. *)
HeapInit ==
    /\ blocks = [b \in {0} |-> [next |-> RegionSize, prev |-> NoBlock,
                                used |-> FALSE, last |-> TRUE]]
    /\ chunks = AddChunk([b \in Buckets |-> <<>>], BlockToSpan(blocks, 0))
    /\ asked = <<>>

(* Allocate: the heap after taking `chunk` for a request of `size` bytes.   *)
(* A block that cannot be split is handed out whole.                        *)
Allocated(bs, cs, chunk, size) ==
    LET b == FromUsableSpace(chunk.data)
        taken == RemoveChunk(cs, chunk)
        split == CanSplit(bs, b, size)
        parts == IF split THEN Split(bs, b, size) ELSE bs
    IN  [blocks |-> [parts EXCEPT ![b].used = TRUE],
         chunks |-> IF split
                    THEN AddChunk(taken, BlockToSpan(parts, SplitAt(b, size)))
                    ELSE taken]

(* Free: the heap after the block is marked free, merged with its free      *)
(* neighbours (they leave the free list) and listed.                        *)
MergedPrev(h, b) ==
    LET prev == h.blocks[b].prev
    IN  IF prev # NoBlock /\ ~h.blocks[prev].used
        THEN [blocks |-> MergeNext(h.blocks, prev),
              chunks |-> RemoveChunk(h.chunks, BlockToSpan(h.blocks, prev)),
              at |-> prev]
        ELSE [blocks |-> h.blocks, chunks |-> h.chunks, at |-> b]

\* Mutant of MergedNext: the neighbour stays in the free list.
MergedNextStaysListed(h, b) ==
    LET next == h.blocks[b].next
    IN  IF ~h.blocks[b].last /\ ~h.blocks[next].used
        THEN [h EXCEPT !.blocks = MergeNext(@, b)]
        ELSE h

MergedNext(h, b) ==
    LET next == h.blocks[b].next
    IN  IF ~h.blocks[b].last /\ ~h.blocks[next].used
        THEN [h EXCEPT !.blocks = MergeNext(@, b),
                       !.chunks = RemoveChunk(@, BlockToSpan(h.blocks, next))]
        ELSE h

Freed(bs, cs, b) ==
    LET left == MergedPrev([blocks |-> [bs EXCEPT ![b].used = FALSE],
                            chunks |-> cs], b)
        both == MergedNext(left, left.at)
    IN  [blocks |-> both.blocks,
         chunks |-> AddChunk(both.chunks, BlockToSpan(both.blocks, left.at))]

\* `size` bytes are handed out at ptr; ptr is given back.
HandOut(as, ptr, size) ==
    [p \in DOMAIN as \cup {ptr} |-> IF p = ptr THEN size ELSE as[p]]
GiveBack(as, ptr) == [p \in DOMAIN as \ {ptr} |-> as[p]]

(* Allocate(size), and Calloc(num, size) with num * size bytes.  When no    *)
(* chunk is found nullptr is returned and nothing changes.                  *)
Allocate(size) ==
    \E chunk \in FindChunk(chunks, size) :
        \E h \in {Allocated(blocks, chunks, chunk, size)} :
            /\ blocks' = h.blocks
            /\ chunks' = h.chunks
            /\ asked' = HandOut(asked, chunk.data, size)

(* Free(ptr), of an allocation that is live. *)
Free(ptr) ==
    \E h \in {Freed(blocks, chunks, FromUsableSpace(ptr))} :
        /\ blocks' = h.blocks
        /\ chunks' = h.chunks
        /\ asked' = GiveBack(asked, ptr)

(* Realloc(ptr, size) of a live allocation returns the pointer when the     *)
(* block is large enough.  (Size 0 is Free, a null pointer is Allocate.)    *)
ReallocInPlace(ptr, size) ==
    /\ InnerSize(blocks, FromUsableSpace(ptr)) >= size
    /\ asked' = [asked EXCEPT ![ptr] = size]
    /\ UNCHANGED <<blocks, chunks>>

(* Otherwise a new one is made, the data copied and the old one freed.      *)
Realloc(ptr, size) ==
    /\ InnerSize(blocks, FromUsableSpace(ptr)) < size
    /\ \E chunk \in FindChunk(chunks, size) :
        \E h \in {Allocated(blocks, chunks, chunk, size)} :
        \E g \in {Freed(h.blocks, h.chunks, FromUsableSpace(ptr))} :
            /\ blocks' = g.blocks
            /\ chunks' = g.chunks
            /\ asked' = GiveBack(HandOut(asked, chunk.data, size), ptr)

HeapNext ==
    \/ \E size \in 1..MaxRequest : Allocate(size)
    \/ \E ptr \in DOMAIN asked : Free(ptr)
    \/ \E ptr \in DOMAIN asked, size \in 1..MaxRequest :
          ReallocInPlace(ptr, size) \/ Realloc(ptr, size)

(* Two allocations never share a byte, each has the bytes that were asked   *)
(* for and is aligned, and none reaches into a block header or a list node. *)
AllocationsAreDisjoint ==
    \A p \in DOMAIN asked :
        /\ p % Alignment = 0
        /\ p + asked[p] + PoisonOffset <= RegionSize
        /\ \A b \in DOMAIN blocks :
              UsableSpace(b) <= p \/ b >= p + asked[p] + PoisonOffset
        /\ \A q \in DOMAIN asked \ {p} : p + asked[p] <= q \/ q + asked[q] <= p
        /\ \A i \in Buckets : \A j \in DOMAIN chunks[i] :
              \/ p + asked[p] <= chunks[i][j].data
              \/ chunks[i][j].data + chunks[i][j].size <= p

(* No memory is lost: the used blocks are the allocations, no two free      *)
(* blocks are neighbours, every block agrees with its neighbours, and the   *)
(* free list holds each free block that can hold a node, once, with its     *)
(* size, in the bucket where it is looked for.                              *)
FreeMemoryIsListed ==
    LET free == {b \in DOMAIN blocks : ~blocks[b].used}
        listed == {b \in free : InnerSize(blocks, b) >= FreeListNode}
    IN  /\ DOMAIN asked = {UsableSpace(b) : b \in DOMAIN blocks \ free}
        /\ \A b \in DOMAIN blocks : IsValid(blocks, b)
        /\ \A b \in free : blocks[b].last \/ blocks[b].next \notin free
        /\ \A i \in Buckets :
              /\ IsInjective(chunks[i])
              /\ ToSet(chunks[i]) =
                   {BlockToSpan(blocks, b) : b \in {c \in listed :
                      FindChunkPtrForSize(chunks, InnerSize(blocks, c), FALSE) = i}}
=============================================================================
