---------------------------- MODULE Platform_proofs ----------------------------
(***************************************************************************)
(* What TLAPS proves about the platform layer and the services above it,    *)
(* one section each: the heap, the update service, and the FreeRTOS layer   *)
(* with the work queue.  Each component has an inductive invariant of its   *)
(* own; the theorems at the end are about the whole platform.               *)
(***************************************************************************)
EXTENDS Platform, SequenceLemmas, FiniteSetTheorems, TLAPS

(***************************************************************************)
(* FreeListHeap.                                                            *)
(*                                                                          *)
(* The heap of pw_allocator keeps its allocations apart and loses no        *)
(* memory, for every region, alignment, poison offset and bucket sizes.     *)
(*                                                                          *)
(* The argument follows the code: the headers tile the region (Layout), the *)
(* free list holds the spans of the free blocks (Listing), no two free      *)
(* blocks are neighbours (Apart), the used blocks are the allocations       *)
(* (Handed).  Allocate and Free break Listing and Apart at the block they   *)
(* work on and nowhere else, which is what the parameters `out` and `x` of  *)
(* these predicates say.                                                    *)
(***************************************************************************)

(* The numbers divisible by m are its multiples. *)
LEMMA ModMultiple ==
    ASSUME NEW m \in Nat \ {0}, NEW a \in Nat
    PROVE  a % m = 0 <=> \E k \in Nat : a = k * m
  <1>1. ASSUME NEW k \in Nat, a = k * m PROVE a % m = 0
    BY <1>1
  <1>2. ASSUME a % m = 0 PROVE \E k \in Nat : a = k * m
    <2>1. a = m * (a \div m) + (a % m) /\ (a \div m) \in Int
      OBVIOUS
    <2>2. (a \div m) \in Nat
      OBVIOUS
    <2> QED BY <1>2, <2>1, <2>2
  <1> QED BY <1>1, <1>2

(* Adding a multiple of m changes nothing about divisibility by m. *)
LEMMA ModSum ==
    ASSUME NEW m \in Nat \ {0}, NEW a \in Nat, NEW b \in Nat, a % m = 0
    PROVE  (a + b) % m = 0 <=> b % m = 0
  <1>0. a + b \in Nat
    OBVIOUS
  <1>1. PICK k \in Nat : a = k * m
    BY ModMultiple
  <1>2. ASSUME b % m = 0 PROVE (a + b) % m = 0
    <2>1. PICK l \in Nat : b = l * m
      BY <1>2, ModMultiple
    <2>2. a + b = (k + l) * m /\ k + l \in Nat
      BY <1>1, <2>1
    <2>3. \E j \in Nat : a + b = j * m
      BY <2>2
    <2> QED  BY <1>0, <2>3, ModMultiple, Zenon
  <1>3. ASSUME (a + b) % m = 0 PROVE b % m = 0
    <2>1. PICK l \in Nat : a + b = l * m
      BY <1>0, <1>3, ModMultiple, Zenon
    <2>2. b = (l - k) * m
      BY <1>1, <2>1
    <2>3. l - k \in Nat
      BY <2>2
    <2>4. \E j \in Nat : b = j * m
      BY <2>2, <2>3
    <2> QED  BY <2>4, ModMultiple, Zenon
  <1> QED  BY <1>2, <1>3

(* What the assumptions on the constants say of the header, the node and    *)
(* the poison bytes.                                                        *)
LEMMA HeaderFacts ==
    /\ BlockHeader \in Nat \ {0} /\ BlockHeader % Alignment = 0
    /\ FreeListNode = BlockHeader
    /\ PoisonOffset \in Nat /\ PoisonOffset % Alignment = 0
    /\ RegionSize \in Nat /\ NoBlock = RegionSize
    /\ BlockHeader + 2 * PoisonOffset <= RegionSize
    /\ Alignment \in Nat \ {0}
  <1>1. Alignment \in Nat \ {0} /\ BlockHeader \in Nat \ {0}
    BY HeapConstants DEF BlockHeader
  <1>2. \E k \in Nat : BlockHeader = k * Alignment
    BY <1>1 DEF BlockHeader
  <1>3. BlockHeader % Alignment = 0
    BY <1>1, <1>2, ModMultiple, Zenon
  <1> QED  BY <1>1, <1>3, HeapConstants DEF BlockHeader, FreeListNode, NoBlock

(* Alignment, after AlignUp and the constructors: sums of aligned offsets,  *)
(* the usable space of an aligned block, the rounded size that Split uses   *)
(* and the place where it splits are aligned, and rounding never loses a    *)
(* byte that was asked for.                                                 *)
LEMMA AlignedSum ==
    ASSUME NEW a \in Nat, NEW b \in Nat, a % Alignment = 0, b % Alignment = 0
    PROVE  a + b \in Nat /\ (a + b) % Alignment = 0
  <1>1. a + b \in Nat
    OBVIOUS
  <1> QED  BY <1>1, ModSum, HeaderFacts, Zenon

(* The memory a block hands out is aligned when the block is. *)
LEMMA UsableIsAligned ==
    ASSUME NEW b \in Nat, b % Alignment = 0
    PROVE  UsableSpace(b) \in Nat /\ UsableSpace(b) % Alignment = 0
  <1>0. BlockHeader \in Nat
    BY HeaderFacts
  <1>1. b + BlockHeader \in Nat /\ (b + BlockHeader) % Alignment = 0
    BY <1>0, HeaderFacts, AlignedSum, Zenon
  <1> QED  BY <1>1, HeaderFacts, AlignedSum, Zenon DEF UsableSpace

(* Rounding a request up keeps at least the bytes asked for. *)
LEMMA AlignedSizeFits ==
    ASSUME NEW size \in Nat
    PROVE  AlignedSize(size) \in Nat /\ AlignedSize(size) >= size /\ AlignedSize(size) % Alignment = 0
  <1> DEFINE n == size + Alignment - 1
             q == n \div Alignment
  <1>1. n \in Nat /\ Alignment \in Nat \ {0}
    BY HeaderFacts
  <1> HIDE DEF n
  <1>2. q \in Nat
    BY <1>1
  <1>3. n = Alignment * q + (n % Alignment) /\ n % Alignment < Alignment /\ n % Alignment \in Nat
    BY <1>1
  <1> HIDE DEF q
  <1>4. AlignedSize(size) = q * Alignment
    BY DEF AlignedSize, q, n
  <1>5. q * Alignment \in Nat
    BY <1>1, <1>2
  <1>6. q * Alignment >= size
    BY <1>1, <1>2, <1>3 DEF n
  <1>7. (q * Alignment) % Alignment = 0
    <2>1. \E k \in Nat : q * Alignment = k * Alignment
      BY <1>2
    <2> QED  BY <1>1, <1>5, <2>1, ModMultiple, Zenon
  <1> QED  BY <1>4, <1>5, <1>6, <1>7

(* Block::Split puts the new header at an aligned address. *)
LEMMA SplitAtIsAligned ==
    ASSUME NEW b \in Nat, b % Alignment = 0, NEW size \in Nat
    PROVE  SplitAt(b, size) \in Nat /\ SplitAt(b, size) % Alignment = 0
  <1>1. UsableSpace(b) \in Nat /\ UsableSpace(b) % Alignment = 0
    BY UsableIsAligned
  <1>2. UsableSpace(b) + PoisonOffset \in Nat /\ (UsableSpace(b) + PoisonOffset) % Alignment = 0
    BY <1>1, HeaderFacts, AlignedSum, Zenon
  <1>3. (UsableSpace(b) + PoisonOffset) + AlignedSize(size) \in Nat
        /\ ((UsableSpace(b) + PoisonOffset) + AlignedSize(size)) % Alignment = 0
    BY <1>2, AlignedSizeFits, AlignedSum, Zenon
  <1>4. SplitAt(b, size) = (UsableSpace(b) + PoisonOffset) + AlignedSize(size)
    BY HeaderFacts, AlignedSizeFits DEF SplitAt, UsableSpace
  <1> QED  BY <1>3, <1>4

(* The type of a header, and the bytes of a block that are not inner size. *)
Header == [next : Nat, prev : Nat, used : BOOLEAN, last : BOOLEAN]
Aligned(a) == a % Alignment = 0
Overhead == BlockHeader + 2 * PoisonOffset

(* What CheckStatus and the tiling of the region ask of one block: it has   *)
(* room for its header and poison bytes, ends inside the region, ends at    *)
(* its end exactly if it is the last one, and agrees with both of its       *)
(* neighbours.                                                              *)
BlockFits(bs, b) ==
    /\ Aligned(b)
    /\ b + Overhead <= bs[b].next /\ bs[b].next <= RegionSize
    /\ bs[b].last <=> bs[b].next = RegionSize
    /\ ~bs[b].last => bs[b].next \in DOMAIN bs /\ bs[bs[b].next].prev = b
    /\ bs[b].prev # NoBlock => bs[b].prev \in DOMAIN bs /\ bs[bs[b].prev].next = b

(* The blocks tile: each of them fits, and none starts inside another. *)
Layout(bs) ==
    /\ DOMAIN bs \subseteq Nat
    /\ bs \in [DOMAIN bs -> Header]
    /\ \A b \in DOMAIN bs : BlockFits(bs, b)
    /\ \A b, c \in DOMAIN bs : c <= b \/ bs[b].next <= c

(* Arithmetic of sizes, once and for all. *)
LEMMA Sizes ==
    /\ Overhead \in Nat \ {0} /\ NoBlock = RegionSize /\ RegionSize \in Nat
    /\ \A b \in Nat, size \in Nat : SplitAt(b, size) = b + Overhead + AlignedSize(size)
    /\ Overhead >= BlockHeader /\ BlockHeader \in Nat
    /\ \A bs, b : bs[b].next \in Nat /\ b \in Nat =>
          InnerSize(bs, b) = bs[b].next - (b + Overhead) /\ InnerSize(bs, b) \in Int
  <1>1. /\ Overhead \in Nat \ {0} /\ NoBlock = RegionSize /\ RegionSize \in Nat
        /\ Overhead >= BlockHeader /\ BlockHeader \in Nat
    BY HeaderFacts DEF Overhead
  <1>2. ASSUME NEW b \in Nat, NEW size \in Nat
        PROVE  SplitAt(b, size) = b + Overhead + AlignedSize(size)
    BY HeaderFacts, AlignedSizeFits DEF Overhead, SplitAt
  <1>3. ASSUME NEW bs, NEW b, bs[b].next \in Nat, b \in Nat
        PROVE  InnerSize(bs, b) = bs[b].next - (b + Overhead) /\ InnerSize(bs, b) \in Int
    BY <1>3, HeaderFacts DEF Overhead, InnerSize
  <1> QED  BY <1>1, <1>2, <1>3

(* What Layout says of one block. *)
LEMMA LayoutFacts ==
    ASSUME NEW bs, Layout(bs), NEW b \in DOMAIN bs
    PROVE  /\ b \in Nat /\ bs[b].next \in Nat /\ bs[b].prev \in Nat
           /\ bs[b].used \in BOOLEAN /\ bs[b].last \in BOOLEAN
           /\ BlockFits(bs, b) /\ b < RegionSize
           /\ InnerSize(bs, b) = bs[b].next - (b + Overhead) /\ InnerSize(bs, b) \in Nat
  <1>1. b \in Nat /\ bs[b] \in Header /\ BlockFits(bs, b)
    BY DEF Layout
  <1>2. /\ bs[b].next \in Nat /\ bs[b].prev \in Nat
        /\ bs[b].used \in BOOLEAN /\ bs[b].last \in BOOLEAN
    BY <1>1 DEF Header
  <1> QED  BY <1>1, <1>2, Sizes DEF BlockFits

(* What Split does to the fields of the headers, and that it keeps the      *)
(* tiling.                                                                  *)
IsSplit(bs, b, new, ps) ==
    /\ DOMAIN ps = DOMAIN bs \cup {new} /\ ps \in [DOMAIN ps -> Header]
    /\ ps[b].next = new /\ ~ps[b].last /\ ps[b].prev = bs[b].prev /\ ps[b].used = bs[b].used
    /\ ps[new].next = bs[b].next /\ ps[new].last = bs[b].last /\ ps[new].prev = b
    /\ ps[new].used = bs[b].used
    /\ \A a \in DOMAIN bs \ {b} :
          /\ ps[a].next = bs[a].next /\ ps[a].last = bs[a].last /\ ps[a].used = bs[a].used
          /\ ~bs[b].last /\ a = bs[b].next => ps[a].prev = new
          /\ bs[b].last \/ a # bs[b].next => ps[a].prev = bs[a].prev

(* Every field of every header after Block::Split. *)
LEMMA SplitFields ==
    ASSUME NEW bs, Layout(bs), NEW b \in DOMAIN bs, NEW size \in Nat, CanSplit(bs, b, size)
    PROVE  /\ SplitAt(b, size) \in Nat /\ Aligned(SplitAt(b, size))
           /\ SplitAt(b, size) \notin DOMAIN bs
           /\ b + Overhead + size <= SplitAt(b, size)
           /\ SplitAt(b, size) + Overhead <= bs[b].next
           /\ IsSplit(bs, b, SplitAt(b, size), Split(bs, b, size))
  <1> DEFINE new == SplitAt(b, size)
             ps == Split(bs, b, size)
  <1>0. /\ bs \in [DOMAIN bs -> Header] /\ DOMAIN bs \subseteq Nat
        /\ \A c \in DOMAIN bs : c <= b \/ bs[b].next <= c
    BY DEF Layout
  <1>1. b \in Nat /\ bs[b].next \in Nat /\ Aligned(b)
    BY LayoutFacts DEF BlockFits
  <1>2. AlignedSize(size) \in Nat /\ AlignedSize(size) >= size
    BY AlignedSizeFits
  <1>3. /\ new = b + Overhead + AlignedSize(size)
        /\ AlignedSize(size) <= bs[b].next - (b + Overhead)
        /\ bs[b].next - (b + Overhead) - AlignedSize(size) >= Overhead
    BY <1>1, <1>2, Sizes DEF CanSplit, Overhead
  <1>4. new \in Nat /\ Aligned(new)
    BY <1>1, SplitAtIsAligned DEF Aligned
  <1>5. b + Overhead + size <= new /\ new + Overhead <= bs[b].next /\ b < new
    BY <1>1, <1>2, <1>3, Sizes
  <1>6. new \notin DOMAIN bs
    BY <1>0, <1>1, <1>4, <1>5, Sizes
  <1>7. ps = [a \in DOMAIN bs \cup {new} |->
                CASE a = b -> [bs[b] EXCEPT !.next = new, !.last = FALSE]
                  [] a = new -> [bs[b] EXCEPT !.prev = b]
                  [] a \notin {b, new} /\ ~bs[b].last /\ a = bs[b].next ->
                       [bs[a] EXCEPT !.prev = new]
                  [] OTHER -> bs[a]]
    BY DEF Split
  <1> HIDE DEF new, ps
  <1>8. /\ ps[b] = [bs[b] EXCEPT !.next = new, !.last = FALSE]
        /\ ps[new] = [bs[b] EXCEPT !.prev = b]
        /\ \A a \in DOMAIN bs \ {b} :
              ps[a] = IF ~bs[b].last /\ a = bs[b].next THEN [bs[a] EXCEPT !.prev = new] ELSE bs[a]
        /\ DOMAIN ps = DOMAIN bs \cup {new}
    BY <1>6, <1>7
  <1>9. ASSUME NEW h \in Header
        PROVE  /\ [h EXCEPT !.next = new, !.last = FALSE] \in Header
               /\ [h EXCEPT !.next = new, !.last = FALSE].next = new
               /\ ~[h EXCEPT !.next = new, !.last = FALSE].last
               /\ [h EXCEPT !.next = new, !.last = FALSE].prev = h.prev
               /\ [h EXCEPT !.next = new, !.last = FALSE].used = h.used
    BY <1>4 DEF Header
  <1>10. ASSUME NEW h \in Header, NEW n \in Nat
         PROVE  /\ [h EXCEPT !.prev = n] \in Header
                /\ [h EXCEPT !.prev = n].prev = n
                /\ [h EXCEPT !.prev = n].next = h.next
                /\ [h EXCEPT !.prev = n].last = h.last
                /\ [h EXCEPT !.prev = n].used = h.used
    BY DEF Header
  <1>11. bs[b] \in Header
    BY <1>0
  <1>12. /\ ps[b].next = new /\ ~ps[b].last /\ ps[b].prev = bs[b].prev
         /\ ps[b].used = bs[b].used /\ ps[b] \in Header
    BY <1>8, <1>9, <1>11
  <1>13. /\ ps[new].next = bs[b].next /\ ps[new].last = bs[b].last /\ ps[new].prev = b
         /\ ps[new].used = bs[b].used /\ ps[new] \in Header
    BY <1>1, <1>8, <1>10, <1>11
  <1>14. ASSUME NEW a \in DOMAIN bs \ {b}
         PROVE  /\ ps[a].next = bs[a].next /\ ps[a].last = bs[a].last
                /\ ps[a].used = bs[a].used
                /\ ~bs[b].last /\ a = bs[b].next => ps[a].prev = new
                /\ bs[b].last \/ a # bs[b].next => ps[a].prev = bs[a].prev
                /\ ps[a] \in Header
    <2>0. bs[a] \in Header
      BY <1>0
    <2>1. CASE ~bs[b].last /\ a = bs[b].next
      <3>1. ps[a] = [bs[a] EXCEPT !.prev = new]
        BY <1>8, <2>1
      <3> QED  BY <1>4, <1>10, <2>0, <2>1, <3>1
    <2>2. CASE ~(~bs[b].last /\ a = bs[b].next)
      <3>1. ps[a] = bs[a]
        BY <1>8, <2>2
      <3> QED  BY <2>0, <2>2, <3>1
    <2> QED  BY <2>1, <2>2
  <1>15. ps \in [DOMAIN ps -> Header]
    BY <1>7, <1>8, <1>12, <1>13, <1>14
  <1>16. IsSplit(bs, b, new, ps)
    BY <1>8, <1>12, <1>13, <1>14, <1>15 DEF IsSplit
  <1> QED
    BY <1>4, <1>5, <1>6, <1>16 DEF new, ps

(* Block::Split keeps the layout: blocks tile the region and know their neighbours. *)
LEMMA SplitLayout ==
    ASSUME NEW bs, Layout(bs), NEW b \in DOMAIN bs, NEW new \in Nat, NEW ps,
           Aligned(new), new \notin DOMAIN bs,
           b + Overhead <= new, new + Overhead <= bs[b].next,
           IsSplit(bs, b, new, ps)
    PROVE  Layout(ps)
  <1>1. \A a \in DOMAIN bs : /\ a \in Nat /\ bs[a].next \in Nat /\ BlockFits(bs, a)
                             /\ a < RegionSize /\ bs[a].prev \in Nat
    BY LayoutFacts
  <1>2. \A a, c \in DOMAIN bs : c <= a \/ bs[a].next <= c
    BY DEF Layout
  <1>3. b \in DOMAIN ps /\ new \in DOMAIN ps /\ b # new /\ new # NoBlock /\ b # NoBlock
    BY <1>1, Sizes DEF IsSplit, BlockFits
  <1>4. BlockFits(ps, b)
    <2>1. /\ ps[b].next = new /\ ~ps[b].last /\ ps[b].prev = bs[b].prev /\ ps[new].prev = b
      BY DEF IsSplit
    <2>2. new # RegionSize /\ new <= RegionSize
      BY <1>1, Sizes DEF BlockFits
    <2>3. bs[b].prev # NoBlock => /\ bs[b].prev \in DOMAIN bs \ {b}
                                  /\ bs[bs[b].prev].next = b
      BY <1>1, Sizes DEF BlockFits
    <2>4. ps[b].prev # NoBlock => ps[b].prev \in DOMAIN ps /\ ps[ps[b].prev].next = b
      BY <2>1, <2>3 DEF IsSplit
    <2> QED  BY <1>1, <1>3, <2>1, <2>2, <2>4 DEF BlockFits
  <1>5. BlockFits(ps, new)
    <2>1. /\ ps[new].next = bs[b].next /\ ps[new].last = bs[b].last /\ ps[new].prev = b
          /\ ps[b].next = new
      BY DEF IsSplit
    <2>2. ~bs[b].last => bs[b].next \in DOMAIN bs \ {b}
      BY <1>1, Sizes DEF BlockFits
    <2>3. ~ps[new].last => ps[new].next \in DOMAIN ps /\ ps[ps[new].next].prev = new
      BY <2>1, <2>2 DEF IsSplit
    <2> QED  BY <1>1, <1>3, <2>1, <2>3 DEF BlockFits
  <1>6. ASSUME NEW a \in DOMAIN bs \ {b} PROVE BlockFits(ps, a)
    <2>1. ps[a].next = bs[a].next /\ ps[a].last = bs[a].last
      BY DEF IsSplit
    <2>2. ~ps[a].last => ps[a].next \in DOMAIN ps /\ ps[ps[a].next].prev = a
      <3> SUFFICES ASSUME ~bs[a].last PROVE ps[a].next \in DOMAIN ps /\ ps[ps[a].next].prev = a
        BY <2>1
      <3>1. bs[a].next \in DOMAIN bs /\ bs[bs[a].next].prev = a
        BY <1>1 DEF BlockFits
      <3>2. bs[a].next # bs[b].next \/ bs[b].last
        <4> SUFFICES ASSUME ~bs[b].last, bs[a].next = bs[b].next PROVE FALSE
          OBVIOUS
        <4> QED  BY <1>1, <3>1 DEF BlockFits
      <3>3. CASE bs[a].next = b
        BY <2>1, <3>1, <3>3 DEF IsSplit
      <3>4. CASE bs[a].next # b
        BY <2>1, <3>1, <3>2, <3>4 DEF IsSplit
      <3> QED  BY <3>3, <3>4
    <2>3. ps[a].prev # NoBlock => ps[a].prev \in DOMAIN ps /\ ps[ps[a].prev].next = a
      <3>1. CASE ~bs[b].last /\ a = bs[b].next
        BY <3>1 DEF IsSplit
      <3>2. CASE ~(~bs[b].last /\ a = bs[b].next)
        <4>1. ps[a].prev = bs[a].prev
          BY <3>2 DEF IsSplit
        <4> SUFFICES ASSUME bs[a].prev # NoBlock PROVE ps[a].prev \in DOMAIN ps /\ ps[ps[a].prev].next = a
          BY <4>1
        <4>2. bs[a].prev \in DOMAIN bs /\ bs[bs[a].prev].next = a
          BY <1>1 DEF BlockFits
        <4>3. bs[a].prev # b
          BY <1>1, <3>2, <4>2, Sizes DEF BlockFits
        <4> QED  BY <4>1, <4>2, <4>3 DEF IsSplit
      <3> QED  BY <3>1, <3>2
    <2> QED  BY <1>1, <2>1, <2>2, <2>3 DEF BlockFits
  <1>7. ASSUME NEW a \in DOMAIN ps, NEW c \in DOMAIN ps PROVE c <= a \/ ps[a].next <= c
    <2>0. DOMAIN ps = DOMAIN bs \cup {new}
      BY DEF IsSplit
    <2>1. /\ ps[b].next = new /\ ps[new].next = bs[b].next
          /\ \A x \in DOMAIN bs \ {b} : ps[x].next = bs[x].next
      BY DEF IsSplit
    <2>2. /\ b \in Nat /\ bs[b].next \in Nat /\ b < new /\ new < bs[b].next
          /\ a \in Nat /\ c \in Nat
      BY <1>1, <2>0, Sizes
    <2>3. c \in DOMAIN bs => c <= b \/ bs[b].next <= c
      BY <1>2
    <2>4. CASE a = new
      BY <2>0, <2>1, <2>2, <2>3, <2>4
    <2>5. CASE a = b
      BY <2>0, <2>1, <2>2, <2>3, <2>5
    <2>6. CASE a \in DOMAIN bs \ {b}
      <3>1. ps[a].next = bs[a].next /\ bs[a].next \in Nat
        BY <1>1, <2>1, <2>6
      <3>2. CASE c = new
        <4>1. b <= a \/ bs[a].next <= b
          BY <1>2, <2>6
        <4>2. a <= b \/ bs[b].next <= a
          BY <1>2, <2>6
        <4> QED  BY <2>2, <2>6, <3>1, <3>2, <4>1, <4>2
      <3>3. CASE c \in DOMAIN bs
        BY <1>2, <2>6, <3>1, <3>3
      <3> QED  BY <2>0, <3>2, <3>3
    <2> QED  BY <2>0, <2>4, <2>5, <2>6
  <1>8. \A a \in DOMAIN ps : BlockFits(ps, a)
    BY <1>4, <1>5, <1>6 DEF IsSplit
  <1>9. DOMAIN ps \subseteq Nat /\ ps \in [DOMAIN ps -> Header]
    BY <1>1 DEF IsSplit
  <1> QED  BY <1>7, <1>8, <1>9 DEF Layout

(* The same of MergeNext. *)
IsMerged(bs, b, ps) ==
    LET gone == bs[b].next
    IN  /\ DOMAIN ps = DOMAIN bs \ {gone} /\ ps \in [DOMAIN ps -> Header]
        /\ ps[b].next = bs[gone].next /\ ps[b].last = bs[gone].last
        /\ ps[b].prev = bs[b].prev /\ ps[b].used = bs[b].used
        /\ \A a \in DOMAIN bs \ {b, gone} :
              /\ ps[a].next = bs[a].next /\ ps[a].last = bs[a].last /\ ps[a].used = bs[a].used
              /\ ~bs[gone].last /\ a = bs[gone].next => ps[a].prev = b
              /\ bs[gone].last \/ a # bs[gone].next => ps[a].prev = bs[a].prev

(* Every field of every header after Block::MergeNext. *)
LEMMA MergeFields ==
    ASSUME NEW bs, Layout(bs), NEW b \in DOMAIN bs, ~bs[b].last
    PROVE  IsMerged(bs, b, MergeNext(bs, b)) /\ bs[b].next \in DOMAIN bs /\ bs[b].next # b
  <1> DEFINE gone == bs[b].next
             ps == MergeNext(bs, b)
  <1>0. gone \in DOMAIN bs /\ gone # b /\ bs \in [DOMAIN bs -> Header]
        /\ b \in Nat /\ bs[gone].next \in Nat
    BY LayoutFacts, Sizes DEF BlockFits, Layout
  <1>1. ps = [a \in DOMAIN bs \ {gone} |->
            CASE a = b -> [bs[b] EXCEPT !.next = bs[gone].next, !.last = bs[gone].last]
              [] a # b /\ ~bs[gone].last /\ a = bs[gone].next -> [bs[a] EXCEPT !.prev = b]
              [] OTHER -> bs[a]]
    BY DEF MergeNext
  <1> HIDE DEF ps, gone
  <1>2. /\ ps[b] = [bs[b] EXCEPT !.next = bs[gone].next, !.last = bs[gone].last]
        /\ \A a \in DOMAIN bs \ {b, gone} :
              ps[a] = IF ~bs[gone].last /\ a = bs[gone].next THEN [bs[a] EXCEPT !.prev = b] ELSE bs[a]
        /\ DOMAIN ps = DOMAIN bs \ {gone}
    BY <1>0, <1>1
  <1>3. ASSUME NEW h \in Header, NEW n \in Nat, NEW l \in BOOLEAN, NEW g,
               g = [h EXCEPT !.next = n, !.last = l]
        PROVE  /\ g \in Header /\ g.next = n /\ g.last = l /\ g.prev = h.prev
               /\ g.used = h.used
    BY <1>3 DEF Header
  <1>4. ASSUME NEW h \in Header, NEW n \in Nat
        PROVE  LET g == [h EXCEPT !.prev = n]
               IN  /\ g \in Header /\ g.prev = n /\ g.next = h.next /\ g.last = h.last
                   /\ g.used = h.used
    BY DEF Header
  <1>5. bs[b] \in Header /\ bs[gone].last \in BOOLEAN
    BY <1>0 DEF Header
  <1>6. /\ ps[b].next = bs[gone].next /\ ps[b].last = bs[gone].last /\ ps[b].prev = bs[b].prev
        /\ ps[b].used = bs[b].used /\ ps[b] \in Header
    <2> DEFINE n == bs[gone].next
               l == bs[gone].last
               h == bs[b]
    <2>1. n \in Nat /\ l \in BOOLEAN /\ h \in Header /\ ps[b] = [h EXCEPT !.next = n, !.last = l]
      BY <1>0, <1>2, <1>5
    <2> HIDE DEF n, l, h
    <2>2. /\ ps[b].next = n /\ ps[b].last = l /\ ps[b].prev = h.prev
          /\ ps[b].used = h.used /\ ps[b] \in Header
      BY <2>1 DEF Header
    <2> QED  BY <2>2 DEF n, l, h
  <1>7. ASSUME NEW a \in DOMAIN bs \ {b, gone}
        PROVE  /\ ps[a].next = bs[a].next /\ ps[a].last = bs[a].last
               /\ ps[a].used = bs[a].used
               /\ ~bs[gone].last /\ a = bs[gone].next => ps[a].prev = b
               /\ bs[gone].last \/ a # bs[gone].next => ps[a].prev = bs[a].prev
               /\ ps[a] \in Header
    <2>0. bs[a] \in Header
      BY <1>0
    <2>1. CASE ~bs[gone].last /\ a = bs[gone].next
      <3>1. ps[a] = [bs[a] EXCEPT !.prev = b]
        BY <1>2, <2>1
      <3> QED  BY <1>0, <1>4, <2>0, <2>1, <3>1
    <2>2. CASE ~(~bs[gone].last /\ a = bs[gone].next)
      <3>1. ps[a] = bs[a]
        BY <1>2, <2>2
      <3> QED  BY <2>0, <2>2, <3>1
    <2> QED  BY <2>1, <2>2
  <1>8. ps \in [DOMAIN ps -> Header]
    BY <1>0, <1>1, <1>2, <1>6, <1>7
  <1> QED
    BY <1>0, <1>2, <1>6, <1>7, <1>8 DEF IsMerged, gone, ps

(* Block::MergeNext keeps the layout. *)
LEMMA MergeLayout ==
    ASSUME NEW bs, Layout(bs), NEW b \in DOMAIN bs, ~bs[b].last, NEW ps, IsMerged(bs, b, ps)
    PROVE  Layout(ps)
  <1> DEFINE gone == bs[b].next
  <1>1. \A a \in DOMAIN bs : /\ a \in Nat /\ bs[a].next \in Nat /\ BlockFits(bs, a)
                             /\ a < RegionSize /\ bs[a].prev \in Nat
    BY LayoutFacts
  <1>2. \A a, c \in DOMAIN bs : c <= a \/ bs[a].next <= c
    BY DEF Layout
  <1>3. /\ gone \in DOMAIN bs /\ gone # b /\ bs[gone].prev = b
        /\ b < gone /\ gone < bs[gone].next /\ gone # NoBlock /\ b # NoBlock
        /\ ~bs[gone].last => bs[gone].next \in DOMAIN bs \ {gone, b}
    BY <1>1, Sizes DEF BlockFits
  <1>4. /\ DOMAIN ps = DOMAIN bs \ {gone} /\ b \in DOMAIN ps
        /\ ps[b].next = bs[gone].next /\ ps[b].last = bs[gone].last /\ ps[b].prev = bs[b].prev
        /\ \A a \in DOMAIN bs \ {b, gone} :
              /\ ps[a].next = bs[a].next /\ ps[a].last = bs[a].last
              /\ ~bs[gone].last /\ a = bs[gone].next => ps[a].prev = b
              /\ bs[gone].last \/ a # bs[gone].next => ps[a].prev = bs[a].prev
    BY <1>3 DEF IsMerged
  <1> HIDE DEF gone
  <1>5. BlockFits(ps, b)
    <2>1. ~ps[b].last => ps[b].next \in DOMAIN ps /\ ps[ps[b].next].prev = b
      BY <1>3, <1>4
    <2>2. ps[b].prev # NoBlock => ps[b].prev \in DOMAIN ps /\ ps[ps[b].prev].next = b
      <3> SUFFICES ASSUME bs[b].prev # NoBlock
                   PROVE  ps[b].prev \in DOMAIN ps /\ ps[ps[b].prev].next = b
        BY <1>4
      <3>1. bs[b].prev \in DOMAIN bs /\ bs[bs[b].prev].next = b
        BY <1>1 DEF BlockFits
      <3>2. bs[b].prev # b /\ bs[b].prev # gone
        BY <1>1, <1>3, <3>1, Sizes DEF BlockFits
      <3> QED  BY <1>4, <3>1, <3>2
    <2>3. b + Overhead <= bs[gone].next /\ bs[gone].next <= RegionSize
          /\ (bs[gone].last <=> bs[gone].next = RegionSize) /\ Aligned(b)
      BY <1>1, <1>3, Sizes DEF BlockFits, gone
    <2> QED  BY <1>4, <2>1, <2>2, <2>3 DEF BlockFits
  <1>6. ASSUME NEW a \in DOMAIN bs \ {b, gone} PROVE BlockFits(ps, a)
    <2>1. ps[a].next = bs[a].next /\ ps[a].last = bs[a].last
      BY <1>4
    <2>2. ~ps[a].last => ps[a].next \in DOMAIN ps /\ ps[ps[a].next].prev = a
      <3> SUFFICES ASSUME ~bs[a].last PROVE ps[a].next \in DOMAIN ps /\ ps[ps[a].next].prev = a
        BY <2>1
      <3>1. bs[a].next \in DOMAIN bs /\ bs[bs[a].next].prev = a
        BY <1>1 DEF BlockFits
      <3>2. bs[a].next # gone /\ (bs[gone].last \/ bs[a].next # bs[gone].next)
        BY <1>1, <1>3, <3>1 DEF BlockFits
      <3>3. CASE bs[a].next = b
        BY <1>4, <2>1, <3>1, <3>3
      <3>4. CASE bs[a].next # b
        BY <1>4, <2>1, <3>1, <3>2, <3>4
      <3> QED  BY <3>3, <3>4
    <2>3. ps[a].prev # NoBlock => ps[a].prev \in DOMAIN ps /\ ps[ps[a].prev].next = a
      <3>1. CASE ~bs[gone].last /\ a = bs[gone].next
        BY <1>3, <1>4, <3>1
      <3>2. CASE ~(~bs[gone].last /\ a = bs[gone].next)
        <4>1. ps[a].prev = bs[a].prev
          BY <1>4, <3>2
        <4> SUFFICES ASSUME bs[a].prev # NoBlock PROVE ps[a].prev \in DOMAIN ps /\ ps[ps[a].prev].next = a
          BY <4>1
        <4>2. bs[a].prev \in DOMAIN bs /\ bs[bs[a].prev].next = a
          BY <1>1 DEF BlockFits
        <4>3. bs[a].prev # b
          BY <4>2 DEF gone
        <4>4. bs[a].prev # gone
          BY <1>1, <1>3, <3>2, <4>2 DEF BlockFits
        <4> QED  BY <1>4, <4>1, <4>2, <4>3, <4>4
      <3> QED  BY <3>1, <3>2
    <2> QED  BY <1>1, <2>1, <2>2, <2>3 DEF BlockFits
  <1>7. ASSUME NEW a \in DOMAIN ps, NEW c \in DOMAIN ps PROVE c <= a \/ ps[a].next <= c
    <2>1. a \in DOMAIN bs /\ c \in DOMAIN bs /\ a # gone /\ c # gone
      BY <1>4
    <2>2. CASE a = b
      <3>1. c <= b \/ gone <= c
        BY <1>2, <2>1 DEF gone
      <3>2. c <= gone \/ bs[gone].next <= c
        BY <1>2, <1>3, <2>1
      <3> QED  BY <1>1, <1>3, <1>4, <2>1, <2>2, <3>1, <3>2
    <2>3. CASE a # b
      BY <1>2, <1>4, <2>1, <2>3
    <2> QED  BY <2>2, <2>3
  <1>8. \A a \in DOMAIN ps : BlockFits(ps, a)
    BY <1>4, <1>5, <1>6
  <1>9. DOMAIN ps \subseteq Nat /\ ps \in [DOMAIN ps -> Header]
    BY <1>1, <1>4 DEF IsMerged
  <1> QED  BY <1>7, <1>8, <1>9 DEF Layout

(* The same of MarkUsed and MarkFree. *)
Mark(bs, b, u) == [bs EXCEPT ![b].used = u]

IsMarked(bs, b, u, ps) ==
    /\ DOMAIN ps = DOMAIN bs /\ ps[b].used = u
    /\ \A a \in DOMAIN bs : /\ ps[a].next = bs[a].next /\ ps[a].prev = bs[a].prev
                            /\ ps[a].last = bs[a].last
                            /\ a # b => ps[a].used = bs[a].used

(* MarkUsed and MarkFree change one flag. *)
LEMMA MarkFields ==
    ASSUME NEW bs, Layout(bs), NEW b \in DOMAIN bs, NEW u \in BOOLEAN
    PROVE  Layout(Mark(bs, b, u)) /\ IsMarked(bs, b, u, Mark(bs, b, u))
  <1> DEFINE ps == Mark(bs, b, u)
  <1>1. /\ bs \in [DOMAIN bs -> Header] /\ DOMAIN bs \subseteq Nat
        /\ \A a \in DOMAIN bs : BlockFits(bs, a)
        /\ \A a, c \in DOMAIN bs : c <= a \/ bs[a].next <= c
    BY DEF Layout
  <1>2. DOMAIN ps = DOMAIN bs /\ ps[b] = [bs[b] EXCEPT !.used = u]
        /\ \A a \in DOMAIN bs \ {b} : ps[a] = bs[a]
    BY <1>1 DEF Mark
  <1>0. ps = [a \in DOMAIN bs |-> ps[a]]
    BY <1>1 DEF Mark
  <1> HIDE DEF ps
  <1>3. ps[b] \in Header /\ ps[b].used = u /\ ps[b].next = bs[b].next
        /\ ps[b].prev = bs[b].prev /\ ps[b].last = bs[b].last
    BY <1>1, <1>2 DEF Header
  <1>4. \A a \in DOMAIN bs : /\ ps[a] \in Header
                             /\ ps[a].next = bs[a].next /\ ps[a].prev = bs[a].prev
                             /\ ps[a].last = bs[a].last
                             /\ a # b => ps[a].used = bs[a].used
    BY <1>1, <1>2, <1>3
  <1>5. \A a \in DOMAIN ps : BlockFits(ps, a)
    <2> SUFFICES ASSUME NEW a \in DOMAIN bs PROVE BlockFits(ps, a)
      BY <1>2
    <2> QED  BY <1>1, <1>2, <1>4 DEF BlockFits
  <1>6. ps \in [DOMAIN ps -> Header]
    <2>1. \A a \in DOMAIN bs : ps[a] \in Header
      BY <1>4
    <2>2. ps \in [DOMAIN bs -> Header]
      BY <1>0, <2>1, FunctionInto, Zenon
    <2> QED  BY <1>2, <2>2
  <1>7. \A a, c \in DOMAIN ps : c <= a \/ ps[a].next <= c
    BY <1>1, <1>2, <1>4
  <1> QED  BY <1>1, <1>2, <1>3, <1>4, <1>5, <1>6, <1>7 DEF Layout, IsMarked, ps

(* The free list. A node, and the bucket where a chunk of a size belongs    *)
(* whatever the buckets hold.                                               *)
Node == [data : Nat, size : Nat]

BucketFor(size) == FindChunkPtrForSize(<<>>, size, FALSE)

(* The bucket search: adding looks at the sizes only, removing skips the    *)
(* empty buckets; both find the home bucket of a chunk that is in it.       *)
LEMMA BucketFacts ==
    ASSUME NEW cs, NEW size \in Nat
    PROVE  /\ BucketFor(size) \in Buckets
           /\ FindChunkPtrForSize(cs, size, FALSE) = BucketFor(size)
           /\ FindChunkPtrForSize(cs, size, TRUE) \in Buckets
           /\ cs[BucketFor(size)] # <<>> =>
                FindChunkPtrForSize(cs, size, TRUE) = BucketFor(size)
  <1> DEFINE n == Len(BucketSizes) + 1
             F == {n} \cup {i \in DOMAIN BucketSizes : BucketSizes[i] >= size}
             T == {n} \cup {i \in DOMAIN BucketSizes : BucketSizes[i] >= size /\ cs[i] # <<>>}
  <1>1. n \in Nat \ {0} /\ DOMAIN BucketSizes = 1..(n - 1) /\ Buckets = 1..n
    BY HeapConstants DEF Buckets
  <1> HIDE DEF n
  <1>2. F \in SUBSET Nat /\ T \in SUBSET F /\ F # {} /\ T # {} /\ F \subseteq Buckets
    <2>1. \A x \in F : x \in Nat /\ x \in Buckets
      BY <1>1
    <2>2. \A x \in T : x \in F
      OBVIOUS
    <2>3. n \in F /\ n \in T
      OBVIOUS
    <2> HIDE DEF F, T
    <2> QED  BY <2>1, <2>2, <2>3
  <1>3. T \in SUBSET Nat
    BY <1>2
  <1>4. BucketFor(size) = Min(F) /\ FindChunkPtrForSize(cs, size, FALSE) = Min(F)
    <2>1. ASSUME NEW ds
          PROVE  {n} \cup {i \in DOMAIN BucketSizes : BucketSizes[i] >= size /\ (FALSE => ds[i] # <<>>)} = F
      OBVIOUS
    <2> HIDE DEF F
    <2> QED  BY <2>1 DEF BucketFor, FindChunkPtrForSize, n
  <1>5. FindChunkPtrForSize(cs, size, TRUE) = Min(T)
    <2>1. {n} \cup {i \in DOMAIN BucketSizes : BucketSizes[i] >= size /\ (TRUE => cs[i] # <<>>)} = T
      OBVIOUS
    <2> HIDE DEF T
    <2> QED  BY <2>1 DEF FindChunkPtrForSize, n
  <1>6. Min(F) \in F /\ \A y \in F : Min(F) <= y
    <2> HIDE DEF F
    <2> QED  BY <1>2, NatMin
  <1>7. Min(T) \in T /\ \A y \in T : Min(T) <= y
    <2> HIDE DEF T
    <2> QED  BY <1>2, <1>3, NatMin
  <1>8. cs[Min(F)] # <<>> => Min(T) = Min(F)
    <2> SUFFICES ASSUME cs[Min(F)] # <<>> PROVE Min(T) = Min(F)
      OBVIOUS
    <2> DEFINE f == Min(F)
               t == Min(T)
    <2>1. f \in T
      BY <1>6
    <2>2. f <= t /\ t <= f /\ f \in Nat /\ t \in Nat
      <3> HIDE DEF F, T
      <3> QED  BY <1>2, <1>3, <1>6, <1>7, <2>1
    <2> HIDE DEF f, t
    <2>3. f = t
      BY <2>2
    <2> QED  BY <2>3 DEF f, t
  <1> HIDE DEF F, T
  <1> QED  BY <1>2, <1>4, <1>5, <1>6, <1>7, <1>8

(* RemoveChunk takes the one node with an address out of a chain. *)
LEMMA RemoveMatch ==
    ASSUME NEW s \in Seq(Node), NEW d, IsInjective(s),
           \A m, n \in ToSet(s) : m.data = d /\ n.data = d => m = n
    PROVE  LET t == RemoveFirstMatch(s, LAMBDA node : node.data = d)
           IN  /\ t \in Seq(Node)
               /\ ToSet(t) = {n \in ToSet(s) : n.data # d}
               /\ IsInjective(t)
  <1> DEFINE Test(node) == node.data = d
             I == {i \in 1..Len(s) : s[i].data = d}
             t == RemoveFirstMatch(s, LAMBDA node : node.data = d)
  <1>0. DOMAIN s = 1..Len(s) /\ Len(s) \in Nat
    OBVIOUS
  <1>1. CASE I = {}
    <2>1. t = s
      BY <1>1 DEF RemoveFirstMatch
    <2> HIDE DEF t
    <2>2. \A n \in ToSet(s) : n.data # d
      BY <1>0, <1>1 DEF ToSet
    <2> QED  BY <2>1, <2>2 DEF t
  <1>2. CASE I # {}
    <2> DEFINE k == Min(I)
    <2>1. t = SubSeq(s, 1, k - 1) \o SubSeq(s, k + 1, Len(s))
      BY <1>2 DEF RemoveFirstMatch, SelectInSeq, RemoveAt
    <2>2. k \in I
      <3> HIDE DEF I
      <3>1. I \in SUBSET Nat
        BY DEF I
      <3> QED  BY <1>2, <3>1, NatMin
    <2>3. k \in 1..Len(s) /\ s[k].data = d
      BY <2>2
    <2> HIDE DEF k, t
    <2>4. /\ t \in Seq(Node) /\ Len(t) = Len(s) - 1
          /\ \A i \in 1..(k - 1) : t[i] = s[i]
          /\ \A i \in k..(Len(s) - 1) : t[i] = s[i + 1]
      <3> DEFINE l == SubSeq(s, 1, k - 1)
                 r == SubSeq(s, k + 1, Len(s))
      <3>1. l \in Seq(Node) /\ Len(l) = k - 1 /\ \A i \in 1..(k - 1) : l[i] = s[i]
        BY <1>0, <2>3
      <3>2. /\ r \in Seq(Node) /\ Len(r) = Len(s) - k
            /\ \A i \in 1..(Len(s) - k) : r[i] = s[k + i]
        <4>1. k + 1 \in 1..(Len(s) + 1) /\ Len(s) \in (k + 1 - 1)..Len(s)
          BY <1>0, <2>3
        <4>2. /\ r \in Seq(Node) /\ Len(r) = Len(s) - (k + 1) + 1
              /\ \A i \in 1..(Len(s) - (k + 1) + 1) : r[i] = s[(k + 1) + i - 1]
          BY <4>1, SubSeqProperties
        <4> HIDE DEF r
        <4>3. Len(r) = Len(s) - k
          BY <1>0, <2>3, <4>2
        <4>4. ASSUME NEW i \in 1..(Len(s) - k) PROVE r[i] = s[k + i]
          <5>1. i \in 1..(Len(s) - (k + 1) + 1) /\ (k + 1) + i - 1 = k + i
            BY <1>0, <2>3
          <5>2. r[i] = s[(k + 1) + i - 1]
            BY <4>2, <5>1
          <5> QED  BY <5>1, <5>2
        <4> QED  BY <4>2, <4>3, <4>4
      <3> HIDE DEF l, r
      <3>3. t = l \o r
        BY <2>1 DEF l, r
      <3>4. /\ t \in Seq(Node) /\ Len(t) = Len(l) + Len(r)
            /\ \A i \in 1..Len(l) : t[i] = l[i]
            /\ \A i \in (Len(l) + 1)..(Len(l) + Len(r)) : t[i] = r[i - Len(l)]
        <4>1. /\ l \o r \in Seq(Node) /\ Len(l \o r) = Len(l) + Len(r)
              /\ \A i \in 1..(Len(l) + Len(r)) : (l \o r)[i] =
                    IF i <= Len(l) THEN l[i] ELSE r[i - Len(l)]
          BY <3>1, <3>2, ConcatProperties, Zenon
        <4>2. Len(l) \in Nat /\ Len(r) \in Nat
          BY <3>1, <3>2
        <4> QED  BY <3>3, <4>1, <4>2
      <3>5. Len(t) = Len(s) - 1 /\ \A i \in 1..(k - 1) : t[i] = s[i]
        BY <1>0, <2>3, <3>1, <3>2, <3>4
      <3>6. ASSUME NEW i \in k..(Len(s) - 1) PROVE t[i] = s[i + 1]
        <4>1. i \in (Len(l) + 1)..(Len(l) + Len(r)) /\ i - Len(l) \in 1..(Len(s) - k)
          BY <1>0, <2>3, <3>1, <3>2
        <4>2. t[i] = r[i - Len(l)] /\ r[i - Len(l)] = s[k + (i - Len(l))]
          BY <3>2, <3>4, <4>1
        <4>3. k + (i - Len(l)) = i + 1
          BY <2>3, <3>1
        <4> QED  BY <4>2, <4>3
      <3> QED  BY <3>4, <3>5, <3>6
    <2>5. DOMAIN t = 1..(Len(s) - 1)
      BY <2>4
    <2> DEFINE f(i) == IF i < k THEN i ELSE i + 1
    <2>6. \A i \in DOMAIN t : f(i) \in DOMAIN s \ {k} /\ t[i] = s[f(i)]
      BY <1>0, <2>3, <2>4, <2>5
    <2>7. \A j \in DOMAIN s \ {k} : \E i \in DOMAIN t : j = f(i)
      <3> SUFFICES ASSUME NEW j \in DOMAIN s \ {k} PROVE \E i \in DOMAIN t : j = f(i)
        OBVIOUS
      <3>1. CASE j < k
        BY <1>0, <2>3, <2>5, <3>1
      <3>2. CASE j > k
        <4>1. j - 1 \in DOMAIN t /\ j = f(j - 1)
          BY <1>0, <2>3, <2>5, <3>2
        <4> QED  BY <4>1
      <3> QED  BY <1>0, <2>3, <3>1, <3>2
    <2>8. \A i, j \in DOMAIN t : f(i) = f(j) => i = j
      BY <2>3, <2>5
    <2> HIDE DEF f
    <2>9. IsInjective(t)
      <3> SUFFICES ASSUME NEW i \in DOMAIN t, NEW j \in DOMAIN t, t[i] = t[j] PROVE i = j
        BY DEF IsInjective
      <3>1. f(i) \in DOMAIN s /\ f(j) \in DOMAIN s /\ s[f(i)] = s[f(j)]
        BY <2>6
      <3>2. f(i) = f(j)
        BY <3>1 DEF IsInjective
      <3> QED  BY <2>8, <3>2
    <2>10. ASSUME NEW j \in DOMAIN s \ {k} PROVE s[j].data # d
      <3> SUFFICES ASSUME s[j].data = d PROVE FALSE
        OBVIOUS
      <3>1. s[j] \in ToSet(s) /\ s[k] \in ToSet(s)
        BY <1>0, <2>3 DEF ToSet
      <3>2. s[j] = s[k]
        BY <2>3, <3>1
      <3> QED  BY <1>0, <2>3, <3>2 DEF IsInjective
    <2>11. ToSet(t) = {n \in ToSet(s) : n.data # d}
      <3>1. ASSUME NEW n \in ToSet(t) PROVE n \in ToSet(s) /\ n.data # d
        BY <2>6, <2>10 DEF ToSet
      <3>2. ASSUME NEW n \in ToSet(s), n.data # d PROVE n \in ToSet(t)
        <4>1. PICK j \in DOMAIN s : n = s[j]
          BY DEF ToSet
        <4>2. j # k
          BY <2>3, <3>2, <4>1
        <4>3. PICK i \in DOMAIN t : j = f(i)
          BY <2>7, <4>2
        <4> QED  BY <2>6, <4>1, <4>3 DEF ToSet
      <3> QED  BY <3>1, <3>2
    <2> QED  BY <2>4, <2>9, <2>11 DEF t
  <1> QED  BY <1>1, <1>2

(* The free blocks apart from those in `out` (the blocks an operation is    *)
(* working on), the spans of the ones that belong in bucket i, and the      *)
(* statement that the free list holds exactly these, once each.             *)
Loose(bs, out) == {c \in DOMAIN bs \ out : ~bs[c].used}

ListedIn(bs, b, i) == InnerSize(bs, b) >= FreeListNode /\ BucketFor(InnerSize(bs, b)) = i

SpansIn(bs, out, i) ==
    {BlockToSpan(bs, b) : b \in {c \in Loose(bs, out) : ListedIn(bs, c, i)}}

Listing(bs, cs, out) ==
    /\ cs \in [Buckets -> Seq(Node)]
    /\ \A i \in Buckets : IsInjective(cs[i]) /\ ToSet(cs[i]) = SpansIn(bs, out, i)

(* A block and its span determine each other. *)
LEMMA SpanFacts ==
    ASSUME NEW bs, Layout(bs), NEW b \in DOMAIN bs
    PROVE  /\ BlockToSpan(bs, b) \in Node
           /\ BlockToSpan(bs, b).data = UsableSpace(b)
           /\ BlockToSpan(bs, b).size = InnerSize(bs, b)
           /\ FromUsableSpace(UsableSpace(b)) = b
           /\ UsableSpace(b) \in Nat
           /\ \A c \in DOMAIN bs : UsableSpace(c) = UsableSpace(b) => c = b
  <1>1. b \in Nat /\ InnerSize(bs, b) \in Nat /\ \A c \in DOMAIN bs : c \in Nat
    BY LayoutFacts
  <1>2. /\ UsableSpace(b) \in Nat /\ FromUsableSpace(UsableSpace(b)) = b
        /\ \A c \in DOMAIN bs : UsableSpace(c) = UsableSpace(b) => c = b
    BY <1>1, HeaderFacts DEF UsableSpace, FromUsableSpace
  <1> QED  BY <1>1, <1>2 DEF BlockToSpan, Node

(* Membership in SpansIn, spelled out. *)
LEMMA SpansMember ==
    ASSUME NEW bs, NEW out, NEW i, NEW n
    PROVE  n \in SpansIn(bs, out, i) <=>
             \E b \in Loose(bs, out) : ListedIn(bs, b, i) /\ n = BlockToSpan(bs, b)
  BY DEF SpansIn

(* AddChunk lists the span of a free block that was not listed. *)
LEMMA AddListing ==
    ASSUME NEW bs, Layout(bs), NEW out, NEW b \in DOMAIN bs, b \in out, ~bs[b].used,
           NEW cs, Listing(bs, cs, out)
    PROVE  Listing(bs, AddChunk(cs, BlockToSpan(bs, b)), out \ {b})
  <1> DEFINE chunk == BlockToSpan(bs, b)
             k == BucketFor(chunk.size)
             rest == out \ {b}
  <1>1. chunk \in Node /\ chunk.data = UsableSpace(b) /\ chunk.size = InnerSize(bs, b)
        /\ chunk.size \in Nat
    BY SpanFacts, LayoutFacts
  <1>2. cs \in [Buckets -> Seq(Node)]
        /\ \A i \in Buckets : IsInjective(cs[i]) /\ ToSet(cs[i]) = SpansIn(bs, out, i)
    BY DEF Listing
  <1>3. Loose(bs, rest) = Loose(bs, out) \cup {b} /\ b \notin Loose(bs, out)
        /\ Loose(bs, out) \subseteq DOMAIN bs
    BY DEF Loose
  <1> HIDE DEF chunk, rest
  <1>4. \A i : ListedIn(bs, b, i) => SpansIn(bs, rest, i) = SpansIn(bs, out, i) \cup {chunk}
    BY <1>3, SpansMember DEF chunk
  <1>5. \A i : ~ListedIn(bs, b, i) => SpansIn(bs, rest, i) = SpansIn(bs, out, i)
    <2> SUFFICES ASSUME NEW i, ~ListedIn(bs, b, i), NEW n
                 PROVE  n \in SpansIn(bs, rest, i) <=> n \in SpansIn(bs, out, i)
      OBVIOUS
    <2> QED  BY <1>3, SpansMember
  <1>6. CASE chunk.size < FreeListNode
    <2>1. AddChunk(cs, chunk) = cs
      BY <1>6 DEF AddChunk
    <2>2. \A i : ~ListedIn(bs, b, i)
      BY <1>1, <1>6, HeaderFacts DEF ListedIn
    <2> QED  BY <1>2, <1>5, <2>1, <2>2 DEF Listing, chunk, rest
  <1>7. CASE ~(chunk.size < FreeListNode)
    <2>1. k \in Buckets /\ FindChunkPtrForSize(cs, chunk.size, FALSE) = k
      BY <1>1, BucketFacts
    <2>2. AddChunk(cs, chunk) = [cs EXCEPT ![k] = <<chunk>> \o @]
      BY <1>7, <2>1 DEF AddChunk
    <2>3. \A i : ListedIn(bs, b, i) <=> i = k
      BY <1>1, <1>7, HeaderFacts DEF ListedIn
    <2> HIDE DEF k
    <2>4. chunk \notin ToSet(cs[k])
      <3> SUFFICES ASSUME chunk \in SpansIn(bs, out, k) PROVE FALSE
        BY <1>2, <2>1
      <3>1. PICK c \in Loose(bs, out) : chunk = BlockToSpan(bs, c)
        BY SpansMember
      <3>2. c \in DOMAIN bs /\ UsableSpace(c) = UsableSpace(b)
        BY <1>1, <1>3, <3>1, SpanFacts
      <3> QED  BY <1>3, <3>2, SpanFacts
    <2> DEFINE new == [cs EXCEPT ![k] = <<chunk>> \o @]
    <2>5. /\ new[k] = <<chunk>> \o cs[k]
          /\ \A i \in Buckets : i # k => new[i] = cs[i]
          /\ DOMAIN new = Buckets
      BY <1>2, <2>1
    <2>6. /\ new[k] \in Seq(Node) /\ IsInjective(new[k])
          /\ ToSet(new[k]) = ToSet(cs[k]) \cup {chunk}
      <3> HIDE DEF new
      <3>1. cs[k] \in Seq(Node)
        BY <1>2, <2>1
      <3> QED  BY <1>1, <1>2, <2>1, <2>4, <2>5, <3>1, Prepend
    <2>7. new = [i \in Buckets |-> new[i]]
      BY <1>2
    <2> HIDE DEF new
    <2>8. \A i \in Buckets : new[i] \in Seq(Node)
      BY <1>2, <2>5, <2>6
    <2>9. new \in [Buckets -> Seq(Node)]
      BY <2>7, <2>8, FunctionInto, Zenon
    <2>10. ASSUME NEW i \in Buckets
           PROVE  IsInjective(new[i]) /\ ToSet(new[i]) = SpansIn(bs, rest, i)
      <3>1. CASE i = k
        BY <1>2, <1>4, <2>3, <2>6, <3>1
      <3>2. CASE i # k
        BY <1>2, <1>5, <2>3, <2>5, <3>2
      <3> QED  BY <3>1, <3>2
    <2>11. AddChunk(cs, chunk) = new
      BY <2>2 DEF new
    <2> QED  BY <2>9, <2>10, <2>11 DEF Listing, chunk, rest
  <1> QED  BY <1>6, <1>7

(* RemoveChunk unlists the span of a free block, or does nothing when it    *)
(* was too small to be listed.                                              *)
LEMMA RemoveListing ==
    ASSUME NEW bs, Layout(bs), NEW out, NEW b \in DOMAIN bs, b \notin out, ~bs[b].used,
           NEW cs, Listing(bs, cs, out)
    PROVE  Listing(bs, RemoveChunk(cs, BlockToSpan(bs, b)), out \cup {b})
  <1> DEFINE chunk == BlockToSpan(bs, b)
             k == FindChunkPtrForSize(cs, chunk.size, TRUE)
             more == out \cup {b}
  <1>1. chunk \in Node /\ chunk.data = UsableSpace(b) /\ chunk.size = InnerSize(bs, b)
        /\ chunk.size \in Nat
    BY SpanFacts, LayoutFacts
  <1>2. cs \in [Buckets -> Seq(Node)]
        /\ \A i \in Buckets : IsInjective(cs[i]) /\ ToSet(cs[i]) = SpansIn(bs, out, i)
    BY DEF Listing
  <1>3. Loose(bs, more) = Loose(bs, out) \ {b} /\ b \in Loose(bs, out)
        /\ Loose(bs, out) \subseteq DOMAIN bs
    BY DEF Loose
  <1>4. k \in Buckets
    BY <1>1, BucketFacts
  <1> HIDE DEF chunk, more, k
  <1>5. \A i : SpansIn(bs, more, i) = {n \in SpansIn(bs, out, i) : n.data # chunk.data}
    <2> SUFFICES ASSUME NEW i, NEW n
                 PROVE  n \in SpansIn(bs, more, i) <=> n \in SpansIn(bs, out, i) /\ n.data # chunk.data
      OBVIOUS
    <2>1. ASSUME NEW c \in DOMAIN bs PROVE c # b <=> BlockToSpan(bs, c).data # chunk.data
      BY <1>1, SpanFacts
    <2> QED  BY <1>3, <2>1, SpansMember
  <1>6. ASSUME NEW i \in Buckets, i # k PROVE \A n \in SpansIn(bs, out, i) : n.data # chunk.data
    <2> SUFFICES ASSUME NEW n \in SpansIn(bs, out, i), n.data = chunk.data PROVE FALSE
      OBVIOUS
    <2>1. PICK c \in Loose(bs, out) : ListedIn(bs, c, i) /\ n = BlockToSpan(bs, c)
      BY SpansMember
    <2>2. c = b
      BY <1>1, <1>3, <2>1, SpanFacts
    <2>3. BucketFor(chunk.size) = i
      BY <1>1, <2>1, <2>2 DEF ListedIn
    <2>4. cs[i] # <<>>
      <3>1. ToSet(cs[i]) # {}
        BY <1>2
      <3> QED  BY <3>1 DEF ToSet
    <2>5. k = i
      BY <1>1, <2>3, <2>4, BucketFacts DEF k
    <2> QED  BY <1>6, <2>5
  <1> DEFINE new == RemoveChunk(cs, chunk)
             short == RemoveFirstMatch(cs[k], LAMBDA node : node.data = chunk.data)
  <1>7. new = [cs EXCEPT ![k] = short]
    BY DEF RemoveChunk, k
  <1>8. short \in Seq(Node) /\ IsInjective(short)
        /\ ToSet(short) = {n \in ToSet(cs[k]) : n.data # chunk.data}
    <2>1. cs[k] \in Seq(Node) /\ IsInjective(cs[k])
      BY <1>2, <1>4
    <2>2. ASSUME NEW m \in ToSet(cs[k]), NEW n \in ToSet(cs[k]),
                 m.data = chunk.data, n.data = chunk.data
          PROVE  m = n
      <3>1. PICK c \in Loose(bs, out) : m = BlockToSpan(bs, c)
        BY <1>2, <1>4, SpansMember
      <3>2. PICK d \in Loose(bs, out) : n = BlockToSpan(bs, d)
        BY <1>2, <1>4, SpansMember
      <3>3. c \in DOMAIN bs /\ d \in DOMAIN bs /\ UsableSpace(c) = UsableSpace(d)
        BY <1>3, <2>2, <3>1, <3>2, SpanFacts
      <3>4. c = d
        BY <3>3, SpanFacts
      <3> QED  BY <3>1, <3>2, <3>4
    <2> QED  BY <2>1, <2>2, RemoveMatch
  <1> HIDE DEF new, short
  <1>9. /\ new[k] = short /\ \A i \in Buckets : i # k => new[i] = cs[i]
        /\ new = [i \in Buckets |-> new[i]]
    BY <1>2, <1>4, <1>7
  <1>10. \A i \in Buckets : new[i] \in Seq(Node)
    BY <1>2, <1>8, <1>9
  <1>11. new \in [Buckets -> Seq(Node)]
    BY <1>9, <1>10, FunctionInto, Zenon
  <1>12. ASSUME NEW i \in Buckets
         PROVE  IsInjective(new[i]) /\ ToSet(new[i]) = SpansIn(bs, more, i)
    <2>1. CASE i = k
      <3>1. new[i] = short
        BY <1>9, <2>1, Zenon
      <3> QED  BY <1>2, <1>4, <1>5, <1>8, <2>1, <3>1
    <2>2. CASE i # k
      <3>1. new[i] = cs[i]
        BY <1>9, <2>2, Zenon
      <3>2. SpansIn(bs, more, i) = SpansIn(bs, out, i)
        BY <1>5, <1>6, <2>2
      <3> QED  BY <1>2, <3>1, <3>2
    <2> QED  BY <2>1, <2>2
  <1> QED  BY <1>11, <1>12 DEF Listing, new, chunk, more

(* The free list depends on the addresses and sizes of the free blocks      *)
(* only.                                                                    *)
LEMMA SameListing ==
    ASSUME NEW bs, NEW ps, NEW out, NEW rest, NEW cs, Listing(bs, cs, out),
           Loose(ps, rest) = Loose(bs, out),
           \A c \in Loose(bs, out) : ps[c].next = bs[c].next
    PROVE  Listing(ps, cs, rest)
  <1>1. \A c \in Loose(bs, out) : InnerSize(ps, c) = InnerSize(bs, c)
    BY DEF InnerSize
  <1>2. \A c \in Loose(bs, out) : BlockToSpan(ps, c) = BlockToSpan(bs, c)
                                  /\ \A i : ListedIn(ps, c, i) <=> ListedIn(bs, c, i)
    BY <1>1 DEF BlockToSpan, ListedIn
  <1>3. ASSUME NEW i PROVE SpansIn(ps, rest, i) = SpansIn(bs, out, i)
    <2> SUFFICES ASSUME NEW n PROVE n \in SpansIn(ps, rest, i) <=> n \in SpansIn(bs, out, i)
      OBVIOUS
    <2> QED  BY <1>2, SpansMember
  <1> QED  BY <1>3 DEF Listing

(* FindChunk returns a node of the list that is large enough. *)
LEMMA FoundChunk ==
    ASSUME NEW cs \in [Buckets -> Seq(Node)], NEW size \in Nat, NEW chunk \in FindChunk(cs, size)
    PROVE  \E i \in Buckets : chunk \in ToSet(cs[i]) /\ chunk.size >= size
  <1> DEFINE Fits(node) == size > 0 /\ node.size >= size
             found == {i \in Buckets : /\ i >= FindChunkPtrForSize(cs, size, TRUE)
                                       /\ \E j \in DOMAIN cs[i] : Fits(cs[i][j])}
             i == Min(found)
             J == {j \in 1..Len(cs[i]) : Fits(cs[i][j])}
  <1>1. found # {} /\ chunk = cs[i][SelectInSeq(cs[i], Fits)]
    BY DEF FindChunk
  <1>2. i \in found
    <2>1. found \in SUBSET Nat
      <3>1. Buckets \in SUBSET Nat
        BY HeapConstants DEF Buckets
      <3>2. found \in SUBSET Buckets
        BY Zenon
      <3> HIDE DEF found
      <3> QED  BY <3>1, <3>2
    <2> HIDE DEF found
    <2> QED  BY <1>1, <2>1, NatMin
  <1>3. i \in Buckets /\ \E j \in DOMAIN cs[i] : Fits(cs[i][j])
    BY <1>2
  <1>4. cs[i] \in Seq(Node) /\ DOMAIN cs[i] = 1..Len(cs[i])
    BY <1>3
  <1>5. J # {} /\ J \in SUBSET Nat
    <2> HIDE DEF i, Fits
    <2>1. J # {}
      BY <1>3, <1>4
    <2>2. \A j \in J : j \in Nat
      BY <1>4
    <2> HIDE DEF J
    <2> QED  BY <2>1, <2>2
  <1>6. SelectInSeq(cs[i], Fits) = Min(J)
    BY <1>5 DEF SelectInSeq
  <1>7. Min(J) \in J
    <2> HIDE DEF J
    <2> QED  BY <1>5, NatMin
  <1> HIDE DEF i
  <1>8. Min(J) \in DOMAIN cs[i] /\ cs[i][Min(J)].size >= size
    BY <1>4, <1>7
  <1> QED  BY <1>1, <1>3, <1>6, <1>8 DEF ToSet

(* No two free blocks are neighbours, apart from x and its neighbours; the  *)
(* invariant of the blocks and the free list between two operations; the    *)
(* blocks that are handed out.                                              *)
Apart(bs, x) ==
    \A c \in DOMAIN bs :
        ~bs[c].used /\ ~bs[c].last /\ c # x /\ bs[c].next # x => bs[bs[c].next].used

Tidy(bs, cs) == Layout(bs) /\ Listing(bs, cs, {}) /\ Apart(bs, NoBlock)

UsedBlocks(bs) == {b \in DOMAIN bs : bs[b].used}

(* Marking the block that left the free list as used settles the heap. *)
LEMMA MarkUsedTidy ==
    ASSUME NEW ps, Layout(ps), NEW b \in DOMAIN ps, ~ps[b].used,
           NEW cs, Listing(ps, cs, {b}), Apart(ps, b),
           NEW ms, Layout(ms), IsMarked(ps, b, TRUE, ms)
    PROVE  /\ Tidy(ms, cs)
           /\ UsedBlocks(ms) = UsedBlocks(ps) \cup {b}
           /\ \A c \in DOMAIN ps : ms[c].next = ps[c].next /\ InnerSize(ms, c) = InnerSize(ps, c)
  <1>2. /\ DOMAIN ms = DOMAIN ps /\ ms[b].used
        /\ \A c \in DOMAIN ps : ms[c].next = ps[c].next /\ ms[c].last = ps[c].last
        /\ \A c \in DOMAIN ps : c # b => ms[c].used = ps[c].used
    BY DEF IsMarked
  <1>3. Loose(ms, {}) = Loose(ps, {b})
    BY <1>2 DEF Loose
  <1>4. Listing(ms, cs, {})
    <2>1. \A c \in Loose(ps, {b}) : ms[c].next = ps[c].next
      BY <1>2 DEF Loose
    <2> QED  BY <1>3, <2>1, SameListing
  <1>5. Apart(ms, NoBlock)
    <2> SUFFICES ASSUME NEW c \in DOMAIN ms, ~ms[c].used, ~ms[c].last
                 PROVE  ms[ms[c].next].used
      BY DEF Apart
    <2>1. c \in DOMAIN ps /\ c # b /\ ~ps[c].used /\ ~ps[c].last /\ ms[c].next = ps[c].next
      BY <1>2
    <2>2. ps[c].next \in DOMAIN ps
      BY <2>1 DEF Layout, BlockFits
    <2>3. CASE ps[c].next = b
      BY <1>2, <2>1, <2>3
    <2>4. CASE ps[c].next # b
      BY <1>2, <2>1, <2>2, <2>4 DEF Apart
    <2> QED  BY <2>3, <2>4
  <1>6. UsedBlocks(ms) = UsedBlocks(ps) \cup {b}
    BY <1>2 DEF UsedBlocks
  <1>7. \A c \in DOMAIN ps : ms[c].next = ps[c].next /\ InnerSize(ms, c) = InnerSize(ps, c)
    BY <1>2 DEF InnerSize
  <1> QED  BY <1>4, <1>5, <1>6, <1>7 DEF Tidy

(* Allocate: the heap stays tidy, exactly the block found is handed out, it *)
(* keeps room for the request, and the other allocations keep their extent. *)
LEMMA AllocatedTidy ==
    ASSUME NEW bs, NEW cs, Tidy(bs, cs), NEW b \in DOMAIN bs, ~bs[b].used,
           NEW size \in Nat, InnerSize(bs, b) >= size,
           NEW h, h = Allocated(bs, cs, BlockToSpan(bs, b), size)
    PROVE  /\ Tidy(h.blocks, h.chunks)
           /\ UsedBlocks(h.blocks) = UsedBlocks(bs) \cup {b}
           /\ \A c \in UsedBlocks(bs) : h.blocks[c].next = bs[c].next
           /\ InnerSize(h.blocks, b) >= size
  <1> DEFINE taken == RemoveChunk(cs, BlockToSpan(bs, b))
             new == SplitAt(b, size)
             parts == Split(bs, b, size)
  <1>1. Layout(bs) /\ Listing(bs, cs, {}) /\ Apart(bs, NoBlock)
    BY DEF Tidy
  <1>2. Listing(bs, taken, {b})
    <2>1. Listing(bs, taken, {} \cup {b})
      BY <1>1, RemoveListing
    <2> QED  BY <2>1
  <1>3. FromUsableSpace(BlockToSpan(bs, b).data) = b
    BY <1>1, SpanFacts
  <1>4. /\ CanSplit(bs, b, size) =>
             /\ h.blocks = Mark(parts, b, TRUE)
             /\ h.chunks = AddChunk(taken, BlockToSpan(parts, new))
        /\ ~CanSplit(bs, b, size) => h.blocks = Mark(bs, b, TRUE) /\ h.chunks = taken
    BY <1>3 DEF Allocated, Mark
  <1> HIDE DEF taken
  <1>5. CASE ~CanSplit(bs, b, size)
    <2>1. Apart(bs, b)
      <3>1. \A c \in DOMAIN bs : ~bs[c].last => c # NoBlock /\ bs[c].next # NoBlock
        BY <1>1, LayoutFacts, Sizes DEF BlockFits
      <3> QED  BY <1>1, <3>1 DEF Apart
    <2>2. /\ Tidy(h.blocks, taken)
          /\ UsedBlocks(h.blocks) = UsedBlocks(bs) \cup {b}
          /\ \A c \in DOMAIN bs : h.blocks[c].next = bs[c].next /\ InnerSize(h.blocks, c) = InnerSize(bs, c)
      <3>1. Layout(h.blocks) /\ IsMarked(bs, b, TRUE, h.blocks)
        <4>1. Layout(Mark(bs, b, TRUE)) /\ IsMarked(bs, b, TRUE, Mark(bs, b, TRUE))
          BY <1>1, MarkFields, Zenon
        <4> QED  BY <1>4, <1>5, <4>1
      <3> DEFINE ms == h.blocks
      <3> HIDE DEF ms
      <3>2. /\ Tidy(ms, taken)
            /\ UsedBlocks(ms) = UsedBlocks(bs) \cup {b}
            /\ \A c \in DOMAIN bs : ms[c].next = bs[c].next /\ InnerSize(ms, c) = InnerSize(bs, c)
        <4>1. Layout(ms) /\ IsMarked(bs, b, TRUE, ms)
          BY <3>1 DEF ms
        <4> QED  BY <1>1, <1>2, <2>1, <4>1, MarkUsedTidy, ZenonT(60)
      <3> QED  BY <3>2 DEF ms
    <2> QED  BY <1>4, <1>5, <2>2 DEF UsedBlocks
  <1>6. CASE CanSplit(bs, b, size)
    <2>1. /\ new \in Nat /\ Aligned(new) /\ new \notin DOMAIN bs
          /\ b + Overhead + size <= new /\ new + Overhead <= bs[b].next
          /\ IsSplit(bs, b, new, parts)
      BY <1>1, <1>6, SplitFields
    <2>2. h.blocks = Mark(parts, b, TRUE) /\ h.chunks = AddChunk(taken, BlockToSpan(parts, new))
      BY <1>4, <1>6
    <2>3. b \in Nat /\ bs[b].next \in Nat
      BY <1>1, LayoutFacts
    <2>4. b + Overhead <= new
      BY <2>1, <2>3, Sizes
    <2> HIDE DEF new, parts
    <2>5. Layout(parts)
      BY <1>1, <2>1, <2>4, SplitLayout
    <2>6. /\ DOMAIN parts = DOMAIN bs \cup {new} /\ parts[b].next = new
          /\ ~parts[b].used /\ ~parts[new].used /\ b # new
          /\ parts[new].next = bs[b].next /\ (parts[new].last <=> bs[b].last)
          /\ \A a \in DOMAIN bs \ {b} : parts[a].next = bs[a].next /\ parts[a].used = bs[a].used
                                        /\ parts[a].last = bs[a].last
      BY <2>1 DEF IsSplit
    <2>7. Loose(parts, {b, new}) = Loose(bs, {b})
      BY <2>1, <2>6 DEF Loose
    <2>8. \A c \in Loose(bs, {b}) : parts[c].next = bs[c].next
      BY <2>6 DEF Loose
    <2>9. Listing(parts, taken, {b, new})
      BY <1>2, <2>7, <2>8, SameListing
    <2>10. Listing(parts, h.chunks, {b})
      <3>1. Listing(parts, h.chunks, {b, new} \ {new})
        BY <2>2, <2>5, <2>6, <2>9, AddListing
      <3>2. {b, new} \ {new} = {b}
        BY <2>6
      <3> QED  BY <3>1, <3>2
    <2>11. Apart(parts, b)
      <3> SUFFICES ASSUME NEW c \in DOMAIN parts, ~parts[c].used, ~parts[c].last, c # b,
                          parts[c].next # b
                   PROVE  parts[parts[c].next].used
        BY DEF Apart
      <3>1. \A a \in DOMAIN bs : ~bs[a].last =>
                /\ bs[a].next \in DOMAIN bs /\ a # NoBlock /\ bs[a].next # NoBlock
                /\ bs[a].next # a
        BY <1>1, LayoutFacts, Sizes DEF BlockFits
      <3>2. CASE c = new
        <4>1. bs[b].next \in DOMAIN bs /\ bs[bs[b].next].used
          BY <1>1, <2>6, <3>1, <3>2 DEF Apart
        <4>2. bs[b].next # b
          BY <2>6, <3>1, <3>2
        <4> QED  BY <2>6, <3>2, <4>1, <4>2
      <3>3. CASE c \in DOMAIN bs
        <4>1. bs[c].next \in DOMAIN bs /\ bs[bs[c].next].used
          BY <1>1, <2>6, <3>1, <3>3 DEF Apart
        <4> QED  BY <2>6, <3>3, <4>1
      <3> QED  BY <2>6, <3>2, <3>3
    <2>12. /\ Tidy(h.blocks, h.chunks)
           /\ UsedBlocks(h.blocks) = UsedBlocks(parts) \cup {b}
           /\ \A c \in DOMAIN parts : /\ h.blocks[c].next = parts[c].next
                                      /\ InnerSize(h.blocks, c) = InnerSize(parts, c)
      <3>1. b \in DOMAIN parts
        BY <2>6
      <3>2. Layout(h.blocks) /\ IsMarked(parts, b, TRUE, h.blocks)
        <4>1. Layout(Mark(parts, b, TRUE)) /\ IsMarked(parts, b, TRUE, Mark(parts, b, TRUE))
          BY <2>5, <3>1, MarkFields, Zenon
        <4> QED  BY <2>2, <4>1, Zenon
      <3> DEFINE ms == h.blocks
                 fs == h.chunks
      <3> HIDE DEF ms, fs
      <3>3. /\ Tidy(ms, fs)
            /\ UsedBlocks(ms) = UsedBlocks(parts) \cup {b}
            /\ \A c \in DOMAIN parts : ms[c].next = parts[c].next /\ InnerSize(ms, c) = InnerSize(parts, c)
        <4>1. Layout(ms) /\ IsMarked(parts, b, TRUE, ms) /\ Listing(parts, fs, {b}) /\ ~parts[b].used
          BY <2>6, <2>10, <3>2 DEF ms, fs
        <4> QED  BY <2>5, <2>11, <3>1, <4>1, MarkUsedTidy, ZenonT(60)
      <3> QED  BY <3>3 DEF ms, fs
    <2>13. UsedBlocks(parts) = UsedBlocks(bs)
      BY <2>1, <2>6 DEF UsedBlocks
    <2>14. \A c \in UsedBlocks(bs) : h.blocks[c].next = bs[c].next
      BY <2>6, <2>12 DEF UsedBlocks
    <2>15. InnerSize(h.blocks, b) >= size
      <3>1. InnerSize(parts, b) = new - (b + Overhead)
        BY <2>1, <2>3, <2>6, Sizes
      <3> QED  BY <2>1, <2>3, <2>6, <2>12, <3>1, Sizes
    <2> QED  BY <2>12, <2>13, <2>14, <2>15
  <1> QED  BY <1>5, <1>6

(* Inside Free: block x is free and not listed, everything else is settled. *)
Pending(bs, cs, x) ==
    /\ Layout(bs) /\ x \in DOMAIN bs /\ ~bs[x].used
    /\ Listing(bs, cs, {x}) /\ Apart(bs, x)

(* The block before, and the block after, x is in use (or x is the first,   *)
(* the last).                                                               *)
LeftEnds(bs, x) == bs[x].prev # NoBlock => bs[bs[x].prev].used
RightEnds(bs, x) == ~bs[x].last => bs[bs[x].next].used

(* The allocations of bs and ps are the same, with the same extent. *)
SameUsed(bs, ps) ==
    /\ UsedBlocks(ps) = UsedBlocks(bs)
    /\ \A c \in UsedBlocks(bs) : ps[c].next = bs[c].next

(* A block that another one points at points back at it. *)
LEMMA OneNext ==
    ASSUME NEW bs, Layout(bs), NEW c \in DOMAIN bs, NEW d \in DOMAIN bs, bs[c].next = d
    PROVE  ~bs[c].last /\ bs[d].prev = c /\ c < d /\ c # NoBlock
  <1>1. /\ bs[c].next \in Nat /\ c \in Nat /\ d < RegionSize /\ BlockFits(bs, c) /\ d \in Nat
        /\ c < RegionSize
    BY LayoutFacts
  <1>2. ~bs[c].last
    BY <1>1, Sizes DEF BlockFits
  <1>3. bs[d].prev = c
    BY <1>1, <1>2 DEF BlockFits
  <1>4. c < d /\ c # NoBlock
    BY <1>1, Sizes DEF BlockFits
  <1> QED  BY <1>2, <1>3, <1>4

(* A block that is not the last one is followed by a block. *)
LEMMA NextIsBlock ==
    ASSUME NEW bs, Layout(bs), NEW c \in DOMAIN bs, ~bs[c].last
    PROVE  bs[c].next \in DOMAIN bs /\ c < bs[c].next /\ bs[c].next # NoBlock /\ c # NoBlock
  <1>1. /\ bs[c].next \in Nat /\ c \in Nat /\ BlockFits(bs, c) /\ c < RegionSize
    BY LayoutFacts
  <1>2. bs[c].next \in DOMAIN bs
    BY <1>1 DEF BlockFits
  <1>3. bs[c].next < RegionSize
    BY <1>2, LayoutFacts
  <1> QED  BY <1>1, <1>2, <1>3, Sizes DEF BlockFits

(* Merging the pending block with a free neighbour, on either side, and     *)
(* taking the neighbour out of the free list leaves the merged block        *)
(* pending.                                                                 *)
LEMMA MergeStep ==
    ASSUME NEW bs, NEW cs, NEW x, NEW p, NEW y, Pending(bs, cs, x),
           p \in DOMAIN bs, ~bs[p].last, ~bs[p].used, ~bs[bs[p].next].used,
           \/ x = p /\ y = bs[p].next
           \/ x = bs[p].next /\ y = p,
           NEW ps, ps = MergeNext(bs, p), NEW fs, fs = RemoveChunk(cs, BlockToSpan(bs, y))
    PROVE  Pending(ps, fs, p) /\ SameUsed(bs, ps) /\ IsMerged(bs, p, ps)
  <1> DEFINE gone == bs[p].next
  <1>1. Layout(bs) /\ x \in DOMAIN bs /\ ~bs[x].used /\ Listing(bs, cs, {x}) /\ Apart(bs, x)
    BY DEF Pending
  <1>2. IsMerged(bs, p, ps) /\ gone \in DOMAIN bs /\ gone # p
    BY <1>1, MergeFields
  <1>3. Layout(ps)
    BY <1>1, <1>2, MergeLayout
  <1>4. /\ DOMAIN ps = DOMAIN bs \ {gone} /\ p \in DOMAIN ps
        /\ ps[p].used = bs[p].used /\ ~ps[p].used
        /\ \A a \in DOMAIN bs \ {p, gone} :
             ps[a].next = bs[a].next /\ ps[a].last = bs[a].last /\ ps[a].used = bs[a].used
    BY <1>2 DEF IsMerged
  <1>5. y \in DOMAIN bs /\ y # x /\ ~bs[y].used /\ {x} \cup {y} = {p, gone}
    BY <1>2
  <1> HIDE DEF gone
  <1>6. Listing(bs, fs, {p, gone})
    <2>1. Listing(bs, fs, {x} \cup {y})
      BY <1>1, <1>5, RemoveListing
    <2> QED  BY <1>5, <2>1
  <1>7. Loose(ps, {p}) = Loose(bs, {p, gone})
    BY <1>2, <1>4 DEF Loose
  <1>8. \A c \in Loose(bs, {p, gone}) : ps[c].next = bs[c].next
    BY <1>4 DEF Loose
  <1>9. Listing(ps, fs, {p})
    BY <1>6, <1>7, <1>8, SameListing
  <1>10. Apart(ps, p)
    <2> SUFFICES ASSUME NEW c \in DOMAIN ps, ~ps[c].used, ~ps[c].last, c # p, ps[c].next # p
                 PROVE  ps[ps[c].next].used
      BY DEF Apart
    <2>1. /\ c \in DOMAIN bs /\ c # gone /\ ps[c].next = bs[c].next
          /\ ~bs[c].used /\ ~bs[c].last
      BY <1>4
    <2>2. bs[c].next \in DOMAIN bs
      BY <1>1, <2>1, NextIsBlock
    <2>3. bs[c].next # gone
      <3> SUFFICES ASSUME bs[c].next = gone PROVE FALSE
        OBVIOUS
      <3>1. bs[gone].prev = c
        BY <1>1, <1>2, <2>1, OneNext
      <3>2. bs[gone].prev = p
        BY <1>1, <1>2, OneNext DEF gone
      <3> QED  BY <3>1, <3>2
    <2>4. bs[bs[c].next].used
      BY <1>1, <1>5, <2>1, <2>3 DEF Apart, gone
    <2> QED  BY <1>4, <2>1, <2>2, <2>3, <2>4
  <1>11. SameUsed(bs, ps)
    <2>1. ~bs[gone].used
      BY DEF gone
    <2>2. UsedBlocks(ps) = UsedBlocks(bs)
      BY <1>4, <2>1 DEF UsedBlocks
    <2>3. \A c \in UsedBlocks(bs) : ps[c].next = bs[c].next
      BY <1>4, <2>1 DEF UsedBlocks
    <2> QED  BY <2>2, <2>3 DEF SameUsed
  <1> QED  BY <1>2, <1>3, <1>4, <1>9, <1>10, <1>11 DEF Pending

(* The left half of Free. *)
LEMMA MergedPrevKeeps ==
    ASSUME NEW h, NEW b, Pending(h.blocks, h.chunks, b), NEW left, left = MergedPrev(h, b)
    PROVE  /\ Pending(left.blocks, left.chunks, left.at)
           /\ SameUsed(h.blocks, left.blocks)
           /\ LeftEnds(left.blocks, left.at)
  <1> DEFINE bs == h.blocks
             cs == h.chunks
             p == bs[b].prev
             ps == MergeNext(bs, p)
             fs == RemoveChunk(cs, BlockToSpan(bs, p))
  <1>1. /\ p # NoBlock /\ ~bs[p].used =>
             left.blocks = ps /\ left.chunks = fs /\ left.at = p
        /\ ~(p # NoBlock /\ ~bs[p].used) =>
             left.blocks = bs /\ left.chunks = cs /\ left.at = b
    BY DEF MergedPrev
  <1>2. Layout(bs) /\ b \in DOMAIN bs /\ ~bs[b].used /\ Apart(bs, b) /\ Pending(bs, cs, b)
    BY DEF Pending
  <1> HIDE DEF bs, cs
  <1>3. CASE p # NoBlock /\ ~bs[p].used
    <2>1. p \in DOMAIN bs /\ bs[p].next = b
      BY <1>2, <1>3, LayoutFacts DEF BlockFits
    <2>2. ~bs[p].last
      BY <1>2, <2>1, OneNext
    <2>3. Pending(ps, fs, p) /\ SameUsed(bs, ps) /\ IsMerged(bs, p, ps)
      <3> HIDE DEF p
      <3> QED  BY <1>2, <1>3, <2>1, <2>2, MergeStep
    <2>4. LeftEnds(ps, p)
      <3> SUFFICES ASSUME ps[p].prev # NoBlock PROVE ps[ps[p].prev].used
        BY DEF LeftEnds
      <3> DEFINE q == ps[p].prev
      <3> HIDE DEF p, ps, fs
      <3>1. q = bs[p].prev /\ bs[p].next = b
        BY <2>1, <2>3 DEF IsMerged
      <3>2. q \in DOMAIN bs /\ bs[q].next = p
        BY <1>2, <2>1, <3>1, LayoutFacts DEF BlockFits
      <3>3. ~bs[q].last /\ q < p /\ p < b /\ q \in Nat /\ p \in Nat /\ b \in Nat
        BY <1>2, <2>1, <3>2, OneNext, LayoutFacts
      <3>4. q # b /\ p # b /\ q # p
        BY <3>3
      <3>5. bs[q].used
        BY <1>2, <1>3, <3>2, <3>3, <3>4 DEF Apart
      <3>6. q \in UsedBlocks(ps)
        BY <2>3, <3>2, <3>5 DEF SameUsed, UsedBlocks
      <3> QED  BY <3>6 DEF UsedBlocks
    <2> QED  BY <1>1, <1>3, <2>3, <2>4 DEF bs, cs
  <1>4. CASE ~(p # NoBlock /\ ~bs[p].used)
    <2>1. LeftEnds(bs, b)
      BY <1>4 DEF LeftEnds
    <2>2. SameUsed(bs, bs)
      BY DEF SameUsed
    <2> QED  BY <1>1, <1>2, <1>4, <2>1, <2>2 DEF bs, cs
  <1> QED  BY <1>3, <1>4

(* The right half of Free. *)
LEMMA MergedNextKeeps ==
    ASSUME NEW h, NEW x, Pending(h.blocks, h.chunks, x), LeftEnds(h.blocks, x),
           h = [blocks |-> h.blocks, chunks |-> h.chunks, at |-> h.at],
           NEW both, both = MergedNext(h, x)
    PROVE  /\ Pending(both.blocks, both.chunks, x)
           /\ SameUsed(h.blocks, both.blocks)
           /\ LeftEnds(both.blocks, x) /\ RightEnds(both.blocks, x)
  <1> DEFINE bs == h.blocks
             cs == h.chunks
             n == bs[x].next
             ps == MergeNext(bs, x)
             fs == RemoveChunk(cs, BlockToSpan(bs, n))
  <1>1. /\ ~bs[x].last /\ ~bs[n].used => both.blocks = ps /\ both.chunks = fs
        /\ ~(~bs[x].last /\ ~bs[n].used) => both.blocks = bs /\ both.chunks = cs
    <2>1. CASE ~bs[x].last /\ ~bs[n].used
      <3>1. both = [h EXCEPT !.blocks = ps, !.chunks = fs]
        BY <2>1 DEF MergedNext
      <3> HIDE DEF ps, fs
      <3> QED  BY <2>1, <3>1
    <2>2. CASE ~(~bs[x].last /\ ~bs[n].used)
      BY <2>2 DEF MergedNext
    <2> QED  BY <2>1, <2>2
  <1>2. /\ Layout(bs) /\ x \in DOMAIN bs /\ ~bs[x].used /\ Apart(bs, x) /\ Pending(bs, cs, x)
        /\ LeftEnds(bs, x)
    BY DEF Pending
  <1> HIDE DEF bs, cs
  <1>3. CASE ~bs[x].last /\ ~bs[n].used
    <2>1. n \in DOMAIN bs /\ x < n /\ x \in Nat /\ n \in Nat
      BY <1>2, <1>3, NextIsBlock, LayoutFacts
    <2>2. Pending(ps, fs, x) /\ SameUsed(bs, ps) /\ IsMerged(bs, x, ps)
      <3>1. n = bs[x].next /\ ~bs[bs[x].next].used
        BY <1>3
      <3> HIDE DEF n, ps, fs
      <3>2. ps = MergeNext(bs, x) /\ fs = RemoveChunk(cs, BlockToSpan(bs, n))
        BY DEF ps, fs
      <3> QED  BY <1>2, <1>3, <3>1, <3>2, MergeStep
    <2> HIDE DEF ps, fs
    <2>3. ps[x].prev = bs[x].prev /\ ps[x].next = bs[n].next /\ ps[x].last = bs[n].last
      BY <2>2 DEF IsMerged
    <2>4. LeftEnds(ps, x)
      <3> SUFFICES ASSUME ps[x].prev # NoBlock PROVE ps[ps[x].prev].used
        BY DEF LeftEnds
      <3>1. bs[x].prev \in DOMAIN bs
        BY <1>2, <2>3, LayoutFacts DEF BlockFits
      <3>2. bs[x].prev \in UsedBlocks(ps)
        BY <1>2, <2>2, <2>3, <3>1 DEF LeftEnds, SameUsed, UsedBlocks
      <3> QED  BY <2>3, <3>2 DEF UsedBlocks
    <2>5. RightEnds(ps, x)
      <3> SUFFICES ASSUME ~ps[x].last PROVE ps[ps[x].next].used
        BY DEF RightEnds
      <3>1. ~bs[n].last /\ bs[n].next \in DOMAIN bs /\ n < bs[n].next /\ bs[n].next \in Nat
        BY <1>2, <2>1, <2>3, NextIsBlock, LayoutFacts
      <3>2. n # x /\ bs[n].next # x
        BY <2>1, <3>1
      <3>3. bs[bs[n].next].used
        BY <1>2, <1>3, <2>1, <3>1, <3>2 DEF Apart
      <3>4. bs[n].next \in UsedBlocks(ps)
        BY <2>2, <3>1, <3>3 DEF SameUsed, UsedBlocks
      <3> QED  BY <2>3, <3>4 DEF UsedBlocks
    <2> QED  BY <1>1, <1>3, <2>2, <2>4, <2>5 DEF bs, cs
  <1>4. CASE ~(~bs[x].last /\ ~bs[n].used)
    <2>1. RightEnds(bs, x)
      BY <1>4 DEF RightEnds
    <2>2. SameUsed(bs, bs)
      BY DEF SameUsed
    <2> QED  BY <1>1, <1>2, <1>4, <2>1, <2>2 DEF bs, cs
  <1> QED  BY <1>3, <1>4

(* Listing the pending block, with used neighbours, settles the heap. *)
LEMMA SettledTidy ==
    ASSUME NEW bs, NEW cs, NEW x, Pending(bs, cs, x), LeftEnds(bs, x), RightEnds(bs, x),
           NEW fs, fs = AddChunk(cs, BlockToSpan(bs, x))
    PROVE  Tidy(bs, fs)
  <1>1. Layout(bs) /\ x \in DOMAIN bs /\ ~bs[x].used /\ Listing(bs, cs, {x}) /\ Apart(bs, x)
    BY DEF Pending
  <1>2. Listing(bs, fs, {})
    <2>1. Listing(bs, fs, {x} \ {x})
      BY <1>1, AddListing
    <2>2. {x} \ {x} = {}
      OBVIOUS
    <2> QED  BY <2>1, <2>2
  <1>3. Apart(bs, NoBlock)
    <2> SUFFICES ASSUME NEW c \in DOMAIN bs, ~bs[c].used, ~bs[c].last
                 PROVE  bs[bs[c].next].used
      BY DEF Apart
    <2>1. CASE c = x
      BY <2>1 DEF RightEnds
    <2>2. CASE bs[c].next = x
      <3>1. bs[x].prev = c /\ c # NoBlock
        BY <1>1, <2>2, OneNext
      <3> QED  BY <3>1 DEF LeftEnds
    <2>3. CASE c # x /\ bs[c].next # x
      BY <1>1, <2>3 DEF Apart
    <2> QED  BY <2>1, <2>2, <2>3
  <1> QED  BY <1>1, <1>2, <1>3 DEF Tidy

(* Free: the heap stays tidy, exactly the block given is taken back, and    *)
(* the other allocations keep their extent.                                 *)
LEMMA FreedTidy ==
    ASSUME NEW bs, NEW cs, Tidy(bs, cs), NEW b \in DOMAIN bs, bs[b].used,
           NEW g, g = Freed(bs, cs, b)
    PROVE  /\ Tidy(g.blocks, g.chunks)
           /\ UsedBlocks(g.blocks) = UsedBlocks(bs) \ {b}
           /\ \A c \in UsedBlocks(bs) \ {b} : g.blocks[c].next = bs[c].next
  <1> DEFINE ms == Mark(bs, b, FALSE)
             h == [blocks |-> ms, chunks |-> cs]
             left == MergedPrev(h, b)
             both == MergedNext(left, left.at)
  <1>1. Layout(bs) /\ Listing(bs, cs, {}) /\ Apart(bs, NoBlock)
    BY DEF Tidy
  <1>2. Layout(ms) /\ IsMarked(bs, b, FALSE, ms)
    BY <1>1, MarkFields, Zenon
  <1>3. /\ g.blocks = both.blocks
        /\ g.chunks = AddChunk(both.chunks, BlockToSpan(both.blocks, left.at))
    BY DEF Freed, Mark
  <1> HIDE DEF ms
  <1>4. /\ DOMAIN ms = DOMAIN bs /\ ~ms[b].used
        /\ \A c \in DOMAIN bs : ms[c].next = bs[c].next /\ ms[c].last = bs[c].last
        /\ \A c \in DOMAIN bs : c # b => ms[c].used = bs[c].used
    BY <1>2 DEF IsMarked
  <1>5. Pending(ms, cs, b)
    <2>1. Loose(ms, {b}) = Loose(bs, {})
      BY <1>4 DEF Loose
    <2>2. Listing(ms, cs, {b})
      <3>1. \A c \in Loose(bs, {}) : ms[c].next = bs[c].next
        BY <1>4 DEF Loose
      <3> QED  BY <1>1, <2>1, <3>1, SameListing
    <2>3. Apart(ms, b)
      <3> SUFFICES ASSUME NEW c \in DOMAIN ms, ~ms[c].used, ~ms[c].last, c # b, ms[c].next # b
                   PROVE  ms[ms[c].next].used
        BY DEF Apart
      <3>1. c \in DOMAIN bs /\ ~bs[c].used /\ ~bs[c].last /\ ms[c].next = bs[c].next
        BY <1>4
      <3>2. bs[c].next \in DOMAIN bs /\ c # NoBlock /\ bs[c].next # NoBlock
        BY <1>1, <3>1, NextIsBlock
      <3>3. bs[bs[c].next].used
        BY <1>1, <3>1, <3>2 DEF Apart
      <3> QED  BY <1>4, <3>1, <3>2, <3>3
    <2> QED  BY <1>2, <1>4, <2>2, <2>3 DEF Pending
  <1>6. UsedBlocks(ms) = UsedBlocks(bs) \ {b} /\ \A c \in UsedBlocks(ms) : ms[c].next = bs[c].next
    BY <1>4 DEF UsedBlocks
  <1>7. h.blocks = ms /\ h.chunks = cs
    OBVIOUS
  <1>8. left = [blocks |-> left.blocks, chunks |-> left.chunks, at |-> left.at]
    BY DEF MergedPrev
  <1> HIDE DEF h, left
  <1>9. /\ Pending(left.blocks, left.chunks, left.at)
        /\ SameUsed(ms, left.blocks) /\ LeftEnds(left.blocks, left.at)
    <2>1. Pending(h.blocks, h.chunks, b)
      BY <1>5, <1>7
    <2>2. /\ Pending(left.blocks, left.chunks, left.at)
          /\ SameUsed(h.blocks, left.blocks) /\ LeftEnds(left.blocks, left.at)
      BY <2>1, MergedPrevKeeps DEF left
    <2> QED  BY <1>7, <2>2
  <1>10. /\ Pending(both.blocks, both.chunks, left.at)
         /\ SameUsed(left.blocks, both.blocks)
         /\ LeftEnds(both.blocks, left.at) /\ RightEnds(both.blocks, left.at)
    BY <1>8, <1>9, MergedNextKeeps
  <1> HIDE DEF both
  <1>11. Tidy(g.blocks, g.chunks)
    BY <1>3, <1>10, SettledTidy
  <1> QED  BY <1>3, <1>6, <1>9, <1>10, <1>11 DEF SameUsed

(* The used blocks are the allocations, and each has the bytes asked for.   *)
(* With Tidy this is the inductive invariant of the heap.                   *)
Handed(bs, as) ==
    /\ DOMAIN as = {UsableSpace(b) : b \in UsedBlocks(bs)}
    /\ \A b \in UsedBlocks(bs) :
          as[UsableSpace(b)] \in Nat /\ as[UsableSpace(b)] <= InnerSize(bs, b)

HeapInv == Tidy(blocks, chunks) /\ Handed(blocks, asked)

(* Usable spaces of two blocks differ; used blocks are blocks. *)
LEMMA UsableIsInjective ==
    ASSUME NEW b \in Nat, NEW c \in Nat, UsableSpace(b) = UsableSpace(c)
    PROVE  b = c
  BY HeaderFacts DEF UsableSpace

(* Blocks in use are blocks. *)
LEMMA UsedAreNat ==
    ASSUME NEW bs, Layout(bs)
    PROVE  \A b \in UsedBlocks(bs) : b \in DOMAIN bs /\ b \in Nat
  BY LayoutFacts DEF UsedBlocks

(* Recording an allocation, and forgetting one, keeps the record right. *)
LEMMA HandOutKeeps ==
    ASSUME NEW bs, NEW ps, NEW as, Layout(bs), Layout(ps), Handed(bs, as),
           NEW b, UsedBlocks(ps) = UsedBlocks(bs) \cup {b}, b \notin UsedBlocks(bs),
           \A c \in UsedBlocks(bs) : ps[c].next = bs[c].next,
           NEW size \in Nat, InnerSize(ps, b) >= size,
           NEW ptr, ptr = UsableSpace(b)
    PROVE  Handed(ps, HandOut(as, ptr, size))
  <1> DEFINE hs == HandOut(as, ptr, size)
  <1>1. /\ DOMAIN hs = DOMAIN as \cup {ptr} /\ hs[ptr] = size
        /\ \A p \in DOMAIN as : p # ptr => hs[p] = as[p]
    BY DEF HandOut
  <1>2. /\ DOMAIN as = {UsableSpace(c) : c \in UsedBlocks(bs)}
        /\ \A c \in UsedBlocks(bs) :
              as[UsableSpace(c)] \in Nat /\ as[UsableSpace(c)] <= InnerSize(bs, c)
    BY DEF Handed
  <1> HIDE DEF hs
  <1>3. \A c \in UsedBlocks(ps) : c \in Nat
    BY UsedAreNat
  <1>4. DOMAIN hs = {UsableSpace(c) : c \in UsedBlocks(ps)}
    BY <1>1, <1>2
  <1>5. ASSUME NEW c \in UsedBlocks(ps)
        PROVE  hs[UsableSpace(c)] \in Nat /\ hs[UsableSpace(c)] <= InnerSize(ps, c)
    <2>1. CASE c = b
      <3>1. InnerSize(ps, b) \in Nat
        BY <2>1, UsedAreNat, LayoutFacts
      <3> QED  BY <1>1, <2>1, <3>1
    <2>2. CASE c # b
      <3>1. c \in UsedBlocks(bs) /\ UsableSpace(c) # ptr
        BY <1>3, <2>2, UsableIsInjective
      <3>2. UsableSpace(c) \in DOMAIN as
        BY <1>2, <3>1
      <3>3. hs[UsableSpace(c)] = as[UsableSpace(c)]
        BY <1>1, <3>1, <3>2
      <3>4. InnerSize(ps, c) = InnerSize(bs, c)
        BY <3>1 DEF InnerSize
      <3> QED  BY <1>2, <3>1, <3>3, <3>4
    <2> QED  BY <2>1, <2>2
  <1> QED  BY <1>4, <1>5 DEF Handed, hs

(* Freeing a block forgets its allocation and no other. *)
LEMMA GiveBackKeeps ==
    ASSUME NEW bs, NEW ps, NEW as, Layout(bs), Handed(bs, as),
           NEW b \in UsedBlocks(bs), UsedBlocks(ps) = UsedBlocks(bs) \ {b},
           \A c \in UsedBlocks(bs) \ {b} : ps[c].next = bs[c].next,
           NEW ptr, ptr = UsableSpace(b)
    PROVE  Handed(ps, GiveBack(as, ptr))
  <1> DEFINE gs == GiveBack(as, ptr)
  <1>1. DOMAIN gs = DOMAIN as \ {ptr} /\ \A p \in DOMAIN gs : gs[p] = as[p]
    BY DEF GiveBack
  <1>2. /\ DOMAIN as = {UsableSpace(c) : c \in UsedBlocks(bs)}
        /\ \A c \in UsedBlocks(bs) :
              as[UsableSpace(c)] \in Nat /\ as[UsableSpace(c)] <= InnerSize(bs, c)
    BY DEF Handed
  <1> HIDE DEF gs
  <1>3. \A c \in UsedBlocks(bs) : c \in Nat /\ (UsableSpace(c) = ptr => c = b)
    BY UsedAreNat, UsableIsInjective
  <1>4. DOMAIN gs = {UsableSpace(c) : c \in UsedBlocks(ps)}
    <2> SUFFICES ASSUME NEW p PROVE p \in DOMAIN gs <=> \E c \in UsedBlocks(ps) : p = UsableSpace(c)
      OBVIOUS
    <2>1. p \in DOMAIN as <=> \E c \in UsedBlocks(bs) : p = UsableSpace(c)
      BY <1>2
    <2> QED  BY <1>1, <1>3, <2>1
  <1>5. ASSUME NEW c \in UsedBlocks(ps)
        PROVE  gs[UsableSpace(c)] \in Nat /\ gs[UsableSpace(c)] <= InnerSize(ps, c)
    <2>1. gs[UsableSpace(c)] = as[UsableSpace(c)]
      BY <1>1, <1>4
    <2>2. c \in UsedBlocks(bs) /\ InnerSize(ps, c) = InnerSize(bs, c)
      BY DEF InnerSize
    <2> QED  BY <1>2, <2>1, <2>2
  <1> QED  BY <1>4, <1>5 DEF Handed, gs

(* Allocate as the actions use it: with whatever FindChunk found. *)
LEMMA AllocatedKeeps ==
    ASSUME NEW bs, NEW cs, NEW as, Tidy(bs, cs), Handed(bs, as), NEW size \in Nat,
           NEW chunk \in FindChunk(cs, size),
           NEW h, h = Allocated(bs, cs, chunk, size)
    PROVE  /\ Tidy(h.blocks, h.chunks)
           /\ Handed(h.blocks, HandOut(as, chunk.data, size))
  <1>1. Layout(bs) /\ Listing(bs, cs, {})
    BY DEF Tidy
  <1>2. /\ cs \in [Buckets -> Seq(Node)]
        /\ \A i \in Buckets : ToSet(cs[i]) = SpansIn(bs, {}, i)
    BY <1>1 DEF Listing
  <1>3. PICK i \in Buckets : chunk \in SpansIn(bs, {}, i) /\ chunk.size >= size
    BY <1>2, FoundChunk
  <1>4. PICK b \in Loose(bs, {}) : chunk = BlockToSpan(bs, b)
    BY <1>3, SpansMember
  <1>5. b \in DOMAIN bs /\ ~bs[b].used
    BY DEF Loose
  <1>6. InnerSize(bs, b) >= size /\ chunk.data = UsableSpace(b)
    BY <1>1, <1>3, <1>4, <1>5, SpanFacts
  <1>7. /\ Tidy(h.blocks, h.chunks)
        /\ UsedBlocks(h.blocks) = UsedBlocks(bs) \cup {b}
        /\ \A c \in UsedBlocks(bs) : h.blocks[c].next = bs[c].next
        /\ InnerSize(h.blocks, b) >= size
    BY <1>4, <1>5, <1>6, AllocatedTidy
  <1> DEFINE ps == h.blocks
  <1>8. Layout(ps) /\ UsedBlocks(ps) = UsedBlocks(bs) \cup {b} /\ InnerSize(ps, b) >= size
        /\ \A c \in UsedBlocks(bs) : ps[c].next = bs[c].next
    BY <1>7 DEF Tidy
  <1>9. b \notin UsedBlocks(bs)
    BY <1>5 DEF UsedBlocks
  <1> HIDE DEF ps
  <1>10. Handed(ps, HandOut(as, chunk.data, size))
    BY <1>1, <1>6, <1>8, <1>9, HandOutKeeps
  <1> QED  BY <1>7, <1>10 DEF ps

(* Free as the actions use it: of a pointer that was handed out. *)
LEMMA FreedKeeps ==
    ASSUME NEW bs, NEW cs, NEW as, Tidy(bs, cs), Handed(bs, as), NEW ptr \in DOMAIN as,
           NEW g, g = Freed(bs, cs, FromUsableSpace(ptr))
    PROVE  Tidy(g.blocks, g.chunks) /\ Handed(g.blocks, GiveBack(as, ptr))
  <1>1. Layout(bs)
    BY DEF Tidy
  <1>2. PICK b \in UsedBlocks(bs) : ptr = UsableSpace(b)
    BY DEF Handed
  <1>3. b \in DOMAIN bs /\ bs[b].used
    BY DEF UsedBlocks
  <1>4. FromUsableSpace(ptr) = b
    BY <1>1, <1>2, <1>3, SpanFacts
  <1>5. /\ Tidy(g.blocks, g.chunks)
        /\ UsedBlocks(g.blocks) = UsedBlocks(bs) \ {b}
        /\ \A c \in UsedBlocks(bs) \ {b} : g.blocks[c].next = bs[c].next
    BY <1>3, <1>4, FreedTidy
  <1> DEFINE ps == g.blocks
  <1>6. UsedBlocks(ps) = UsedBlocks(bs) \ {b}
        /\ \A c \in UsedBlocks(bs) \ {b} : ps[c].next = bs[c].next
    BY <1>5
  <1> HIDE DEF ps
  <1>7. Handed(ps, GiveBack(as, ptr))
    BY <1>1, <1>2, <1>6, GiveBackKeeps
  <1> QED  BY <1>5, <1>7 DEF ps

(* The constructor establishes the invariant. *)
LEMMA HeapInitOk == HeapInit => HeapInv
  <1> SUFFICES ASSUME HeapInit PROVE HeapInv
    OBVIOUS
  <1> DEFINE bs == [b \in {0} |-> [next |-> RegionSize, prev |-> NoBlock,
                                   used |-> FALSE, last |-> TRUE]]
             none == [b \in Buckets |-> <<>>]
  <1>1. blocks = bs /\ chunks = AddChunk(none, BlockToSpan(bs, 0)) /\ asked = <<>>
    BY DEF HeapInit
  <1>2. /\ DOMAIN bs = {0} /\ bs[0].next = RegionSize /\ bs[0].prev = NoBlock
        /\ ~bs[0].used /\ bs[0].last
    OBVIOUS
  <1>3. bs \in [{0} -> Header]
    BY Sizes DEF Header
  <1> HIDE DEF bs
  <1>4. Layout(bs)
    <2>1. 0 % Alignment = 0
      BY HeaderFacts
    <2>2. BlockFits(bs, 0)
      BY <1>2, <2>1, Sizes, HeaderFacts DEF BlockFits, Aligned, Overhead
    <2> QED  BY <1>2, <1>3, <2>2 DEF Layout
  <1>5. Listing(bs, none, {0})
    <2>1. Loose(bs, {0}) = {}
      BY <1>2 DEF Loose
    <2>2. \A i : SpansIn(bs, {0}, i) = {}
      BY <2>1 DEF SpansIn
    <2>3. ToSet(<<>>) = {} /\ IsInjective(<<>>)
      BY DEF ToSet, IsInjective
    <2>4. none \in [Buckets -> Seq(Node)] /\ \A i \in Buckets : none[i] = <<>>
      OBVIOUS
    <2> HIDE DEF none
    <2> QED  BY <2>2, <2>3, <2>4 DEF Listing
  <1> HIDE DEF none
  <1>6. Pending(bs, none, 0)
    BY <1>2, <1>4, <1>5 DEF Pending, Apart
  <1>7. LeftEnds(bs, 0) /\ RightEnds(bs, 0)
    BY <1>2 DEF LeftEnds, RightEnds
  <1>8. Tidy(blocks, chunks)
    BY <1>1, <1>6, <1>7, SettledTidy
  <1>9. Handed(blocks, asked)
    BY <1>1, <1>2 DEF Handed, UsedBlocks
  <1> QED  BY <1>8, <1>9 DEF HeapInv

(* The invariant of the next state, in terms of its blocks, chunks and      *)
(* asked.                                                                   *)
LEMMA PrimedInv == Tidy(blocks', chunks') /\ Handed(blocks', asked') => HeapInv'
  BY DEF HeapInv, Tidy, Handed, Layout, Listing, Apart, UsedBlocks, BlockFits, Loose, SpansIn,
     ListedIn, InnerSize, BlockToSpan

(* Every operation keeps the invariant. Realloc is an Allocate followed by  *)
(* a Free, and the second relies on what the first one leaves.              *)
LEMMA HeapStep == HeapInv /\ HeapNext => HeapInv'
  <1> SUFFICES ASSUME HeapInv, HeapNext PROVE HeapInv'
    OBVIOUS
  <1>1. Tidy(blocks, chunks) /\ Handed(blocks, asked)
    BY DEF HeapInv
  <1>2. SUFFICES Tidy(blocks', chunks') /\ Handed(blocks', asked')
    BY PrimedInv
  <1>3. ASSUME NEW size \in 1..MaxRequest, Allocate(size)
        PROVE  Tidy(blocks', chunks') /\ Handed(blocks', asked')
    <2>1. size \in Nat
      BY HeapConstants
    <2>2. PICK chunk \in FindChunk(chunks, size) :
            \E h \in {Allocated(blocks, chunks, chunk, size)} :
              blocks' = h.blocks /\ chunks' = h.chunks /\ asked' = HandOut(asked, chunk.data, size)
      BY <1>3 DEF Allocate
    <2>3. PICK h \in {Allocated(blocks, chunks, chunk, size)} :
            blocks' = h.blocks /\ chunks' = h.chunks /\ asked' = HandOut(asked, chunk.data, size)
      BY <2>2
    <2>4. h = Allocated(blocks, chunks, chunk, size)
      OBVIOUS
    <2> QED  BY <1>1, <2>1, <2>3, <2>4, AllocatedKeeps
  <1>4. ASSUME NEW ptr \in DOMAIN asked, Free(ptr)
        PROVE  Tidy(blocks', chunks') /\ Handed(blocks', asked')
    <2>1. PICK g \in {Freed(blocks, chunks, FromUsableSpace(ptr))} :
            blocks' = g.blocks /\ chunks' = g.chunks /\ asked' = GiveBack(asked, ptr)
      BY <1>4 DEF Free
    <2> QED  BY <1>1, <2>1, FreedKeeps
  <1>5. ASSUME NEW ptr \in DOMAIN asked, NEW size \in 1..MaxRequest, ReallocInPlace(ptr, size)
        PROVE  Tidy(blocks', chunks') /\ Handed(blocks', asked')
    <2>1. size \in Nat
      BY HeapConstants
    <2>2. /\ InnerSize(blocks, FromUsableSpace(ptr)) >= size
          /\ asked' = [asked EXCEPT ![ptr] = size] /\ blocks' = blocks /\ chunks' = chunks
      BY <1>5 DEF ReallocInPlace
    <2>3. DOMAIN asked' = DOMAIN asked /\ asked'[ptr] = size
          /\ \A p \in DOMAIN asked : p # ptr => asked'[p] = asked[p]
      BY <2>2
    <2>4. /\ DOMAIN asked = {UsableSpace(b) : b \in UsedBlocks(blocks)}
          /\ \A b \in UsedBlocks(blocks) :
                asked[UsableSpace(b)] \in Nat /\ asked[UsableSpace(b)] <= InnerSize(blocks, b)
      BY <1>1 DEF Handed
    <2>5. \A b \in UsedBlocks(blocks) : FromUsableSpace(UsableSpace(b)) = b
      BY <1>1, SpanFacts DEF Tidy, UsedBlocks
    <2>6. \A b \in UsedBlocks(blocks) : InnerSize(blocks, b) \in Nat
      BY <1>1, LayoutFacts DEF Tidy, UsedBlocks
    <2>7. \A b \in UsedBlocks(blocks) :
             asked'[UsableSpace(b)] \in Nat /\ asked'[UsableSpace(b)] <= InnerSize(blocks, b)
      BY <2>1, <2>2, <2>3, <2>4, <2>5, <2>6
    <2> QED  BY <1>1, <2>2, <2>3, <2>4, <2>7 DEF Handed
  <1>6. ASSUME NEW ptr \in DOMAIN asked, NEW size \in 1..MaxRequest, Realloc(ptr, size)
        PROVE  Tidy(blocks', chunks') /\ Handed(blocks', asked')
    <2>1. size \in Nat
      BY HeapConstants
    <2>2. PICK chunk \in FindChunk(chunks, size) :
            \E h \in {Allocated(blocks, chunks, chunk, size)} :
            \E g \in {Freed(h.blocks, h.chunks, FromUsableSpace(ptr))} :
              /\ blocks' = g.blocks /\ chunks' = g.chunks
              /\ asked' = GiveBack(HandOut(asked, chunk.data, size), ptr)
      BY <1>6 DEF Realloc
    <2>3. PICK h \in {Allocated(blocks, chunks, chunk, size)} :
            \E g \in {Freed(h.blocks, h.chunks, FromUsableSpace(ptr))} :
              /\ blocks' = g.blocks /\ chunks' = g.chunks
              /\ asked' = GiveBack(HandOut(asked, chunk.data, size), ptr)
      BY <2>2
    <2>4. PICK g \in {Freed(h.blocks, h.chunks, FromUsableSpace(ptr))} :
            /\ blocks' = g.blocks /\ chunks' = g.chunks
            /\ asked' = GiveBack(HandOut(asked, chunk.data, size), ptr)
      BY <2>3
    <2> DEFINE ps == h.blocks
               fs == h.chunks
               hs == HandOut(asked, chunk.data, size)
    <2>5. Tidy(ps, fs) /\ Handed(ps, hs)
      <3>1. h = Allocated(blocks, chunks, chunk, size)
        BY <2>3
      <3> QED  BY <1>1, <2>1, <3>1, AllocatedKeeps
    <2>6. ptr \in DOMAIN hs
      BY DEF HandOut
    <2>7. g = Freed(ps, fs, FromUsableSpace(ptr))
      BY <2>4
    <2>8. asked' = GiveBack(hs, ptr)
      BY <2>4
    <2> HIDE DEF ps, fs, hs
    <2>9. Tidy(g.blocks, g.chunks) /\ Handed(g.blocks, GiveBack(hs, ptr))
      BY <2>5, <2>6, <2>7, FreedKeeps
    <2> QED  BY <2>4, <2>8, <2>9
  <1> QED  BY <1>3, <1>4, <1>5, <1>6 DEF HeapNext

(* The invariant implies both properties that the runs check. *)
LEMMA InvDisjoint == HeapInv => AllocationsAreDisjoint
  <1> SUFFICES ASSUME HeapInv PROVE AllocationsAreDisjoint
    OBVIOUS
  <1>0. BlockHeader \in Nat /\ PoisonOffset \in Nat
    BY HeaderFacts
  <1>1. /\ Layout(blocks) /\ Listing(blocks, chunks, {})
        /\ DOMAIN asked = {UsableSpace(b) : b \in UsedBlocks(blocks)}
        /\ \A b \in UsedBlocks(blocks) :
              asked[UsableSpace(b)] \in Nat /\ asked[UsableSpace(b)] <= InnerSize(blocks, b)
    BY DEF HeapInv, Tidy, Handed
  <1>2. ASSUME NEW b \in DOMAIN blocks
        PROVE  /\ b \in Nat /\ blocks[b].next \in Nat /\ blocks[b].next <= RegionSize
               /\ InnerSize(blocks, b) \in Nat
               /\ UsableSpace(b) \in Nat /\ UsableSpace(b) % Alignment = 0
               /\ UsableSpace(b) + InnerSize(blocks, b) + PoisonOffset = blocks[b].next
               /\ UsableSpace(b) >= b
    <2>1. /\ b \in Nat /\ blocks[b].next \in Nat /\ BlockFits(blocks, b)
          /\ InnerSize(blocks, b) = blocks[b].next - (b + Overhead) /\ InnerSize(blocks, b) \in Nat
      BY <1>1, LayoutFacts
    <2>2. blocks[b].next <= RegionSize /\ b % Alignment = 0
      BY <2>1 DEF BlockFits, Aligned
    <2>3. UsableSpace(b) \in Nat /\ UsableSpace(b) % Alignment = 0
      BY <2>1, <2>2, UsableIsAligned
    <2>4. UsableSpace(b) + InnerSize(blocks, b) + PoisonOffset = blocks[b].next
          /\ UsableSpace(b) >= b
      BY <1>0, <2>1 DEF UsableSpace, Overhead
    <2> QED  BY <2>1, <2>2, <2>3, <2>4
  <1>3. ASSUME NEW b \in DOMAIN blocks, NEW c \in DOMAIN blocks, b # c
        PROVE  \/ b < c /\ blocks[b].next <= c
               \/ c < b /\ blocks[c].next <= b
    <2>1. (c <= b \/ blocks[b].next <= c) /\ (b <= c \/ blocks[c].next <= b)
      BY <1>1 DEF Layout
    <2>2. b < blocks[b].next /\ c < blocks[c].next
      BY <1>1, LayoutFacts, Sizes DEF BlockFits
    <2> QED  BY <1>2, <1>3, <2>1, <2>2
  <1>4. ASSUME NEW b \in DOMAIN blocks, NEW c \in DOMAIN blocks, c <= b
        PROVE  UsableSpace(c) <= UsableSpace(b)
    BY <1>0, <1>2, <1>4 DEF UsableSpace
  <1> SUFFICES ASSUME NEW p \in DOMAIN asked
               PROVE  /\ p % Alignment = 0
                      /\ p + asked[p] + PoisonOffset <= RegionSize
                      /\ \A b \in DOMAIN blocks :
                            UsableSpace(b) <= p \/ b >= p + asked[p] + PoisonOffset
                      /\ \A q \in DOMAIN asked \ {p} : p + asked[p] <= q \/ q + asked[q] <= p
                      /\ \A i \in Buckets : \A j \in DOMAIN chunks[i] :
                            \/ p + asked[p] <= chunks[i][j].data
                            \/ chunks[i][j].data + chunks[i][j].size <= p
    BY DEF AllocationsAreDisjoint
  <1>5. PICK b \in UsedBlocks(blocks) : p = UsableSpace(b)
    BY <1>1
  <1>6. b \in DOMAIN blocks /\ blocks[b].used
    BY DEF UsedBlocks
  <1>7. /\ p \in Nat /\ p % Alignment = 0 /\ asked[p] \in Nat
        /\ p + asked[p] + PoisonOffset <= blocks[b].next
        /\ p + asked[p] <= blocks[b].next /\ PoisonOffset \in Nat /\ RegionSize \in Nat
        /\ p + asked[p] \in Nat /\ p + asked[p] + PoisonOffset \in Nat
    BY <1>1, <1>2, <1>5, <1>6, HeaderFacts
  <1>8. p + asked[p] + PoisonOffset <= RegionSize
    BY <1>2, <1>6, <1>7
  <1>9. ASSUME NEW c \in DOMAIN blocks
        PROVE  UsableSpace(c) <= p \/ c >= p + asked[p] + PoisonOffset
    <2>1. CASE c <= b
      BY <1>4, <1>5, <1>6, <2>1
    <2>2. CASE ~(c <= b)
      <3>1. c # b /\ ~(c < b)
        BY <1>2, <1>6, <2>2
      <3>2. blocks[b].next <= c
        BY <1>3, <1>6, <3>1
      <3> QED  BY <1>2, <1>6, <1>7, <3>2
    <2> QED  BY <2>1, <2>2
  <1>10. ASSUME NEW c \in DOMAIN blocks, c # b
         PROVE  \/ p + asked[p] <= UsableSpace(c)
                \/ UsableSpace(c) + InnerSize(blocks, c) <= p
    <2>1. CASE blocks[b].next <= c
      BY <1>2, <1>6, <1>7, <2>1
    <2>2. CASE blocks[c].next <= b
      BY <1>2, <1>5, <1>6, <1>7, <2>2
    <2> QED  BY <1>3, <1>6, <1>10, <2>1, <2>2
  <1>11. ASSUME NEW q \in DOMAIN asked \ {p}
         PROVE  p + asked[p] <= q \/ q + asked[q] <= p
    <2>1. PICK c \in UsedBlocks(blocks) : q = UsableSpace(c)
      BY <1>1
    <2>2. c \in DOMAIN blocks /\ c # b
      BY <1>5, <2>1 DEF UsedBlocks
    <2>3. asked[q] \in Nat /\ asked[q] <= InnerSize(blocks, c)
      BY <1>1, <2>1
    <2> QED  BY <1>2, <1>7, <1>10, <2>1, <2>2, <2>3
  <1>12. ASSUME NEW i \in Buckets, NEW j \in DOMAIN chunks[i]
         PROVE  \/ p + asked[p] <= chunks[i][j].data
                \/ chunks[i][j].data + chunks[i][j].size <= p
    <2>1. chunks[i][j] \in SpansIn(blocks, {}, i)
      BY <1>1 DEF Listing, ToSet
    <2>2. PICK c \in Loose(blocks, {}) : chunks[i][j] = BlockToSpan(blocks, c)
      BY <2>1, SpansMember
    <2>3. c \in DOMAIN blocks /\ c # b
      BY <1>6 DEF Loose
    <2>4. chunks[i][j].data = UsableSpace(c) /\ chunks[i][j].size = InnerSize(blocks, c)
      BY <1>1, <2>2, <2>3, SpanFacts
    <2> QED  BY <1>10, <2>3, <2>4
  <1> QED  BY <1>7, <1>8, <1>9, <1>11, <1>12

(* The inductive invariant says what FreeMemoryIsListed promises. *)
LEMMA InvListed == HeapInv => FreeMemoryIsListed
  <1> SUFFICES ASSUME HeapInv PROVE FreeMemoryIsListed
    OBVIOUS
  <1> DEFINE free == {b \in DOMAIN blocks : ~blocks[b].used}
             listed == {b \in free : InnerSize(blocks, b) >= FreeListNode}
             Home(i) == {c \in listed :
                           FindChunkPtrForSize(chunks, InnerSize(blocks, c), FALSE) = i}
  <1>1. /\ Layout(blocks) /\ Listing(blocks, chunks, {}) /\ Apart(blocks, NoBlock)
        /\ DOMAIN asked = {UsableSpace(b) : b \in UsedBlocks(blocks)}
    BY DEF HeapInv, Tidy, Handed
  <1>2. DOMAIN asked = {UsableSpace(b) : b \in DOMAIN blocks \ free}
    <2>1. UsedBlocks(blocks) = DOMAIN blocks \ free
      BY DEF UsedBlocks
    <2> QED  BY <1>1, <2>1
  <1>3. ASSUME NEW b \in DOMAIN blocks PROVE IsValid(blocks, b)
    <2>1. BlockFits(blocks, b)
      BY <1>1, LayoutFacts
    <2>2. b % Alignment = 0
      BY <2>1 DEF BlockFits, Aligned
    <2>3. ~blocks[b].last => b < blocks[b].next /\ blocks[blocks[b].next].prev = b
      BY <1>1, <2>1, NextIsBlock DEF BlockFits
    <2>4. blocks[b].prev # NoBlock =>
            blocks[b].prev < b /\ blocks[blocks[b].prev].next = b
      <3> SUFFICES ASSUME blocks[b].prev # NoBlock
                   PROVE  blocks[b].prev < b /\ blocks[blocks[b].prev].next = b
        OBVIOUS
      <3>1. blocks[b].prev \in DOMAIN blocks /\ blocks[blocks[b].prev].next = b
        BY <2>1 DEF BlockFits
      <3> QED  BY <1>1, <3>1, OneNext
    <2> QED  BY <2>2, <2>3, <2>4 DEF IsValid
  <1>4. ASSUME NEW b \in free PROVE blocks[b].last \/ blocks[b].next \notin free
    <2> SUFFICES ASSUME ~blocks[b].last PROVE blocks[blocks[b].next].used
      OBVIOUS
    <2>1. b # NoBlock /\ blocks[b].next # NoBlock
      BY <1>1, NextIsBlock
    <2> QED  BY <1>1, <2>1 DEF Apart
  <1>5. ASSUME NEW i \in Buckets
        PROVE  /\ IsInjective(chunks[i])
               /\ ToSet(chunks[i]) = {BlockToSpan(blocks, b) : b \in Home(i)}
    <2>1. IsInjective(chunks[i]) /\ ToSet(chunks[i]) = SpansIn(blocks, {}, i)
      BY <1>1 DEF Listing
    <2>2. Home(i) = {c \in Loose(blocks, {}) : ListedIn(blocks, c, i)}
      <3> SUFFICES ASSUME NEW c \in free
                   PROVE  FindChunkPtrForSize(chunks, InnerSize(blocks, c), FALSE)
                            = BucketFor(InnerSize(blocks, c))
        BY DEF Loose, ListedIn
      <3>1. InnerSize(blocks, c) \in Nat
        BY <1>1, LayoutFacts
      <3> QED  BY <3>1, BucketFacts
    <2> QED  BY <2>1, <2>2 DEF SpansIn
  <1> QED  BY <1>2, <1>3, <1>4, <1>5 DEF FreeMemoryIsListed

(* Steps of the rest of the system keep the invariant. *)
LEMMA HeapStutter == HeapInv /\ UNCHANGED heapVars => HeapInv'
  <1> SUFFICES ASSUME HeapInv, UNCHANGED heapVars PROVE HeapInv'
    OBVIOUS
  <1>1. blocks' = blocks /\ chunks' = chunks /\ asked' = asked
    BY DEF heapVars
  <1>2. Tidy(blocks', chunks') /\ Handed(blocks', asked')
    BY <1>1 DEF HeapInv
  <1> QED  BY <1>2, PrimedInv

(* The specification of the heap alone. *)
HeapSpec == HeapInit /\ [][HeapNext]_heapVars

(* For every region, alignment, poison offset and bucket sizes: two live    *)
(* allocations of FreeListHeap never share a byte, each is aligned and has  *)
(* the bytes that were asked for, and none reaches a header or a list node. *)
THEOREM AllocationsStayDisjoint == HeapSpec => []AllocationsAreDisjoint
  <1>1. HeapInv /\ [HeapNext]_heapVars => HeapInv'
    BY HeapStep, HeapStutter
  <1> QED  BY <1>1, HeapInitOk, InvDisjoint, PTL DEF HeapSpec

(* For every region, alignment, poison offset and bucket sizes: the free    *)
(* list holds every free block that can hold a node exactly once and in its *)
(* bucket, free neighbours are merged, and every block agrees with its      *)
(* neighbours, so that no CheckStatus of Allocate or Free fails.            *)
THEOREM NoMemoryIsLost == HeapSpec => []FreeMemoryIsListed
  <1>1. HeapInv /\ [HeapNext]_heapVars => HeapInv'
    BY HeapStep, HeapStutter
  <1> QED  BY <1>1, HeapInitOk, InvListed, PTL DEF HeapSpec

(***************************************************************************)
(* SoftwareUpdate.                                                          *)
(*                                                                          *)
(* What TLAPS proves about the update service, for any set of bundles, any  *)
(* number of RPCs and any outcome of the backend's hooks.                   *)
(*                                                                          *)
(* The inductive invariant has two halves.  Sound says how the service's    *)
(* flags hang together at each place the work item can be at: an RPC that   *)
(* runs while DoVerify holds the mutex (SetTransferred does not take it) is *)
(* what makes the halves of a verification see a FINISHED update.  Trust    *)
(* ties bundle_verified_ to the bundle that is in the blob store.           *)
(***************************************************************************)

\* The service on its own.
SuSpec == SuInit /\ [][SuNext]_suVars

States == {"INACTIVE", "TRANSFERRING", "TRANSFERRED", "VERIFYING", "VERIFIED",
           "APPLYING", "ABORTING", "FINISHED"}
Results == {None, "SUCCESS", "UNKNOWN_ERROR", "TRANSFER_FAILED", "VERIFY_FAILED",
            "APPLY_FAILED", "ABORTED"}
\* Where the work item does not hold the mutex, and all the places it can be.
FreePcs == {"idle", "verify", "apply", "end"}
Pcs == FreePcs \cup {"open", "check_manifest", "verified", "list_files", "apply_files"}

Status ==
    [state : States, transferId : BOOLEAN, result : Results, note : BOOLEAN,
     progress : Nat, handler : BOOLEAN, bundleOpen : BOOLEAN,
     readerOpen : BOOLEAN, verified : BOOLEAN, enqueued : BOOLEAN,
     crashed : BOOLEAN]

\* While the work item holds the mutex the state is the one it set, unless
\* SetTransferred has finished the update under it.
StateFits(s, pc) ==
    /\ pc \in {"open", "check_manifest", "verified"} => s.state \in {"VERIFYING", "FINISHED"}
    /\ pc \in {"list_files", "apply_files"} => s.state \in {"APPLYING", "FINISHED"}

\* The handler is registered only with a transfer id, and an update that has
\* ended or not begun has neither; one that has not begun reports nothing.
TransferFits(s) ==
    /\ s.handler => s.transferId
    /\ s.state \in {"INACTIVE", "FINISHED"} => ~s.transferId
    /\ s.state = "INACTIVE" => s.result = None /\ ~s.note /\ s.progress = 0 /\ ~s.bundleOpen

\* The blob is open exactly while bundle_open_ says so, but for the moment
\* between OpenAndVerify and the assignment of bundle_open_.
ReaderFits(s, pc) ==
    /\ s.readerOpen <=> s.bundleOpen \/ pc = "check_manifest"
    /\ pc = "check_manifest" => ~s.bundleOpen
    /\ s.verified => s.readerOpen

Sound(s, pc) ==
    s \in Status /\ pc \in Pcs /\ StateFits(s, pc) /\ TransferFits(s) /\ ReaderFits(s, pc)

(* Finish, called wherever the work item is, leaves a sound status: the     *)
(* transfer is turned down and an open bundle closed.                       *)
LEMMA FinishIsSound ==
    ASSUME NEW s, NEW pc, Sound(s, pc), NEW result \in Results
    PROVE  Sound(Finish(s, result), pc)
  <1> DEFINE f == Finish(s, result)
  <1>1. s \in Status
    BY DEF Sound
  <1>2. f \in Status
    <2>1. ASSUME NEW a \in BOOLEAN, NEW b \in BOOLEAN, NEW c \in BOOLEAN, NEW n \in Nat
          PROVE  [s EXCEPT !.progress = n, !.handler = a, !.transferId = FALSE,
                           !.readerOpen = b, !.verified = c, !.bundleOpen = FALSE,
                           !.state = "FINISHED", !.result = result] \in Status
      BY <1>1 DEF Status, States
    <2>2. /\ (s.handler /\ ~s.transferId) \in BOOLEAN
          /\ (s.readerOpen /\ ~s.bundleOpen) \in BOOLEAN
          /\ (s.verified /\ ~s.bundleOpen) \in BOOLEAN
          /\ (IF result = "SUCCESS" THEN 0 ELSE s.progress) \in Nat
      BY <1>1 DEF Status
    <2> QED  BY <2>1, <2>2, Zenon DEF Finish
  <1>3. /\ f.state = "FINISHED" /\ ~f.transferId /\ ~f.bundleOpen
        /\ f.handler => s.handler /\ ~s.transferId
        /\ f.readerOpen <=> s.readerOpen /\ ~s.bundleOpen
        /\ f.verified => s.verified /\ ~s.bundleOpen
    BY <1>1 DEF Finish, Status
  <1> HIDE DEF f
  <1>4. StateFits(f, pc)
    BY <1>3 DEF StateFits
  <1>5. TransferFits(f)
    BY <1>1, <1>3 DEF TransferFits, Sound
  <1>6. ReaderFits(f, pc)
    BY <1>3 DEF ReaderFits, Sound
  <1> QED
    BY <1>2, <1>4, <1>5, <1>6 DEF Sound, f

(* So does SET_ERROR, which does nothing to an update that is finished.     *)
LEMMA SetErrorIsSound ==
    ASSUME NEW s, NEW pc, Sound(s, pc), NEW result \in Results
    PROVE  Sound(SetError(s, result), pc)
  <1>1. CASE s.state = "FINISHED"
    BY <1>1 DEF SetError
  <1>2. CASE s.state # "FINISHED"
    <2> DEFINE f == Finish(s, result)
               g == [f EXCEPT !.note = TRUE]
    <2>1. Sound(f, pc) /\ f \in Status
      BY FinishIsSound DEF Sound
    <2>2. f.state = "FINISHED"
      BY DEF Finish, Sound, Status
    <2>3. SetError(s, result) = g
      BY <1>2 DEF SetError
    <2> HIDE DEF f
    <2>4. /\ g \in Status /\ g.state = f.state /\ g.transferId = f.transferId
          /\ g.handler = f.handler /\ g.bundleOpen = f.bundleOpen
          /\ g.readerOpen = f.readerOpen /\ g.verified = f.verified
      BY <2>1 DEF Status
    <2> HIDE DEF g
    <2> QED
      BY <2>1, <2>2, <2>3, <2>4 DEF Sound, StateFits, TransferFits, ReaderFits
  <1> QED  BY <1>1, <1>2

(* NotifyTransferSucceeded does not look at the state: a late report on an  *)
(* update that was reset still leaves a sound status.                       *)
LEMMA TransferredIsSound ==
    ASSUME NEW s, NEW pc \in FreePcs, Sound(s, pc)
    PROVE  Sound(Transferred(s), pc)
  <1> DEFINE f == Transferred(s)
  <1>1. s \in Status
    BY DEF Sound
  <1>2. f \in Status
    <2>1. ASSUME NEW a \in BOOLEAN
          PROVE  [s EXCEPT !.handler = a, !.transferId = FALSE, !.state = "TRANSFERRED"] \in Status
      BY <1>1 DEF Status, States
    <2>2. (s.handler /\ ~s.transferId) \in BOOLEAN
      BY <1>1 DEF Status
    <2> QED  BY <2>1, <2>2, Zenon DEF Transferred
  <1>3. /\ f.state = "TRANSFERRED" /\ ~f.transferId /\ f.bundleOpen = s.bundleOpen
        /\ f.handler => s.handler /\ ~s.transferId
        /\ f.readerOpen = s.readerOpen /\ f.verified = s.verified
    BY <1>1 DEF Transferred, Status
  <1> HIDE DEF f
  <1>4. StateFits(f, pc)
    BY DEF StateFits, FreePcs
  <1>5. TransferFits(f)
    BY <1>1, <1>3 DEF TransferFits, Sound
  <1>6. ReaderFits(f, pc)
    BY <1>1, <1>2, <1>3 DEF ReaderFits, Sound, Status
  <1> QED
    BY <1>2, <1>4, <1>5, <1>6 DEF Sound, f

(* work_enqueued_ and a crash do not touch what Sound relates.              *)
LEMMA FlagsAreSound ==
    ASSUME NEW s, NEW pc, Sound(s, pc), NEW b \in BOOLEAN
    PROVE  Sound([s EXCEPT !.enqueued = b], pc) /\ Sound([s EXCEPT !.crashed = b], pc)
  BY DEF Sound, Status, StateFits, TransferFits, ReaderFits

(* Giving the mutex back keeps the status sound, except between             *)
(* OpenAndVerify and the assignment of bundle_open_.                        *)
LEMMA FreePcIsSound ==
    ASSUME NEW s, NEW pc, Sound(s, pc), pc # "check_manifest", NEW q \in FreePcs
    PROVE  Sound(s, q)
  BY DEF Sound, StateFits, ReaderFits, FreePcs, Pcs

\* What the device can have persisted: roots and manifests that came to it.
Roots == {FactoryRoot} \cup {b.root : b \in {c \in Bundles : c.root # None}}
Manifest(b) == [version |-> b.targets.version, files |-> b.targets.files]
Manifests == {None} \cup {Manifest(b) : b \in {c \in Bundles : c.targets # None}}
Device == [root : Roots, manifest : Manifests]

\* The open reader is on the bundle that passed verification, which was not
\* older than the device's manifest, and payloads come from that bundle.
Trust ==
    /\ suStaged \in Bundles \cup {None}
    /\ suDevice \in Device
    /\ su.verified =>
          /\ suStaged # None /\ suStaged = suPassed
          /\ suStaged.targets # None
          /\ ~SelfVerification /\ suDevice.manifest # None =>
                suDevice.manifest.version <= suStaged.targets.version
    /\ suApplied # None => suPc \in {"apply_files", "end"} /\ suApplied = suPassed

SuInv == Sound(su, suPc) /\ Trust

(* A service that was just constructed is sound.                            *)
LEMMA SoundFreshStatus == Sound(FreshStatus, "idle")
  <1>1. FreshStatus \in Status
    BY DEF FreshStatus, Status, States, Results
  <1> QED
    BY <1>1 DEF FreshStatus, Sound, StateFits, TransferFits, ReaderFits, Pcs, FreePcs

(* The invariant holds when the device comes up.                            *)
LEMMA SuInitial == SuInit => SuInv
  <1> SUFFICES ASSUME SuInit PROVE SuInv
    OBVIOUS
  <1>1. Sound(su, suPc)
    BY SoundFreshStatus DEF SuInit
  <1>2. Trust
    BY DEF SuInit, Trust, FreshStatus, Device, Roots, Manifests
  <1> QED  BY <1>1, <1>2 DEF SuInv

(* Every RPC and every report of a transfer, in every state, leaves a sound *)
(* status and does not declare a bundle verified.                           *)
LEMMA RpcSound ==
    ASSUME SuInv,
           \/ SetTransferred \/ SetTransferredNotifies \/ Abort \/ Reset
           \/ NotifyTransferSucceeded
           \/ \E outcome \in StartOutcomes : StartUpdate(outcome)
           \/ \E ok \in BOOLEAN : VerifyRpc(ok) \/ ApplyRpc(ok)
    PROVE  Sound(su', suPc') /\ (su'.verified => su.verified)
  <1>0. Sound(su, suPc) /\ su \in Status /\ suPc \in Pcs
    BY DEF SuInv, Sound
  <1>1. \A r \in Results : Sound(SetError(su, r), suPc) /\ (SetError(su, r).verified => su.verified)
    <2> SUFFICES ASSUME NEW r \in Results
                 PROVE  Sound(SetError(su, r), suPc) /\ (SetError(su, r).verified => su.verified)
      OBVIOUS
    <2>1. Sound(SetError(su, r), suPc)
      BY <1>0, SetErrorIsSound
    <2>2. SetError(su, r).verified => su.verified
      BY <1>0 DEF SetError, Finish, Status
    <2> QED  BY <2>1, <2>2
  <1>2. {"UNKNOWN_ERROR", "TRANSFER_FAILED", "VERIFY_FAILED", "APPLY_FAILED", "ABORTED"} \subseteq Results
    BY DEF Results
  <1>3. CASE SetTransferred
    BY <1>0, <1>1, <1>2, <1>3 DEF SetTransferred, RestOfRpc
  <1>4. ASSUME MutexFree PROVE Sound(Transferred(su), suPc) /\ (Transferred(su).verified => su.verified)
    <2>1. suPc \in FreePcs
      BY <1>4 DEF MutexFree, FreePcs
    <2>2. Transferred(su).verified => su.verified
      BY <1>0 DEF Transferred, Status
    <2> QED  BY <1>0, <2>1, <2>2, TransferredIsSound
  <1>5. CASE SetTransferredNotifies
    BY <1>4, <1>5 DEF SetTransferredNotifies, RestOfRpc
  <1>6. CASE NotifyTransferSucceeded
    BY <1>4, <1>6 DEF NotifyTransferSucceeded
  <1>7. CASE Abort
    <2> DEFINE a == [su EXCEPT !.state = "ABORTING"]
    <2>1. CASE su.state \in {"APPLYING", "INACTIVE", "FINISHED"}
      BY <1>0, <1>1, <1>2, <1>7, <2>1 DEF Abort, RestOfRpc
    <2>2. CASE su.state \notin {"APPLYING", "INACTIVE", "FINISHED"}
      <3>1. suPc \in FreePcs
        BY <1>7 DEF Abort, MutexFree, FreePcs
      <3>2. a \in Status
        BY <1>0 DEF Status, States
      <3>3. /\ a.state = "ABORTING" /\ a.handler = su.handler /\ a.transferId = su.transferId
            /\ a.readerOpen = su.readerOpen /\ a.bundleOpen = su.bundleOpen
            /\ a.verified = su.verified
        BY <1>0 DEF Status
      <3>4. su' = SetError(a, "ABORTED") /\ suPc' = suPc
        BY <1>7, <2>2 DEF Abort, RestOfRpc
      <3> HIDE DEF a
      <3>5. StateFits(a, suPc)
        BY <3>1 DEF StateFits, FreePcs
      <3>6. TransferFits(a)
        BY <1>0, <3>3 DEF Sound, TransferFits
      <3>7. ReaderFits(a, suPc)
        BY <1>0, <3>3 DEF Sound, ReaderFits
      <3>8. Sound(a, suPc)
        BY <1>0, <3>2, <3>5, <3>6, <3>7 DEF Sound
      <3>9. SetError(a, "ABORTED").verified => a.verified
        BY <3>2 DEF SetError, Finish, Status
      <3> QED  BY <1>2, <3>3, <3>4, <3>8, <3>9, SetErrorIsSound
    <2> QED  BY <2>1, <2>2
  <1>8. CASE Reset
    <2>1. CASE su.state # "FINISHED"
      BY <1>0, <1>1, <1>2, <1>8, <2>1 DEF Reset, RestOfRpc
    <2>2. CASE su.state = "FINISHED"
      <3> DEFINE r(a, b, c, d) == [FreshStatus EXCEPT !.handler = a, !.enqueued = b,
                                     !.readerOpen = c, !.verified = d]
      <3>1. suPc \in FreePcs
        BY <1>8 DEF Reset, MutexFree, FreePcs
      <3>2. /\ ~su.handler
            /\ (su.readerOpen /\ ~su.bundleOpen) = FALSE
            /\ (su.verified /\ ~su.bundleOpen) = FALSE
        BY <1>0, <2>2, <3>1 DEF Sound, TransferFits, ReaderFits, FreePcs, Status
      <3>3. su' = r(su.handler, su.enqueued, su.readerOpen /\ ~su.bundleOpen,
                    su.verified /\ ~su.bundleOpen)
        BY <1>8, <2>2 DEF Reset
      <3>4. su' = r(FALSE, su.enqueued, FALSE, FALSE)
        <4>1. su.handler = FALSE
          BY <1>0, <3>2 DEF Status
        <4> HIDE DEF r
        <4> QED  BY <3>2, <3>3, <4>1
      <3>5. su' \in Status
        BY <1>0, <3>4 DEF FreshStatus, Status, States, Results
      <3>6. /\ su'.state = "INACTIVE" /\ ~su'.handler /\ ~su'.transferId /\ su'.result = None
            /\ ~su'.note /\ su'.progress = 0 /\ ~su'.bundleOpen /\ ~su'.readerOpen
            /\ ~su'.verified
        BY <3>4 DEF FreshStatus
      <3>7. suPc' = suPc
        BY <1>8 DEF Reset, RestOfRpc
      <3>8. StateFits(su', suPc)
        BY <3>1 DEF StateFits, FreePcs
      <3>9. ReaderFits(su', suPc)
        BY <3>1, <3>6 DEF ReaderFits, FreePcs
      <3> QED  BY <1>0, <3>5, <3>6, <3>7, <3>8, <3>9 DEF Sound, TransferFits
    <2> QED  BY <2>1, <2>2
  <1>9. ASSUME NEW outcome \in StartOutcomes, StartUpdate(outcome)
        PROVE  Sound(su', suPc') /\ (su'.verified => su.verified)
    <2>0. suPc' = suPc
      BY <1>9 DEF StartUpdate, RestOfRpc
    <2>1. CASE su' = [su EXCEPT !.crashed = TRUE]
      BY <1>0, <2>0, <2>1, FlagsAreSound DEF Status
    <2>2. CASE su' = [su EXCEPT !.handler = TRUE, !.transferId = TRUE, !.state = "TRANSFERRING"]
      <3>1. suPc \in FreePcs
        BY <1>9 DEF StartUpdate, MutexFree, FreePcs
      <3>2. su' \in Status
        BY <1>0, <2>2 DEF Status, States
      <3>3. /\ su'.state = "TRANSFERRING" /\ su'.transferId
            /\ su'.readerOpen = su.readerOpen /\ su'.bundleOpen = su.bundleOpen
            /\ su'.verified = su.verified
        BY <1>0, <2>2 DEF Status
      <3>4. StateFits(su', suPc)
        BY <3>1 DEF StateFits, FreePcs
      <3>5. TransferFits(su')
        BY <3>3 DEF TransferFits
      <3>6. ReaderFits(su', suPc)
        BY <1>0, <3>3 DEF Sound, ReaderFits
      <3> QED  BY <1>0, <2>0, <3>2, <3>3, <3>4, <3>5, <3>6 DEF Sound
    <2>3. CASE \E r \in Results : su' = SetError(su, r)
      BY <1>1, <2>0, <2>3
    <2>4. outcome # "OK" => outcome \in Results
      BY <1>2 DEF StartOutcomes
    <2> QED  BY <1>2, <1>9, <2>1, <2>2, <2>3, <2>4 DEF StartUpdate
  <1>10. ASSUME NEW ok \in BOOLEAN, VerifyRpc(ok) \/ ApplyRpc(ok)
         PROVE  Sound(su', suPc') /\ (su'.verified => su.verified)
    <2>0. suPc' = suPc
      BY <1>10 DEF VerifyRpc, ApplyRpc, RestOfRpc
    <2>1. CASE su' = su
      BY <1>0, <2>0, <2>1
    <2>2. CASE su' = [su EXCEPT !.enqueued = TRUE]
      BY <1>0, <2>0, <2>2, FlagsAreSound DEF Status
    <2>3. CASE \E r \in Results : su' = SetError(su, r)
      BY <1>1, <2>0, <2>3
    <2>4. VerifyRpc(ok) => su' \in {su, [su EXCEPT !.enqueued = TRUE], SetError(su, "VERIFY_FAILED")}
      BY DEF VerifyRpc
    <2>5. ApplyRpc(ok) => su' \in {su, [su EXCEPT !.enqueued = TRUE], SetError(su, "APPLY_FAILED")}
      BY DEF ApplyRpc
    <2> QED  BY <1>2, <1>10, <2>1, <2>2, <2>3, <2>4, <2>5
  <1> QED  BY <1>3, <1>5, <1>6, <1>7, <1>8, <1>9, <1>10

(* The same for every step of the work item but the verification itself.    *)
LEMMA WorkSound ==
    ASSUME SuInv,
           \/ BeginWork \/ ListFiles \/ EndWork \/ Reboot
           \/ \E ok \in BOOLEAN :
                 \/ BeginVerify(ok) \/ CheckManifest(ok) \/ EndVerify(ok)
                 \/ BeginApply(ok) \/ ApplyTargetFile(ok) \/ ApplyReboot(ok)
    PROVE  Sound(su', suPc') /\ (su'.verified => su.verified)
  <1>0. Sound(su, suPc) /\ su \in Status /\ suPc \in Pcs
    BY DEF SuInv, Sound
  <1>1. ASSUME NEW s \in Status, NEW r \in Results
        PROVE  SetError(s, r).verified => s.verified
    BY DEF SetError, Finish, Status
  <1>2. {"VERIFY_FAILED", "APPLY_FAILED", "SUCCESS"} \subseteq Results
    BY DEF Results
  <1>3. AfterVerify \in FreePcs
    BY DEF AfterVerify, FreePcs
  <1>4. ASSUME NEW r \in Results, NEW q \in FreePcs, suPc # "check_manifest"
        PROVE  Sound(SetError(su, r), q) /\ (SetError(su, r).verified => su.verified)
    BY <1>0, <1>1, <1>4, SetErrorIsSound, FreePcIsSound
  <1>5. CASE BeginWork
    <2>1. (~su.enqueued) \in BOOLEAN
      OBVIOUS
    <2>2. su' = [su EXCEPT !.crashed = ~su.enqueued] /\ suPc = "idle" /\ suPc' = "verify"
      BY <1>5 DEF BeginWork
    <2>3. Sound(su', suPc)
      BY <1>0, <2>1, <2>2, FlagsAreSound
    <2>4. Sound(su', suPc')
      BY <2>2, <2>3, FreePcIsSound DEF FreePcs
    <2> QED  BY <1>0, <2>2, <2>4 DEF Status
  <1>6. CASE ListFiles
    <2>1. (~su.verified) \in BOOLEAN
      OBVIOUS
    <2>2. su' = [su EXCEPT !.crashed = ~su.verified] /\ suPc = "list_files" /\ suPc' = "apply_files"
      BY <1>6 DEF ListFiles
    <2>3. Sound(su', suPc)
      BY <1>0, <2>1, <2>2, FlagsAreSound
    <2>4. Sound(su', suPc')
      BY <2>2, <2>3 DEF Sound, Pcs, StateFits, ReaderFits
    <2> QED  BY <1>0, <2>2, <2>4 DEF Status
  <1>7. CASE EndWork
    <2>2. su' = [su EXCEPT !.enqueued = FALSE] /\ suPc = "end" /\ suPc' = "idle"
      BY <1>7 DEF EndWork
    <2>3. Sound(su', suPc)
      BY <1>0, <2>2, FlagsAreSound
    <2>4. Sound(su', suPc')
      BY <2>2, <2>3, FreePcIsSound DEF FreePcs
    <2> QED  BY <1>0, <2>2, <2>4 DEF Status
  <1>8. CASE Reboot
    BY <1>8, SoundFreshStatus DEF Reboot, FreshStatus
  <1>9. ASSUME NEW ok \in BOOLEAN, BeginVerify(ok)
        PROVE  Sound(su', suPc') /\ (su'.verified => su.verified)
    <2> DEFINE v == [su EXCEPT !.state = "VERIFYING"]
    <2>0. suPc = "verify"
      BY <1>9 DEF BeginVerify
    <2>1. CASE su.state # "TRANSFERRED"
      <3>1. suPc' = AfterVerify /\ su' \in {su, SetError(su, "VERIFY_FAILED")}
        BY <1>9, <2>1 DEF BeginVerify
      <3> QED  BY <1>0, <1>2, <1>3, <1>4, <2>0, <3>1, FreePcIsSound
    <2>2. CASE su.state = "TRANSFERRED"
      <3>1. v \in Status
        BY <1>0 DEF Status, States
      <3>2. /\ v.state = "VERIFYING" /\ v.handler = su.handler /\ v.transferId = su.transferId
            /\ v.readerOpen = su.readerOpen /\ v.bundleOpen = su.bundleOpen
            /\ v.verified = su.verified
        BY <1>0 DEF Status
      <3>3. /\ ok => su' = v /\ suPc' = "open"
            /\ ~ok => su' = SetError(v, "VERIFY_FAILED") /\ suPc' = AfterVerify
        BY <1>9, <2>2 DEF BeginVerify
      <3> HIDE DEF v
      <3>4. StateFits(v, "open") /\ TransferFits(v) /\ ReaderFits(v, "open")
        BY <1>0, <2>0, <3>2 DEF Sound, StateFits, TransferFits, ReaderFits
      <3>5. Sound(v, "open")
        BY <3>1, <3>4 DEF Sound, Pcs
      <3>6. Sound(SetError(v, "VERIFY_FAILED"), AfterVerify)
        BY <1>2, <1>3, <3>5, FreePcIsSound, SetErrorIsSound
      <3> QED  BY <1>1, <1>2, <3>1, <3>2, <3>3, <3>5, <3>6
    <2> QED  BY <2>1, <2>2
  <1>10. ASSUME NEW ok \in BOOLEAN, CheckManifest(ok)
         PROVE  Sound(su', suPc') /\ (su'.verified => su.verified)
    <2> DEFINE o == [su EXCEPT !.bundleOpen = TRUE]
    <2>0. suPc = "check_manifest"
      BY <1>10 DEF CheckManifest
    <2>1. o \in Status
      BY <1>0 DEF Status
    <2>2. /\ o.state = su.state /\ o.handler = su.handler /\ o.transferId = su.transferId
          /\ o.readerOpen = su.readerOpen /\ o.bundleOpen
          /\ o.verified = su.verified
      BY <1>0 DEF Status
    <2>3. /\ ok => su' = o /\ suPc' = "verified"
          /\ ~ok => su' = SetError(o, "VERIFY_FAILED") /\ suPc' = AfterVerify
      BY <1>10 DEF CheckManifest
    <2> HIDE DEF o
    <2>4. su.state \in {"VERIFYING", "FINISHED"}
      BY <1>0, <2>0 DEF Sound, StateFits
    <2>5. StateFits(o, "verified") /\ TransferFits(o)
      BY <1>0, <2>2, <2>4 DEF Sound, StateFits, TransferFits
    <2>6. ReaderFits(o, "verified")
      BY <1>0, <2>0, <2>2 DEF Sound, ReaderFits
    <2>7. Sound(o, "verified")
      BY <2>1, <2>5, <2>6 DEF Sound, Pcs
    <2>8. Sound(SetError(o, "VERIFY_FAILED"), AfterVerify)
      BY <1>2, <1>3, <2>7, FreePcIsSound, SetErrorIsSound
    <2> QED  BY <1>1, <1>2, <2>1, <2>2, <2>3, <2>7, <2>8
  <1>11. ASSUME NEW ok \in BOOLEAN, EndVerify(ok)
         PROVE  Sound(su', suPc') /\ (su'.verified => su.verified)
    <2>0. suPc = "verified" /\ suPc' = AfterVerify
      BY <1>11 DEF EndVerify
    <2>1. CASE ok
      <3>1. su' = [su EXCEPT !.state = "VERIFIED"]
        BY <1>11, <2>1 DEF EndVerify
      <3>2. su' \in Status
        BY <1>0, <3>1 DEF Status, States
      <3>3. /\ su'.state = "VERIFIED" /\ su'.handler = su.handler /\ su'.transferId = su.transferId
            /\ su'.readerOpen = su.readerOpen /\ su'.bundleOpen = su.bundleOpen
            /\ su'.verified = su.verified
        BY <1>0, <3>1 DEF Status
      <3>4. StateFits(su', suPc') /\ TransferFits(su')
        BY <1>0, <1>3, <2>0, <3>3 DEF Sound, StateFits, TransferFits, FreePcs
      <3>5. ReaderFits(su', suPc')
        BY <1>0, <1>3, <2>0, <3>3 DEF Sound, ReaderFits, FreePcs
      <3> QED  BY <1>3, <2>0, <3>2, <3>3, <3>4, <3>5 DEF Sound, Pcs
    <2>2. CASE ~ok
      BY <1>2, <1>3, <1>4, <1>11, <2>0, <2>2 DEF EndVerify
    <2> QED  BY <2>1, <2>2
  <1>12. ASSUME NEW ok \in BOOLEAN, BeginApply(ok)
         PROVE  Sound(su', suPc') /\ (su'.verified => su.verified)
    <2>0. suPc = "apply" /\ "end" \in FreePcs
      BY <1>12 DEF BeginApply, FreePcs
    <2>1. CASE su.state # "VERIFIED" \/ ~ok
      BY <1>2, <1>4, <1>12, <2>0, <2>1 DEF BeginApply
    <2>2. CASE ~(su.state # "VERIFIED" \/ ~ok)
      <3>1. su' = [su EXCEPT !.state = "APPLYING"] /\ suPc' = "list_files"
        BY <1>12, <2>2 DEF BeginApply
      <3>2. su' \in Status
        BY <1>0, <3>1 DEF Status, States
      <3>3. /\ su'.state = "APPLYING" /\ su'.handler = su.handler /\ su'.transferId = su.transferId
            /\ su'.readerOpen = su.readerOpen /\ su'.bundleOpen = su.bundleOpen
            /\ su'.verified = su.verified
        BY <1>0, <3>1 DEF Status
      <3>4. StateFits(su', suPc') /\ TransferFits(su')
        BY <1>0, <3>1, <3>3 DEF Sound, StateFits, TransferFits
      <3>5. ReaderFits(su', suPc')
        BY <1>0, <2>0, <3>1, <3>3 DEF Sound, ReaderFits
      <3> QED  BY <3>1, <3>2, <3>3, <3>4, <3>5 DEF Sound, Pcs
    <2> QED  BY <2>1, <2>2
  <1>13. ASSUME NEW ok \in BOOLEAN, ApplyTargetFile(ok)
         PROVE  Sound(su', suPc') /\ (su'.verified => su.verified)
    <2>0. suPc = "apply_files" /\ "end" \in FreePcs
      BY <1>13 DEF ApplyTargetFile, FreePcs
    <2>1. CASE su.verified /\ ok
      <3> DEFINE n == Cardinality(FilesToApply(suStaged) \ suTodo')
      <3>1. su' = [su EXCEPT !.progress = n] /\ suPc' = suPc
        BY <1>13, <2>1 DEF ApplyTargetFile
      <3>2. n \in Nat
        <4>1. IsFiniteSet(DOMAIN suStaged.payloads)
          BY <2>1, BundleAssumption DEF SuInv, Trust
        <4>2. FilesToApply(suStaged) \ suTodo' \subseteq DOMAIN suStaged.payloads
          BY DEF FilesToApply
        <4> QED  BY <4>1, <4>2, FS_Subset, FS_CardinalityType
      <3> HIDE DEF n
      <3>3. su' \in Status
        BY <1>0, <3>1, <3>2 DEF Status
      <3>4. /\ su'.state = su.state /\ su'.handler = su.handler /\ su'.transferId = su.transferId
            /\ su'.readerOpen = su.readerOpen /\ su'.bundleOpen = su.bundleOpen
            /\ su'.verified = su.verified
        BY <1>0, <3>1 DEF Status
      <3>5. su.state \in {"APPLYING", "FINISHED"}
        BY <1>0, <2>0 DEF Sound, StateFits
      <3>6. StateFits(su', suPc') /\ TransferFits(su')
        BY <1>0, <3>1, <3>4, <3>5 DEF Sound, StateFits, TransferFits
      <3>7. ReaderFits(su', suPc')
        BY <1>0, <3>1, <3>4 DEF Sound, ReaderFits
      <3> QED  BY <1>0, <3>1, <3>3, <3>4, <3>6, <3>7 DEF Sound
    <2>2. CASE ~(su.verified /\ ok)
      BY <1>2, <1>4, <1>13, <2>0, <2>2 DEF ApplyTargetFile
    <2> QED  BY <2>1, <2>2
  <1>14. ASSUME NEW ok \in BOOLEAN, ApplyReboot(ok)
         PROVE  Sound(su', suPc') /\ (su'.verified => su.verified)
    <2>0. suPc = "apply_files" /\ suPc' = "end" /\ "end" \in FreePcs
      BY <1>14 DEF ApplyReboot, FreePcs
    <2>1. CASE ok
      <3>1. su' = Finish(su, "SUCCESS")
        BY <1>14, <2>1 DEF ApplyReboot
      <3>2. Sound(su', "end")
        BY <1>0, <1>2, <2>0, <3>1, FinishIsSound, FreePcIsSound
      <3> QED  BY <1>0, <2>0, <3>1, <3>2 DEF Finish, Status
    <2>2. CASE ~ok
      BY <1>2, <1>4, <1>14, <2>0, <2>2 DEF ApplyReboot
    <2> QED  BY <2>1, <2>2
  <1> QED
    BY <1>5, <1>6, <1>7, <1>8, <1>9, <1>10, <1>11, <1>12, <1>13, <1>14

(* Versions on the device can be compared.                                  *)
LEMMA VersionsAreNumbers ==
    /\ \A root \in Roots : root.version \in Nat
    /\ \A manifest \in Manifests : manifest # None => manifest.version \in Nat
  BY BundleAssumption DEF Roots, Manifests, Manifest

(* A bundle that verifies has targets metadata and, unless the service      *)
(* verifies bundles by themselves, is no older than the manifest.           *)
LEMMA VerifiedBundle ==
    ASSUME NEW bundle, BundleVerifies(bundle)
    PROVE  /\ bundle.targets # None
           /\ ~SelfVerification /\ suDevice.manifest # None =>
                 suDevice.manifest.version <= bundle.targets.version
  <1>1. bundle.targets # None
    BY DEF BundleVerifies, VerifyTargetsPayloads
  <1>2. ~SelfVerification => suDevice.manifest = None \/ suDevice.manifest.version <= bundle.targets.version
    BY DEF BundleVerifies, VerifyTargetsMetadata
  <1> QED  BY <1>1, <1>2

(* The root a verification persists is not older than the one it replaces,  *)
(* also when the rest of the verification fails.                            *)
LEMMA PersistedRoot ==
    ASSUME SuInv, suStaged # None
    PROVE  /\ RootToPersist(suStaged) \in Roots
           /\ suDevice.root.version <= RootToPersist(suStaged).version
  <1>1. suStaged \in Bundles /\ suDevice.root \in Roots
    BY DEF SuInv, Trust, Device
  <1>2. CASE RootToPersist(suStaged) = suDevice.root
    BY <1>1, <1>2, VersionsAreNumbers
  <1>3. CASE RootToPersist(suStaged) # suDevice.root
    <2>1. /\ ~SelfVerification /\ suStaged.root # None
          /\ UpgradeRoot(suStaged, TrustedRoot(suStaged))
          /\ RootToPersist(suStaged) = suStaged.root
      BY <1>3 DEF RootToPersist
    <2>2. suDevice.root.version <= suStaged.root.version
      BY <2>1 DEF UpgradeRoot, TrustedRoot
    <2> QED  BY <1>1, <2>1, <2>2 DEF Roots
  <1> QED  BY <1>2, <1>3

(* OpenAndVerify: whatever its outcome the status is sound and the root     *)
(* does not go back; bundle_verified_ is set for a bundle that verifies.    *)
LEMMA OpenSound ==
    ASSUME SuInv, NEW persisted \in BOOLEAN, OpenAndVerify(persisted)
    PROVE  /\ Sound(su', suPc')
           /\ suDevice' \in Device /\ suDevice'.manifest = suDevice.manifest
           /\ suDevice.root.version <= suDevice'.root.version
           /\ suPassed' # suPassed => suPassed' = suStaged /\ su'.verified
           /\ su'.verified => \/ su.verified /\ suPassed' = suPassed
                              \/ /\ suStaged # None /\ suPassed' = suStaged
                                 /\ BundleVerifies(suStaged)
  <1>0. Sound(su, suPc) /\ su \in Status /\ suPc = "open"
    BY DEF SuInv, Sound, OpenAndVerify
  <1> DEFINE Passes ==
               /\ suStaged # None
               /\ BundleVerifies(suStaged)
               /\ persisted \/ SelfVerification \/ suStaged.root = None
             root == IF suStaged = None \/ su.readerOpen THEN suDevice.root
                     ELSE RootToPersist(suStaged)
             v == [su EXCEPT !.verified = FALSE]
  <1>1. /\ suDevice' = [suDevice EXCEPT !.root = IF persisted THEN root ELSE @]
        /\ su.readerOpen => su' = [su EXCEPT !.crashed = TRUE] /\ suPc' = suPc /\ suPassed' = suPassed
        /\ ~su.readerOpen /\ Passes => /\ su' = [su EXCEPT !.readerOpen = TRUE, !.verified = TRUE]
                                       /\ suPc' = "check_manifest"
                                       /\ suPassed' = suStaged
        /\ ~su.readerOpen /\ ~Passes => /\ su' = SetError(v, "VERIFY_FAILED")
                                        /\ suPc' = AfterVerify /\ suPassed' = suPassed
    <2> DEFINE Does(rt, ps) ==
          /\ suDevice' = [suDevice EXCEPT !.root = IF persisted THEN rt ELSE @]
          /\ IF su.readerOpen
             THEN su' = [su EXCEPT !.crashed = TRUE] /\ suPc' = suPc /\ suPassed' = suPassed
             ELSE IF ps
             THEN /\ su' = [su EXCEPT !.readerOpen = TRUE, !.verified = TRUE]
                  /\ suPc' = "check_manifest" /\ suPassed' = suStaged
             ELSE /\ su' = SetError(v, "VERIFY_FAILED")
                  /\ suPc' = AfterVerify /\ suPassed' = suPassed
    <2>1. \E rt \in {root} : \E ps \in {Passes} : Does(rt, ps)
      BY DEF OpenAndVerify
    <2>2. Does(root, Passes)
      <3> HIDE DEF Does, root, Passes
      <3> QED  BY <2>1
    <2> HIDE DEF root, Passes, v
    <2> QED  BY <2>2
  <1>2. /\ suDevice' \in Device /\ suDevice'.manifest = suDevice.manifest
        /\ suDevice.root.version <= suDevice'.root.version
    <2>1. suDevice \in Device /\ suDevice.root \in Roots
      BY DEF SuInv, Trust, Device
    <2>2. suDevice.root.version <= suDevice.root.version
      BY <2>1, VersionsAreNumbers
    <2>3. root \in Roots /\ suDevice.root.version <= root.version
      BY <2>1, <2>2, PersistedRoot
    <2> HIDE DEF root
    <2> QED  BY <1>1, <2>1, <2>2, <2>3 DEF Device
  <1> HIDE DEF Passes, root, v
  <1>3. CASE su.readerOpen
    <2>1. Sound(su', suPc')
      BY <1>0, <1>1, <1>3, FlagsAreSound
    <2>2. su'.verified = su.verified
      BY <1>0, <1>1, <1>3 DEF Status
    <2> QED  BY <1>1, <1>2, <1>3, <2>1, <2>2
  <1>4. CASE ~su.readerOpen /\ Passes
    <2>1. su' = [su EXCEPT !.readerOpen = TRUE, !.verified = TRUE] /\ suPc' = "check_manifest"
      BY <1>1, <1>4
    <2>2. su' \in Status
      BY <1>0, <2>1 DEF Status
    <2>3. /\ su'.state = su.state /\ su'.handler = su.handler /\ su'.transferId = su.transferId
          /\ su'.result = su.result /\ su'.note = su.note /\ su'.progress = su.progress
          /\ su'.readerOpen /\ su'.bundleOpen = su.bundleOpen /\ su'.verified
      BY <1>0, <2>1 DEF Status
    <2>4. StateFits(su', suPc') /\ TransferFits(su')
      BY <1>0, <2>1, <2>3 DEF Sound, StateFits, TransferFits
    <2>5. ReaderFits(su', suPc')
      BY <1>0, <1>4, <2>1, <2>3 DEF Sound, ReaderFits
    <2>6. Sound(su', suPc')
      BY <2>1, <2>2, <2>4, <2>5 DEF Sound, Pcs
    <2> QED  BY <1>1, <1>2, <1>4, <2>3, <2>6 DEF Passes
  <1>5. CASE ~su.readerOpen /\ ~Passes
    <2>1. su' = SetError(v, "VERIFY_FAILED") /\ suPc' = AfterVerify /\ suPassed' = suPassed
      BY <1>1, <1>5
    <2>2. v \in Status /\ ~v.verified
      BY <1>0 DEF Status, v
    <2>3. /\ v.state = su.state /\ v.handler = su.handler /\ v.transferId = su.transferId
          /\ v.result = su.result /\ v.note = su.note /\ v.progress = su.progress
          /\ v.readerOpen = su.readerOpen /\ v.bundleOpen = su.bundleOpen
      BY <1>0 DEF Status, v
    <2>4. StateFits(v, suPc) /\ TransferFits(v)
      BY <1>0, <2>3 DEF Sound, StateFits, TransferFits
    <2>5. ReaderFits(v, suPc)
      BY <1>0, <2>2, <2>3 DEF Sound, ReaderFits
    <2>6. Sound(v, suPc)
      BY <1>0, <2>2, <2>4, <2>5 DEF Sound
    <2>7. AfterVerify \in FreePcs /\ "VERIFY_FAILED" \in Results
      BY DEF AfterVerify, FreePcs, Results
    <2>8. Sound(su', suPc')
      BY <1>0, <2>1, <2>6, <2>7, FreePcIsSound, SetErrorIsSound
    <2>9. ~su'.verified
      BY <2>1, <2>2 DEF SetError, Finish, Status
    <2> QED  BY <1>2, <2>1, <2>8, <2>9
  <1> QED  BY <1>3, <1>4, <1>5

\* A step in which the persisted versions do not go back.
Forward ==
    /\ suDevice.root.version <= suDevice'.root.version
    /\ suDevice.manifest # None =>
          suDevice.manifest.version <= suDevice'.manifest.version

(* The invariant is inductive, and with it no step rolls the device back.   *)
LEMMA SuStep ==
    ASSUME SuInv, SuNext
    PROVE  SuInv' /\ (~SelfVerification => Forward)
  <1>0. /\ Sound(su, suPc) /\ su \in Status
        /\ suStaged \in Bundles \cup {None} /\ suDevice \in Device
        /\ suDevice.root \in Roots /\ suDevice.manifest \in Manifests
    BY DEF SuInv, Sound, Trust, Device
  <1>1. suDevice' = suDevice => Forward
    BY <1>0, VersionsAreNumbers DEF Forward
  <1>2. ASSUME NEW bundle \in Bundles, StageBundle(bundle) PROVE SuInv' /\ Forward
    <2>1. ~su.verified
      BY <1>0, <1>2 DEF Sound, ReaderFits, StageBundle
    <2>2. Sound(su, suPc)' /\ suDevice' = suDevice
      BY <1>0, <1>2 DEF StageBundle
    <2>3. Trust'
      BY <1>2, <2>1 DEF SuInv, Trust, StageBundle
    <2> QED  BY <1>1, <2>2, <2>3 DEF SuInv
  <1>3. ASSUME NEW ok \in BOOLEAN, OpenAndVerify(ok) PROVE SuInv' /\ (~SelfVerification => Forward)
    <2>1. /\ Sound(su', suPc')
          /\ suDevice' \in Device /\ suDevice'.manifest = suDevice.manifest
          /\ suDevice.root.version <= suDevice'.root.version
      BY <1>3, OpenSound
    <2>2. suStaged' = suStaged /\ suApplied' = suApplied /\ suApplied = None
      BY <1>3 DEF OpenAndVerify, RestOfWork, SuInv, Trust
    <2>3. su'.verified =>
          /\ suStaged # None /\ suStaged = suPassed'
          /\ suStaged.targets # None
          /\ ~SelfVerification /\ suDevice.manifest # None =>
                suDevice.manifest.version <= suStaged.targets.version
      BY <1>3, OpenSound, VerifiedBundle DEF SuInv, Trust
    <2>4. Trust'
      BY <1>0, <2>1, <2>2, <2>3 DEF Trust
    <2>5. Forward
      BY <1>0, <2>1, VersionsAreNumbers DEF Forward
    <2> QED  BY <2>1, <2>4, <2>5 DEF SuInv
  <1>4. CASE \/ SetTransferred \/ SetTransferredNotifies \/ Abort \/ Reset
             \/ NotifyTransferSucceeded
             \/ \E outcome \in StartOutcomes : StartUpdate(outcome)
             \/ \E ok \in BOOLEAN : VerifyRpc(ok) \/ ApplyRpc(ok)
    <2>1. Sound(su', suPc') /\ (su'.verified => su.verified)
      BY <1>4, RpcSound
    <2>2. UNCHANGED <<suPc, suStaged, suDevice, suPassed, suApplied>>
      BY <1>4 DEF SetTransferred, SetTransferredNotifies, Abort, Reset,
                  NotifyTransferSucceeded, StartUpdate, VerifyRpc, ApplyRpc, RestOfRpc
    <2>3. Trust'
      BY <2>1, <2>2 DEF SuInv, Trust
    <2> QED  BY <1>1, <2>1, <2>2, <2>3 DEF SuInv
  <1>5. CASE \/ BeginWork \/ ListFiles \/ EndWork
             \/ \E ok \in BOOLEAN :
                   BeginVerify(ok) \/ CheckManifest(ok) \/ EndVerify(ok) \/ BeginApply(ok)
    <2>1. Sound(su', suPc') /\ (su'.verified => su.verified)
      BY <1>5, WorkSound
    <2>2. UNCHANGED <<suStaged, suDevice, suPassed>>
      BY <1>5 DEF BeginWork, ListFiles, EndWork, BeginVerify, CheckManifest, EndVerify,
                  BeginApply, RestOfWork
    <2>3. \/ suApplied' = None
          \/ suApplied' = suApplied /\ suPc \notin {"apply_files", "end"}
      BY <1>5 DEF BeginWork, ListFiles, EndWork, BeginVerify, CheckManifest, EndVerify,
                  BeginApply
    <2>4. Trust'
      BY <2>1, <2>2, <2>3 DEF SuInv, Trust
    <2> QED  BY <1>1, <2>1, <2>2, <2>4 DEF SuInv
  <1>6. CASE Reboot
    <2>1. Sound(su', suPc') /\ ~su'.verified
      BY <1>6, WorkSound DEF Reboot, FreshStatus
    <2>2. UNCHANGED <<suStaged, suDevice>> /\ suApplied' = None
      BY <1>6 DEF Reboot
    <2>3. Trust'
      BY <2>1, <2>2 DEF SuInv, Trust
    <2> QED  BY <1>1, <2>1, <2>2, <2>3 DEF SuInv
  <1>7. ASSUME NEW ok \in BOOLEAN, ApplyTargetFile(ok) PROVE SuInv' /\ Forward
    <2>1. Sound(su', suPc') /\ (su'.verified => su.verified)
      BY <1>7, WorkSound
    <2>2. UNCHANGED <<suStaged, suDevice, suPassed>> /\ suPc = "apply_files"
          /\ suPc' \in {"apply_files", "end"}
      BY <1>7 DEF ApplyTargetFile, RestOfWork
    <2>3. suApplied' = suApplied \/ (suApplied' = suStaged /\ su.verified)
      BY <1>7 DEF ApplyTargetFile
    <2>4. Trust'
      BY <2>1, <2>2, <2>3 DEF SuInv, Trust
    <2> QED  BY <1>1, <2>1, <2>2, <2>4 DEF SuInv
  <1>8. ASSUME NEW ok \in BOOLEAN, ApplyReboot(ok) PROVE SuInv' /\ (~SelfVerification => Forward)
    <2>1. Sound(su', suPc') /\ (su'.verified => su.verified)
      BY <1>8, WorkSound
    <2>2. UNCHANGED <<suStaged, suPassed, suApplied>> /\ suPc = "apply_files" /\ suPc' = "end"
      BY <1>8 DEF ApplyReboot, RestOfWork
    <2>3. CASE suDevice' = suDevice
      <3>1. Trust'
        BY <2>1, <2>2, <2>3 DEF SuInv, Trust
      <3> QED  BY <1>1, <2>1, <2>3, <3>1 DEF SuInv
    <2>4. CASE su.verified /\ suDevice' = PersistManifest
      <3>1. suDevice' = [suDevice EXCEPT !.manifest = Manifest(suStaged)]
        BY <2>4 DEF PersistManifest, Manifest
      <3>2. suStaged \in Bundles /\ suStaged.targets # None
        BY <1>0, <2>4 DEF SuInv, Trust
      <3>3. Manifest(suStaged) \in Manifests
        BY <3>2 DEF Manifests
      <3>4. suDevice' \in Device /\ suDevice'.root = suDevice.root
            /\ suDevice'.manifest = Manifest(suStaged)
        BY <1>0, <3>1, <3>3 DEF Device
      <3>5. suDevice'.manifest.version = suStaged.targets.version
            /\ suStaged.targets.version \in Nat
        BY <3>2, <3>4, BundleAssumption DEF Manifest
      <3>6. ~SelfVerification => Forward
        BY <1>0, <2>4, <3>4, <3>5, VersionsAreNumbers DEF Forward, SuInv, Trust
      <3>7. Trust'
        BY <1>0, <2>1, <2>2, <2>4, <3>4, <3>5 DEF SuInv, Trust
      <3> QED  BY <2>1, <3>6, <3>7 DEF SuInv
    <2> QED  BY <1>8, <2>3, <2>4 DEF ApplyReboot
  <1> QED
    BY <1>2, <1>3, <1>4, <1>5, <1>6, <1>7, <1>8 DEF SuNext

(* What the invariant says of a state is what the run checks of it.         *)
LEMMA SuImplies == SuInv => InactiveIsClean /\ (suApplied # None => suApplied = suPassed)
  BY DEF SuInv, Trust, Sound, TransferFits, ReaderFits, StateFits, InactiveIsClean, MutexFree

(* Steps that touch nothing of the service keep the invariant.              *)
LEMMA SuStutter == SuInv /\ UNCHANGED suVars => SuInv' /\ Forward
  <1> SUFFICES ASSUME SuInv, UNCHANGED suVars PROVE SuInv' /\ Forward
    OBVIOUS
  <1>1. SuInv'
    BY DEF suVars, SuInv, Trust
  <1>2. suDevice' = suDevice /\ suDevice.root \in Roots /\ suDevice.manifest \in Manifests
    BY DEF suVars, SuInv, Trust, Device
  <1> QED  BY <1>1, <1>2, VersionsAreNumbers DEF Forward

(* However an update ends - applied, failed at any step, aborted, finished  *)
(* by an RPC under the verification, cut off by a reboot - the next one     *)
(* starts from a clean slate: no handler, no open reader, no stale result.  *)
THEOREM NextUpdateStartsClean == SuSpec => []InactiveIsClean
  <1>1. SuInit => SuInv
    BY SuInitial
  <1>2. SuInv /\ [SuNext]_suVars => SuInv'
    BY SuStep, SuStutter
  <1>3. SuInv => InactiveIsClean
    BY SuImplies
  <1> QED  BY <1>1, <1>2, <1>3, PTL DEF SuSpec

(* A payload is applied only from the very bundle that passed verification, *)
(* whatever RPCs and late reports do to the state in between, and a service *)
(* that verifies against the device's metadata never rolls it back.         *)
THEOREM OnlyTrustedPayloads ==
    ASSUME ~SelfVerification
    PROVE  SuSpec => OnlyVerifiedBundlesApplied
  <1>1. SuInit => SuInv
    BY SuInitial
  <1>2. SuInv /\ [SuNext]_suVars => SuInv' /\ [Forward]_suVars
    BY SuStep, SuStutter
  <1>3. SuInv => (suApplied # None => suApplied = suPassed)
    BY SuImplies
  <1>4. [Forward]_suVars <=>
          [/\ suDevice.root.version <= suDevice'.root.version
           /\ suDevice.manifest # None =>
                 suDevice.manifest.version <= suDevice'.manifest.version]_suVars
    BY DEF Forward
  <1> QED
    BY <1>1, <1>2, <1>3, <1>4, PTL DEF SuSpec, OnlyVerifiedBundlesApplied

(***************************************************************************)
(* The FreeRTOS layer and the work queue.                                   *)
(*                                                                          *)
(* What TLAPS proves about the FreeRTOS layer and the work queue: the       *)
(* notification is a latched flag, threads are cleaned up once, the worker  *)
(* runs accepted work in order, never sleeps on it and returns only when    *)
(* none is left.  Each component has an inductive invariant of its own;     *)
(* the theorems at the end are about the whole platform.                    *)
(***************************************************************************)

(***************************************************************************)
(* ThreadNotification.                                                      *)
(***************************************************************************)

\* Between the critical sections of a call: who waits is registered unless it
\* was notified, and a pending task notification belongs to a set flag.
NtInv ==
    /\ ntNotified \in BOOLEAN /\ ntBlocked \in BOOLEAN /\ ntTcb \in BOOLEAN
    /\ ntPc \in {"idle", "wait", "timed_wait", "leave", "timed_leave"}
    /\ ntPc \in {"idle", "leave"} => ~ntBlocked /\ ~ntTcb
    /\ ntPc = "leave" => ntNotified
    /\ ntPc \in {"wait", "timed_wait"} => ntTcb = ntNotified
    /\ ntPc \in {"wait", "timed_wait", "timed_leave"} =>
          ntBlocked = ~ntNotified /\ (ntTcb => ntNotified)

(* A new native handle satisfies the invariant and is a flag not set.       *)
LEMMA NtInitial == NtInit => NtInv /\ Flag!Init
  BY DEF NtInit, NtInv, Flag!Init

(* Every critical section of acquire(), try_acquire_until() and release()   *)
(* keeps the invariant and is a step of the latched flag, or none.          *)
LEMMA NtStep ==
    ASSUME NtInv, NtNext
    PROVE  NtInv' /\ [Flag!Next]_<<ntNotified, ntResult>>
  <1> USE DEF NtInv, Flag!Next, Flag!Release, Flag!Call, Flag!Acquire, Flag!TimeOut
  <1>1. CASE NtRelease
    BY <1>1 DEF NtRelease
  <1>2. ASSUME NEW due \in BOOLEAN, NtReturnAtOnce(due) PROVE NtInv' /\ [Flag!Next]_<<ntNotified, ntResult>>
    BY <1>2 DEF NtReturnAtOnce, Checked
  <1>3. ASSUME NEW timed \in BOOLEAN, NtBlock(timed) PROVE NtInv' /\ [Flag!Next]_<<ntNotified, ntResult>>
    BY <1>3 DEF NtBlock, Checked
  <1>4. CASE NtWake
    BY <1>4 DEF NtWake
  <1>5. CASE NtExpire
    BY <1>5 DEF NtExpire
  <1>6. CASE NtLeave
    BY <1>6 DEF NtLeave
  <1>7. CASE NtLeaveTimed
    BY <1>7 DEF NtLeaveTimed
  <1> QED  BY <1>1, <1>2, <1>3, <1>4, <1>5, <1>6, <1>7 DEF NtNext

(***************************************************************************)
(* Thread.                                                                  *)
(***************************************************************************)

\* Who may still clean the context up, by where the creator and the task are.
ThInv ==
    /\ thCreator \in {"none", "creating", "joinable", "terminate", "detached", "joined"}
    /\ thTask \in {"none", "running", "set_bits", "suspended", "deletes_itself", "deleted"}
    /\ thTaskHandle \in BOOLEAN /\ thDetached \in BOOLEAN /\ thDone \in BOOLEAN
    /\ thEvents \in {"none", "clear", "done", "deleted"}
    /\ thTask \in {"deletes_itself", "deleted"} => thCleanups = 1
    /\ thTask \notin {"deletes_itself", "deleted"} => thCleanups = 0
    /\ thTask \in {"running", "set_bits"} => thEvents = "clear"
    /\ thTask = "running" => ~thDone
    /\ thCreator = "none" => thTask = "none"
    /\ thCreator \in {"creating", "joinable"} =>
          ~thDetached /\ thTask \in {"running", "set_bits", "suspended"}
    /\ thCreator = "joinable" => thTaskHandle
    /\ thCreator \in {"creating", "joinable", "terminate"} =>
          (thTask \in {"set_bits", "suspended"} <=> thDone)
    /\ thCreator = "terminate" => thDetached /\ thTask \in {"set_bits", "suspended"}
    /\ thCreator = "detached" => thDetached /\ thTask \in {"running", "deletes_itself", "deleted"}
    /\ thCreator = "joined" => thTask = "deleted"

(* No thread exists at first.                                               *)
LEMMA ThInitial == ThInit => ThInv
  BY DEF ThInit, ThInv

(* Creation, the end of the task, detach() and join() keep it, in any order. *)
LEMMA ThStep ==
    ASSUME ThInv, ThNext
    PROVE  ThInv'
  <1> USE DEF ThInv, CleanUp
  <1>1. ASSUME NEW dynamic \in BOOLEAN, CreateThread(dynamic) PROVE ThInv'
    BY <1>1 DEF CreateThread
  <1>2. CASE StoreTaskHandle
    BY <1>2 DEF StoreTaskHandle
  <1>3. CASE TaskEnds
    <2>1. thDetached => thCleanups' = 1
      BY <1>3 DEF TaskEnds
    <2> QED  BY <1>3, <2>1 DEF TaskEnds
  <1>4. CASE TaskSetsBits
    BY <1>4 DEF TaskSetsBits
  <1>5. CASE TaskDeletesItself
    BY <1>5 DEF TaskDeletesItself
  <1>6. CASE Detach
    BY <1>6 DEF Detach
  <1>7. CASE TerminateDetached
    <2>1. thCleanups' = 1
      BY <1>7 DEF TerminateDetached
    <2> QED  BY <1>7, <2>1 DEF TerminateDetached
  <1>8. CASE Join
    <2>1. thCleanups' = 1
      BY <1>8 DEF Join
    <2> QED  BY <1>8, <2>1 DEF Join
  <1> QED  BY <1>1, <1>2, <1>3, <1>4, <1>5, <1>6, <1>7, <1>8 DEF ThNext

(* The invariant says what the run checks.                                  *)
LEMMA ThImplies == ThInv => ContextCleanedUpOnce
  BY DEF ThInv, ContextCleanedUpOnce

(***************************************************************************)
(* WorkQueue.                                                               *)
(***************************************************************************)

\* The item the worker has popped and not yet run, as a number.
Taken == IF wqPc = "work" /\ wqItem # 0 THEN 1 ELSE 0

WqTypes ==
    /\ wqQueue \in Seq(Nat) /\ wqRun \in Seq(Nat)
    /\ wqPushed \in Nat /\ wqItem \in Nat
    /\ wqStop \in BOOLEAN /\ wqStopSeen \in BOOLEAN /\ wqRemaining \in BOOLEAN
    /\ wqPc \in {"acquire", "pop", "work", "returned"}

\* Run, popped and queued items are 1, 2, 3 ... in this order.
WqOrder ==
    /\ Len(wqQueue) + Len(wqRun) + Taken = wqPushed
    /\ \A i \in 1..Len(wqRun) : wqRun[i] = i
    /\ Taken = 1 => wqItem = Len(wqRun) + 1
    /\ \A i \in 1..Len(wqQueue) : wqQueue[i] = Len(wqRun) + Taken + i

\* Work or a stop request the worker has not seen has notified it.
WqWake ==
    /\ ntPc \in {"idle", "wait", "leave"}
    /\ wqPc # "acquire" => ntPc = "idle"
    /\ wqPc = "acquire" /\ (wqQueue # <<>> \/ wqStop) => ntNotified
    /\ wqPc = "work" /\ ~wqRemaining /\ wqQueue # <<>> => ntNotified
    /\ wqPc = "work" /\ ~wqStopSeen /\ wqStop => ntNotified

\* A worker that saw the stop request together with the last item returns.
WqDrained ==
    /\ wqPc = "work" /\ wqStopSeen => wqStop
    /\ wqPc = "work" /\ wqStopSeen /\ ~wqRemaining => wqQueue = <<>>
    /\ wqPc = "returned" => wqStop /\ wqQueue = <<>>

WqInv == NtInv /\ WqTypes /\ WqOrder /\ WqWake /\ WqDrained

(* The queue is empty and the worker about to acquire.                      *)
LEMMA WqInitial == WqInit /\ NtInit => WqInv
  <1> SUFFICES ASSUME WqInit, NtInit PROVE WqInv
    OBVIOUS
  <1>1. NtInv
    BY NtInitial
  <1>2. WqTypes
    <2>1. <<>> \in Seq(Nat) /\ 0 \in Nat
      OBVIOUS
    <2> QED  BY <2>1, Zenon DEF WqInit, WqTypes
  <1>3. WqOrder
    BY DEF WqInit, WqOrder, Taken
  <1>4. WqWake /\ WqDrained
    BY DEF WqInit, NtInit, WqWake, WqDrained
  <1> QED  BY <1>1, <1>2, <1>3, <1>4 DEF WqInv

(* The queue uses its notification through release() and acquire() only.    *)
LEMMA WqNtStep ==
    ASSUME NtInv, WqNext
    PROVE  NtInv' /\ [Flag!Next]_<<ntNotified, ntResult>>
  <1>1. NtNext \/ UNCHANGED ntVars
    BY DEF WqNext, InternalPushWork, RequestStop, WqRun, WqAcquire, WqPop, WqWork, NtNext
  <1>2. CASE NtNext
    BY <1>2, NtStep
  <1>3. CASE UNCHANGED ntVars
    BY <1>3 DEF ntVars, NtInv
  <1> QED  BY <1>1, <1>2, <1>3

(* PushWork, RequestStop and the steps of Run() keep the invariant.         *)
LEMMA WqStep ==
    ASSUME WqInv, WqNext
    PROVE  WqInv'
  <1>0. NtInv'
    BY WqNtStep DEF WqInv
  <1>1. CASE InternalPushWork
    <2> USE <1>1 DEF InternalPushWork, WqInv, WqTypes
    <2>1. WqTypes'
      OBVIOUS
    <2>2. WqOrder'
      BY DEF WqOrder, Taken
    <2>3. WqWake' /\ WqDrained'
      BY DEF WqWake, WqDrained, NtRelease
    <2> QED  BY <1>0, <2>1, <2>2, <2>3
  <1>2. CASE RequestStop
    <2> USE <1>2 DEF RequestStop, WqInv, WqTypes
    <2>1. WqTypes' /\ WqOrder'
      BY DEF WqOrder, Taken
    <2>2. WqWake' /\ WqDrained'
      BY DEF WqWake, WqDrained, NtRelease
    <2> QED  BY <1>0, <2>1, <2>2
  <1>3. CASE WqAcquire
    <2> USE <1>3 DEF WqAcquire, WqInv, WqTypes
    <2>1. WqTypes' /\ WqOrder'
      BY DEF WqOrder, Taken
    <2>2. WqWake' /\ WqDrained'
      BY DEF WqWake, WqDrained, NtInv, NtReturnAtOnce, NtBlock, NtWake, NtLeave, Checked
    <2> QED  BY <1>0, <2>1, <2>2
  <1>4. CASE WqPop
    <2> USE <1>4 DEF WqPop, WqInv, WqTypes
    <2>1. WqTypes'
      OBVIOUS
    <2>2. WqOrder'
      <3>1. CASE wqQueue = <<>>
        BY <3>1 DEF WqOrder, Taken
      <3>2. CASE wqQueue # <<>>
        <4>1. wqItem' = Len(wqRun) + 1 /\ Taken' = 1 /\ Taken = 0
          BY <3>2 DEF WqOrder, Taken
        <4>2. Len(wqQueue') = Len(wqQueue) - 1
          BY <3>2
        <4>3. \A i \in 1..Len(wqQueue') : wqQueue'[i] = wqQueue[i + 1]
          BY <3>2
        <4> QED  BY <3>2, <4>1, <4>2, <4>3 DEF WqOrder
      <3> QED  BY <3>1, <3>2
    <2>3. WqWake' /\ WqDrained'
      BY DEF WqWake, WqDrained, ntVars
    <2> QED  BY <1>0, <2>1, <2>2, <2>3
  <1>5. CASE WqWork
    <2> USE DEF WqInv, WqTypes
    <2>1. WqTypes'
      BY <1>5 DEF WqWork, AfterWork
    <2>2. WqOrder'
      <3>1. /\ Taken' = 0 /\ Taken \in {0, 1} /\ (Taken = 1 <=> wqItem # 0)
            /\ UNCHANGED <<wqQueue, wqPushed>>
        BY <1>5 DEF WqWork, AfterWork, Taken
      <3>2. /\ Len(wqRun') = Len(wqRun) + Taken
            /\ \A i \in 1..Len(wqRun') : wqRun'[i] = i
        <4>1. CASE wqItem = 0
          BY <1>5, <3>1, <4>1 DEF WqOrder, WqWork
        <4>2. CASE wqItem # 0
          <5>1. wqRun' = Append(wqRun, Len(wqRun) + 1)
            BY <1>5, <3>1, <4>2 DEF WqOrder, WqWork
          <5> QED  BY <3>1, <4>2, <5>1 DEF WqOrder
        <4> QED  BY <4>1, <4>2
      <3> QED  BY <3>1, <3>2 DEF WqOrder
    <2>3. WqWake' /\ WqDrained'
      BY <1>5 DEF WqWork, AfterWork, WqWake, WqDrained, ntVars
    <2> QED  BY <1>0, <2>1, <2>2, <2>3
  <1> QED  BY <1>1, <1>2, <1>3, <1>4, <1>5 DEF WqNext, WqRun

(* The invariant puts the items that have run in the order of their pushes. *)
LEMMA WqImplies == WqTypes /\ WqOrder => RunInOrder
  BY DEF WqTypes, WqOrder, RunInOrder

(***************************************************************************)
(* The platform.                                                            *)
(***************************************************************************)

\* Only the work queue's own subject confines the notification to acquire().
PlatformInv ==
    /\ NtInv /\ ThInv
    /\ WqTypes /\ WqOrder /\ WqDrained
    /\ subject = "work_queue" => WqWake

(* The platform comes up in the invariant.                                  *)
LEMMA PlatformInitial == Init => PlatformInv
  BY NtInitial, ThInitial, WqInitial DEF Init, PlatformInv, WqInv

(* A step of any subject keeps it, and does to the flag what a flag does.   *)
LEMMA PlatformStep ==
    ASSUME PlatformInv, [Next]_platformVars
    PROVE  PlatformInv' /\ [Flag!Next]_<<ntNotified, ntResult>>
  <1> DEFINE WqKept == UNCHANGED <<wqOwnVars, subject>>
             Goal == PlatformInv' /\ [Flag!Next]_<<ntNotified, ntResult>>
  <1>1. UNCHANGED thVars => ThInv'
    BY DEF PlatformInv, ThInv, thVars
  <1>2. UNCHANGED wqOwnVars => WqTypes' /\ WqOrder' /\ WqDrained'
    BY DEF PlatformInv, WqTypes, WqOrder, WqDrained, Taken, wqOwnVars
  <1>3. UNCHANGED ntVars => NtInv' /\ UNCHANGED <<ntNotified, ntResult>>
    BY DEF PlatformInv, NtInv, ntVars
  <1>4. UNCHANGED <<subject, ntVars, wqOwnVars>> => (subject = "work_queue" => WqWake)'
    BY DEF PlatformInv, WqWake, wqOwnVars, ntVars
  <1>5. CASE subject = "notification" /\ NtNext /\ NotificationOnly
    BY <1>1, <1>2, <1>5, NtStep DEF PlatformInv, NotificationOnly
  <1>6. CASE subject = "work_queue" /\ WqNext /\ WorkQueueOnly
    <2>1. WqInv'
      BY <1>6, WqStep DEF PlatformInv, WqInv
    <2> QED  BY <1>1, <1>6, <2>1, WqNtStep DEF PlatformInv, WqInv, WorkQueueOnly
  <1>7. CASE subject = "thread" /\ ThNext /\ ThreadOnly
    BY <1>2, <1>3, <1>4, <1>7, ThStep DEF PlatformInv, ThreadOnly
  <1>8. CASE TimerOnly \/ HeapOnly \/ UpdateOnly \/ UNCHANGED platformVars
    BY <1>1, <1>2, <1>3, <1>4, <1>8
       DEF PlatformInv, TimerOnly, HeapOnly, UpdateOnly, platformVars
  <1> QED  BY <1>5, <1>6, <1>7, <1>8 DEF Next

(* In no interleaving of releases with acquire() and try_acquire_until() is *)
(* a release lost or an acquisition made up: the notification of            *)
(* pw_sync_freertos implements the latched flag, for the task that calls it *)
(* directly and for the worker of a work queue.                             *)
THEOREM NotificationRefinesFlag == Spec => NotificationIsLatchedFlag
  <1>1. Init => PlatformInv /\ Flag!Init
    BY PlatformInitial, NtInitial DEF Init
  <1>2. PlatformInv /\ [Next]_platformVars => PlatformInv' /\ [Flag!Next]_<<ntNotified, ntResult>>
    BY PlatformStep
  <1> QED  BY <1>1, <1>2, PTL DEF Spec, NotificationIsLatchedFlag, Flag!Spec

(* The context of a thread is cleaned up once, by the task or by whoever    *)
(* joins or detaches it, after the user's function has returned, and nobody *)
(* touches it afterwards, for any number of threads one after the other.    *)
THEOREM ThreadsAreCleanedUp == Spec => []ContextCleanedUpOnce
  BY PlatformInitial, PlatformStep, ThImplies, PTL DEF Spec, PlatformInv

\* A worker asleep in acquire() has nothing to do, and one that has returned
\* has run all that was accepted.
NoWorkForgotten ==
    subject = "work_queue" =>
        /\ wqPc = "acquire" /\ ntPc = "wait" /\ ~ntTcb => wqQueue = <<>> /\ ~wqStop
        /\ wqPc = "returned" => Len(wqRun) = wqPushed

(* Accepted work runs in the order of its pushes, whatever the capacity and *)
(* the number of items; no push or stop request is missed by a worker that  *)
(* is going to sleep, and none is left when the worker returns.             *)
THEOREM WorkIsNotForgotten == Spec => [](RunInOrder /\ NoWorkForgotten)
  <1>1. PlatformInv => RunInOrder
    BY WqImplies DEF PlatformInv
  <1>2. PlatformInv => NoWorkForgotten
    <2> SUFFICES ASSUME PlatformInv, subject = "work_queue" PROVE NoWorkForgotten
      BY DEF NoWorkForgotten
    <2>1. wqPc = "acquire" /\ ntPc = "wait" /\ ~ntTcb => wqQueue = <<>> /\ ~wqStop
      BY DEF PlatformInv, WqWake, NtInv
    <2>2. wqPc = "returned" => Len(wqRun) = wqPushed
      BY DEF PlatformInv, WqDrained, WqOrder, WqTypes, Taken
    <2> QED  BY <2>1, <2>2 DEF NoWorkForgotten
  <1> QED
    BY <1>1, <1>2, PlatformInitial, PlatformStep, PTL DEF Spec

(* The platform runs the update service and nothing else touches its state. *)
LEMMA PlatformRunsUpdates == Spec => SuSpec
  <1>1. Init => SuInit
    BY DEF Init
  <1>2. [Next]_platformVars => [SuNext]_suVars
    BY DEF Next, NotificationOnly, WorkQueueOnly, TimerOnly, ThreadOnly, HeapOnly,
           UpdateOnly, platformVars
  <1> QED  BY <1>1, <1>2, PTL DEF Spec, SuSpec

(* The update service on this platform starts every update from a clean     *)
(* slate.                                                                   *)
THEOREM UpdatesStartClean == Spec => []InactiveIsClean
  BY PlatformRunsUpdates, NextUpdateStartsClean, PTL

(* And, unless it verifies bundles by themselves, applies only what it      *)
(* verified and never rolls the device back.                                *)
THEOREM UpdatesAreTrusted ==
    ASSUME ~SelfVerification
    PROVE  Spec => OnlyVerifiedBundlesApplied
  BY PlatformRunsUpdates, OnlyTrustedPayloads, PTL

(* The platform runs the heap and nothing else touches its state.           *)
LEMMA PlatformRunsHeap == Spec => HeapSpec
  <1>1. Init => HeapInit
    BY DEF Init
  <1>2. [Next]_platformVars => [HeapNext]_heapVars
    BY DEF Next, NotificationOnly, WorkQueueOnly, TimerOnly, ThreadOnly, HeapOnly,
           UpdateOnly, platformVars
  <1> QED  BY <1>1, <1>2, PTL DEF Spec, HeapSpec

(* Allocations of the heap on this platform are disjoint, aligned and as    *)
(* large as asked for.                                                      *)
THEOREM PlatformAllocationsAreDisjoint == Spec => []AllocationsAreDisjoint
  BY PlatformRunsHeap, AllocationsStayDisjoint, PTL

(* And no memory of the heap on this platform is lost.                      *)
THEOREM PlatformMemoryIsListed == Spec => []FreeMemoryIsListed
  BY PlatformRunsHeap, NoMemoryIsLost, PTL
================================================================================
