--------------------------- MODULE LogDrain_proofs ---------------------------
(***************************************************************************)
(* The sink and its drains, for every buffer size and every size of entries *)
(* that fits it: a reader finds the tail of what was pushed, cell by cell;  *)
(* a drain that pops accounts for every id; the log drain loses no entry    *)
(* without counting it.                                                     *)
(*                                                                          *)
(* The ring is related to what was pushed by the numbers s[i] of cells that *)
(* were pushed before entry i (Starts): a reader with `count` entries is    *)
(* Used(count) cells behind the write index, turns of the ring apart        *)
(* (Fits), and the cells from its place on hold those entries (Holds). A    *)
(* reader that pops, that is moved by a push, or whose ring is turned, sees *)
(* a shorter tail of the same entries.                                      *)
(***************************************************************************)
EXTENDS SequenceLemmas, LogDrain, FiniteSetTheorems, TLAPS

\* Readers of the ring, contents of its cells, places of readers, and entries.
Names == Drains \cup {"oldest"}
Cells == Int \X (Kinds \cup {"none"}) \X Nat
Place == [at : 0..BufferSize, count : Nat]
Entry == [seq : Nat, kind : Kinds]
Ring == [buf : [0..BufferSize - 1 -> Cells], write : 0..BufferSize,
         reader : [Names -> Place \cup {Detached}]]

\* s[i] is the number of cells pushed before entry i.
Starts(P, s) ==
  /\ P \in Seq(Entry) /\ s \in [1..Len(P) + 1 -> Nat]
  /\ \A i \in 1..Len(P) : s[i + 1] = s[i] + SizeOf(P[i].kind)

\* The cells of the last n entries, and those of them before entry j.
Used(P, s, n) == s[Len(P) + 1] - s[Len(P) + 1 - n]
Before(P, s, n, j) == s[j] - s[Len(P) + 1 - n]

\* A reader at place x has the last x.count entries before it.
Fits(r, P, s, x) ==
  /\ x \in Place /\ x.count <= Len(P) /\ Used(P, s, x.count) <= BufferSize
  /\ \/ r.write = x.at + Used(P, s, x.count)
     \/ r.write = x.at + Used(P, s, x.count) - BufferSize
\* From its place on, the cells hold these entries.
Holds(r, P, s, x) ==
  \A j \in Len(P) + 1 - x.count..Len(P) : \A i \in 1..SizeOf(P[j].kind) :
    Cell(r, x.at + Before(P, s, x.count, j) + i - 1) = <<P[j].seq, P[j].kind, i>>
Sees(r, P, s, x) == Fits(r, P, s, x) /\ Holds(r, P, s, x)

\* What holds of the ring: every reader sees its tail.
AllSee(r, P, s) ==
  /\ r \in Ring /\ Starts(P, s)
  /\ "oldest" \in Readers(r)
  /\ \A d \in Readers(r) : Sees(r, P, s, r.reader[d])

-----------------------------------------------------------------------------
\* A nonempty set of numbers has a least member.
LEMMA LeastNat ==
    ASSUME NEW T \in SUBSET Nat, T # {}
    PROVE  \E x \in T : \A y \in T : x <= y
  BY NatMin

\* The remainder, within one turn of its range.
LEMMA ModFacts ==
    ASSUME NEW B \in Nat \ {0}, NEW x \in Int
    PROVE  /\ x \in 0..B - 1 => x % B = x
           /\ x \in B..2 * B - 1 => x % B = x - B
           /\ x \in (-B)..(-1) => x % B = x + B
           /\ x % B \in 0..B - 1
  <1>1. x \in 0..B - 1 => x % B = x
    OBVIOUS
  <1>2. x \in B..2 * B - 1 => x % B = x - B
    OBVIOUS
  <1>3. x \in (-B)..(-1) => x % B = x + B
    OBVIOUS
  <1>4. x % B \in 0..B - 1
    OBVIOUS
  <1> QED  BY <1>1, <1>2, <1>3, <1>4

\* An entry takes between 2 and BufferSize cells, from its start to the next one.
LEMMA SizeFacts ==
    ASSUME NEW P, NEW s, Starts(P, s), NEW i \in 1..Len(P)
    PROVE  /\ SizeOf(P[i].kind) \in 2..BufferSize /\ BufferSize \in Nat /\ P[i] \in Entry
           /\ i \in 1..Len(P) + 1 /\ i + 1 \in 1..Len(P) + 1
           /\ s[i] \in Nat /\ s[i + 1] \in Nat /\ s[i + 1] = s[i] + SizeOf(P[i].kind)
  <1>1. P[i] \in Entry /\ Len(P) \in Nat
    BY DEF Starts
  <1>2. SizeOf(P[i].kind) \in 2..BufferSize /\ BufferSize \in Nat
    BY <1>1, RingAssumption DEF Entry
  <1>3. i \in 1..Len(P) + 1 /\ i + 1 \in 1..Len(P) + 1
    BY <1>1
  <1>4. s \in [1..Len(P) + 1 -> Nat] /\ s[i + 1] = s[i] + SizeOf(P[i].kind)
    BY DEF Starts
  <1> QED  BY <1>1, <1>2, <1>3, <1>4

\* Later entries start later.
LEMMA StartsGrow ==
    ASSUME NEW P, NEW s, Starts(P, s), NEW i \in 1..Len(P) + 1, NEW j \in 1..Len(P) + 1, i <= j
    PROVE  /\ s[i] \in Nat /\ s[j] \in Nat /\ s[i] <= s[j]
           /\ i < j => s[i] + 2 <= s[j]
  <1>0. Len(P) \in Nat /\ \A k \in 1..Len(P) + 1 : s[k] \in Nat
    BY DEF Starts
  <1> DEFINE T == {k \in Nat : k \in 1..Len(P) + 1 /\ i < k /\ ~(s[i] + 2 <= s[k])}
  <1>1. T = {}
    <2>1. SUFFICES ASSUME T # {} PROVE FALSE
      OBVIOUS
    <2>2. PICK k \in T : \A y \in T : k <= y
      <3>1. T \in SUBSET Nat
        OBVIOUS
      <3> HIDE DEF T
      <3> QED  BY <2>1, <3>1, LeastNat
    <2>3. k \in 1..Len(P) + 1 /\ i < k /\ ~(s[i] + 2 <= s[k]) /\ k \in Nat
      OBVIOUS
    <2>4. k - 1 \in 1..Len(P) /\ k - 1 \in 1..Len(P) + 1 /\ k - 1 \in Nat /\ (k - 1) + 1 = k
      BY <1>0, <2>3
    <2>5. s[k] = s[k - 1] + SizeOf(P[k - 1].kind) /\ SizeOf(P[k - 1].kind) \in Nat
          /\ SizeOf(P[k - 1].kind) >= 2
      BY <2>4, SizeFacts
    <2>6. CASE k - 1 = i
      BY <1>0, <2>3, <2>4, <2>5, <2>6
    <2>7. CASE k - 1 # i
      <3>1. i < k - 1 /\ k - 1 \notin T
        BY <1>0, <2>2, <2>3, <2>4, <2>7
      <3>2. s[i] + 2 <= s[k - 1]
        BY <2>4, <3>1
      <3> QED  BY <1>0, <2>3, <2>4, <2>5, <3>2
    <2> QED  BY <2>6, <2>7
  <1>2. i < j => s[i] + 2 <= s[j]
    BY <1>0, <1>1
  <1> QED  BY <1>0, <1>2

\* What the last n entries use, and that none of them begins outside of it.
LEMMA UsedFacts ==
    ASSUME NEW P, NEW s, Starts(P, s), NEW n \in 0..Len(P)
    PROVE  /\ Used(P, s, n) \in Nat /\ (n = 0 <=> Used(P, s, n) = 0)
           /\ \A m \in 0..n : Used(P, s, m) <= Used(P, s, n)
           /\ \A j \in Len(P) + 1 - n..Len(P) :
                /\ j \in 1..Len(P) /\ Before(P, s, n, j) \in Nat
                /\ Before(P, s, n, j) + SizeOf(P[j].kind) <= Used(P, s, n)
                /\ SizeOf(P[j].kind) \in 2..BufferSize
  <1>0. Len(P) \in Nat /\ BufferSize \in Nat
    BY RingAssumption DEF Starts
  <1>1. ASSUME NEW m \in 0..n PROVE Used(P, s, m) <= Used(P, s, n)
    <2>1. Len(P) + 1 - m \in 1..Len(P) + 1 /\ Len(P) + 1 - n \in 1..Len(P) + 1
          /\ Len(P) + 1 - n <= Len(P) + 1 - m /\ Len(P) + 1 \in 1..Len(P) + 1
      BY <1>0
    <2>2. s[Len(P) + 1 - n] <= s[Len(P) + 1 - m] /\ s[Len(P) + 1 - n] \in Nat
          /\ s[Len(P) + 1 - m] \in Nat
      BY <2>1, StartsGrow
    <2>3. s[Len(P) + 1] \in Nat
      BY <2>1 DEF Starts
    <2> QED  BY <2>2, <2>3 DEF Used
  <1>2. Used(P, s, n) \in Nat /\ (n = 0 <=> Used(P, s, n) = 0)
    <2>1. Len(P) + 1 - n \in 1..Len(P) + 1 /\ Len(P) + 1 \in 1..Len(P) + 1
          /\ Len(P) + 1 - n <= Len(P) + 1
      BY <1>0
    <2>2. /\ s[Len(P) + 1 - n] <= s[Len(P) + 1] /\ s[Len(P) + 1 - n] \in Nat /\ s[Len(P) + 1] \in Nat
          /\ Len(P) + 1 - n < Len(P) + 1 => s[Len(P) + 1 - n] + 2 <= s[Len(P) + 1]
      BY <2>1, StartsGrow
    <2>3. n # 0 => Len(P) + 1 - n < Len(P) + 1
      BY <1>0
    <2>4. n = 0 => Len(P) + 1 - n = Len(P) + 1
      BY <1>0
    <2> QED  BY <2>2, <2>3, <2>4 DEF Used
  <1>3. ASSUME NEW j \in Len(P) + 1 - n..Len(P)
        PROVE  /\ j \in 1..Len(P) /\ Before(P, s, n, j) \in Nat
               /\ Before(P, s, n, j) + SizeOf(P[j].kind) <= Used(P, s, n)
               /\ SizeOf(P[j].kind) \in 2..BufferSize
    <2>1. /\ j \in 1..Len(P) /\ j \in 1..Len(P) + 1 /\ j + 1 \in 1..Len(P) + 1
          /\ Len(P) + 1 \in 1..Len(P) + 1 /\ Len(P) + 1 - n \in 1..Len(P) + 1
          /\ Len(P) + 1 - n <= j /\ j + 1 <= Len(P) + 1
      BY <1>0
    <2>2. s[Len(P) + 1 - n] <= s[j] /\ s[Len(P) + 1 - n] \in Nat /\ s[j] \in Nat
      BY <2>1, StartsGrow
    <2>3. s[j + 1] <= s[Len(P) + 1] /\ s[j + 1] \in Nat /\ s[Len(P) + 1] \in Nat
      BY <2>1, StartsGrow
    <2>4. s[j + 1] = s[j] + SizeOf(P[j].kind) /\ SizeOf(P[j].kind) \in 2..BufferSize
      BY <2>1, SizeFacts
    <2>5. SizeOf(P[j].kind) \in Nat
      BY <1>0, <2>4
    <2>6. Used(P, s, n) = s[Len(P) + 1] - s[Len(P) + 1 - n] /\ Before(P, s, n, j) = s[j] - s[Len(P) + 1 - n]
      BY DEF Used, Before
    <2> HIDE DEF Used, Before
    <2> DEFINE a == s[j] b == s[Len(P) + 1 - n] c == s[Len(P) + 1] d == s[j + 1] z == SizeOf(P[j].kind)
    <2>7. a \in Nat /\ b \in Nat /\ c \in Nat /\ d \in Nat /\ z \in Nat /\ b <= a /\ d <= c /\ d = a + z
      BY <2>2, <2>3, <2>4, <2>5
    <2>8. Used(P, s, n) = c - b /\ Before(P, s, n, j) = a - b
      BY <2>6
    <2> HIDE DEF a, b, c, d, z
    <2>9. Before(P, s, n, j) \in Nat /\ Before(P, s, n, j) + z <= Used(P, s, n)
      BY <2>7, <2>8
    <2> USE DEF z
    <2> QED  BY <2>1, <2>4, <2>9
  <1> QED  BY <1>1, <1>2, <1>3

\* Arithmetic, on its own for the provers.
LEMMA Regroup ==
    ASSUME NEW a \in Int, NEW b \in Int, NEW c \in Int
    PROVE  a - (b - c) = a - b + c /\ (a - c) = (a - b) + (b - c)
  OBVIOUS

\* Where a reader is when it has popped n of its entries.
Later(P, s, x, n) ==
  [at |-> IncrementIndex(x.at, Before(P, s, x.count, Len(P) + 1 - x.count + n)), count |-> x.count - n]

\* Going on from an index, a little further, within one turn.
LEMMA IncrementFacts ==
    ASSUME NEW i \in 0..BufferSize, NEW p \in 0..BufferSize
    PROVE  /\ IncrementIndex(i, p) \in 0..BufferSize
           /\ IncrementIndex(i, p) = i + p \/ IncrementIndex(i, p) = i + p - BufferSize
           /\ i + p <= BufferSize => IncrementIndex(i, p) = i + p
           /\ i + p > BufferSize => IncrementIndex(i, p) = i + p - BufferSize
           /\ \A q \in 0..BufferSize - p :
                IncrementIndex(IncrementIndex(i, p), q) = IncrementIndex(i, p + q)
  BY RingAssumption DEF IncrementIndex

\* An index and the same index one turn earlier name one cell.
LEMMA SameCell ==
    ASSUME NEW r, NEW i \in BufferSize..2 * BufferSize - 1
    PROVE  Cell(r, i - BufferSize) = Cell(r, i)
  <1>1. BufferSize \in Nat \ {0} /\ i \in Int /\ i - BufferSize \in Int
        /\ i - BufferSize \in 0..BufferSize - 1
    BY RingAssumption
  <1>2. i % BufferSize = i - BufferSize
    BY <1>1, ModFacts
  <1>3. (i - BufferSize) % BufferSize = i - BufferSize
    BY <1>1, ModFacts
  <1> QED  BY <1>2, <1>3 DEF Cell

\* The entries a reader still has, numbered from its place.
LEMMA TailFacts ==
    ASSUME NEW r, NEW P, NEW s, NEW x, Starts(P, s), Fits(r, P, s, x)
    PROVE  /\ x.at \in 0..BufferSize /\ x.count \in 0..Len(P) /\ Len(P) \in Nat /\ BufferSize \in Nat
           /\ x.count \in Nat /\ Used(P, s, x.count) \in 0..BufferSize
           /\ (x.count = 0 <=> Used(P, s, x.count) = 0)
           /\ \A n \in 0..x.count :
                /\ Len(P) + 1 - x.count + n \in 1..Len(P) + 1
                /\ Before(P, s, x.count, Len(P) + 1 - x.count + n) \in 0..Used(P, s, x.count)
                /\ Before(P, s, x.count, Len(P) + 1 - x.count + n)
                     + Used(P, s, x.count - n) = Used(P, s, x.count)
                /\ s[Len(P) + 1 - x.count + n] \in Nat
  <1>0. Len(P) \in Nat /\ BufferSize \in Nat
    BY RingAssumption DEF Starts
  <1>1. x.at \in 0..BufferSize /\ x.count \in 0..Len(P) /\ Used(P, s, x.count) <= BufferSize
    BY <1>0 DEF Fits, Place
  <1>2. Used(P, s, x.count) \in Nat /\ (x.count = 0 <=> Used(P, s, x.count) = 0)
    BY <1>1, UsedFacts
  <1>3. ASSUME NEW n \in 0..x.count
        PROVE  /\ Len(P) + 1 - x.count + n \in 1..Len(P) + 1
               /\ Before(P, s, x.count, Len(P) + 1 - x.count + n) \in 0..Used(P, s, x.count)
               /\ Before(P, s, x.count, Len(P) + 1 - x.count + n)
                     + Used(P, s, x.count - n) = Used(P, s, x.count)
               /\ s[Len(P) + 1 - x.count + n] \in Nat
    <2> DEFINE j == Len(P) + 1 - x.count + n
               k == Len(P) + 1 - x.count
               e == Len(P) + 1
    <2>1. j \in 1..Len(P) + 1 /\ k \in 1..Len(P) + 1 /\ e \in 1..Len(P) + 1 /\ k <= j /\ j <= e
      BY <1>0, <1>1
    <2>2. Len(P) + 1 - (x.count - n) = j
      BY <1>0, <1>1
    <2> HIDE DEF j, k, e
    <2>3. s[k] \in Nat /\ s[j] \in Nat /\ s[e] \in Nat /\ s[k] <= s[j] /\ s[j] <= s[e]
      BY <2>1, StartsGrow
    <2>4a. Used(P, s, x.count - n) = s[e] - s[Len(P) + 1 - (x.count - n)]
      BY Zenon DEF Used, e
    <2>4. Before(P, s, x.count, j) = s[j] - s[k] /\ Used(P, s, x.count - n) = s[e] - s[j]
          /\ Used(P, s, x.count) = s[e] - s[k]
      BY <2>2, <2>4a, Zenon DEF Used, Before, k, e
    <2> DEFINE a == s[k] b == s[j] c == s[e]
    <2>5. a \in Nat /\ b \in Nat /\ c \in Nat /\ a <= b /\ b <= c
      BY <2>3
    <2>6. Before(P, s, x.count, j) = b - a /\ Used(P, s, x.count - n) = c - b /\ Used(P, s, x.count) = c - a
      BY <2>4
    <2> HIDE DEF a, b, c
    <2>7. Before(P, s, x.count, j) \in 0..Used(P, s, x.count)
          /\ Before(P, s, x.count, j) + Used(P, s, x.count - n) = Used(P, s, x.count)
      BY <2>5, <2>6
    <2> QED  BY <2>1, <2>3, <2>7 DEF j
  <1> QED  BY <1>0, <1>1, <1>2, <1>3

\* A reader that sees its entries sees those that are left when it has popped some.
LEMMA SeesLater ==
    ASSUME NEW r, NEW P, NEW s, NEW x, Starts(P, s), r.write \in 0..BufferSize,
           Sees(r, P, s, x), NEW n \in 0..x.count
    PROVE  Sees(r, P, s, Later(P, s, x, n))
  <1> DEFINE y == Later(P, s, x, n)
             j0 == Len(P) + 1 - x.count + n
             b == Before(P, s, x.count, j0)
  <1>0. Fits(r, P, s, x) /\ Holds(r, P, s, x)
    BY DEF Sees
  <1>1. /\ x.at \in 0..BufferSize /\ x.count \in 0..Len(P) /\ Len(P) \in Nat /\ BufferSize \in Nat
        /\ Used(P, s, x.count) \in 0..BufferSize
        /\ b \in 0..Used(P, s, x.count) /\ b + Used(P, s, x.count - n) = Used(P, s, x.count)
        /\ j0 \in 1..Len(P) + 1
        /\ s[j0] \in Nat /\ s[Len(P) + 1 - x.count] \in Nat
    <2>1. /\ x.at \in 0..BufferSize /\ x.count \in 0..Len(P) /\ Len(P) \in Nat /\ BufferSize \in Nat
          /\ Used(P, s, x.count) \in 0..BufferSize /\ x.count \in Nat
      BY <1>0, TailFacts
    <2>2. /\ b \in 0..Used(P, s, x.count) /\ b + Used(P, s, x.count - n) = Used(P, s, x.count)
          /\ j0 \in 1..Len(P) + 1 /\ s[j0] \in Nat
      BY <1>0, TailFacts
    <2>3. s[Len(P) + 1 - x.count + 0] \in Nat /\ Len(P) + 1 - x.count + 0 = Len(P) + 1 - x.count
      BY <1>0, <2>1, TailFacts
    <2> QED  BY <2>1, <2>2, <2>3
  <1>2. y = [at |-> IncrementIndex(x.at, b), count |-> x.count - n]
    BY DEF Later
  <1>3. x.count - n \in 0..Len(P) /\ Len(P) + 1 - (x.count - n) = j0
    <2>1. x.count \in 0..Len(P) /\ Len(P) \in Nat
      BY <1>1
    <2>2. x.count \in Int /\ n \in Int /\ Len(P) + 1 \in Int /\ x.count - n \in 0..Len(P)
      BY <2>1
    <2> QED  BY <2>2, Regroup
  <1>3a. Before(P, s, x.count, j0) = s[j0] - s[Len(P) + 1 - x.count]
    BY DEF Before
  <1> HIDE DEF b, j0, y
  <1>4. b \in 0..BufferSize /\ Used(P, s, x.count - n) \in Nat
    <2>1. Used(P, s, x.count - n) \in Nat
      BY <1>3, UsedFacts
    <2> QED  BY <1>1, <2>1
  <1>5. y.at \in 0..BufferSize
        /\ (y.at = x.at + b \/ (x.at + b > BufferSize /\ y.at = x.at + b - BufferSize))
        /\ (x.at + b <= BufferSize => y.at = x.at + b)
        /\ (x.at + b > BufferSize => y.at = x.at + b - BufferSize)
    <2>1. y.at = IncrementIndex(x.at, b)
      BY <1>2
    <2>2. x.at + b \in Int
      BY <1>1, <1>4
    <2>3. x.at + b <= BufferSize \/ x.at + b > BufferSize
      BY <1>1, <2>2
    <2> DEFINE a == x.at
               v == y.at
    <2>4. /\ a \in 0..BufferSize /\ b \in 0..BufferSize /\ v = IncrementIndex(a, b)
          /\ a + b <= BufferSize \/ a + b > BufferSize
      BY <1>1, <1>4, <2>1, <2>3
    <2> HIDE DEF a, v
    <2>5. /\ v \in 0..BufferSize
          /\ a + b <= BufferSize => v = a + b
          /\ a + b > BufferSize => v = a + b - BufferSize
      BY <2>4, IncrementFacts
    <2>6. v = a + b \/ (a + b > BufferSize /\ v = a + b - BufferSize)
      BY <2>4, <2>5
    <2> QED  BY <2>5, <2>6 DEF a, v
  <1>6. Fits(r, P, s, y)
    <2>1. y \in Place /\ y.count = x.count - n /\ y.count <= Len(P)
      BY <1>1, <1>2, <1>3, <1>5 DEF Place
    <2>2. r.write = x.at + Used(P, s, x.count) \/ r.write = x.at + Used(P, s, x.count) - BufferSize
      BY <1>0 DEF Fits
    <2> DEFINE w == r.write
               u == Used(P, s, x.count)
               v == Used(P, s, x.count - n)
               a == x.at
               ya == y.at
    <2>4. /\ w \in 0..BufferSize /\ u \in 0..BufferSize /\ v \in Nat /\ a \in 0..BufferSize
          /\ ya \in 0..BufferSize /\ b \in 0..u /\ b + v = u
          /\ w = a + u \/ w = a + u - BufferSize
          /\ ya = a + b \/ (a + b > BufferSize /\ ya = a + b - BufferSize)
          /\ BufferSize \in Nat
      BY <1>1, <1>4, <1>5, <2>2
    <2> HIDE DEF w, u, v, a, ya
    <2>5. w = ya + v \/ w = ya + v - BufferSize
      BY <2>4
    <2>3. \/ r.write = y.at + Used(P, s, x.count - n)
          \/ r.write = y.at + Used(P, s, x.count - n) - BufferSize
      BY <2>5 DEF w, v, ya
    <2> QED  BY <1>1, <1>4, <2>1, <2>3 DEF Fits
  <1>7. ASSUME NEW j \in Len(P) + 1 - y.count..Len(P), NEW i \in 1..SizeOf(P[j].kind)
        PROVE  Cell(r, y.at + Before(P, s, y.count, j) + i - 1) = <<P[j].seq, P[j].kind, i>>
    <2>1. y.count = x.count - n
      BY <1>2
    <2>2. j \in Len(P) + 1 - x.count..Len(P) /\ j \in j0..Len(P)
      BY <1>1, <1>3, <2>1, SMTT(30)
    <2>3. /\ Before(P, s, x.count, j) \in Nat /\ SizeOf(P[j].kind) \in 2..BufferSize
          /\ Before(P, s, x.count, j) + SizeOf(P[j].kind) <= Used(P, s, x.count)
      BY <1>1, <2>2, UsedFacts
    <2>4. s[j] \in Nat /\ s[j0] <= s[j]
      BY <1>1, <2>2, StartsGrow, SMTT(30)
    <2>5. Before(P, s, x.count, j) = Before(P, s, y.count, j) + b /\ Before(P, s, y.count, j) \in Nat
      <3>1. Before(P, s, x.count, j) = s[j] - s[Len(P) + 1 - x.count]
            /\ Before(P, s, y.count, j) = s[j] - s[j0]
            /\ b = s[j0] - s[Len(P) + 1 - x.count]
        BY <1>3, <1>3a, <2>1 DEF Before, b
      <3>2. s[j] - s[j0] \in Nat
        <4> DEFINE p == s[j]
                   q == s[j0]
        <4>1. p \in Nat /\ q \in Nat /\ q <= p
          BY <1>1, <2>4
        <4> HIDE DEF p, q
        <4>2. p - q \in Nat
          BY <4>1
        <4> QED  BY <4>2 DEF p, q
      <3>3. s[j] \in Int /\ s[j0] \in Int /\ s[Len(P) + 1 - x.count] \in Int
        <4>1. s[j] \in Nat /\ s[j0] \in Nat /\ s[Len(P) + 1 - x.count] \in Nat
          BY <1>1, <2>4, Zenon
        <4>2. \A m \in Nat : m \in Int
          OBVIOUS
        <4> QED  BY <4>1, <4>2, Zenon
      <3>4. s[j] - s[Len(P) + 1 - x.count] = (s[j] - s[j0]) + (s[j0] - s[Len(P) + 1 - x.count])
        BY <3>3, Regroup
      <3> QED  BY <3>1, <3>2, <3>4, Zenon
    <2>6. Cell(r, x.at + Before(P, s, x.count, j) + i - 1) = <<P[j].seq, P[j].kind, i>>
      BY <1>0, <2>2 DEF Holds
    <2> DEFINE q == Before(P, s, y.count, j)
               z == SizeOf(P[j].kind)
    <2> DEFINE k == Before(P, s, x.count, j)
               u == Used(P, s, x.count)
               a == x.at
               ya == y.at
    <2>7. /\ q \in Nat /\ z \in 2..BufferSize /\ i \in 1..z /\ k \in Nat /\ k = q + b /\ k + z <= u
          /\ u \in 0..BufferSize /\ a \in 0..BufferSize /\ ya \in 0..BufferSize
          /\ ya = a + b \/ (a + b > BufferSize /\ ya = a + b - BufferSize)
          /\ BufferSize \in Nat /\ b \in 0..BufferSize
      BY <1>1, <1>4, <1>5, <2>3, <2>5
    <2>7a. Cell(r, a + k + i - 1) = <<P[j].seq, P[j].kind, i>>
      BY <2>6
    <2> HIDE DEF q, z, k, u, a, ya
    <2>8. CASE ya = a + b
      <3>1. ya + q + i - 1 = a + k + i - 1
        BY <2>7, <2>8
      <3> QED  BY <2>7a, <3>1 DEF q, ya
    <2>9. CASE a + b > BufferSize /\ ya = a + b - BufferSize
      <3>1. a + k + i - 1 \in BufferSize..2 * BufferSize - 1
            /\ ya + q + i - 1 = (a + k + i - 1) - BufferSize
        BY <2>7, <2>9
      <3>2. Cell(r, ya + q + i - 1) = <<P[j].seq, P[j].kind, i>>
        BY <2>7a, <3>1, SameCell
      <3> QED  BY <3>2 DEF q, ya
    <2> QED  BY <2>7, <2>8, <2>9
  <1> QED  BY <1>6, <1>7 DEF Sees, Holds, y

\* The front of what a reader still has.
LEMMA FrontAt ==
    ASSUME NEW r, NEW P, NEW s, NEW x, Starts(P, s), Sees(r, P, s, x), x.count # 0
    PROVE  /\ EntryAt(r, x.at) = [seq |-> P[Len(P) + 1 - x.count].seq, kind |-> P[Len(P) + 1 - x.count].kind]
           /\ Len(P) + 1 - x.count \in 1..Len(P)
           /\ P[Len(P) + 1 - x.count] \in Entry
           /\ EntryAt(r, x.at) = P[Len(P) + 1 - x.count]
  <1> DEFINE j == Len(P) + 1 - x.count
  <1>1. /\ x.at \in 0..BufferSize /\ x.count \in 0..Len(P) /\ Len(P) \in Nat /\ x.count \in Nat
    BY TailFacts DEF Sees
  <1>2. j \in 1..Len(P) /\ j \in Len(P) + 1 - x.count..Len(P)
    BY <1>1
  <1>3. SizeOf(P[j].kind) \in 2..BufferSize /\ P[j] \in Entry /\ s[j] \in Nat
    BY <1>2, SizeFacts
  <1>4. 1 \in 1..SizeOf(P[j].kind)
    BY <1>3, RingAssumption
  <1>5. Cell(r, x.at + Before(P, s, x.count, j) + 1 - 1) = <<P[j].seq, P[j].kind, 1>>
    BY <1>2, <1>4 DEF Sees, Holds
  <1>6. Before(P, s, x.count, j) = 0
    BY <1>3 DEF Before
  <1>7. x.at + 0 + 1 - 1 = x.at
    BY <1>1
  <1>8. Cell(r, x.at) = <<P[j].seq, P[j].kind, 1>>
    BY <1>5, <1>6, <1>7
  <1>9. EntryAt(r, x.at) = [seq |-> P[j].seq, kind |-> P[j].kind]
    BY <1>8 DEF EntryAt
  <1> QED  BY <1>2, <1>3, <1>9 DEF Entry

\* The entry a reader comes to after n pops.
LEMMA FrontLater ==
    ASSUME NEW r, NEW P, NEW s, NEW x, Starts(P, s), r.write \in 0..BufferSize,
           Sees(r, P, s, x), NEW n \in 0..x.count, n # x.count
    PROVE  /\ Len(P) + 1 - x.count + n \in 1..Len(P)
           /\ EntryAt(r, Later(P, s, x, n).at) = P[Len(P) + 1 - x.count + n]
           /\ Later(P, s, x, n + 1).at
                = IncrementIndex(Later(P, s, x, n).at, SizeOf(P[Len(P) + 1 - x.count + n].kind))
           /\ n + 1 \in 0..x.count
  <1> DEFINE y == Later(P, s, x, n)
             j == Len(P) + 1 - x.count + n
             k == Len(P) + 1 - x.count
             b == Before(P, s, x.count, j)
             u == Used(P, s, x.count)
             a == x.at
             c == x.count
             L == Len(P)
  <1>1. /\ a \in 0..BufferSize /\ c \in 0..L /\ L \in Nat /\ c \in Nat /\ u \in 0..BufferSize
    BY TailFacts DEF Sees
  <1>2. Sees(r, P, s, y) /\ y.count = c - n
    BY SeesLater DEF Later
  <1>3. /\ c - n # 0 /\ L + 1 - (c - n) = j /\ n + 1 \in 0..c /\ j \in 1..L /\ j + 1 = L + 1 - c + (n + 1)
        /\ j \in L + 1 - c..L
    BY <1>1, SMTT(30)
  <1>4. EntryAt(r, y.at) = P[j]
    <2>1. Sees(r, P, s, y) /\ y.count # 0 /\ Len(P) + 1 - y.count = j
      BY <1>2, <1>3
    <2> HIDE DEF y, j
    <2> QED  BY <2>1, FrontAt
  <1>5. /\ b \in Nat /\ b + SizeOf(P[j].kind) <= u /\ SizeOf(P[j].kind) \in 2..BufferSize
    BY <1>1, <1>3, UsedFacts
  <1>6. y.at = IncrementIndex(a, b)
        /\ Later(P, s, x, n + 1).at = IncrementIndex(a, Before(P, s, x.count, L + 1 - c + (n + 1)))
    BY DEF Later
  <1>7. Before(P, s, x.count, j + 1) = b + SizeOf(P[j].kind)
    <2>0. j \in 1..Len(P)
      BY <1>3
    <2>1. s[j] \in Nat /\ s[j + 1] = s[j] + SizeOf(P[j].kind) /\ SizeOf(P[j].kind) \in Nat
      <3> HIDE DEF j
      <3>1. s[j] \in Nat /\ s[j + 1] = s[j] + SizeOf(P[j].kind) /\ SizeOf(P[j].kind) \in 2..BufferSize
        BY <2>0, SizeFacts
      <3> QED  BY <3>1, RingAssumption
    <2>2. k \in 1..Len(P) + 1
      BY <1>1, <1>3, SMTT(30)
    <2>3. s[k] \in Nat
      BY <2>2 DEF Starts
    <2>4. Before(P, s, x.count, j + 1) = s[j + 1] - s[k] /\ b = s[j] - s[k]
      BY DEF Before
    <2> HIDE DEF j, k, b
    <2> QED  BY <2>1, <2>3, <2>4
  <1> DEFINE z == SizeOf(P[j].kind)
  <1>8. z \in 0..BufferSize - b /\ b \in 0..BufferSize /\ a \in 0..BufferSize
    <2>1. b \in Nat /\ b + z <= u /\ z \in 2..BufferSize /\ a \in 0..BufferSize /\ u \in 0..BufferSize
      BY <1>1, <1>5
    <2> HIDE DEF a, b, z, u
    <2> QED  BY <2>1, RingAssumption
  <1> HIDE DEF a, b, z
  <1>9. IncrementIndex(IncrementIndex(a, b), z) = IncrementIndex(a, b + z)
    BY <1>8, IncrementFacts
  <1>10. Later(P, s, x, n + 1).at = IncrementIndex(y.at, z)
    BY <1>3, <1>6, <1>7, <1>9 DEF z
  <1> QED  BY <1>3, <1>4, <1>10 DEF z

\* The places of a reader, in closed form.
LEMMA PlacesAre ==
    ASSUME NEW r, NEW P, NEW s, NEW x, Starts(P, s), r.write \in 0..BufferSize, Sees(r, P, s, x)
    PROVE  PlacesOf(r, x) = [n \in 0..x.count |-> Later(P, s, x, n)]
  <1> DEFINE at[n \in 0..x.count] ==
               IF n = 0 THEN x.at
               ELSE IncrementIndex(at[n - 1], SizeOf(EntryAt(r, at[n - 1]).kind))
             g == [n \in 0..x.count |-> Later(P, s, x, n).at]
             Next1(f, n) == IF n = 0 THEN x.at
                            ELSE IncrementIndex(f[n - 1], SizeOf(EntryAt(r, f[n - 1]).kind))
  <1>0. x.count \in Nat /\ x.count \in 0..Len(P) /\ x.at \in 0..BufferSize /\ Len(P) \in Nat
    BY TailFacts DEF Sees
  <1>1. ASSUME NEW n \in 0..x.count PROVE g[n] = Next1(g, n)
    <2>1. CASE n = 0
      <3>1. Before(P, s, x.count, Len(P) + 1 - x.count + 0) = 0
        <4>1. Len(P) + 1 - x.count + 0 = Len(P) + 1 - x.count /\ Len(P) + 1 - x.count \in 1..Len(P) + 1
          BY <1>0
        <4>2. s[Len(P) + 1 - x.count] \in Nat
          BY <4>1 DEF Starts
        <4> QED  BY <4>1, <4>2 DEF Before
      <3>2. IncrementIndex(x.at, 0) = x.at
        BY <1>0, RingAssumption DEF IncrementIndex
      <3>3. Later(P, s, x, 0).at = x.at
        BY <3>1, <3>2 DEF Later
      <3> QED  BY <2>1, <3>3
    <2>2. CASE n # 0
      <3>1. n - 1 \in 0..x.count /\ n - 1 # x.count /\ n - 1 + 1 = n
        BY <1>0, <2>2
      <3>2. /\ EntryAt(r, Later(P, s, x, n - 1).at) = P[Len(P) + 1 - x.count + (n - 1)]
            /\ Later(P, s, x, n - 1 + 1).at
                = IncrementIndex(Later(P, s, x, n - 1).at, SizeOf(P[Len(P) + 1 - x.count + (n - 1)].kind))
        BY <3>1, FrontLater
      <3>3. g[n - 1] = Later(P, s, x, n - 1).at
        BY <3>1
      <3> QED  BY <2>2, <3>1, <3>2, <3>3
    <2> QED  BY <2>1, <2>2
  <1>2. g = [n \in 0..x.count |-> Next1(g, n)]
    BY <1>1
  <1>3. at = CHOOSE f : f = [n \in 0..x.count |-> Next1(f, n)]
    BY DEF at
  <1>4. at = [n \in 0..x.count |-> Next1(at, n)]
    <2> HIDE DEF at, g, Next1
    <2> QED  BY <1>2, <1>3
  <1> DEFINE T == {n \in Nat : n \in 0..x.count /\ at[n] # g[n]}
  <1>5. T = {}
    <2>1. SUFFICES ASSUME T # {} PROVE FALSE
      OBVIOUS
    <2>2. T \in SUBSET Nat
      OBVIOUS
    <2>3. PICK n \in T : \A y \in T : n <= y
      <3> HIDE DEF T
      <3> QED  BY <2>1, <2>2, LeastNat
    <2>4. n \in Nat /\ n \in 0..x.count /\ at[n] # g[n]
      OBVIOUS
    <2> HIDE DEF at, g
    <2>5. at[n] = Next1(at, n) /\ g[n] = Next1(g, n)
      BY <1>1, <1>4, <2>4
    <2>6. n # 0
      BY <2>4, <2>5
    <2>7. n - 1 \in Nat /\ n - 1 \in 0..x.count /\ n - 1 < n
      BY <1>0, <2>4, <2>6
    <2>8. at[n - 1] = g[n - 1]
      BY <2>3, <2>4, <2>7
    <2> QED  BY <2>4, <2>5, <2>6, <2>8
  <1>6. ASSUME NEW n \in 0..x.count PROVE at[n] = Later(P, s, x, n).at
    <2>1. at[n] = g[n]
      <3> HIDE DEF at, g
      <3>1. n \in Nat
        BY <1>0
      <3>2. n \notin T
        BY <1>5, Zenon
      <3> QED  BY <3>1, <3>2
    <2> HIDE DEF at
    <2> QED  BY <2>1
  <1>7. PlacesOf(r, x) = [n \in 0..x.count |-> [at |-> at[n], count |-> x.count - n]]
    BY DEF PlacesOf
  <1> HIDE DEF at
  <1>8. ASSUME NEW n \in 0..x.count
        PROVE  [at |-> at[n], count |-> x.count - n] = Later(P, s, x, n)
    BY <1>6 DEF Later
  <1> QED  BY <1>7, <1>8

\* What the writer has when the slowest reader is at x.
LEMMA AvailableIs ==
    ASSUME NEW r, NEW P, NEW s, NEW x, Starts(P, s), r.write \in 0..BufferSize, Fits(r, P, s, x)
    PROVE  RawAvailableBytes(r.write, x) = BufferSize - Used(P, s, x.count)
  <1> DEFINE u == Used(P, s, x.count)
             a == x.at
             w == r.write
             c == x.count
  <1>1. /\ a \in 0..BufferSize /\ u \in 0..BufferSize /\ w \in 0..BufferSize /\ BufferSize \in Nat
        /\ c = 0 <=> u = 0
        /\ w = a + u \/ w = a + u - BufferSize
    BY TailFacts DEF Fits
  <1>2. RawAvailableBytes(r.write, x) =
          IF a < w THEN BufferSize - (w - a)
          ELSE IF a > w THEN a - w ELSE IF c # 0 THEN 0 ELSE BufferSize
    BY DEF RawAvailableBytes
  <1> HIDE DEF u, a, w, c
  <1>3. RawAvailableBytes(r.write, x) = BufferSize - u
    BY <1>1, <1>2, RingAssumption
  <1> QED  BY <1>3 DEF u

\* There is a slowest reader.
LEMMA SlowestExists ==
    ASSUME NEW r, NEW P, NEW s, AllSee(r, P, s)
    PROVE  /\ "oldest" \in Readers(r) /\ GetSlowestReader(r) \in Readers(r)
           /\ \A e \in Readers(r) : r.reader[e].count <= r.reader[GetSlowestReader(r)].count
  <1> DEFINE T == {Len(P) - r.reader[d].count : d \in Readers(r)}
  <1>0. /\ "oldest" \in Readers(r) /\ Len(P) \in Nat
        /\ \A d \in Readers(r) : r.reader[d].count \in 0..Len(P)
    <2>1. Starts(P, s) /\ "oldest" \in Readers(r)
          /\ \A d \in Readers(r) : Sees(r, P, s, r.reader[d])
      BY DEF AllSee
    <2>2. \A d \in Readers(r) : r.reader[d].count \in 0..Len(P)
      BY <2>1, TailFacts DEF Sees
    <2> QED  BY <2>1, <2>2 DEF Starts
  <1>1. T \in SUBSET Nat /\ T # {}
    BY <1>0
  <1>2. PICK t \in T : \A y \in T : t <= y
    <2> HIDE DEF T
    <2> QED  BY <1>1, LeastNat
  <1>3. PICK d \in Readers(r) : t = Len(P) - r.reader[d].count
    OBVIOUS
  <1>4. ASSUME NEW e \in Readers(r) PROVE r.reader[e].count <= r.reader[d].count
    <2>1. t <= Len(P) - r.reader[e].count
      BY <1>2
    <2>2. r.reader[e].count \in Nat /\ r.reader[d].count \in Nat /\ Len(P) \in Nat
      BY <1>0
    <2> QED  BY <1>3, <2>1, <2>2
  <1>5. \E f \in Readers(r) : \A e \in Readers(r) : r.reader[e].count <= r.reader[f].count
    BY <1>4
  <1> QED  BY <1>0, <1>5 DEF GetSlowestReader

\* Taking the places of a reader, the first one with room for an entry: all its
\* readers that are further behind are moved there, and see their entries.
LEMMA EvictMakesRoom ==
    ASSUME NEW r, NEW P, NEW s, AllSee(r, P, s), NEW kind \in Kinds
    PROVE  LET places == PlacesOf(r, r.reader[GetSlowestReader(r)])
               n == Min({m \in DOMAIN places : RawAvailableBytes(r.write, places[m]) >= SizeOf(kind)})
               left == Evict(r, places[n])
           IN  /\ left = [d \in Names |-> left[d]]
               /\ \A d \in Names :
                    /\ d \in Readers(r) => /\ Sees(r, P, s, left[d])
                                           /\ left[d].count <= r.reader[d].count
                                           /\ Used(P, s, left[d].count) + SizeOf(kind) <= BufferSize
                                           /\ left[d] # Detached
                    /\ d \notin Readers(r) => left[d] = Detached
  <1> DEFINE slowest == GetSlowestReader(r)
             x == r.reader[slowest]
             places == PlacesOf(r, x)
             S == {m \in DOMAIN places : RawAvailableBytes(r.write, places[m]) >= SizeOf(kind)}
             n == Min(S)
             left == Evict(r, places[n])
             size == SizeOf(kind)
  <1>0. /\ r \in Ring /\ Starts(P, s) /\ "oldest" \in Readers(r) /\ r.write \in 0..BufferSize
        /\ DOMAIN r.reader = Names /\ Len(P) \in Nat
        /\ \A d \in Readers(r) : Sees(r, P, s, r.reader[d]) /\ r.reader[d].count \in 0..Len(P)
    <2>1. r \in Ring /\ Starts(P, s) /\ "oldest" \in Readers(r)
          /\ \A d \in Readers(r) : Sees(r, P, s, r.reader[d])
      BY DEF AllSee
    <2>2. \A d \in Readers(r) : r.reader[d].count \in 0..Len(P)
      BY <2>1, TailFacts DEF Sees
    <2> QED  BY <2>1, <2>2 DEF Ring, Starts
  <1>1. size \in 2..BufferSize /\ BufferSize \in Nat
    BY RingAssumption
  <1>2. slowest \in Readers(r) /\ \A e \in Readers(r) : r.reader[e].count <= x.count
    BY SlowestExists
  <1> HIDE DEF slowest
  <1>3. Sees(r, P, s, x) /\ x.count \in 0..Len(P) /\ x.count \in Nat
    BY <1>0, <1>2
  <1>4. places = [m \in 0..x.count |-> Later(P, s, x, m)]
    BY <1>0, <1>3, PlacesAre
  <1>5. ASSUME NEW m \in 0..x.count
        PROVE  /\ Sees(r, P, s, places[m]) /\ places[m].count = x.count - m
               /\ RawAvailableBytes(r.write, places[m]) = BufferSize - Used(P, s, x.count - m)
    <2>1. Sees(r, P, s, places[m]) /\ places[m].count = x.count - m
      BY <1>0, <1>3, <1>4, SeesLater DEF Later
    <2> HIDE DEF places
    <2>2. RawAvailableBytes(r.write, places[m]) = BufferSize - Used(P, s, x.count - m)
      BY <1>0, <2>1, AvailableIs DEF Sees
    <2> QED  BY <2>1, <2>2
  <1>6. DOMAIN places = 0..x.count
    BY <1>4
  <1> HIDE DEF places
  <1>7. x.count \in S
    <2>1. x.count - x.count = 0 /\ x.count \in 0..x.count /\ 0 \in 0..Len(P)
      BY <1>0, <1>3
    <2>2. Used(P, s, 0) = 0
      BY <1>0, <2>1, UsedFacts
    <2>3. RawAvailableBytes(r.write, places[x.count]) = BufferSize - 0
      BY <1>5, <2>1, <2>2
    <2> QED  BY <1>1, <1>6, <2>1, <2>3
  <1>8. S \in SUBSET Nat
    BY <1>3, <1>6
  <1>9. n \in S
    <2> HIDE DEF S
    <2> QED  BY <1>7, <1>8, NatMin
  <1>10. n \in 0..x.count /\ RawAvailableBytes(r.write, places[n]) >= size
    BY <1>6, <1>9
  <1> HIDE DEF n, S
  <1> DEFINE y == places[n]
  <1>11. /\ Sees(r, P, s, y) /\ y.count = x.count - n /\ y.count \in 0..Len(P)
         /\ Used(P, s, y.count) \in Nat /\ Used(P, s, y.count) + size <= BufferSize
    <2>1. Sees(r, P, s, y) /\ y.count = x.count - n
          /\ BufferSize - Used(P, s, y.count) >= size
      BY <1>5, <1>10
    <2>2. y.count \in 0..Len(P) /\ Used(P, s, y.count) \in 0..BufferSize
      BY <1>0, <2>1, TailFacts DEF Sees
    <2> DEFINE u == Used(P, s, y.count)
    <2>3. u \in 0..BufferSize /\ BufferSize - u >= size
      BY <2>1, <2>2
    <2> HIDE DEF u
    <2>4. u \in Nat /\ u + size <= BufferSize
      BY <1>1, <2>3
    <2> QED  BY <2>1, <2>2, <2>4 DEF u
  <1>12. y # Detached /\ \A e \in Readers(r) : r.reader[e] # Detached
    <2>1. y.at \in 0..BufferSize
      BY <1>0, <1>11, TailFacts DEF Sees
    <2>2. y.at # -1
      BY <1>1, <2>1
    <2> QED  BY <2>2 DEF Detached, Readers
  <1> HIDE DEF y
  <1>13. left = [d \in Names |-> IF d \in Readers(r) /\ r.reader[d].count > y.count THEN y ELSE r.reader[d]]
    BY <1>0 DEF Evict, y
  <1>14. ASSUME NEW d \in Names, d \in Readers(r)
         PROVE  /\ Sees(r, P, s, left[d]) /\ left[d].count <= r.reader[d].count
                /\ Used(P, s, left[d].count) + SizeOf(kind) <= BufferSize
                /\ left[d] # Detached
    <2>0. r.reader[d].count \in 0..Len(P) /\ Sees(r, P, s, r.reader[d]) /\ Len(P) \in Nat
      BY <1>0, <1>14
    <2>1. CASE r.reader[d].count > y.count
      <3>1. left[d] = y /\ y.count <= r.reader[d].count
        BY <1>11, <1>13, <1>14, <2>0, <2>1
      <3> QED  BY <1>11, <1>12, <3>1
    <2>2. CASE ~(r.reader[d].count > y.count)
      <3>1. left[d] = r.reader[d]
        BY <1>13, <2>2
      <3>2. r.reader[d].count \in 0..y.count /\ r.reader[d].count <= r.reader[d].count
        BY <1>11, <2>0, <2>2
      <3>3. Used(P, s, r.reader[d].count) <= Used(P, s, y.count)
            /\ Used(P, s, r.reader[d].count) \in Nat
        BY <1>0, <1>11, <2>0, <3>2, UsedFacts
      <3>4. Used(P, s, r.reader[d].count) + size <= BufferSize
        <4> DEFINE v == Used(P, s, r.reader[d].count)
                   u == Used(P, s, y.count)
        <4>1. v <= u /\ v \in Nat /\ u \in Nat /\ u + size <= BufferSize
          BY <1>11, <3>3
        <4> HIDE DEF v, u
        <4>2. v + size <= BufferSize
          BY <1>1, <4>1
        <4> QED  BY <4>2 DEF v
      <3> QED  BY <1>12, <1>14, <2>0, <3>1, <3>2, <3>4
    <2> QED  BY <2>1, <2>2
  <1>15. ASSUME NEW d \in Names, d \notin Readers(r) PROVE left[d] = Detached
    BY <1>0, <1>13, <1>15 DEF Readers
  <1>16. left = [d \in Names |-> left[d]]
    BY <1>13
  <1> HIDE DEF left
  <1>17. /\ left = [d \in Names |-> left[d]]
         /\ \A d \in Names :
              /\ d \in Readers(r) => /\ Sees(r, P, s, left[d])
                                     /\ left[d].count <= r.reader[d].count
                                     /\ Used(P, s, left[d].count) + SizeOf(kind) <= BufferSize
                                     /\ left[d] # Detached
              /\ d \notin Readers(r) => left[d] = Detached
    BY <1>14, <1>15, <1>16
  <1> QED  BY <1>17, Zenon DEF left, y, n, S, places, slowest

\* The starts when an entry of `size` cells is pushed.
Grown(P, s, size) ==
  [i \in 1..Len(P) + 2 |-> IF i = Len(P) + 2 THEN s[Len(P) + 1] + size ELSE s[i]]

\* What a push does to the starts, and to the cells before and of each entry.
LEMMA GrownFacts ==
    ASSUME NEW P, NEW s, Starts(P, s), NEW e \in Entry
    PROVE  LET Q == Append(P, e)
               t == Grown(P, s, SizeOf(e.kind))
           IN  /\ Starts(Q, t) /\ Len(Q) = Len(P) + 1 /\ Q[Len(P) + 1] = e
               /\ \A j \in 1..Len(P) : Q[j] = P[j]
               /\ \A c \in 0..Len(P) :
                    /\ Used(Q, t, c + 1) = Used(P, s, c) + SizeOf(e.kind)
                    /\ \A j \in 1..Len(P) : Before(Q, t, c + 1, j) = Before(P, s, c, j)
                    /\ Before(Q, t, c + 1, Len(P) + 1) = Used(P, s, c)
  <1> DEFINE Q == Append(P, e)
             z == SizeOf(e.kind)
             t == Grown(P, s, z)
             L == Len(P)
  <1>0. P \in Seq(Entry) /\ L \in Nat /\ s \in [1..L + 1 -> Nat] /\ z \in 2..BufferSize /\ z \in Nat
    <2>1. z \in 2..BufferSize
      BY RingAssumption DEF Entry
    <2> QED  BY <2>1, RingAssumption DEF Starts
  <1>1. Q \in Seq(Entry) /\ Len(Q) = L + 1 /\ Q[L + 1] = e /\ \A j \in 1..L : Q[j] = P[j]
    BY <1>0
  <1> HIDE DEF Q
  <1>2. /\ t \in [1..L + 2 -> Nat] /\ t[L + 2] = s[L + 1] + z /\ s[L + 1] \in Nat
        /\ \A i \in 1..L + 1 : t[i] = s[i] /\ s[i] \in Nat
    <2>1. s[L + 1] \in Nat /\ \A i \in 1..L + 1 : s[i] \in Nat
      BY <1>0
    <2>2. \A i \in 1..L + 1 : i # L + 2 /\ i \in 1..L + 2
      BY <1>0
    <2>3. L + 2 \in 1..L + 2
      BY <1>0
    <2>4. \A i \in 1..L + 2 : i # L + 2 => i \in 1..L + 1
      BY <1>0
    <2>5. t = [i \in 1..L + 2 |-> IF i = L + 2 THEN s[L + 1] + z ELSE s[i]]
      BY DEF Grown
    <2>6. s[L + 1] + z \in Nat
      BY <1>0, <2>1
    <2> HIDE DEF t, z, L
    <2> QED  BY <2>1, <2>2, <2>3, <2>4, <2>5, <2>6
  <1> HIDE DEF t
  <1>3. Starts(Q, t)
    <2>1. ASSUME NEW i \in 1..Len(Q) PROVE t[i + 1] = t[i] + SizeOf(Q[i].kind)
      <3>1. CASE i = L + 1
        BY <1>0, <1>1, <1>2, <3>1
      <3>2. CASE i # L + 1
        <4>1. i \in 1..L /\ i + 1 \in 1..L + 1 /\ i \in 1..L + 1
          BY <1>0, <1>1, <3>2
        <4>2. s[i + 1] = s[i] + SizeOf(P[i].kind)
          BY <4>1 DEF Starts
        <4> QED  BY <1>1, <1>2, <4>1, <4>2
      <3> QED  BY <3>1, <3>2
    <2>2. 1..L + 2 = 1..Len(Q) + 1
      BY <1>0, <1>1
    <2> QED  BY <1>1, <1>2, <2>1, <2>2 DEF Starts
  <1>4. ASSUME NEW c \in 0..L
        PROVE  /\ Used(Q, t, c + 1) = Used(P, s, c) + z
               /\ \A j \in 1..L : Before(Q, t, c + 1, j) = Before(P, s, c, j)
               /\ Before(Q, t, c + 1, L + 1) = Used(P, s, c)
    <2> DEFINE k == L + 1 - c
    <2>1. k \in 1..L + 1 /\ Len(Q) + 1 = L + 2 /\ Len(Q) + 1 - (c + 1) = k
      BY <1>0, <1>1
    <2>2. Used(Q, t, c + 1) = t[L + 2] - t[k] /\ Used(P, s, c) = s[L + 1] - s[k]
      BY <2>1, Zenon DEF Used, L, k
    <2>3. \A j \in 1..L + 1 : Before(Q, t, c + 1, j) = t[j] - t[k] /\ Before(P, s, c, j) = s[j] - s[k]
      BY <2>1, Zenon DEF Before, L, k
    <2> HIDE DEF k, z
    <2>4. t[k] = s[k] /\ s[k] \in Nat
      BY <1>2, <2>1
    <2>5. Used(Q, t, c + 1) = Used(P, s, c) + z
      BY <1>0, <1>2, <2>2, <2>4
    <2>6. ASSUME NEW j \in 1..L PROVE Before(Q, t, c + 1, j) = Before(P, s, c, j)
      <3>1. j \in 1..L + 1
        BY <1>0
      <3> QED  BY <1>2, <2>3, <2>4, <3>1
    <2>7. Before(Q, t, c + 1, L + 1) = Used(P, s, c)
      <3>1. L + 1 \in 1..L + 1
        BY <1>0
      <3> QED  BY <1>2, <2>2, <2>3, <2>4, <3>1
    <2> QED  BY <2>5, <2>6, <2>7
  <1> HIDE DEF L, z
  <1>5. /\ Starts(Q, t) /\ Len(Q) = L + 1 /\ Q[L + 1] = e
        /\ \A j \in 1..L : Q[j] = P[j]
        /\ \A c \in 0..L :
             /\ Used(Q, t, c + 1) = Used(P, s, c) + z
             /\ \A j \in 1..L : Before(Q, t, c + 1, j) = Before(P, s, c, j)
             /\ Before(Q, t, c + 1, L + 1) = Used(P, s, c)
    BY <1>1, <1>3, <1>4
  <1> QED  BY <1>5, Zenon DEF L, z, t, Q

\* Where a cell is, counted from the write index.
LEMMA CellsFromWrite ==
    ASSUME NEW a \in 0..2 * BufferSize - 1, NEW w \in 0..BufferSize, NEW t \in 0..BufferSize - 1,
           t = a - w \/ t = a - w + BufferSize \/ t = a - w - BufferSize \/ t = a - w + 2 * BufferSize
    PROVE  /\ a % BufferSize \in 0..BufferSize - 1
           /\ ((a % BufferSize) - w) % BufferSize = t
  <1>0. BufferSize \in Nat \ {0} /\ a \in Int /\ w \in Int
    BY RingAssumption
  <1> DEFINE d == (a % BufferSize) - w
  <1>1. a % BufferSize \in 0..BufferSize - 1 /\ (a % BufferSize = a \/ a % BufferSize = a - BufferSize)
    <2>1. a \in 0..BufferSize - 1 \/ a \in BufferSize..2 * BufferSize - 1
      BY <1>0
    <2> QED  BY <1>0, <2>1, ModFacts
  <1> DEFINE m == a % BufferSize
  <1>2. m \in 0..BufferSize - 1 /\ (m = a \/ m = a - BufferSize) /\ d = m - w
    BY <1>1
  <1> HIDE DEF m, d
  <1>3. d \in Int /\ d \in -BufferSize..BufferSize - 1 /\ (t = d \/ t = d + BufferSize)
    BY <1>0, <1>2
  <1>4. d % BufferSize = t
    BY <1>0, <1>3, ModFacts
  <1> QED  BY <1>1, <1>4 DEF d

\* Old cells are kept and the new entry is where a reader looks for it.
LEMMA SeesPushed ==
    ASSUME NEW r \in Ring, NEW P, NEW s, Starts(P, s), NEW e \in Entry, NEW x, Sees(r, P, s, x),
           Used(P, s, x.count) + SizeOf(e.kind) <= BufferSize,
           NEW q, q.write = IncrementIndex(r.write, SizeOf(e.kind)),
           q.buf = RawWrite(r.buf, r.write, [i \in 1..SizeOf(e.kind) |-> <<e.seq, e.kind, i>>])
    PROVE  Sees(q, Append(P, e), Grown(P, s, SizeOf(e.kind)), [x EXCEPT !.count = @ + 1])
  <1> DEFINE Q == Append(P, e)
             z == SizeOf(e.kind)
             t == Grown(P, s, z)
             y == [x EXCEPT !.count = @ + 1]
             u == Used(P, s, x.count)
             a == x.at
             w == r.write
             L == Len(P)
             c == x.count
             cells == [i \in 1..z |-> <<e.seq, e.kind, i>>]
  <1>0. /\ a \in 0..BufferSize /\ c \in 0..L /\ L \in Nat /\ c \in Nat /\ u \in 0..BufferSize
        /\ BufferSize \in Nat \ {0} /\ w \in 0..BufferSize
        /\ w = a + u \/ w = a + u - BufferSize
        /\ z \in 2..BufferSize /\ u + z <= BufferSize
    <2>1. a \in 0..BufferSize /\ c \in 0..L /\ L \in Nat /\ c \in Nat /\ u \in 0..BufferSize
      BY TailFacts DEF Sees
    <2>2. w = a + u \/ w = a + u - BufferSize
      BY DEF Sees, Fits
    <2>3. w \in 0..BufferSize
      BY DEF Ring
    <2>4. z \in 2..BufferSize
      BY RingAssumption DEF Entry
    <2> QED  BY <2>1, <2>2, <2>3, <2>4, RingAssumption
  <1>1. /\ Starts(Q, t) /\ Len(Q) = L + 1 /\ Q[L + 1] = e
        /\ \A j \in 1..L : Q[j] = P[j]
        /\ Used(Q, t, c + 1) = u + z
        /\ \A j \in 1..L : Before(Q, t, c + 1, j) = Before(P, s, c, j)
        /\ Before(Q, t, c + 1, L + 1) = u
    BY <1>0, GrownFacts
  <1>2. x \in Place /\ y \in Place /\ y.at = a /\ y.count = c + 1
    BY <1>0 DEF Sees, Fits, Place
  <1>3. DOMAIN r.buf = 0..BufferSize - 1 /\ Len(cells) = z /\ \A i \in 1..z : cells[i] = <<e.seq, e.kind, i>>
    <2>1. z \in Nat
      BY <1>0
    <2> QED  BY <2>1 DEF Ring
  <1>4. ASSUME NEW i \in 0..BufferSize - 1
        PROVE  q.buf[i] = IF ((i - w) % BufferSize) + 1 <= z THEN cells[((i - w) % BufferSize) + 1] ELSE r.buf[i]
    <2> HIDE DEF cells, z
    <2> QED  BY <1>3, <1>4 DEF RawWrite, z, cells
  <1> HIDE DEF Q, t, y, z, u, a, w, L, c, cells
  <1>5. Fits(q, Q, t, y)
    <2>1. q.write = IncrementIndex(w, z)
      BY DEF w, z
    <2>2. q.write = w + z \/ (w + z > BufferSize /\ q.write = w + z - BufferSize)
      BY <1>0, <2>1 DEF IncrementIndex
    <2>3. q.write = a + (u + z) \/ q.write = a + (u + z) - BufferSize
      BY <1>0, <2>2
    <2>4. c + 1 <= Len(Q) /\ Used(Q, t, c + 1) <= BufferSize
      BY <1>0, <1>1
    <2> QED  BY <1>1, <1>2, <2>3, <2>4 DEF Fits
  <1>6. ASSUME NEW j \in Len(Q) + 1 - y.count..Len(Q), NEW i \in 1..SizeOf(Q[j].kind)
        PROVE  Cell(q, y.at + Before(Q, t, y.count, j) + i - 1) = <<Q[j].seq, Q[j].kind, i>>
    <2>0. j \in L + 1 - c..L + 1
      BY <1>0, <1>1, <1>2
    <2>1. CASE j = L + 1
      <3>1. Q[j] = e /\ i \in 1..z /\ Before(Q, t, y.count, j) = u
        BY <1>1, <1>2, <2>1 DEF z
      <3> DEFINE k == a + u + i - 1
      <3>2. k \in 0..2 * BufferSize - 1 /\ i - 1 \in 0..BufferSize - 1 /\ i \in Nat
            /\ (i - 1 = k - w \/ i - 1 = k - w + BufferSize \/ i - 1 = k - w - BufferSize)
        BY <1>0, <3>1
      <3> HIDE DEF k
      <3>3. k % BufferSize \in 0..BufferSize - 1 /\ ((k % BufferSize) - w) % BufferSize = i - 1
        BY <1>0, <3>2, CellsFromWrite
      <3>4. i - 1 + 1 = i /\ i <= z
        BY <1>0, <3>1
      <3>5. q.buf[k % BufferSize] = cells[i]
        BY <1>4, <3>3, <3>4
      <3>6. Cell(q, k) = <<e.seq, e.kind, i>>
        BY <1>3, <3>1, <3>5 DEF Cell
      <3> QED  BY <1>2, <3>1, <3>6 DEF k
    <2>2. CASE j # L + 1
      <3>1. j \in L + 1 - c..L /\ j \in 1..L
        BY <1>0, <2>0, <2>2
      <3>2. Q[j] = P[j] /\ Before(Q, t, y.count, j) = Before(P, s, c, j)
        BY <1>1, <1>2, <3>1
      <3> DEFINE b == Before(P, s, c, j)
                 v == SizeOf(P[j].kind)
      <3>3. b \in Nat /\ b + v <= u /\ v \in 2..BufferSize /\ i \in 1..v
        BY <1>0, <3>1, <3>2, UsedFacts DEF u, L, c
      <3>4. Cell(r, a + b + i - 1) = <<P[j].seq, P[j].kind, i>>
        BY <3>1, <3>2, <3>3 DEF Sees, Holds, L, c, a
      <3> DEFINE k == a + b + i - 1
                 f == b + i - 1 - u + BufferSize
      <3> HIDE DEF b, v
      <3>5. k \in 0..2 * BufferSize - 1 /\ f \in 0..BufferSize - 1 /\ f >= z
            /\ (f = k - w \/ f = k - w + BufferSize)
        BY <1>0, <3>3
      <3> HIDE DEF k, f
      <3>6. k % BufferSize \in 0..BufferSize - 1 /\ ((k % BufferSize) - w) % BufferSize = f
        BY <1>0, <3>5, CellsFromWrite
      <3>7. ~(f + 1 <= z)
        BY <1>0, <3>5
      <3>8. q.buf[k % BufferSize] = r.buf[k % BufferSize]
        BY <1>4, <3>6, <3>7
      <3>9. Cell(q, k) = <<P[j].seq, P[j].kind, i>>
        BY <3>4, <3>8 DEF Cell, k
      <3> QED  BY <1>2, <3>2, <3>9 DEF k, b
    <2> QED  BY <2>1, <2>2
  <1>7. Sees(q, Q, t, y)
    BY <1>5, <1>6 DEF Sees, Holds
  <1> QED  BY <1>7, Zenon DEF Q, t, y, z

\* The fields of a ring, and who reads it.
LEMMA ReaderFields ==
    ASSUME NEW r, NEW P, NEW s, AllSee(r, P, s)
    PROVE  /\ r \in Ring /\ r = [buf |-> r.buf, write |-> r.write, reader |-> r.reader]
           /\ DOMAIN r.reader = Names /\ r.reader \in [Names -> Place \cup {Detached}]
           /\ r.write \in 0..BufferSize
           /\ DOMAIN r.buf = 0..BufferSize - 1
           /\ r.buf \in [0..BufferSize - 1 -> Cells]
           /\ Readers(r) \subseteq Names
           /\ \A d \in Names : d \notin Readers(r) <=> r.reader[d] = Detached
           /\ \A d \in Readers(r) : r.reader[d] \in Place /\ r.reader[d].count \in 0..Len(P)
           /\ \A x \in Place : x # Detached
  <1>1. r \in Ring /\ \A d \in Readers(r) : r.reader[d] \in Place /\ r.reader[d].count \in 0..Len(P)
    <2>1. r \in Ring /\ Starts(P, s) /\ \A d \in Readers(r) : Fits(r, P, s, r.reader[d])
      BY DEF AllSee, Sees
    <2>2. ASSUME NEW d \in Readers(r) PROVE r.reader[d] \in Place /\ r.reader[d].count \in 0..Len(P)
      <3>1. Fits(r, P, s, r.reader[d])
        BY <2>1
      <3>2. r.reader[d].count \in 0..Len(P)
        BY <2>1, <3>1, TailFacts
      <3> QED  BY <3>1, <3>2 DEF Fits
    <2> QED  BY <2>1, <2>2
  <1>2. \A x \in Place : x # Detached
    <2>1. \A x \in Place : x.at # -1
      BY RingAssumption DEF Place
    <2> QED  BY <2>1 DEF Detached
  <1>3. r.reader \in [Names -> Place \cup {Detached}] /\ r = [buf |-> r.buf, write |-> r.write, reader |-> r.reader]
        /\ r.write \in 0..BufferSize /\ r.buf \in [0..BufferSize - 1 -> Cells]
    BY <1>1 DEF Ring
  <1> QED  BY <1>1, <1>2, <1>3 DEF Readers

\* A reader that has popped nothing is where it was.
LEMMA LaterZero ==
    ASSUME NEW r, NEW P, NEW s, NEW x, Starts(P, s), Fits(r, P, s, x)
    PROVE  Later(P, s, x, 0).at = x.at
  <1>0. x.count \in Nat /\ x.count \in 0..Len(P) /\ x.at \in 0..BufferSize /\ Len(P) \in Nat
    BY TailFacts
  <1>1. Len(P) + 1 - x.count + 0 = Len(P) + 1 - x.count /\ Len(P) + 1 - x.count \in 1..Len(P) + 1
    BY <1>0
  <1>2. s[Len(P) + 1 - x.count] \in Nat
    BY <1>1 DEF Starts
  <1>3. Before(P, s, x.count, Len(P) + 1 - x.count + 0) = 0
    BY <1>1, <1>2 DEF Before
  <1>4. IncrementIndex(x.at, 0) = x.at
    BY <1>0, RingAssumption DEF IncrementIndex
  <1> QED  BY <1>3, <1>4 DEF Later

\* PushBack: every reader sees a tail of what is pushed now, the new entry at its end.
LEMMA PushSees ==
    ASSUME NEW r, NEW P, NEW s, AllSee(r, P, s), NEW kind \in Kinds, NEW seq \in Nat
    PROVE  LET e == [seq |-> seq, kind |-> kind]
               q == PushBack(r, seq, kind)
           IN  /\ AllSee(q, Append(P, e), Grown(P, s, SizeOf(kind)))
               /\ \A d \in Names : /\ d \in Readers(r) <=> d \in Readers(q)
                                   /\ d \in Readers(r) => q.reader[d].count <= r.reader[d].count + 1
  <1> DEFINE e == [seq |-> seq, kind |-> kind]
             q == PushBack(r, seq, kind)
             z == SizeOf(kind)
             Q == Append(P, e)
             t == Grown(P, s, z)
             places == PlacesOf(r, r.reader[GetSlowestReader(r)])
             n == Min({m \in DOMAIN places : RawAvailableBytes(r.write, places[m]) >= z})
             left == Evict(r, places[n])
  <1>0. /\ r \in Ring /\ Starts(P, s) /\ "oldest" \in Readers(r) /\ e \in Entry /\ e.kind = kind /\ e.seq = seq
        /\ z \in 2..BufferSize /\ BufferSize \in Nat
    BY RingAssumption DEF AllSee, Entry
  <1>1. /\ left = [d \in Names |-> left[d]]
        /\ \A d \in Names :
             /\ d \in Readers(r) => /\ Sees(r, P, s, left[d])
                                    /\ left[d].count <= r.reader[d].count
                                    /\ Used(P, s, left[d].count) + z <= BufferSize
                                    /\ left[d] # Detached
             /\ d \notin Readers(r) => left[d] = Detached
    BY EvictMakesRoom
  <1>2. q = [buf |-> RawWrite(r.buf, r.write, [i \in 1..z |-> <<seq, kind, i>>]),
             write |-> IncrementIndex(r.write, z),
             reader |-> [d \in DOMAIN left |->
                           IF left[d] = Detached THEN Detached ELSE [left[d] EXCEPT !.count = @ + 1]]]
    BY Zenon DEF PushBack
  <1> HIDE DEF left, n, places, q
  <1>3. /\ q.buf = RawWrite(r.buf, r.write, [i \in 1..z |-> <<seq, kind, i>>])
        /\ q.write = IncrementIndex(r.write, z)
        /\ DOMAIN q.reader = Names
        /\ q = [buf |-> q.buf, write |-> q.write, reader |-> q.reader]
        /\ q.reader = [d \in Names |-> q.reader[d]]
        /\ \A d \in Names : q.reader[d] = IF left[d] = Detached THEN Detached
                                          ELSE [left[d] EXCEPT !.count = @ + 1]
    <2>1. DOMAIN left = Names
      BY <1>1
    <2> QED  BY <1>2, <2>1
  <1>4. ASSUME NEW d \in Readers(r)
        PROVE  /\ Sees(q, Q, t, q.reader[d]) /\ d \in Readers(q) /\ q.reader[d].count <= r.reader[d].count + 1
               /\ q.reader[d] \in Place
    <2>1. d \in Names /\ r.reader[d].count \in Nat
      BY ReaderFields
    <2>2. Sees(r, P, s, left[d]) /\ Used(P, s, left[d].count) + SizeOf(e.kind) <= BufferSize
          /\ left[d] # Detached /\ left[d].count <= r.reader[d].count
      BY <1>0, <1>1, <2>1
    <2>3. q.reader[d] = [left[d] EXCEPT !.count = @ + 1]
      BY <1>3, <2>1, <2>2
    <2>4. Sees(q, Q, t, q.reader[d])
      <3>1. q.write = IncrementIndex(r.write, SizeOf(e.kind))
            /\ q.buf = RawWrite(r.buf, r.write, [i \in 1..SizeOf(e.kind) |-> <<e.seq, e.kind, i>>])
            /\ t = Grown(P, s, SizeOf(e.kind))
        BY <1>0, <1>3
      <3> HIDE DEF e, t
      <3> QED  BY <1>0, <2>2, <2>3, <3>1, SeesPushed
    <2>5. left[d] \in Place
      BY <2>2 DEF Sees, Fits
    <2>6. q.reader[d] \in Place /\ q.reader[d].count = left[d].count + 1 /\ left[d].count \in Nat
      BY <2>3, <2>5 DEF Place
    <2>7. q.reader[d] # Detached
      BY <2>6, ReaderFields
    <2> QED  BY <1>3, <2>1, <2>2, <2>4, <2>6, <2>7 DEF Readers
  <1>5. ASSUME NEW d \in Names, d \notin Readers(r) PROVE q.reader[d] = Detached /\ d \notin Readers(q)
    BY <1>1, <1>3, <1>5 DEF Readers
  <1>6. q \in Ring
    <2>1. q.write \in 0..BufferSize
      <3>1. z \in 0..BufferSize /\ r.write \in 0..BufferSize
        BY <1>0 DEF Ring
      <3> QED  BY <1>3, <3>1, IncrementFacts
    <2>2. q.buf \in [0..BufferSize - 1 -> Cells]
      <3> DEFINE cells == [i \in 1..z |-> <<seq, kind, i>>]
      <3>1. r.buf \in [0..BufferSize - 1 -> Cells] /\ DOMAIN r.buf = 0..BufferSize - 1
            /\ r.write \in 0..BufferSize /\ Len(cells) = z
        <4>1. z \in Nat
          BY <1>0
        <4> QED  BY <4>1, <1>0 DEF Ring
      <3>2. \A i \in 1..z : cells[i] \in Cells
        BY <1>0 DEF Cells
      <3>3. q.buf = [c \in 0..BufferSize - 1 |-> IF ((c - r.write) % BufferSize) + 1 <= z
                        THEN cells[((c - r.write) % BufferSize) + 1] ELSE r.buf[c]]
        BY <1>3, <3>1, ZenonT(60) DEF RawWrite
      <3> HIDE DEF cells
      <3>4. ASSUME NEW c \in 0..BufferSize - 1
            PROVE  (IF ((c - r.write) % BufferSize) + 1 <= z
                        THEN cells[((c - r.write) % BufferSize) + 1] ELSE r.buf[c]) \in Cells
        <4> DEFINE m == (c - r.write) % BufferSize
        <4>1. m \in 0..BufferSize - 1
          <5>1. c - r.write \in Int /\ BufferSize \in Nat \ {0}
            BY <3>1, RingAssumption
          <5> QED  BY <5>1, ModFacts
        <4> HIDE DEF m
        <4>2. m + 1 <= z => m + 1 \in 1..z
          BY <1>0, <4>1
        <4>3. (IF m + 1 <= z THEN cells[m + 1] ELSE r.buf[c]) \in Cells
          BY <3>1, <3>2, <4>2
        <4> QED  BY <4>3 DEF m
      <3> QED  BY <3>3, <3>4
    <2>3. q.reader \in [Names -> Place \cup {Detached}]
      BY <1>3, <1>4, <1>5
    <2> QED  BY <1>3, <2>1, <2>2, <2>3 DEF Ring
  <1>7. Starts(Q, t)
    BY <1>0, GrownFacts
  <1>8. Readers(q) \subseteq Readers(r)
    BY <1>3, <1>5 DEF Readers
  <1>9. AllSee(q, Q, t)
    BY <1>0, <1>4, <1>6, <1>7, <1>8 DEF AllSee
  <1>10. \A d \in Names : /\ d \in Readers(r) <=> d \in Readers(q)
                          /\ d \in Readers(r) => q.reader[d].count <= r.reader[d].count + 1
    BY <1>4, <1>8
  <1> QED  BY <1>9, <1>10, Zenon DEF q

\* A reader that pops one entry.
LEMMA PopSees ==
    ASSUME NEW r, NEW P, NEW s, AllSee(r, P, s), NEW d \in Names
    PROVE  LET q == PopFront(r, d)
           IN  /\ AllSee(q, P, s) /\ Readers(q) = Readers(r)
               /\ \A e \in Names : e # d => q.reader[e] = r.reader[e]
               /\ q.reader[d].count = IF r.reader[d].count = 0 THEN 0 ELSE r.reader[d].count - 1
  <1> DEFINE q == PopFront(r, d)
             x == r.reader[d]
  <1>0. Starts(P, s) /\ \A e \in Readers(r) : Sees(r, P, s, r.reader[e])
    BY DEF AllSee
  <1>1. CASE x.count = 0
    <2>1. q = r
      BY <1>1 DEF PopFront
    <2> QED  BY <1>1, <2>1
  <1>2. CASE x.count # 0
    <2>1. d \in Readers(r)
      BY <1>2, ReaderFields DEF Detached
    <2>2. Sees(r, P, s, x) /\ x \in Place /\ x.count \in Nat /\ 0 \in 0..x.count /\ 0 # x.count /\ r.write \in 0..BufferSize
          /\ 1 \in 0..x.count
      BY <1>0, <1>2, <2>1, ReaderFields DEF Place
    <2>3. /\ EntryAt(r, Later(P, s, x, 0).at) = P[Len(P) + 1 - x.count + 0]
          /\ Later(P, s, x, 0 + 1).at
                = IncrementIndex(Later(P, s, x, 0).at, SizeOf(P[Len(P) + 1 - x.count + 0].kind))
      <3> DEFINE o == 0
      <3>1. o \in 0..x.count /\ o # x.count
        BY <2>2
      <3> HIDE DEF o, x
      <3>2. /\ EntryAt(r, Later(P, s, x, o).at) = P[Len(P) + 1 - x.count + o]
            /\ Later(P, s, x, o + 1).at
                = IncrementIndex(Later(P, s, x, o).at, SizeOf(P[Len(P) + 1 - x.count + o].kind))
        BY <1>0, <2>2, <3>1, FrontLater
      <3> QED  BY <3>2, Zenon DEF o
    <2>4. Later(P, s, x, 0).at = x.at
      BY <1>0, <2>2, LaterZero DEF Sees
    <2>5. Later(P, s, x, 1) = [at |-> IncrementIndex(x.at, SizeOf(FrontEntry(r, d).kind)), count |-> x.count - 1]
      <3>1. Later(P, s, x, 1) = [at |-> Later(P, s, x, 1).at, count |-> x.count - 1]
        BY DEF Later
      <3>2. FrontEntry(r, d) = EntryAt(r, x.at)
        BY DEF FrontEntry
      <3>3. 0 + 1 = 1
        OBVIOUS
      <3> QED  BY <2>3, <2>4, <3>1, <3>2, <3>3
    <2> DEFINE y == Later(P, s, x, 1)
    <2>6. q = [r EXCEPT !.reader[d] = y]
      BY <1>2, <2>5 DEF PopFront
    <2>7. Sees(r, P, s, y) /\ y.count = x.count - 1
      BY <1>0, <2>2, SeesLater DEF Later
    <2>8. y \in Place
      BY <2>7 DEF Sees, Fits
    <2> HIDE DEF y, q
    <2>9. /\ q \in Ring /\ q.buf = r.buf /\ q.write = r.write /\ q.reader = [r.reader EXCEPT ![d] = y]
      BY <2>6, <2>8, ReaderFields DEF Ring
    <2>10. Readers(q) = Readers(r)
      BY <2>1, <2>8, <2>9, ReaderFields DEF Readers
    <2>11. ASSUME NEW e \in Readers(q) PROVE Sees(q, P, s, q.reader[e])
      <3>1. Sees(r, P, s, q.reader[e])
        BY <1>0, <2>7, <2>9, <2>10, ReaderFields
      <3> QED  BY <2>9, <3>1 DEF Sees, Fits, Holds, Cell
    <2>12. AllSee(q, P, s)
      BY <1>0, <2>9, <2>10, <2>11 DEF AllSee
    <2>13. \A e \in Names : e # d => q.reader[e] = r.reader[e]
      BY <2>9, ReaderFields
    <2>14. q.reader[d] = y
      BY <2>9, ReaderFields
    <2> QED  BY <1>2, <2>7, <2>10, <2>12, <2>13, <2>14 DEF q
  <1> QED  BY <1>1, <1>2

\* Where a cell is when the ring has been turned by w.
LEMMA CellsTurned ==
    ASSUME NEW a \in 0..2 * BufferSize - 1, NEW m \in 0..2 * BufferSize - 1, NEW w \in 0..BufferSize,
           m = a - w \/ m = a - w + BufferSize
    PROVE  /\ m % BufferSize \in 0..BufferSize - 1
           /\ ((m % BufferSize) + w) % BufferSize = a % BufferSize
  <1>0. BufferSize \in Nat \ {0} /\ a \in Int /\ m \in Int /\ w \in Int
    BY RingAssumption
  <1>1. ASSUME NEW x \in 0..2 * BufferSize - 1
        PROVE  x % BufferSize \in 0..BufferSize - 1 /\ (x % BufferSize = x \/ x % BufferSize = x - BufferSize)
    <2>1. x \in 0..BufferSize - 1 \/ x \in BufferSize..2 * BufferSize - 1
      BY <1>0
    <2>2. x \in Int
      BY <1>0
    <2> QED  BY <1>0, <2>1, <2>2, ModFacts
  <1> DEFINE p == m % BufferSize
             q == p + w
             t == q % BufferSize
             v == a % BufferSize
  <1>2. p \in 0..BufferSize - 1 /\ (p = m \/ p = m - BufferSize)
    BY <1>1
  <1>3. v \in 0..BufferSize - 1 /\ (v = a \/ v = a - BufferSize)
    BY <1>1
  <1> HIDE DEF p, v
  <1>4. q \in 0..2 * BufferSize - 1
    BY <1>0, <1>2
  <1> HIDE DEF q
  <1>5. t \in 0..BufferSize - 1 /\ (t = q \/ t = q - BufferSize)
    BY <1>1, <1>4
  <1> HIDE DEF t
  <1>6. q = p + w
    BY DEF q
  <1>7. t = v
    BY <1>0, <1>2, <1>3, <1>5, <1>6
  <1> QED  BY <1>2, <1>7 DEF p, q, t, v

\* Turning the ring until the oldest reader's front is at index 0.
LEMMA DeringSees ==
    ASSUME NEW r, NEW P, NEW s, AllSee(r, P, s)
    PROVE  LET q == Dering(r, "oldest")
           IN  /\ AllSee(q, P, s) /\ Readers(q) = Readers(r)
               /\ \A d \in Names : q.reader[d].count = r.reader[d].count
  <1> DEFINE q == Dering(r, "oldest")
             turn == r.reader["oldest"].at
             Turned(i) == IF i < turn THEN i + BufferSize - turn ELSE i - turn
  <1>0. /\ r \in Ring /\ Starts(P, s) /\ "oldest" \in Readers(r) /\ "oldest" \in Names
        /\ \A d \in Readers(r) : Sees(r, P, s, r.reader[d])
    BY DEF AllSee, Names
  <1>1. /\ q.buf = [c \in 0..BufferSize - 1 |-> Cell(r, c + turn)] /\ q.write = Turned(r.write)
        /\ q.reader = [e \in Names |-> IF e \in Readers(r) THEN [r.reader[e] EXCEPT !.at = Turned(@)]
                                       ELSE r.reader[e]]
        /\ q = [buf |-> q.buf, write |-> q.write, reader |-> q.reader]
    BY ReaderFields DEF Dering
  <1>2. turn \in 0..BufferSize /\ BufferSize \in Nat /\ BufferSize \in Nat \ {0} /\ r.write \in 0..BufferSize
    BY <1>0, ReaderFields, RingAssumption DEF Place
  <1>3. ASSUME NEW i \in 0..BufferSize
        PROVE  Turned(i) \in 0..BufferSize
    <2> HIDE DEF turn
    <2> QED  BY <1>2
  <1> HIDE DEF q, turn
  <1>4. ASSUME NEW d \in Readers(r)
        PROVE  /\ q.reader[d].at = Turned(r.reader[d].at) /\ q.reader[d].count = r.reader[d].count
               /\ q.reader[d] \in Place /\ d \in Readers(q)
    <2>1. r.reader[d] \in Place /\ d \in Names
      BY ReaderFields
    <2>2. r.reader[d] = [at |-> r.reader[d].at, count |-> r.reader[d].count] /\ r.reader[d].at \in 0..BufferSize
          /\ r.reader[d].count \in Nat
      BY <2>1 DEF Place
    <2>3. q.reader[d] = [r.reader[d] EXCEPT !.at = Turned(@)]
      BY <1>1, <2>1
    <2>4. q.reader[d] = [at |-> Turned(r.reader[d].at), count |-> r.reader[d].count]
      BY <2>1, <2>3 DEF Place
    <2>5. Turned(r.reader[d].at) \in 0..BufferSize
      BY <1>3, <2>2
    <2>6. q.reader[d] \in Place
      BY <2>2, <2>4, <2>5 DEF Place
    <2> QED  BY <1>1, <2>1, <2>4, <2>6, ReaderFields DEF Readers
  <1>5. ASSUME NEW d \in Names, d \notin Readers(r) PROVE q.reader[d] = r.reader[d] /\ d \notin Readers(q)
    <2>1. q.reader[d] = r.reader[d]
      BY <1>1, <1>5
    <2> QED  BY <1>1, <1>5, <2>1, ReaderFields DEF Readers
  <1>6. q \in Ring
    <2>1. q.write \in 0..BufferSize
      BY <1>1, <1>2, <1>3
    <2>2. q.buf \in [0..BufferSize - 1 -> Cells]
      <3>1. ASSUME NEW c \in 0..BufferSize - 1 PROVE Cell(r, c + turn) \in Cells
        <4>1. c + turn \in Int
          BY <1>2
        <4>2. (c + turn) % BufferSize \in 0..BufferSize - 1
          BY <1>2, <4>1, ModFacts
        <4> QED  BY <4>2, ReaderFields DEF Cell
      <3> QED  BY <1>1, <3>1
    <2>3. q.reader \in [Names -> Place \cup {Detached}]
      <3>1. q.reader = [e \in Names |-> q.reader[e]]
        BY <1>1
      <3>2. \A e \in Names : q.reader[e] \in Place \cup {Detached}
        BY <1>4, <1>5, ReaderFields
      <3> QED  BY <3>1, <3>2
    <2> QED  BY <1>1, <2>1, <2>2, <2>3 DEF Ring
  <1>7. Readers(q) = Readers(r)
    <2>1. Readers(q) \subseteq Names
      BY <1>1 DEF Readers
    <2> QED  BY <1>4, <1>5, <2>1, ReaderFields
  <1>8. ASSUME NEW d \in Readers(r) PROVE Sees(q, P, s, q.reader[d])
    <2> DEFINE x == r.reader[d]
               y == q.reader[d]
               u == Used(P, s, x.count)
               a == x.at
               w == r.write
    <2>1. Sees(r, P, s, x) /\ x.count = y.count /\ y.at = Turned(a) /\ y \in Place
      BY <1>0, <1>4
    <2>2. /\ a \in 0..BufferSize /\ x.count \in 0..Len(P) /\ Len(P) \in Nat /\ x.count \in Nat
          /\ u \in 0..BufferSize
      BY <1>0, <2>1, TailFacts DEF Sees
    <2>3. w = a + u \/ w = a + u - BufferSize
      BY <2>1 DEF Sees, Fits
    <2>4. Fits(q, P, s, y)
      <3>1. q.write = Turned(w) /\ w \in 0..BufferSize
        BY <1>1, <1>2
      <3> DEFINE v == q.write
                 b == y.at
      <3>2. v = Turned(w) /\ b = Turned(a)
        BY <2>1, <3>1
      <3> HIDE DEF u, a, w, v, b
      <3>3. v = b + u \/ v = b + u - BufferSize
        BY <1>2, <2>2, <2>3, <3>1, <3>2
      <3>4. y.count <= Len(P) /\ Used(P, s, y.count) = u /\ u <= BufferSize
        BY <2>1, <2>2, <1>2 DEF u
      <3> QED  BY <2>1, <3>3, <3>4 DEF Fits, v, b
    <2>5. ASSUME NEW j \in Len(P) + 1 - y.count..Len(P), NEW i \in 1..SizeOf(P[j].kind)
          PROVE  Cell(q, y.at + Before(P, s, y.count, j) + i - 1) = <<P[j].seq, P[j].kind, i>>
      <3> DEFINE b == Before(P, s, x.count, j)
                 z == SizeOf(P[j].kind)
      <3>1. j \in Len(P) + 1 - x.count..Len(P) /\ b = Before(P, s, y.count, j)
        BY <2>1
      <3>2. b \in Nat /\ b + z <= u /\ z \in 2..BufferSize /\ i \in 1..z
        BY <1>0, <2>2, <3>1, UsedFacts
      <3>3. Cell(r, a + b + i - 1) = <<P[j].seq, P[j].kind, i>>
        BY <2>1, <3>1 DEF Sees, Holds
      <3> DEFINE k == a + b + i - 1
                 m == y.at + b + i - 1
                 ya == y.at
      <3>4. ya \in 0..BufferSize /\ (ya = a - turn \/ ya = a - turn + BufferSize)
        <4>1. ya = Turned(a)
          BY <2>1
        <4> HIDE DEF a, ya
        <4> QED  BY <1>2, <2>2, <4>1
      <3>5. m = ya + b + i - 1
        OBVIOUS
      <3> HIDE DEF a, b, z, ya, m, u
      <3>6. k \in 0..2 * BufferSize - 1 /\ m \in 0..2 * BufferSize - 1
            /\ (m = k - turn \/ m = k - turn + BufferSize)
        BY <1>2, <2>2, <3>2, <3>4, <3>5
      <3> HIDE DEF k
      <3>7. m % BufferSize \in 0..BufferSize - 1 /\ ((m % BufferSize) + turn) % BufferSize = k % BufferSize
        BY <1>2, <3>6, CellsTurned
      <3>8. q.buf[m % BufferSize] = Cell(r, (m % BufferSize) + turn)
        BY <1>1, <3>7
      <3>9. Cell(q, m) = Cell(r, k)
        BY <3>7, <3>8 DEF Cell
      <3> QED  BY <3>1, <3>3, <3>9 DEF k, m
    <2> QED  BY <2>4, <2>5 DEF Sees, Holds
  <1>9. AllSee(q, P, s)
    BY <1>0, <1>6, <1>7, <1>8 DEF AllSee
  <1>10. \A d \in Names : q.reader[d].count = r.reader[d].count
    BY <1>4, <1>5
  <1> QED  BY <1>7, <1>9, <1>10 DEF q

\* Readers that keep their places, or come to one that another reader has, or leave.
LEMMA MovedReaders ==
    ASSUME NEW r, NEW P, NEW s, AllSee(r, P, s), NEW q, q \in Ring, q.buf = r.buf, q.write = r.write,
           "oldest" \in Readers(q), \A d \in Readers(q) : \E e \in Readers(r) : q.reader[d] = r.reader[e]
    PROVE  AllSee(q, P, s)
  <1>1. ASSUME NEW d \in Readers(q) PROVE Sees(q, P, s, q.reader[d])
    <2>1. Sees(r, P, s, q.reader[d])
      BY DEF AllSee
    <2> QED  BY <2>1 DEF Sees, Fits, Holds, Cell
  <1> QED  BY <1>1 DEF AllSee

\* AttachReader: the new reader sees what the slowest one sees.
LEMMA AttachSees ==
    ASSUME NEW r, NEW P, NEW s, AllSee(r, P, s), NEW d \in Names, r.reader[d] = Detached
    PROVE  LET q == AttachReader(r, d)
           IN  /\ AllSee(q, P, s) /\ Readers(q) = Readers(r) \cup {d}
               /\ \A e \in Names : e # d => q.reader[e] = r.reader[e]
  <1> DEFINE q == AttachReader(r, d)
             f == GetSlowestReader(r)
  <1>1. "oldest" \in Readers(r) /\ f \in Readers(r) /\ \A e \in Readers(r) : r.reader[e].count <= r.reader[f].count
    BY SlowestExists
  <1>2. q = [r EXCEPT !.reader[d] = r.reader[f]]
    BY <1>1 DEF AttachReader
  <1> HIDE DEF f, q
  <1>3. r.reader[f] \in Place
    BY <1>1, ReaderFields
  <1>4. /\ q \in Ring /\ q.buf = r.buf /\ q.write = r.write /\ q.reader = [r.reader EXCEPT ![d] = r.reader[f]]
    BY <1>2, <1>3, ReaderFields DEF Ring
  <1>5. Readers(q) = Readers(r) \cup {d}
    BY <1>3, <1>4, ReaderFields DEF Readers
  <1>6. \A e \in Readers(q) : \E g \in Readers(r) : q.reader[e] = r.reader[g]
    BY <1>1, <1>4, <1>5, ReaderFields
  <1>7. AllSee(q, P, s)
    BY <1>1, <1>4, <1>5, <1>6, MovedReaders
  <1>8. \A e \in Names : e # d => q.reader[e] = r.reader[e]
    BY <1>4, ReaderFields
  <1> QED  BY <1>5, <1>7, <1>8 DEF q

\* DetachReader changes nothing for the others.
LEMMA DetachSees ==
    ASSUME NEW r, NEW P, NEW s, AllSee(r, P, s), NEW d \in Names, d # "oldest"
    PROVE  LET q == [r EXCEPT !.reader[d] = Detached]
           IN  /\ AllSee(q, P, s) /\ Readers(q) = Readers(r) \ {d}
               /\ \A e \in Names : e # d => q.reader[e] = r.reader[e]
  <1> DEFINE q == [r EXCEPT !.reader[d] = Detached]
  <1>1. "oldest" \in Readers(r)
    BY DEF AllSee
  <1>4. /\ q \in Ring /\ q.buf = r.buf /\ q.write = r.write /\ q.reader = [r.reader EXCEPT ![d] = Detached]
    BY ReaderFields DEF Ring
  <1> HIDE DEF q
  <1>5. Readers(q) = Readers(r) \ {d}
    BY <1>4, ReaderFields DEF Readers
  <1>6. \A e \in Readers(q) : \E g \in Readers(r) : q.reader[e] = r.reader[g]
    BY <1>4, <1>5, ReaderFields
  <1>7. AllSee(q, P, s)
    BY <1>1, <1>4, <1>5, <1>6, MovedReaders
  <1>8. \A e \in Names : e # d => q.reader[e] = r.reader[e]
    BY <1>4, ReaderFields
  <1> QED  BY <1>5, <1>7, <1>8 DEF q

\* Clear: everyone is at the write index, with nothing to read.
LEMMA ClearSees ==
    ASSUME NEW r, NEW P, NEW s, AllSee(r, P, s)
    PROVE  LET q == [r EXCEPT !.write = 0,
                              !.reader = [d \in DOMAIN @ |-> IF d \in Readers(r)
                                            THEN [at |-> 0, count |-> 0] ELSE @[d]]]
           IN  /\ AllSee(q, P, s) /\ Readers(q) = Readers(r)
               /\ \A d \in Names : q.reader[d].count = 0
  <1> DEFINE q == [r EXCEPT !.write = 0,
                            !.reader = [d \in DOMAIN @ |-> IF d \in Readers(r)
                                          THEN [at |-> 0, count |-> 0] ELSE @[d]]]
             o == [at |-> 0, count |-> 0]
  <1>0. "oldest" \in Readers(r) /\ Starts(P, s)
    BY DEF AllSee
  <1>1. /\ q.buf = r.buf /\ q.write = 0
        /\ q.reader = [d \in Names |-> IF d \in Readers(r) THEN o ELSE r.reader[d]]
        /\ q = [buf |-> q.buf, write |-> q.write, reader |-> q.reader]
    <2>1. r = [buf |-> r.buf, write |-> r.write, reader |-> r.reader] /\ DOMAIN r.reader = Names
      BY ReaderFields
    <2>2. q = [r EXCEPT !.write = 0, !.reader = [d \in DOMAIN r.reader |-> IF d \in Readers(r) THEN o ELSE r.reader[d]]]
      BY <2>1
    <2> HIDE DEF q, o
    <2> QED  BY <2>1, <2>2
  <1>2. o \in Place /\ o # Detached
    BY RingAssumption DEF Place, Detached
  <1> HIDE DEF q
  <1>3. q \in Ring
    <2>1. q.reader \in [Names -> Place \cup {Detached}]
      BY <1>1, <1>2, ReaderFields
    <2>2. q.write \in 0..BufferSize
      BY <1>1, RingAssumption
    <2> QED  BY <1>1, <2>1, <2>2, ReaderFields DEF Ring
  <1>4. Readers(q) = Readers(r)
    BY <1>1, <1>2, ReaderFields DEF Readers
  <1>5. Sees(q, P, s, o)
    <2>1. Len(P) \in Nat /\ 0 \in 0..Len(P)
      BY <1>0 DEF Starts
    <2>2. Used(P, s, 0) = 0
      BY <1>0, <2>1, UsedFacts
    <2>3. Fits(q, P, s, o)
      BY <1>1, <1>2, <2>1, <2>2, RingAssumption DEF Fits
    <2>4. Holds(q, P, s, o)
      <3>1. Len(P) + 1 - o.count..Len(P) = {}
        BY <2>1
      <3> QED  BY <3>1 DEF Holds
    <2> QED  BY <2>3, <2>4 DEF Sees
  <1>6. AllSee(q, P, s)
    BY <1>0, <1>1, <1>3, <1>4, <1>5, ReaderFields DEF AllSee
  <1>7. \A d \in Names : q.reader[d].count = 0
    BY <1>1, ReaderFields DEF Detached
  <1> QED  BY <1>4, <1>6, <1>7 DEF q

\* Sequence ids are given out in order.
Numbered ==
  /\ sequence_id \in 0..MaxEntries /\ ingress_drops \in Nat
  /\ \A i \in 1..Len(pushed) : pushed[i].seq < sequence_id
  /\ \A i, j \in 1..Len(pushed) : i < j => pushed[i].seq < pushed[j].seq
  /\ handled \in [Names -> [seq : Int, ingress : Nat]]
  /\ \A d \in Names : /\ handled[d].seq \in -1..sequence_id - 1
                      /\ handled[d].ingress <= ingress_drops
  /\ handled["oldest"].seq = -1
\* What a drain still has is newer than the last id it handled.
Newer ==
  \A d \in Readers(ring) :
    \A j \in Len(pushed) + 1 - ring.reader[d].count..Len(pushed) : pushed[j].seq > handled[d].seq

\* The invariant of the sink.
SinkInv == (\E s : AllSee(ring, pushed, s)) /\ Numbered /\ Newer

\* It holds of the empty sink.
LEMMA SinkInitInv ==
    ASSUME SinkInit
    PROVE  SinkInv
  <1> DEFINE s == [i \in 1..1 |-> 0]
  <1>0. Len(pushed) = 0 /\ pushed = <<>> /\ BufferSize \in Nat \ {0} /\ MaxEntries \in Nat
    BY RingAssumption DEF SinkInit
  <1>1. ring.reader = [d \in Names |-> IF d = "oldest" THEN [at |-> 0, count |-> 0] ELSE Detached]
        /\ ring.write = 0 /\ ring.buf = [c \in 0..BufferSize - 1 |-> Empty]
        /\ ring = [buf |-> ring.buf, write |-> ring.write, reader |-> ring.reader]
    BY DEF SinkInit, Names
  <1>2. [at |-> 0, count |-> 0] \in Place /\ [at |-> 0, count |-> 0] # Detached
    BY <1>0 DEF Place, Detached
  <1>3. Readers(ring) = {"oldest"} /\ "oldest" \in Names
    BY <1>1, <1>2 DEF Readers, Names
  <1>4. ring \in Ring
    <2>1. Empty \in Cells
      BY DEF Empty, Cells
    <2>2. ring.buf \in [0..BufferSize - 1 -> Cells]
      BY <1>1, <2>1
    <2>3. ring.reader \in [Names -> Place \cup {Detached}]
      BY <1>1, <1>2
    <2>4. ring.write \in 0..BufferSize
      BY <1>0, <1>1
    <2> QED  BY <1>1, <2>2, <2>3, <2>4 DEF Ring
  <1>5. Starts(pushed, s)
    <2>1. 1..Len(pushed) = {} /\ 1..Len(pushed) + 1 = 1..1
      BY <1>0
    <2>2. s \in [1..1 -> Nat]
      OBVIOUS
    <2>3. pushed \in Seq(Entry)
      BY <1>0
    <2> QED  BY <2>1, <2>2, <2>3 DEF Starts
  <1> HIDE DEF s
  <1>6. Sees(ring, pushed, s, [at |-> 0, count |-> 0])
    <2> DEFINE o == [at |-> 0, count |-> 0]
    <2>1. 0 \in 0..Len(pushed)
      BY <1>0
    <2>2. Used(pushed, s, 0) = 0
      BY <1>5, <2>1, UsedFacts
    <2>3. Fits(ring, pushed, s, o)
      BY <1>0, <1>1, <1>2, <2>2 DEF Fits
    <2>4. Holds(ring, pushed, s, o)
      <3>1. Len(pushed) + 1 - o.count..Len(pushed) = {}
        BY <1>0
      <3> QED  BY <3>1 DEF Holds
    <2> QED  BY <2>3, <2>4 DEF Sees
  <1>7. AllSee(ring, pushed, s)
    BY <1>1, <1>3, <1>4, <1>5, <1>6 DEF AllSee
  <1>8. Numbered
    <2>1. 1..Len(pushed) = {} /\ sequence_id = 0 /\ ingress_drops = 0
      BY <1>0 DEF SinkInit
    <2>2. handled = [d \in Names |-> [seq |-> -1, ingress |-> 0]]
      BY DEF SinkInit, Names
    <2> QED  BY <1>0, <1>3, <2>1, <2>2 DEF Numbered
  <1>9. Newer
    <2>1. ring.reader["oldest"].count = 0
      BY <1>1, <1>3
    <2>2. Len(pushed) + 1 - 0..Len(pushed) = {}
      BY <1>0
    <2> QED  BY <1>3, <2>1, <2>2 DEF Newer
  <1> QED  BY <1>7, <1>8, <1>9 DEF SinkInv

\* What it says of the entries and of the counts of the readers.
LEMMA PushedFacts ==
    ASSUME SinkInv
    PROVE  /\ Len(pushed) \in Nat
           /\ \A i \in 1..Len(pushed) : pushed[i] \in Entry /\ pushed[i].seq \in Nat
           /\ \A d \in Readers(ring) : ring.reader[d].count \in 0..Len(pushed) /\ d \in Names
           /\ \A d \in Names : ring.reader[d].count \in 0..Len(pushed)
  <1>1. PICK s : AllSee(ring, pushed, s)
    BY DEF SinkInv
  <1>2. pushed \in Seq(Entry)
    BY <1>1 DEF AllSee, Starts
  <1>3. Len(pushed) \in Nat /\ \A i \in 1..Len(pushed) : pushed[i] \in Entry
    BY <1>2
  <1>4. \A i \in 1..Len(pushed) : pushed[i].seq \in Nat
    BY <1>3 DEF Entry
  <1>5. \A d \in Readers(ring) : ring.reader[d].count \in 0..Len(pushed) /\ d \in Names
    BY <1>1, ReaderFields
  <1>6. \A d \in Names : d \notin Readers(ring) => ring.reader[d].count = 0
    BY <1>1, ReaderFields DEF Detached
  <1> QED  BY <1>3, <1>4, <1>5, <1>6

\* A reader that has fewer entries left has newer ones.
LEMMA NewerKept ==
    ASSUME SinkInv, NEW d \in Readers(ring), NEW c \in Nat, c <= ring.reader[d].count,
           NEW j \in Len(pushed) + 1 - c..Len(pushed)
    PROVE  pushed[j].seq > handled[d].seq /\ j \in 1..Len(pushed)
  <1>2. ring.reader[d].count \in 0..Len(pushed) /\ Len(pushed) \in Nat
    BY PushedFacts
  <1>3. j \in Len(pushed) + 1 - ring.reader[d].count..Len(pushed) /\ j \in 1..Len(pushed)
    BY <1>2
  <1> QED  BY <1>3 DEF SinkInv, Newer

\* MultiSink::HandleEntry keeps it: the new id is the largest.
LEMMA HandleEntryInv ==
    ASSUME SinkInv, NEW kind \in Kinds, HandleEntry(kind)
    PROVE  SinkInv'
  <1> DEFINE e == [seq |-> sequence_id, kind |-> kind]
  <1>0. PICK s : AllSee(ring, pushed, s)
    BY DEF SinkInv
  <1>1. /\ sequence_id < MaxEntries /\ ring' = PushBack(ring, sequence_id, kind)
        /\ pushed' = Append(pushed, e) /\ sequence_id' = sequence_id + 1
        /\ ingress_drops' = ingress_drops /\ handled' = handled
    BY DEF HandleEntry
  <1>2. Numbered /\ sequence_id \in Nat /\ MaxEntries \in Nat
    BY RingAssumption DEF SinkInv, Numbered
  <1>3. /\ AllSee(ring', pushed', Grown(pushed, s, SizeOf(kind)))
        /\ \A d \in Names : /\ d \in Readers(ring) <=> d \in Readers(ring')
                            /\ d \in Readers(ring) => (ring').reader[d].count <= ring.reader[d].count + 1
    BY <1>0, <1>1, <1>2, PushSees
  <1>4. pushed \in Seq(Entry) /\ Len(pushed) \in Nat /\ \A i \in 1..Len(pushed) : pushed[i] \in Entry
    BY <1>0 DEF AllSee, Starts
  <1>5. Len(pushed') = Len(pushed) + 1 /\ (pushed')[Len(pushed) + 1] = e /\ e.seq = sequence_id
        /\ \A i \in 1..Len(pushed) : (pushed')[i] = pushed[i] /\ pushed[i].seq \in Nat
    <2>1. \A i \in 1..Len(pushed) : pushed[i].seq \in Nat
      BY <1>4 DEF Entry
    <2> QED  BY <1>1, <1>4, <2>1
  <1>6. Numbered'
    <2>1. \A i \in 1..Len(pushed') : (pushed')[i].seq < sequence_id'
      <3> SUFFICES ASSUME NEW i \in 1..Len(pushed') PROVE (pushed')[i].seq < sequence_id'
        OBVIOUS
      <3>1. CASE i = Len(pushed) + 1
        BY <1>1, <1>2, <1>5, <3>1
      <3>2. CASE i # Len(pushed) + 1
        <4>1. i \in 1..Len(pushed)
          BY <1>4, <1>5, <3>2
        <4>2. pushed[i].seq < sequence_id
          BY <1>2, <4>1 DEF Numbered
        <4> QED  BY <1>1, <1>2, <1>5, <4>1, <4>2
      <3> QED  BY <3>1, <3>2
    <2>2. \A i, j \in 1..Len(pushed') : i < j => (pushed')[i].seq < (pushed')[j].seq
      <3> SUFFICES ASSUME NEW i \in 1..Len(pushed'), NEW j \in 1..Len(pushed'), i < j
                   PROVE  (pushed')[i].seq < (pushed')[j].seq
        OBVIOUS
      <3>1. i \in 1..Len(pushed)
        BY <1>4, <1>5
      <3>2. CASE j = Len(pushed) + 1
        BY <1>2, <1>5, <3>1, <3>2 DEF Numbered
      <3>3. CASE j # Len(pushed) + 1
        <4>1. j \in 1..Len(pushed)
          BY <1>4, <1>5, <3>3, SMTT(30)
        <4>2. pushed[i].seq < pushed[j].seq
          BY <1>2, <3>1, <4>1 DEF Numbered
        <4> QED  BY <1>5, <3>1, <4>1, <4>2
      <3> QED  BY <3>2, <3>3
    <2>3. sequence_id' \in 0..MaxEntries /\ sequence_id - 1 <= sequence_id' - 1
      BY <1>1, <1>2
    <2>4. \A d \in Names : handled[d].seq \in -1..sequence_id' - 1
      BY <1>2, <2>3 DEF Numbered
    <2> QED  BY <1>1, <1>2, <2>1, <2>2, <2>3, <2>4 DEF Numbered
  <1>7. Newer'
    <2> SUFFICES ASSUME NEW d \in Readers(ring'),
                        NEW j \in Len(pushed') + 1 - (ring').reader[d].count..Len(pushed')
                 PROVE  (pushed')[j].seq > handled'[d].seq
      BY DEF Newer
    <2>1. d \in Names
      BY <1>3, ReaderFields
    <2>2. d \in Readers(ring) /\ (ring').reader[d].count <= ring.reader[d].count + 1
      BY <1>3, <2>1
    <2>3. ring.reader[d].count \in Nat /\ (ring').reader[d].count \in Nat /\ (ring').reader[d].count <= Len(pushed')
      BY <1>0, <1>3, <2>2, ReaderFields
    <2>4. CASE j = Len(pushed) + 1
      <3>1. handled[d].seq \in -1..sequence_id - 1
        BY <1>2, <2>1 DEF Numbered
      <3> QED  BY <1>1, <1>2, <1>5, <2>4, <3>1
    <2>5. CASE j # Len(pushed) + 1
      <3>1. j \in Len(pushed) + 1 - ring.reader[d].count..Len(pushed) /\ j \in 1..Len(pushed)
        BY <1>4, <1>5, <2>2, <2>3, <2>5, SMTT(30)
      <3>2. pushed[j].seq > handled[d].seq
        BY <2>2, <3>1 DEF SinkInv, Newer
      <3> QED  BY <1>1, <1>5, <3>1, <3>2
    <2> QED  BY <2>4, <2>5
  <1> QED  BY <1>3, <1>6, <1>7 DEF SinkInv

\* Steps that only move readers forward.
LEMMA ForwardInv ==
    ASSUME SinkInv, NEW s, AllSee(ring', pushed', s),
           UNCHANGED <<sequence_id, ingress_drops, pushed>>,
           handled' = [d \in Names |-> handled'[d]],
           handled'["oldest"].seq = -1,
           \A d \in Names : /\ handled'[d] \in [seq : Int, ingress : Nat]
                            /\ handled'[d].seq \in -1..sequence_id - 1
                            /\ handled'[d].ingress <= ingress_drops,
           \A d \in Readers(ring') :
             \/ handled'[d].seq = -1
             \/ /\ d \in Readers(ring) /\ (ring').reader[d].count <= ring.reader[d].count
                /\ \/ handled'[d].seq = handled[d].seq
                   \/ (ring').reader[d].count = 0
                   \/ /\ ring.reader[d].count # 0 /\ (ring').reader[d].count < ring.reader[d].count
                      /\ handled'[d].seq = pushed[Len(pushed) + 1 - ring.reader[d].count].seq
    PROVE  SinkInv'
  <1>0. Numbered /\ Newer /\ pushed' = pushed /\ sequence_id' = sequence_id /\ ingress_drops' = ingress_drops
    BY DEF SinkInv
  <1>1. PICK t : AllSee(ring, pushed, t)
    BY DEF SinkInv
  <1>2. Len(pushed) \in Nat /\ \A i \in 1..Len(pushed) : pushed[i].seq \in Nat
    BY PushedFacts
  <1>3. Numbered'
    BY <1>0, FunctionInto DEF Numbered
  <1>4. Newer'
    <2> SUFFICES ASSUME NEW d \in Readers(ring'),
                        NEW j \in Len(pushed) + 1 - (ring').reader[d].count..Len(pushed)
                 PROVE  pushed[j].seq > handled'[d].seq
      BY <1>0 DEF Newer
    <2>1. (ring').reader[d].count \in 0..Len(pushed) /\ d \in Names
      BY <1>0, ReaderFields
    <2>2. j \in 1..Len(pushed) /\ pushed[j].seq \in Nat
      BY <1>2, <2>1, SMTT(30)
    <2>3. CASE handled'[d].seq = -1
      BY <2>2, <2>3
    <2>4. CASE d \in Readers(ring) /\ (ring').reader[d].count <= ring.reader[d].count
      <3>0. ring.reader[d].count \in 0..Len(pushed)
        BY <1>1, <2>4, ReaderFields
      <3>1. j \in Len(pushed) + 1 - ring.reader[d].count..Len(pushed)
        BY <1>2, <2>1, <2>4, <3>0, SMTT(30)
      <3>2. pushed[j].seq > handled[d].seq
        BY <1>0, <2>4, <3>1 DEF Newer
      <3>3. CASE handled'[d].seq = handled[d].seq
        BY <3>2, <3>3
      <3>4. CASE (ring').reader[d].count = 0
        BY <1>2, <3>4
      <3>5. CASE /\ ring.reader[d].count # 0 /\ (ring').reader[d].count < ring.reader[d].count
                 /\ handled'[d].seq = pushed[Len(pushed) + 1 - ring.reader[d].count].seq
        <4> DEFINE k == Len(pushed) + 1 - ring.reader[d].count
                   L == Len(pushed)
                   c == ring.reader[d].count
                   b == (ring').reader[d].count
        <4>0. L \in Nat /\ c \in 0..L /\ b \in 0..L /\ c # 0 /\ b < c /\ k = L + 1 - c /\ j \in L + 1 - b..L
          BY <1>2, <2>1, <3>0, <3>5
        <4> HIDE DEF L, c, b, k
        <4>1. k \in 1..L /\ k < j
          BY <4>0
        <4> HIDE DEF k
        <4>2. pushed[k].seq < pushed[j].seq /\ pushed[k].seq \in Nat
          BY <1>0, <1>2, <2>2, <4>1 DEF Numbered, L
        <4>3. handled'[d].seq = pushed[k].seq
          BY <3>5 DEF k
        <4> QED  BY <2>2, <4>2, <4>3
      <3>6. \/ handled'[d].seq = -1 \/ handled'[d].seq = handled[d].seq
            \/ (ring').reader[d].count = 0
            \/ /\ ring.reader[d].count # 0 /\ (ring').reader[d].count < ring.reader[d].count
               /\ handled'[d].seq = pushed[Len(pushed) + 1 - ring.reader[d].count].seq
        OBVIOUS
      <3> QED  BY <2>3, <3>3, <3>4, <3>5, <3>6
    <2> QED  BY <2>3, <2>4
  <1> QED  BY <1>0, <1>3, <1>4 DEF SinkInv

\* The smaller of two numbers.
LEMMA MinOfTwo ==
    ASSUME NEW a \in Int, NEW b \in Int
    PROVE  Min({a, b}) = IF a <= b THEN a ELSE b
  <1> DEFINE m == IF a <= b THEN a ELSE b
  <1>1. m \in {a, b} /\ \A y \in {a, b} : m <= y
    OBVIOUS
  <1>2. \A x \in {a, b} : (\A y \in {a, b} : x <= y) => x = m
    OBVIOUS
  <1> HIDE DEF m
  <1>3. (CHOOSE x \in {a, b} : \A y \in {a, b} : x <= y) = m
    BY <1>1, <1>2
  <1> QED  BY <1>3 DEF Min, m

\* What a read of drain d gives: an entry it still has, or all ids given out.
LEMMA PeekFacts ==
    ASSUME SinkInv, NEW d \in Drains, NEW space, NEW pop \in BOOLEAN
    PROVE  LET p == PeekOrPopEntry(d, space, pop)
               c == ring.reader[d].count
               h == handled[d].seq
               front == pushed[Len(pushed) + 1 - c]
           IN  /\ p.drop \in Nat /\ p.ingress \in Nat
               /\ p.handled \in [seq : Int, ingress : Nat] /\ p.handled.ingress <= ingress_drops
               /\ c # 0 => /\ Len(pushed) + 1 - c \in 1..Len(pushed) /\ front \in Entry /\ p.entry = front
                           /\ front.seq > h /\ front.seq < sequence_id /\ d \in Readers(ring)
               /\ \/ /\ p.status = "small" /\ c # 0 /\ p.drop = 0 /\ p.ingress = 0
                     /\ p.ring = PopFront(ring, d) /\ p.handled = handled[d]
                  \/ /\ p.status = "empty" /\ c = 0 /\ p.drop + p.ingress = sequence_id - 1 - h
                     /\ p.ring = ring /\ p.handled.seq = sequence_id - 1
                  \/ /\ p.status = "ok" /\ c # 0 /\ p.drop + p.ingress = front.seq - h - 1
                     /\ p.ring = IF pop THEN PopFront(ring, d) ELSE ring
                     /\ p.handled.seq = IF pop THEN front.seq ELSE h
  <1> DEFINE p == PeekOrPopEntry(d, space, pop)
             c == ring.reader[d].count
             h == handled[d].seq
             g == handled[d].ingress
             front == pushed[Len(pushed) + 1 - c]
             small == c # 0 /\ ~ReadFits(ring, d, space)
             id == IF c = 0 THEN sequence_id - 1 ELSE FrontEntry(ring, d).seq
             gap == id - h - (IF c = 0 THEN 0 ELSE 1)
             ingress == Min({gap, ingress_drops - g})
  <1>0. /\ d \in Names /\ h \in -1..sequence_id - 1 /\ g \in Nat /\ g <= ingress_drops /\ ingress_drops \in Nat
        /\ sequence_id \in Nat /\ handled[d] \in [seq : Int, ingress : Nat]
    BY DEF SinkInv, Numbered, Names
  <1>1. PICK s : AllSee(ring, pushed, s)
    BY DEF SinkInv
  <1>2. c \in 0..Len(pushed) /\ Len(pushed) \in Nat
    BY <1>0, PushedFacts
  <1>3. c # 0 => /\ Len(pushed) + 1 - c \in 1..Len(pushed) /\ front \in Entry /\ FrontEntry(ring, d) = front
                 /\ front.seq > h /\ front.seq < sequence_id /\ d \in Readers(ring) /\ front.seq \in Nat
    <2> SUFFICES ASSUME c # 0
                 PROVE  /\ Len(pushed) + 1 - c \in 1..Len(pushed) /\ front \in Entry /\ FrontEntry(ring, d) = front
                        /\ front.seq > h /\ front.seq < sequence_id /\ d \in Readers(ring) /\ front.seq \in Nat
      OBVIOUS
    <2>1. d \in Readers(ring)
      BY <1>0, <1>1, ReaderFields DEF Detached
    <2>2. Starts(pushed, s) /\ Sees(ring, pushed, s, ring.reader[d])
      BY <1>1, <2>1 DEF AllSee
    <2>3. /\ Len(pushed) + 1 - c \in 1..Len(pushed) /\ front \in Entry
          /\ EntryAt(ring, ring.reader[d].at) = front
      BY <2>2, FrontAt
    <2>4. c \in Nat /\ c <= ring.reader[d].count /\ Len(pushed) + 1 - c \in Len(pushed) + 1 - c..Len(pushed)
      BY <1>2, <2>3
    <2>5. front.seq > h
      BY <2>1, <2>4, NewerKept
    <2>6. front.seq < sequence_id
      BY <2>3 DEF SinkInv, Numbered
    <2> QED  BY <2>1, <2>3, <2>5, <2>6 DEF FrontEntry, Entry
  <1>4. p = IF small
            THEN [status |-> "small", drop |-> 0, ingress |-> 0, entry |-> FrontEntry(ring, d),
                  ring |-> PopFront(ring, d), handled |-> handled[d]]
            ELSE [status |-> IF c = 0 THEN "empty" ELSE "ok",
                  drop |-> gap - ingress, ingress |-> ingress, entry |-> FrontEntry(ring, d),
                  ring |-> IF pop THEN PopFront(ring, d) ELSE ring,
                  handled |-> [seq |-> IF c = 0 \/ pop THEN id ELSE handled[d].seq,
                               ingress |-> IF gap = 0 THEN handled[d].ingress
                                           ELSE IF ingress_drops > ingress THEN ingress_drops - ingress
                                           ELSE ingress_drops]]
    BY Zenon DEF PeekOrPopEntry, MissedSince
  <1>5. id \in Int /\ gap \in Nat
    <2>1. CASE c = 0
      <3>1. id = sequence_id - 1 /\ gap = id - h - 0
        BY <2>1
      <3> HIDE DEF h, id, gap
      <3> QED  BY <1>0, <3>1
    <2>2. CASE c # 0
      <3>1. id = front.seq /\ gap = id - h - 1 /\ front.seq \in Nat /\ front.seq > h
        BY <1>3, <2>2
      <3> HIDE DEF h, id, gap, front
      <3> QED  BY <1>0, <3>1
    <2> QED  BY <2>1, <2>2
  <1>6. ingress \in Nat /\ ingress <= gap /\ ingress <= ingress_drops - g
    <2> HIDE DEF gap, g
    <2>1. ingress_drops - g \in Nat
      BY <1>0
    <2> QED  BY <1>5, <2>1, MinOfTwo
  <1>7. CASE small
    <2> HIDE DEF gap, id, ingress, front
    <2>1. /\ p.status = "small" /\ p.drop = 0 /\ p.ingress = 0 /\ p.entry = FrontEntry(ring, d)
          /\ p.ring = PopFront(ring, d) /\ p.handled = handled[d]
      BY <1>4, <1>7
    <2> HIDE DEF p
    <2>2. c # 0
      BY <1>7
    <2>3. p.drop \in Nat /\ p.ingress \in Nat /\ p.handled \in [seq : Int, ingress : Nat]
          /\ p.handled.ingress <= ingress_drops
      BY <1>0, <2>1
    <2> HIDE DEF small, c, h, g
    <2> QED  BY <1>3, <2>1, <2>2, <2>3 DEF front, c, h, p
  <1>8. CASE ~small
    <2>1. /\ p.status = IF c = 0 THEN "empty" ELSE "ok"
          /\ p.drop = gap - ingress /\ p.ingress = ingress /\ p.entry = FrontEntry(ring, d)
          /\ p.ring = IF pop THEN PopFront(ring, d) ELSE ring
          /\ p.handled = [seq |-> IF c = 0 \/ pop THEN id ELSE handled[d].seq,
                          ingress |-> IF gap = 0 THEN handled[d].ingress
                                      ELSE IF ingress_drops > ingress THEN ingress_drops - ingress
                                      ELSE ingress_drops]
      <3> HIDE DEF gap, id, ingress, front, small
      <3> QED  BY <1>4, <1>8
    <2>2. c # 0 => gap = front.seq - h - 1 /\ id = front.seq
      BY <1>0, <1>3
    <2>3. c = 0 => gap = sequence_id - 1 - h /\ id = sequence_id - 1
      BY <1>0
    <2> HIDE DEF p, gap, id, ingress, front, small, c, h, g
    <2>4. p.drop \in Nat /\ p.ingress \in Nat /\ p.drop + p.ingress = gap
      BY <1>5, <1>6, <2>1
    <2>5. p.handled.seq = (IF c = 0 \/ pop THEN id ELSE h) /\ p.handled \in [seq : Int, ingress : Nat]
          /\ p.handled.ingress <= ingress_drops
      <3>1. p.handled.seq = (IF c = 0 \/ pop THEN id ELSE h)
        BY <2>1 DEF h
      <3>2. p.handled.ingress \in Nat /\ p.handled.ingress <= ingress_drops
        <4>1. p.handled.ingress = IF gap = 0 THEN g
                                      ELSE IF ingress_drops > ingress THEN ingress_drops - ingress
                                      ELSE ingress_drops
          BY <2>1 DEF g
        <4> QED  BY <1>0, <1>5, <1>6, <4>1
      <3>3. p.handled.seq \in Int
        BY <1>0, <1>5, <3>1
      <3> QED  BY <2>1, <3>1, <3>2, <3>3
    <2>6. c = 0 => p.ring = ring
      <3>1. c = 0 => PopFront(ring, d) = ring
        BY DEF PopFront, c
      <3> QED  BY <2>1, <3>1
    <2>7. CASE c = 0
      BY <2>1, <2>3, <2>4, <2>5, <2>6, <2>7 DEF front, c, h, p
    <2>8. CASE c # 0
      BY <1>3, <2>1, <2>2, <2>4, <2>5, <2>8 DEF front, c, h, p
    <2> QED  BY <2>7, <2>8
  <1> QED  BY <1>7, <1>8

\* MultiSink::HandleDropped keeps it.
LEMMA HandleDroppedInv ==
    ASSUME SinkInv, NEW n \in 1..MaxDropped, HandleDropped(n)
    PROVE  SinkInv'
  <1>1. /\ sequence_id + n <= MaxEntries /\ sequence_id' = sequence_id + n
        /\ ingress_drops' = ingress_drops + n /\ ring' = ring /\ handled' = handled /\ pushed' = pushed
    BY DEF HandleDropped
  <1>2. /\ sequence_id \in Nat /\ ingress_drops \in Nat /\ n \in Nat /\ MaxEntries \in Nat
        /\ sequence_id < sequence_id' /\ ingress_drops <= ingress_drops' /\ sequence_id' \in 0..MaxEntries
        /\ ingress_drops' \in Nat
    BY <1>1, RingAssumption DEF SinkInv, Numbered
  <1>3. \A i \in 1..Len(pushed) : pushed[i].seq \in Nat /\ pushed[i].seq < sequence_id'
    BY <1>2, PushedFacts DEF SinkInv, Numbered
  <1>4. ASSUME NEW d \in Names
        PROVE  handled[d].seq \in -1..sequence_id' - 1 /\ handled[d].ingress <= ingress_drops'
    <2>1. handled[d].seq \in -1..sequence_id - 1 /\ handled[d].ingress <= ingress_drops
          /\ handled[d].ingress \in Nat
      BY DEF SinkInv, Numbered
    <2> QED  BY <1>2, <2>1
  <1>5. Numbered'
    BY <1>1, <1>2, <1>3, <1>4 DEF SinkInv, Numbered
  <1> QED  BY <1>1, <1>5 DEF SinkInv, Newer

\* A read: the drain's reader and its last handled id move together.
LEMMA ReadInv ==
    ASSUME SinkInv, NEW d \in Drains, NEW space, NEW pop \in BOOLEAN,
           ring' = PeekOrPopEntry(d, space, pop).ring,
           handled' = [handled EXCEPT ![d] = PeekOrPopEntry(d, space, pop).handled],
           UNCHANGED <<sequence_id, ingress_drops, pushed>>
    PROVE  SinkInv'
  <1> DEFINE p == PeekOrPopEntry(d, space, pop)
             c == ring.reader[d].count
             h == handled[d].seq
             front == pushed[Len(pushed) + 1 - c]
  <1>0. /\ d \in Names /\ Numbered /\ "oldest" \in Names /\ d # "oldest"
        /\ sequence_id \in Nat
    BY RingAssumption DEF SinkInv, Names, Numbered
  <1>1. /\ p.handled \in [seq : Int, ingress : Nat] /\ p.handled.ingress <= ingress_drops
        /\ c # 0 => /\ front.seq > h /\ front.seq < sequence_id /\ d \in Readers(ring) /\ front \in Entry
        /\ \/ /\ p.status = "small" /\ c # 0
              /\ p.ring = PopFront(ring, d) /\ p.handled = handled[d]
           \/ /\ p.status = "empty" /\ c = 0
              /\ p.ring = ring /\ p.handled.seq = sequence_id - 1
           \/ /\ p.status = "ok" /\ c # 0
              /\ p.ring = IF pop THEN PopFront(ring, d) ELSE ring
              /\ p.handled.seq = IF pop THEN front.seq ELSE h
    BY PeekFacts
  <1> HIDE DEF p
  <1>2. ring' = p.ring /\ handled' = [handled EXCEPT ![d] = p.handled]
    BY DEF p
  <1>3. PICK s : AllSee(ring, pushed, s)
    BY DEF SinkInv
  <1>4. c \in Nat
    BY <1>0, PushedFacts
  <1>5. /\ AllSee(PopFront(ring, d), pushed, s) /\ Readers(PopFront(ring, d)) = Readers(ring)
        /\ \A e \in Names : e # d => PopFront(ring, d).reader[e] = ring.reader[e]
        /\ PopFront(ring, d).reader[d].count = IF c = 0 THEN 0 ELSE c - 1
    BY <1>0, <1>3, PopSees
  <1>6. /\ AllSee(ring', pushed', s) /\ Readers(ring') = Readers(ring)
        /\ \A e \in Names : e # d => (ring').reader[e] = ring.reader[e]
        /\ (ring').reader[d].count <= c
        /\ (ring').reader[d].count = c - 1 \/ (ring').reader[d].count = c
    <2>1. CASE ring' = ring
      BY <1>3, <1>4, <2>1
    <2>2. CASE ring' = PopFront(ring, d)
      BY <1>4, <1>5, <2>2
    <2> QED  BY <1>1, <1>2, <2>1, <2>2
  <1>7. /\ handled' = [e \in Names |-> handled'[e]] /\ handled'[d] = p.handled
        /\ \A e \in Names : e # d => handled'[e] = handled[e]
    BY <1>0, <1>2 DEF Numbered
  <1>8. p.handled.seq \in -1..sequence_id - 1
    <2>1. h \in -1..sequence_id - 1
      BY <1>0 DEF Numbered
    <2>2. c # 0 => front.seq \in Nat
      BY <1>1 DEF Entry
    <2> HIDE DEF h, front, c
    <2>3. handled[d].seq = h
      BY DEF h
    <2> QED  BY <1>0, <1>1, <2>1, <2>2, <2>3
  <1>9. ASSUME NEW e \in Names
        PROVE  /\ handled'[e] \in [seq : Int, ingress : Nat]
               /\ handled'[e].seq \in -1..sequence_id - 1
               /\ handled'[e].ingress <= ingress_drops
    BY <1>0, <1>1, <1>7, <1>8 DEF Numbered
  <1>10. handled'["oldest"].seq = -1
    BY <1>0, <1>7 DEF Numbered
  <1>11. ASSUME NEW e \in Readers(ring')
         PROVE  /\ e \in Readers(ring) /\ (ring').reader[e].count <= ring.reader[e].count
                /\ \/ handled'[e].seq = handled[e].seq
                   \/ (ring').reader[e].count = 0
                   \/ /\ ring.reader[e].count # 0 /\ (ring').reader[e].count < ring.reader[e].count
                      /\ handled'[e].seq = pushed[Len(pushed) + 1 - ring.reader[e].count].seq
    <2>0. e \in Readers(ring) /\ e \in Names /\ ring.reader[e].count \in Nat
      BY <1>6, PushedFacts
    <2>1. CASE e # d
      BY <1>6, <1>7, <2>0, <2>1
    <2>2. CASE e = d
      <3>1. (ring').reader[d].count <= ring.reader[d].count /\ handled'[d] = p.handled
        BY <1>6, <1>7
      <3>2. CASE p.handled = handled[d]
        BY <2>0, <2>2, <3>1, <3>2
      <3>3. CASE c = 0
        <4>1. ring' = ring
          BY <1>1, <1>2, <3>3
        <4> QED  BY <2>0, <2>2, <3>1, <3>3, <4>1
      <3>4. CASE p.status = "ok" /\ c # 0
        <4>1. CASE pop
          <5>1. ring' = PopFront(ring, d) /\ p.handled.seq = front.seq
            BY <1>1, <1>2, <3>4, <4>1
          <5>2. (ring').reader[d].count = c - 1
            BY <1>5, <3>4, <5>1
          <5>3. (ring').reader[d].count < ring.reader[d].count
            BY <1>4, <5>2
          <5> QED  BY <2>0, <2>2, <3>1, <3>4, <5>1, <5>3
        <4>2. CASE ~pop
          BY <1>1, <2>0, <2>2, <3>1, <3>4, <4>2
        <4> QED  BY <4>1, <4>2
      <3> QED  BY <1>1, <3>2, <3>3, <3>4
    <2> QED  BY <2>1, <2>2
  <1> QED  BY <1>6, <1>7, <1>9, <1>10, <1>11, ForwardInv

\* MultiSink::PopEntry keeps it, whether the peeked entry is still the front or not.
LEMMA PopEntryInv ==
    ASSUME SinkInv, NEW d \in Drains, NEW seq, PopEntry(d, seq),
           UNCHANGED <<sequence_id, ingress_drops, pushed>>
    PROVE  SinkInv'
  <1> DEFINE c == ring.reader[d].count
             front == pushed[Len(pushed) + 1 - c]
  <1>0. /\ d \in Names /\ Numbered /\ "oldest" \in Names /\ d # "oldest"
    BY RingAssumption DEF SinkInv, Names
  <1>1. CASE UNCHANGED <<ring, handled>>
    BY <1>1 DEF SinkInv, Numbered, Newer
  <1>2. CASE /\ c > 0 /\ FrontEntry(ring, d).seq = seq
             /\ ring' = PopFront(ring, d) /\ handled' = [handled EXCEPT ![d].seq = seq]
    <2>1. PICK s : AllSee(ring, pushed, s)
      BY DEF SinkInv
    <2>2. c \in Nat /\ c # 0
      BY <1>0, <1>2, PushedFacts
    <2>3. d \in Readers(ring) /\ Starts(pushed, s)
      BY <1>0, <2>1, <2>2, ReaderFields DEF Detached, AllSee
    <2>4. Sees(ring, pushed, s, ring.reader[d])
      BY <2>1, <2>3 DEF AllSee
    <2>5. /\ Len(pushed) + 1 - c \in 1..Len(pushed) /\ front \in Entry /\ FrontEntry(ring, d) = front
      BY <2>2, <2>3, <2>4, FrontAt DEF FrontEntry
    <2>6. seq = front.seq /\ seq \in Nat /\ seq < sequence_id /\ sequence_id \in Nat
      BY <1>0, <1>2, <2>5 DEF Numbered, Entry
    <2>7. seq \in -1..sequence_id - 1
      BY <2>6
    <2>8. /\ AllSee(ring', pushed', s) /\ Readers(ring') = Readers(ring)
          /\ \A e \in Names : e # d => (ring').reader[e] = ring.reader[e]
          /\ (ring').reader[d].count = c - 1
      BY <1>0, <1>2, <2>1, <2>2, PopSees
    <2>9. /\ handled' = [e \in Names |-> handled'[e]] /\ handled'[d] = [handled[d] EXCEPT !.seq = seq]
          /\ \A e \in Names : e # d => handled'[e] = handled[e]
      BY <1>0, <1>2 DEF Numbered
    <2>10. ASSUME NEW e \in Names
           PROVE  /\ handled'[e] \in [seq : Int, ingress : Nat]
                  /\ handled'[e].seq \in -1..sequence_id - 1
                  /\ handled'[e].ingress <= ingress_drops
      <3>1. handled[e] \in [seq : Int, ingress : Nat] /\ handled[e].seq \in -1..sequence_id - 1
            /\ handled[e].ingress <= ingress_drops
        BY <1>0 DEF Numbered
      <3> QED  BY <2>6, <2>7, <2>9, <3>1
    <2>11. handled'["oldest"].seq = -1
      BY <1>0, <2>9 DEF Numbered
    <2>12. handled'[d].seq = front.seq
      <3>1. handled[d] \in [seq : Int, ingress : Nat]
        BY <1>0 DEF Numbered
      <3> QED  BY <2>6, <2>9, <3>1
    <2>13. ASSUME NEW e \in Readers(ring')
           PROVE  /\ e \in Readers(ring) /\ (ring').reader[e].count <= ring.reader[e].count
                  /\ \/ handled'[e].seq = handled[e].seq
                     \/ (ring').reader[e].count = 0
                     \/ /\ ring.reader[e].count # 0 /\ (ring').reader[e].count < ring.reader[e].count
                        /\ handled'[e].seq = pushed[Len(pushed) + 1 - ring.reader[e].count].seq
      <3>0. e \in Readers(ring) /\ e \in Names /\ ring.reader[e].count \in Nat
        BY <2>8, PushedFacts
      <3>1. CASE e # d
        BY <2>8, <2>9, <3>0, <3>1
      <3>2. CASE e = d
        BY <2>2, <2>8, <2>12, <3>0, <3>2
      <3> QED  BY <3>1, <3>2
    <2> QED  BY <2>8, <2>9, <2>10, <2>11, <2>13, ForwardInv
  <1> QED  BY <1>1, <1>2 DEF PopEntry

\* MultiSink::AttachDrain keeps it: a new drain has handled nothing.
LEMMA AttachInv ==
    ASSUME SinkInv, NEW d \in Drains, AttachDrain(d)
    PROVE  SinkInv'
  <1>0. /\ d \in Names /\ Numbered /\ "oldest" \in Names /\ d # "oldest"
    BY RingAssumption DEF SinkInv, Names
  <1>1. PICK s : AllSee(ring, pushed, s)
    BY DEF SinkInv
  <1>2. /\ ring.reader[d] = Detached /\ ring' = AttachReader(ring, d)
        /\ handled' = [handled EXCEPT ![d] = [seq |-> handled["oldest"].seq, ingress |-> 0]]
        /\ UNCHANGED <<sequence_id, ingress_drops, pushed>>
    BY DEF AttachDrain
  <1>3. /\ AllSee(ring', pushed', s) /\ Readers(ring') = Readers(ring) \cup {d}
        /\ \A e \in Names : e # d => (ring').reader[e] = ring.reader[e]
    BY <1>0, <1>1, <1>2, AttachSees
  <1>4. handled["oldest"].seq = -1 /\ sequence_id \in Nat /\ ingress_drops \in Nat
    BY <1>0 DEF Numbered
  <1>5. /\ handled' = [e \in Names |-> handled'[e]] /\ handled'[d] = [seq |-> -1, ingress |-> 0]
        /\ \A e \in Names : e # d => handled'[e] = handled[e]
    BY <1>0, <1>2, <1>4 DEF Numbered
  <1>6. ASSUME NEW e \in Names
        PROVE  /\ handled'[e] \in [seq : Int, ingress : Nat]
               /\ handled'[e].seq \in -1..sequence_id - 1
               /\ handled'[e].ingress <= ingress_drops
    <2>1. handled[e] \in [seq : Int, ingress : Nat] /\ handled[e].seq \in -1..sequence_id - 1
          /\ handled[e].ingress <= ingress_drops
      BY <1>0 DEF Numbered
    <2> QED  BY <1>4, <1>5, <2>1
  <1>7. handled'["oldest"].seq = -1
    BY <1>0, <1>4, <1>5
  <1>8. ASSUME NEW e \in Readers(ring')
        PROVE  \/ handled'[e].seq = -1
               \/ /\ e \in Readers(ring) /\ (ring').reader[e].count <= ring.reader[e].count
                  /\ handled'[e].seq = handled[e].seq
    <2>1. CASE e = d
      BY <1>5, <2>1
    <2>2. CASE e # d
      <3>1. e \in Readers(ring) /\ e \in Names /\ ring.reader[e].count \in Nat
        BY <1>3, <2>2, PushedFacts
      <3> QED  BY <1>3, <1>5, <2>2, <3>1
    <2> QED  BY <2>1, <2>2
  <1> QED  BY <1>2, <1>3, <1>5, <1>6, <1>7, <1>8, ForwardInv

\* Readers that are moved forward, turned, or leave, with nothing handled.
LEMMA MovesInv ==
    ASSUME SinkInv, NEW s, AllSee(ring', pushed', s), Readers(ring') \subseteq Readers(ring),
           \A d \in Readers(ring') : (ring').reader[d].count <= ring.reader[d].count,
           UNCHANGED <<sequence_id, ingress_drops, handled, pushed>>
    PROVE  SinkInv'
  <1>1. Numbered /\ handled = [d \in Names |-> handled[d]]
    BY DEF SinkInv, Numbered
  <1>2. \A d \in Names : /\ handled'[d] \in [seq : Int, ingress : Nat]
                         /\ handled'[d].seq \in -1..sequence_id - 1
                         /\ handled'[d].ingress <= ingress_drops
    BY <1>1 DEF Numbered
  <1>3. handled'["oldest"].seq = -1 /\ handled' = [d \in Names |-> handled'[d]]
    BY <1>1 DEF Numbered
  <1>4. \A d \in Readers(ring') : /\ d \in Readers(ring) /\ (ring').reader[d].count <= ring.reader[d].count
                                  /\ handled'[d].seq = handled[d].seq
    OBVIOUS
  <1> QED  BY <1>2, <1>3, <1>4, ForwardInv

\* MultiSink::DetachDrain keeps it.
LEMMA DetachInv ==
    ASSUME SinkInv, NEW d \in Drains, DetachDrain(d)
    PROVE  SinkInv'
  <1>0. d \in Names /\ d # "oldest"
    BY RingAssumption DEF Names
  <1>1. PICK s : AllSee(ring, pushed, s)
    BY DEF SinkInv
  <1>2. ring' = [ring EXCEPT !.reader[d] = Detached] /\ UNCHANGED <<sequence_id, ingress_drops, handled, pushed>>
    BY DEF DetachDrain
  <1>3. /\ AllSee(ring', pushed', s) /\ Readers(ring') = Readers(ring) \ {d}
        /\ \A e \in Names : e # d => (ring').reader[e] = ring.reader[e]
    BY <1>0, <1>1, <1>2, DetachSees
  <1>4. \A e \in Readers(ring') : (ring').reader[e].count <= ring.reader[e].count
    <2> SUFFICES ASSUME NEW e \in Readers(ring') PROVE (ring').reader[e].count <= ring.reader[e].count
      OBVIOUS
    <2>1. e \in Names /\ e # d /\ ring.reader[e].count \in Nat
      BY <1>3, PushedFacts
    <2> QED  BY <1>3, <2>1
  <1> QED  BY <1>2, <1>3, <1>4, MovesInv

\* MultiSink::Clear keeps it.
LEMMA ClearInv ==
    ASSUME SinkInv, ClearSink
    PROVE  SinkInv'
  <1>1. PICK s : AllSee(ring, pushed, s)
    BY DEF SinkInv
  <1>2. /\ ring' = [ring EXCEPT !.write = 0,
                                !.reader = [d \in DOMAIN @ |-> IF d \in Readers(ring)
                                              THEN [at |-> 0, count |-> 0] ELSE @[d]]]
        /\ UNCHANGED <<sequence_id, ingress_drops, handled, pushed>>
    BY DEF ClearSink
  <1>3. /\ AllSee(ring', pushed', s) /\ Readers(ring') = Readers(ring)
        /\ \A d \in Names : (ring').reader[d].count = 0
    BY <1>1, <1>2, ClearSees
  <1>4. \A e \in Readers(ring') : (ring').reader[e].count <= ring.reader[e].count
    <2> SUFFICES ASSUME NEW e \in Readers(ring') PROVE (ring').reader[e].count <= ring.reader[e].count
      OBVIOUS
    <2>1. e \in Names /\ ring.reader[e].count \in Nat
      BY <1>3, PushedFacts
    <2> QED  BY <1>3, <2>1
  <1> QED  BY <1>2, <1>3, <1>4, MovesInv

\* MultiSink::UnsafeForEachEntry keeps it: the ring is only turned.
LEMMA ForEachInv ==
    ASSUME SinkInv, UnsafeForEachEntry
    PROVE  SinkInv'
  <1>1. PICK s : AllSee(ring, pushed, s)
    BY DEF SinkInv
  <1>2. ring' = Dering(ring, "oldest") /\ UNCHANGED <<sequence_id, ingress_drops, handled, pushed>>
    BY DEF UnsafeForEachEntry
  <1>3. /\ AllSee(ring', pushed', s) /\ Readers(ring') = Readers(ring)
        /\ \A d \in Names : (ring').reader[d].count = ring.reader[d].count
    BY <1>1, <1>2, DeringSees
  <1>4. \A e \in Readers(ring') : (ring').reader[e].count <= ring.reader[e].count
    <2> SUFFICES ASSUME NEW e \in Readers(ring') PROVE (ring').reader[e].count <= ring.reader[e].count
      OBVIOUS
    <2>1. e \in Names /\ ring.reader[e].count \in Nat
      BY <1>3, PushedFacts
    <2> QED  BY <1>3, <2>1
  <1> QED  BY <1>2, <1>3, <1>4, MovesInv

\* What the inductive invariant says of every reader is what the property says.
LEMMA SeesTheTail ==
    ASSUME SinkInv
    PROVE  ReadersSeeTheTail
  <1>0. PICK s : AllSee(ring, pushed, s)
    BY DEF SinkInv
  <1> SUFFICES ASSUME NEW d \in Readers(ring)
               PROVE  LET count == ring.reader[d].count
                          places == PlacesOf(ring, ring.reader[d])
                      IN  /\ \A n \in 1..count :
                               LET e == pushed[Len(pushed) - count + n]
                               IN  \A i \in 1..SizeOf(e.kind) :
                                     Cell(ring, places[n - 1].at + i - 1) = <<e.seq, e.kind, i>>
                          /\ places[count].at % BufferSize = ring.write % BufferSize
    BY DEF ReadersSeeTheTail
  <1> DEFINE x == ring.reader[d]
             count == x.count
             places == PlacesOf(ring, x)
             L == Len(pushed)
  <1>1. /\ Starts(pushed, s) /\ Sees(ring, pushed, s, x) /\ ring.write \in 0..BufferSize
        /\ BufferSize \in Nat \ {0}
    BY <1>0, ReaderFields, RingAssumption DEF AllSee
  <1>2. count \in 0..L /\ L \in Nat /\ count \in Nat
    BY PushedFacts
  <1>3. places = [n \in 0..count |-> Later(pushed, s, x, n)]
    <2> HIDE DEF x
    <2> QED  BY <1>1, PlacesAre
  <1> HIDE DEF places
  <1>4. ASSUME NEW n \in 1..count,
               NEW i \in 1..SizeOf(pushed[L - count + n].kind)
        PROVE  Cell(ring, places[n - 1].at + i - 1)
                 = <<pushed[L - count + n].seq, pushed[L - count + n].kind, i>>
    <2> DEFINE y == Later(pushed, s, x, n - 1)
               j == L - count + n
    <2>1. n - 1 \in 0..count /\ j \in 1..L /\ L + 1 - (count - (n - 1)) = j /\ count - (n - 1) # 0
          /\ j \in j..L
      <3>1. count \in 0..L /\ L \in Nat /\ count \in Nat /\ n \in 1..count
        BY <1>2
      <3> HIDE DEF L, count
      <3> QED  BY <3>1
    <2>2. Sees(ring, pushed, s, y) /\ y.count = count - (n - 1)
      BY <1>1, <2>1, SeesLater DEF Later
    <2>3. places[n - 1] = y
      BY <1>3, <2>1
    <2> HIDE DEF y, j
    <2>4. s[j] \in Nat /\ Before(pushed, s, y.count, j) = s[j] - s[j]
      BY <1>1, <2>1, <2>2, SizeFacts DEF Before, L
    <2>5. y.at \in 0..BufferSize /\ Before(pushed, s, y.count, j) = 0
      BY <1>1, <2>2, <2>4, TailFacts DEF Sees
    <2>6. Cell(ring, y.at + Before(pushed, s, y.count, j) + i - 1) = <<pushed[j].seq, pushed[j].kind, i>>
      <3>1. j \in Len(pushed) + 1 - y.count..Len(pushed) /\ i \in 1..SizeOf(pushed[j].kind)
        BY <2>1, <2>2 DEF j, L
      <3> QED  BY <2>2, <3>1 DEF Sees, Holds
    <2>7. y.at + 0 + i - 1 = y.at + i - 1
      BY <2>5
    <2> QED  BY <2>3, <2>5, <2>6, <2>7 DEF j
  <1>5. places[count].at % BufferSize = ring.write % BufferSize
    <2> DEFINE y == Later(pushed, s, x, count)
    <2>1. count \in 0..count /\ count - count = 0 /\ 0 \in 0..L
      BY <1>2
    <2>2. Sees(ring, pushed, s, y) /\ y.count = 0 /\ places[count] = y
      BY <1>1, <1>3, <2>1, SeesLater DEF Later
    <2> HIDE DEF y
    <2>3. Used(pushed, s, 0) = 0
      BY <1>1, <2>1, UsedFacts
    <2>4. y.at \in 0..BufferSize /\ (ring.write = y.at + 0 \/ ring.write = y.at + 0 - BufferSize)
      <3>1. Fits(ring, pushed, s, y)
        BY <2>2 DEF Sees
      <3>2. y.at \in 0..BufferSize
        BY <1>1, <3>1, TailFacts
      <3> QED  BY <2>2, <2>3, <3>1, <3>2 DEF Fits
    <2> DEFINE a == y.at
               w == ring.write
    <2>5. a \in 0..BufferSize /\ w \in 0..BufferSize /\ (w = a \/ w = a - BufferSize)
      <3>1. a \in 0..BufferSize /\ w \in 0..BufferSize /\ (w = a + 0 \/ w = a + 0 - BufferSize)
        BY <1>1, <2>4
      <3> HIDE DEF a, w
      <3> QED  BY <1>1, <3>1
    <2> HIDE DEF a, w
    <2>6. w = a \/ (a = BufferSize /\ w = 0)
      BY <1>1, <2>5
    <2>7. BufferSize % BufferSize = 0 /\ 0 % BufferSize = 0
      <3>1. BufferSize \in Int /\ 0 \in Int /\ BufferSize \in BufferSize..2 * BufferSize - 1
            /\ 0 \in 0..BufferSize - 1 /\ BufferSize - BufferSize = 0
        BY <1>1
      <3> QED  BY <1>1, <3>1, ModFacts
    <2>8. a % BufferSize = w % BufferSize
      BY <2>6, <2>7
    <2> QED  BY <2>2, <2>8 DEF a, w
  <1> QED  BY <1>4, <1>5 DEF places

\* Every step of the drain, of a logger or of the sink's users is one of these
\* operations of the sink, or leaves it alone.
LEMMA SinkStep ==
    ASSUME SinkInv, [Next]_vars
    PROVE  SinkInv'
  <1>0. "rpc" \in Drains /\ "pop" \in Drains
    BY DrainAssumption
  <1>1. CASE UNCHANGED sinkVars
    BY <1>1 DEF sinkVars, SinkInv, Numbered, Newer
  <1>2. CASE Log
    BY <1>2, HandleEntryInv, HandleDroppedInv DEF Log
  <1>3. CASE Maintain
    BY <1>3, ClearInv, ForEachInv DEF Maintain
  <1>4. CASE AttachPop
    BY <1>0, <1>4, AttachInv DEF AttachPop
  <1>5. ASSUME NEW space \in 1..EntrySpace, Pop(space) PROVE SinkInv'
    <2>1. /\ ring' = PeekOrPopEntry("pop", space, TRUE).ring
          /\ handled' = [handled EXCEPT !["pop"] = PeekOrPopEntry("pop", space, TRUE).handled]
          /\ UNCHANGED <<sequence_id, ingress_drops, pushed>>
      BY <1>5 DEF Pop
    <2> QED  BY <1>0, <2>1, ReadInv
  <1>6. CASE DetachPop
    BY <1>0, <1>6, DetachInv DEF DetachPop
  <1>7. CASE Run
    BY <1>0, <1>7, AttachInv DEF Run
  <1>8. ASSUME PeekEntry \/ PeekAgain PROVE SinkInv'
    <2>1. /\ ring' = PeekOrPopEntry("rpc", EntrySpace, FALSE).ring
          /\ handled' = [handled EXCEPT !["rpc"] = PeekOrPopEntry("rpc", EntrySpace, FALSE).handled]
          /\ UNCHANGED <<sequence_id, ingress_drops, pushed>>
      BY <1>8 DEF PeekEntry, PeekAgain
    <2> QED  BY <1>0, <2>1, ReadInv
  <1>9. CASE PopPeeked
    <2>1. PopEntry("rpc", entry.seq) /\ UNCHANGED <<sequence_id, ingress_drops, pushed>>
      BY <1>9 DEF PopPeeked
    <2> QED  BY <1>0, <2>1, PopEntryInv
  <1>10. ASSUME Trickle \/ NextBundle \/ Send \/ DelayEnds \/ Open \/ Close \/ UNCHANGED vars
         PROVE  UNCHANGED sinkVars
    BY <1>10 DEF Trickle, NextBundle, Send, DelayEnds, Open, Close, vars
  <1> QED  BY <1>1, <1>2, <1>3, <1>4, <1>5, <1>6, <1>7, <1>8, <1>9, <1>10 DEF Next, Thread

\* A reader finds the tail of what was pushed, entry by entry and cell by cell,
\* for every buffer size and every size of entries.
THEOREM SinkCorrect == Spec => []ReadersSeeTheTail
  <1>1. Init => SinkInv
    BY SinkInitInv DEF Init
  <1>2. SinkInv /\ [Next]_vars => SinkInv'
    BY SinkStep
  <1>3. SinkInv => ReadersSeeTheTail
    BY SeesTheTail
  <1> QED  BY <1>1, <1>2, <1>3, PTL DEF Spec

-----------------------------------------------------------------------------
\* The drain that pops. What it was given and told adds up whether it is
\* attached or not: attaching starts both from nothing.
PopAdds ==
  popped \in [got : Int, told : Int] /\ popped.got + popped.told = handled["pop"].seq + 1

\* Every step keeps it: a read that fails adds nothing, and a later one finds the id
\* missing.
LEMMA PopStep ==
    ASSUME SinkInv, PopAdds, [Next]_vars
    PROVE  PopAdds'
  <1>0. "rpc" \in Drains /\ "pop" \in Drains /\ "pop" \in Names /\ "rpc" \in Names
    BY DrainAssumption DEF Names
  <1>1. Numbered
    BY DEF SinkInv
  <1>2. ASSUME UNCHANGED <<handled, popped>> PROVE PopAdds'
    BY <1>2 DEF PopAdds
  <1>3. ASSUME NEW x, handled' = [handled EXCEPT !["rpc"] = x], UNCHANGED popped PROVE PopAdds'
    <2>1. handled'["pop"] = handled["pop"]
      BY <1>0, <1>1, <1>3 DEF Numbered
    <2> QED  BY <1>3, <2>1 DEF PopAdds
  <1>4. CASE AttachPop
    <2>1. handled' = [handled EXCEPT !["pop"] = [seq |-> handled["oldest"].seq, ingress |-> 0]]
          /\ popped' = [got |-> 0, told |-> 0]
      BY <1>4 DEF AttachPop, AttachDrain
    <2>2. handled'["pop"].seq = -1
      BY <1>0, <1>1, <2>1 DEF Numbered
    <2> QED  BY <2>1, <2>2 DEF PopAdds
  <1>5. ASSUME NEW space \in 1..EntrySpace, Pop(space) PROVE PopAdds'
    <2> DEFINE p == PeekOrPopEntry("pop", space, TRUE)
               c == ring.reader["pop"].count
               h == handled["pop"].seq
               front == pushed[Len(pushed) + 1 - c]
    <2>1. /\ handled' = [handled EXCEPT !["pop"] = p.handled]
          /\ popped' = [got |-> popped.got + (IF p.status = "ok" THEN 1 ELSE 0),
                        told |-> popped.told + p.drop + p.ingress]
      BY <1>5 DEF Pop
    <2>2. /\ p.drop \in Nat /\ p.ingress \in Nat
          /\ c # 0 => front \in Entry
          /\ \/ /\ p.status = "small" /\ c # 0 /\ p.drop = 0 /\ p.ingress = 0 /\ p.handled = handled["pop"]
             \/ /\ p.status = "empty" /\ c = 0 /\ p.drop + p.ingress = sequence_id - 1 - h
                /\ p.handled.seq = sequence_id - 1
             \/ /\ p.status = "ok" /\ c # 0 /\ p.drop + p.ingress = front.seq - h - 1
                /\ p.handled.seq = front.seq
      <3> DEFINE d == "pop"
                 pop == TRUE
      <3>1. d \in Drains /\ pop \in BOOLEAN
        BY <1>0
      <3> HIDE DEF d, pop
      <3>2. LET q == PeekOrPopEntry(d, space, pop)
                n == ring.reader[d].count
                k == handled[d].seq
                e == pushed[Len(pushed) + 1 - n]
            IN  /\ q.drop \in Nat /\ q.ingress \in Nat
                /\ n # 0 => e \in Entry
                /\ \/ q.status = "small" /\ n # 0 /\ q.drop = 0 /\ q.ingress = 0 /\ q.handled = handled[d]
                   \/ /\ q.status = "empty" /\ n = 0 /\ q.drop + q.ingress = sequence_id - 1 - k
                      /\ q.handled.seq = sequence_id - 1
                   \/ /\ q.status = "ok" /\ n # 0 /\ q.drop + q.ingress = e.seq - k - 1
                      /\ q.handled.seq = IF pop THEN e.seq ELSE k
        BY <3>1, PeekFacts
      <3> QED  BY <3>2 DEF d, pop
    <2> HIDE DEF p
    <2>3. handled'["pop"] = p.handled /\ h \in Int /\ sequence_id \in Int
      BY <1>0, <1>1, <2>1 DEF Numbered
    <2>4. popped.got \in Int /\ popped.told \in Int /\ popped.got + popped.told = h + 1
      BY DEF PopAdds
    <2>5. popped' \in [got : Int, told : Int]
      BY <2>1, <2>2, <2>4
    <2>6. popped'.got = popped.got + (IF p.status = "ok" THEN 1 ELSE 0)
          /\ popped'.told = popped.told + p.drop + p.ingress
      BY <2>1
    <2>7. p.handled.seq = h \/ p.handled # handled["pop"]
      OBVIOUS
    <2>8. c # 0 => front.seq \in Nat
      BY <2>2 DEF Entry
    <2> DEFINE f == front.seq
               a == p.drop
               b == p.ingress
               g == popped.got
               t == popped.told
    <2> HIDE DEF h, c, front, f, a, b, g, t
    <2>9. /\ a \in Nat /\ b \in Nat /\ g \in Int /\ t \in Int /\ g + t = h + 1
          /\ \/ p.status = "small" /\ a = 0 /\ b = 0 /\ p.handled.seq = h
             \/ p.status = "empty" /\ a + b = sequence_id - 1 - h /\ p.handled.seq = sequence_id - 1
             \/ p.status = "ok" /\ f \in Nat /\ a + b = f - h - 1 /\ p.handled.seq = f
      BY <2>2, <2>4, <2>8 DEF f, a, b, g, t, h
    <2>10. (g + (IF p.status = "ok" THEN 1 ELSE 0)) + (t + a + b) = p.handled.seq + 1
      BY <2>3, <2>9
    <2> QED  BY <2>3, <2>5, <2>6, <2>10 DEF PopAdds, g, t, a, b
  <1>6. CASE Log
    BY <1>2, <1>6 DEF Log, HandleEntry, HandleDropped
  <1>7. CASE Maintain
    BY <1>2, <1>7 DEF Maintain, ClearSink, UnsafeForEachEntry
  <1>8. CASE DetachPop
    BY <1>2, <1>8 DEF DetachPop, DetachDrain
  <1>9. CASE Run
    BY <1>3, <1>9 DEF Run, AttachDrain
  <1>10. ASSUME PeekEntry \/ PeekAgain PROVE PopAdds'
    BY <1>3, <1>10 DEF PeekEntry, PeekAgain
  <1>11. CASE PopPeeked
    <2>1. PopEntry("rpc", entry.seq) /\ UNCHANGED popped
      BY <1>11 DEF PopPeeked
    <2>2. CASE UNCHANGED <<ring, handled>>
      BY <1>2, <2>1, <2>2
    <2>3. CASE handled' = [handled EXCEPT !["rpc"].seq = entry.seq]
      BY <1>3, <2>1, <2>3
    <2> QED  BY <2>1, <2>2, <2>3 DEF PopEntry
  <1>12. ASSUME Trickle \/ NextBundle \/ Send \/ DelayEnds \/ Open \/ Close \/ UNCHANGED vars
         PROVE  UNCHANGED <<handled, popped>>
    BY <1>12 DEF Trickle, NextBundle, Send, DelayEnds, Open, Close, vars, sinkVars
  <1> QED  BY <1>2, <1>4, <1>5, <1>6, <1>7, <1>8, <1>9, <1>10, <1>11, <1>12 DEF Next, Thread

\* A drain that pops entries accounts for every sequence id, for every buffer.
THEOREM PopsAddUp == Spec => []PopCountsAddUp
  <1>1. Init => SinkInv /\ PopAdds
    <2> SUFFICES ASSUME Init PROVE SinkInv /\ PopAdds
      OBVIOUS
    <2>1. SinkInv
      BY SinkInitInv DEF Init
    <2>2. handled["pop"].seq = -1 /\ popped = [got |-> 0, told |-> 0]
      BY DrainAssumption DEF Init, SinkInit
    <2> QED  BY <2>1, <2>2 DEF PopAdds
  <1>2. SinkInv /\ PopAdds /\ [Next]_vars => (SinkInv /\ PopAdds)'
    BY SinkStep, PopStep
  <1>3. SinkInv /\ PopAdds => PopCountsAddUp
    BY DEF PopAdds, PopCountsAddUp
  <1> QED  BY <1>1, <1>2, <1>3, PTL DEF Spec

-----------------------------------------------------------------------------
\* The drop counts.
Counts == [slow : Nat, ingress : Nat, stack : Nat, outbound : Nat, writer : Nat]

\* Their sum.
LEMMA CountedType ==
    ASSUME NEW c \in Counts
    PROVE  Counted(c) \in Nat
  BY DEF Counts, Counted

\* One message moves a count into what was told.
LEMMA MessageKeepsCount ==
    ASSUME NEW x, x.counters \in Counts, x.told \in Nat,
           NEW reason \in {"slow", "ingress", "stack", "outbound", "writer"}
    PROVE  LET y == TryEncodeDropMessage(x, reason)
           IN  /\ y.counters \in Counts /\ y.told \in Nat
               /\ y.told + Counted(y.counters) = x.told + Counted(x.counters)
               /\ x.counters.stack = 0 => y.counters.stack = 0
               /\ x.counters[reason] = 0 => y = x
  <1> DEFINE y == TryEncodeDropMessage(x, reason)
             c == x.counters
  <1>1. CASE y = x
    BY <1>1
  <1>2. CASE /\ c[reason] > 0
             /\ y = [counters |-> [c EXCEPT ![reason] = 0], used |-> x.used + MessageSize + Frame,
                     told |-> x.told + c[reason]]
    <2>1. /\ y.counters = [c EXCEPT ![reason] = 0]
          /\ y.told = x.told + c[reason]
      BY <1>2
    <2>2. c \in Counts /\ x.told \in Nat
      OBVIOUS
    <2> HIDE DEF y, c
    <2>3. CASE reason = "slow"
      BY <1>2, <2>1, <2>2, <2>3 DEF Counts, Counted, y, c
    <2>4. CASE reason = "ingress"
      BY <1>2, <2>1, <2>2, <2>4 DEF Counts, Counted, y, c
    <2>5. CASE reason = "stack"
      BY <1>2, <2>1, <2>2, <2>5 DEF Counts, Counted, y, c
    <2>6. CASE reason = "outbound"
      BY <1>2, <2>1, <2>2, <2>6 DEF Counts, Counted, y, c
    <2>7. CASE reason = "writer"
      BY <1>2, <2>1, <2>2, <2>7 DEF Counts, Counted, y, c
    <2> QED  BY <2>3, <2>4, <2>5, <2>6, <2>7
  <1> QED  BY <1>1, <1>2 DEF TryEncodeDropMessage

\* So do the five messages together, and none is sent when nothing was dropped.
LEMMA MessagesKeepCount ==
    ASSUME NEW x, x.counters \in Counts, x.told \in Nat
    PROVE  LET y == EncodeDropMessages(x)
           IN  /\ y.counters \in Counts /\ y.told \in Nat
               /\ y.told + Counted(y.counters) = x.told + Counted(x.counters)
               /\ x.counters.stack = 0 => y.counters.stack = 0
               /\ x.counters = NoDrops => y = x
  <1> DEFINE a == TryEncodeDropMessage(x, "slow")
             b == TryEncodeDropMessage(a, "ingress")
             c == TryEncodeDropMessage(b, "stack")
             d == TryEncodeDropMessage(c, "outbound")
             y == TryEncodeDropMessage(d, "writer")
  <1>0. x.counters = NoDrops => \A r \in {"slow", "ingress", "stack", "outbound", "writer"} : x.counters[r] = 0
    BY DEF NoDrops
  <1>1. /\ a.counters \in Counts /\ a.told \in Nat /\ a.told + Counted(a.counters) = x.told + Counted(x.counters)
        /\ x.counters.stack = 0 => a.counters.stack = 0
        /\ x.counters = NoDrops => a = x
    BY <1>0, MessageKeepsCount
  <1> HIDE DEF a
  <1>2. /\ b.counters \in Counts /\ b.told \in Nat /\ b.told + Counted(b.counters) = x.told + Counted(x.counters)
        /\ x.counters.stack = 0 => b.counters.stack = 0
        /\ x.counters = NoDrops => b = x
    BY <1>0, <1>1, MessageKeepsCount
  <1> HIDE DEF b
  <1>3. /\ c.counters \in Counts /\ c.told \in Nat /\ c.told + Counted(c.counters) = x.told + Counted(x.counters)
        /\ x.counters.stack = 0 => c.counters.stack = 0
        /\ x.counters = NoDrops => c = x
    BY <1>0, <1>2, MessageKeepsCount
  <1> HIDE DEF c
  <1>4. /\ d.counters \in Counts /\ d.told \in Nat /\ d.told + Counted(d.counters) = x.told + Counted(x.counters)
        /\ x.counters.stack = 0 => d.counters.stack = 0
        /\ x.counters = NoDrops => d = x
    BY <1>0, <1>3, MessageKeepsCount
  <1> HIDE DEF d
  <1>5. /\ y.counters \in Counts /\ y.told \in Nat /\ y.told + Counted(y.counters) = x.told + Counted(x.counters)
        /\ x.counters.stack = 0 => y.counters.stack = 0
        /\ x.counters = NoDrops => y = x
    BY <1>0, <1>4, MessageKeepsCount
  <1>6. EncodeDropMessages(x) = y
    BY DEF EncodeDropMessages, a, b, c, d
  <1> QED  BY <1>5, <1>6

-----------------------------------------------------------------------------
\* Ids up to h that are in neither of the two sets.
Missing(h, X) == {q \in 0..h : q \notin X}

\* They are finitely many.
LEMMA MissingFacts ==
    ASSUME NEW h \in Int, h >= -1, NEW X
    PROVE  /\ IsFiniteSet(Missing(h, X)) /\ Cardinality(Missing(h, X)) \in Nat
           /\ Cardinality(Missing(h, X)) <= h + 1
  <1>1. IsFiniteSet(0..h) /\ Cardinality(0..h) = IF 0 > h THEN 0 ELSE h - 0 + 1
    BY FS_Interval
  <1>2. Missing(h, X) \subseteq 0..h
    BY DEF Missing
  <1>3. IsFiniteSet(Missing(h, X)) /\ Cardinality(Missing(h, X)) <= Cardinality(0..h)
    BY <1>1, <1>2, FS_Subset
  <1>4. Cardinality(Missing(h, X)) \in Nat
    BY <1>3, FS_CardinalityType
  <1>5. Cardinality(0..h) = h + 1
    BY <1>1
  <1> QED  BY <1>3, <1>4, <1>5

\* More ids are missing by at most those in between.
LEMMA MissingGrows ==
    ASSUME NEW h \in Int, h >= -1, NEW k \in Int, h <= k, NEW X, NEW Y, X \subseteq Y
    PROVE  /\ Cardinality(Missing(k, Y)) <= Cardinality(Missing(h, X)) + (k - h)
           /\ k \in Y /\ h < k => Cardinality(Missing(k, Y)) <= Cardinality(Missing(h, X)) + (k - h - 1)
  <1> DEFINE A == Missing(h, X)
             B == Missing(k, Y)
  <1>1. IsFiniteSet(A) /\ Cardinality(A) \in Nat /\ IsFiniteSet(B) /\ Cardinality(B) \in Nat
    BY MissingFacts
  <1>2. ASSUME NEW m \in Int, h <= m, m <= k, B \subseteq A \cup (h + 1..m)
        PROVE  Cardinality(B) <= Cardinality(A) + (m - h)
    <2> DEFINE I == h + 1..m
    <2>1. IsFiniteSet(I) /\ Cardinality(I) = m - h
      <3>1. IsFiniteSet(I) /\ Cardinality(I) = IF h + 1 > m THEN 0 ELSE m - (h + 1) + 1
        BY FS_Interval
      <3> QED  BY <1>2, <3>1
    <2> HIDE DEF I, A, B
    <2>2. IsFiniteSet(A \cup I) /\ Cardinality(A \cup I) = Cardinality(A) + Cardinality(I) - Cardinality(A \cap I)
      BY <1>1, <2>1, FS_Union
    <2>3. IsFiniteSet(A \cap I) /\ Cardinality(A \cap I) \in Nat
      <3>1. IsFiniteSet(A \cap I)
        BY <1>1, FS_Intersection
      <3> QED  BY <3>1, FS_CardinalityType
    <2>4. Cardinality(B) <= Cardinality(A \cup I)
      <3>1. B \subseteq A \cup I
        BY <1>2 DEF I
      <3> QED  BY <2>2, <3>1, FS_Subset
    <2>5. Cardinality(A \cup I) \in Nat
      BY <2>2, FS_CardinalityType
    <2> QED  BY <1>1, <2>1, <2>2, <2>3, <2>4, <2>5
  <1>3. B \subseteq A \cup (h + 1..k)
    BY DEF Missing
  <1>4. k \in Y /\ h < k => B \subseteq A \cup (h + 1..k - 1)
    BY DEF Missing
  <1>5. Cardinality(B) <= Cardinality(A) + (k - h)
    BY <1>2, <1>3
  <1>6. ASSUME k \in Y /\ h < k PROVE Cardinality(B) <= Cardinality(A) + (k - h - 1)
    <2>1. k - 1 \in Int /\ h <= k - 1 /\ k - 1 <= k /\ (k - 1) - h = k - h - 1
      BY <1>6
    <2> HIDE DEF A, B
    <2>2. Cardinality(B) <= Cardinality(A) + ((k - 1) - h)
      BY <1>2, <1>4, <1>6, <2>1
    <2> QED  BY <2>1, <2>2
  <1> QED  BY <1>5, <1>6

\* Taking ids out of the set adds no more than their number.
LEMMA MissingWithout ==
    ASSUME NEW h \in Int, h >= -1, NEW X, NEW Y, NEW E, IsFiniteSet(E), X \subseteq Y \cup E
    PROVE  Cardinality(Missing(h, Y)) <= Cardinality(Missing(h, X)) + Cardinality(E)
  <1> DEFINE A == Missing(h, X)
             B == Missing(h, Y)
  <1>1. IsFiniteSet(A) /\ Cardinality(A) \in Nat /\ IsFiniteSet(B) /\ Cardinality(B) \in Nat
    BY MissingFacts
  <1>2. B \subseteq A \cup E
    BY DEF Missing
  <1> HIDE DEF A, B
  <1>3. IsFiniteSet(A \cup E) /\ Cardinality(A \cup E) = Cardinality(A) + Cardinality(E) - Cardinality(A \cap E)
    BY <1>1, FS_Union
  <1>4. Cardinality(A \cap E) \in Nat /\ Cardinality(E) \in Nat /\ Cardinality(A \cup E) \in Nat
    <2>1. IsFiniteSet(A \cap E)
      BY <1>1, FS_Intersection
    <2> QED  BY <1>3, <2>1, FS_CardinalityType
  <1>5. Cardinality(B) <= Cardinality(A \cup E)
    BY <1>2, <1>3, FS_Subset
  <1>6. Cardinality(B) <= Cardinality(A) + Cardinality(E)
    BY <1>1, <1>3, <1>4, <1>5
  <1> QED  BY <1>6 DEF A, B

\* The entries the log drain still has to read; those it sent, packed or filtered; the
\* ids it handled that are in none of these; and those it reported or will report.
Rest == Len(pushed) + 1 - ring.reader["rpc"].count..Len(pushed)
Done == seen.sent \cup packet.entries \cup seen.filtered
Lost == Cardinality(Missing(handled["rpc"].seq, Done))
Reported == seen.told + packet.told + Counted(counters)

\* Every entry fitted the buffers, and no drop message was in a packet that failed.
Whole == seen.fits /\ seen.intact

Seen == [sent : SUBSET Int, filtered : SUBSET Int, told : Nat, fits : BOOLEAN, intact : BOOLEAN]

\* Between the peek and the pop, what is lost and the ids before the peeked entry
\* are reported; the entry is done with or it is gone.
Loss ==
  /\ counters \in Counts /\ seen \in Seen
  /\ entry \in [seq : Int, kind : Kinds \cup {"none"}]
  /\ Whole => counters.stack = 0
  /\ Whole /\ pc # "crashed" => Lost <= Reported
  /\ Whole /\ pc \in {"again", "pop"} =>
       /\ entry.seq \in Nat /\ handled["rpc"].seq < entry.seq /\ entry.seq < sequence_id
       /\ Lost + (entry.seq - handled["rpc"].seq - 1) <= Reported
  /\ Whole /\ pc = "again" => \A j \in Rest : pushed[j].seq >= entry.seq
  /\ Whole /\ pc = "pop" => entry.seq \in Done \/ \A j \in Rest : pushed[j].seq > entry.seq

\* The entries of the packet are counted, and the packet is empty before it is filled.
Packed ==
  /\ {"packed", "entries", "told"} \subseteq DOMAIN packet
  /\ packet.packed \in Nat /\ packet.told \in Nat /\ packet.entries \in SUBSET Int
  /\ IsFiniteSet(packet.entries) /\ Cardinality(packet.entries) <= packet.packed
  /\ pc \in {"start", "absent", "wait", "bundle"} => packet.entries = {} /\ packet.told = 0

\* PushedFacts, of the next state.
PushedOK ==
  /\ Len(pushed) \in Nat /\ \A i \in 1..Len(pushed) : pushed[i].seq \in Nat
  /\ \A d \in Names : ring.reader[d].count \in 0..Len(pushed)

\* The same of the next state.
LEMMA PushedNext == SinkInv' => PushedOK'
  <1>1. SinkInv => PushedOK
    BY PushedFacts DEF PushedOK
  <1> QED  BY <1>1, PTL

\* A reader that is moved forward has a part of the entries it had.
LEMMA RestShrinks ==
    ASSUME SinkInv, SinkInv', pushed' = pushed, (ring').reader["rpc"].count <= ring.reader["rpc"].count
    PROVE  \A j \in Rest' : j \in Rest /\ pushed'[j] = pushed[j]
  <1>1. "rpc" \in Names
    BY DrainAssumption DEF Names
  <1>2. ring.reader["rpc"].count \in 0..Len(pushed) /\ Len(pushed) \in Nat
    BY <1>1, PushedFacts
  <1>3. (ring').reader["rpc"].count \in 0..Len(pushed')
    BY <1>1, PushedNext DEF PushedOK
  <1> QED  BY <1>2, <1>3 DEF Rest

\* Whatever the others do, the drain's next entries are later ones, or new.
LEMMA OthersKeepRest ==
    ASSUME SinkInv, SinkInv',
           Log \/ Maintain \/ AttachPop \/ DetachPop \/ \E space \in 1..EntrySpace : Pop(space)
    PROVE  /\ handled'["rpc"] = handled["rpc"] /\ sequence_id \in Nat /\ sequence_id' \in Nat
           /\ sequence_id <= sequence_id'
           /\ \A j \in Rest' : \/ pushed'[j].seq >= sequence_id
                               \/ j \in Rest /\ pushed'[j] = pushed[j]
  <1>0. "rpc" \in Names /\ "pop" \in Names /\ "pop" \in Drains /\ Numbered /\ sequence_id \in Nat
    <2>1. Numbered
      BY DEF SinkInv
    <2>2. sequence_id \in Nat
      BY <2>1, RingAssumption DEF Numbered
    <2> QED  BY <2>1, <2>2, DrainAssumption DEF Names
  <1>1. PICK s : AllSee(ring, pushed, s)
    BY DEF SinkInv
  <1>2. ring.reader["rpc"].count \in 0..Len(pushed) /\ Len(pushed) \in Nat
    BY <1>0, PushedFacts
  <1>3. ASSUME (ring').reader["rpc"].count <= ring.reader["rpc"].count, pushed' = pushed
        PROVE  \A j \in Rest' : j \in Rest /\ pushed'[j] = pushed[j]
    BY <1>3, RestShrinks
  <1>4. ASSUME NEW x, handled' = [handled EXCEPT !["pop"] = x] PROVE handled'["rpc"] = handled["rpc"]
    BY <1>0, <1>4 DEF Numbered
  <1>5. ring.reader["rpc"].count <= ring.reader["rpc"].count
    BY <1>2
  <1>6. ASSUME NEW kind \in Kinds, HandleEntry(kind)
        PROVE  /\ handled'["rpc"] = handled["rpc"] /\ sequence_id' = sequence_id + 1
               /\ \A j \in Rest' : \/ pushed'[j].seq >= sequence_id
                                   \/ j \in Rest /\ pushed'[j] = pushed[j]
    <2> DEFINE e == [seq |-> sequence_id, kind |-> kind]
    <2>1. /\ ring' = PushBack(ring, sequence_id, kind) /\ pushed' = Append(pushed, e)
          /\ handled' = handled /\ sequence_id' = sequence_id + 1
      BY <1>6 DEF HandleEntry
    <2>2. /\ AllSee(ring', pushed', Grown(pushed, s, SizeOf(kind)))
          /\ "rpc" \in Readers(ring) <=> "rpc" \in Readers(ring')
          /\ "rpc" \in Readers(ring) => (ring').reader["rpc"].count <= ring.reader["rpc"].count + 1
      BY <1>0, <1>1, <2>1, PushSees
    <2>3. (ring').reader["rpc"].count <= ring.reader["rpc"].count + 1
      <3>1. CASE "rpc" \in Readers(ring)
        BY <2>2, <3>1
      <3>2. CASE "rpc" \notin Readers(ring)
        <4>1. (ring').reader["rpc"] = Detached
          BY <1>0, <2>2, <3>2, ReaderFields
        <4> QED  BY <1>2, <4>1 DEF Detached
      <3> QED  BY <3>1, <3>2
    <2>4. (ring').reader["rpc"].count \in 0..Len(pushed')
      BY <1>0, PushedNext DEF PushedOK
    <2>5. pushed \in Seq(Entry)
      BY <1>1 DEF AllSee, Starts
    <2>6. Len(pushed') = Len(pushed) + 1 /\ pushed'[Len(pushed) + 1] = e
          /\ \A j \in 1..Len(pushed) : pushed'[j] = pushed[j]
      BY <2>1, <2>5
    <2>7. ASSUME NEW j \in Rest' PROVE pushed'[j].seq >= sequence_id \/ (j \in Rest /\ pushed'[j] = pushed[j])
      <3>1. CASE j = Len(pushed) + 1
        BY <1>0, <2>6, <3>1
      <3>2. CASE j # Len(pushed) + 1
        <4>1. j \in Len(pushed') + 1 - (ring').reader["rpc"].count..Len(pushed')
          BY DEF Rest
        <4>2. j \in Len(pushed) + 1 - ring.reader["rpc"].count..Len(pushed) /\ j \in 1..Len(pushed)
          <5> DEFINE L == Len(pushed)
                     M == Len(pushed')
                     c == ring.reader["rpc"].count
                     k == (ring').reader["rpc"].count
          <5>1. /\ L \in Nat /\ c \in 0..L /\ M = L + 1 /\ k \in 0..M /\ k <= c + 1
                /\ j # L + 1 /\ j \in M + 1 - k..M
            BY <1>2, <2>3, <2>4, <2>6, <3>2, <4>1
          <5> HIDE DEF L, M, c, k
          <5>2. j \in L + 1 - c..L /\ j \in 1..L
            BY <5>1
          <5> QED  BY <5>2 DEF L, c
        <4> QED  BY <2>6, <4>2 DEF Rest
      <3> QED  BY <3>1, <3>2
    <2> QED  BY <2>1, <2>7
  <1>7. CASE Log
    <2>1. CASE \E kind \in Kinds : HandleEntry(kind)
      BY <1>0, <1>6, <2>1
    <2>2. ASSUME NEW n \in 1..MaxDropped, HandleDropped(n)
          PROVE  /\ handled'["rpc"] = handled["rpc"] /\ sequence_id' = sequence_id + n
                 /\ \A j \in Rest' : j \in Rest /\ pushed'[j] = pushed[j]
      <3>1. ring' = ring /\ pushed' = pushed /\ handled' = handled /\ sequence_id' = sequence_id + n
        BY <2>2 DEF HandleDropped
      <3> QED  BY <1>3, <1>5, <3>1
    <2>3. ASSUME NEW n \in 1..MaxDropped PROVE sequence_id + n \in Nat /\ sequence_id <= sequence_id + n
      BY <1>0, RingAssumption
    <2>4. CASE \E n \in 1..MaxDropped : HandleDropped(n)
      BY <1>0, <2>2, <2>3, <2>4
    <2> QED  BY <1>7, <2>1, <2>4 DEF Log
  <1>8. CASE Maintain
    <2>1. UNCHANGED <<sequence_id, ingress_drops, handled, pushed>>
      BY <1>8 DEF Maintain, ClearSink, UnsafeForEachEntry
    <2>2. CASE ClearSink
      <3>1. ring' = [ring EXCEPT !.write = 0,
                                !.reader = [d \in DOMAIN @ |-> IF d \in Readers(ring)
                                              THEN [at |-> 0, count |-> 0] ELSE @[d]]]
        BY <2>2 DEF ClearSink
      <3>2. (ring').reader["rpc"].count = 0
        BY <1>0, <1>1, <3>1, ClearSees
      <3>3. (ring').reader["rpc"].count <= ring.reader["rpc"].count
        BY <1>2, <3>2
      <3> QED  BY <1>0, <1>3, <2>1, <3>3
    <2>3. CASE UnsafeForEachEntry
      <3>1. ring' = Dering(ring, "oldest")
        BY <2>3 DEF UnsafeForEachEntry
      <3>2. (ring').reader["rpc"].count = ring.reader["rpc"].count
        BY <1>0, <1>1, <3>1, DeringSees
      <3> QED  BY <1>0, <1>3, <1>5, <2>1, <3>2
    <2> QED  BY <1>8, <2>2, <2>3 DEF Maintain
  <1>9. CASE AttachPop
    <2>1. /\ ring.reader["pop"] = Detached /\ ring' = AttachReader(ring, "pop")
          /\ handled' = [handled EXCEPT !["pop"] = [seq |-> handled["oldest"].seq, ingress |-> 0]]
          /\ UNCHANGED <<sequence_id, ingress_drops, pushed>>
      BY <1>9 DEF AttachPop, AttachDrain
    <2>2. (ring').reader["rpc"] = ring.reader["rpc"]
      BY <1>0, <1>1, <2>1, AttachSees
    <2>3. handled'["rpc"] = handled["rpc"]
      BY <1>4, <2>1
    <2> QED  BY <1>0, <1>3, <1>5, <2>1, <2>2, <2>3
  <1>10. CASE DetachPop
    <2>1. ring' = [ring EXCEPT !.reader["pop"] = Detached] /\ UNCHANGED <<sequence_id, ingress_drops, handled, pushed>>
      BY <1>10 DEF DetachPop, DetachDrain
    <2>2. (ring').reader["rpc"] = ring.reader["rpc"]
      BY <1>0, <1>1, <2>1, DetachSees
    <2> QED  BY <1>0, <1>3, <1>5, <2>1, <2>2
  <1>11. ASSUME NEW space \in 1..EntrySpace, Pop(space)
         PROVE  /\ handled'["rpc"] = handled["rpc"] /\ sequence_id' = sequence_id
                /\ \A j \in Rest' : j \in Rest /\ pushed'[j] = pushed[j]
    <2> DEFINE p == PeekOrPopEntry("pop", space, TRUE)
    <2>1. /\ ring' = p.ring /\ handled' = [handled EXCEPT !["pop"] = p.handled]
          /\ UNCHANGED <<sequence_id, ingress_drops, pushed>>
      BY <1>11 DEF Pop
    <2>2. p.ring = ring \/ p.ring = PopFront(ring, "pop")
      BY DEF PeekOrPopEntry
    <2> HIDE DEF p
    <2>3. (PopFront(ring, "pop")).reader["rpc"] = ring.reader["rpc"]
      BY <1>0, <1>1, PopSees
    <2>4. (ring').reader["rpc"] = ring.reader["rpc"]
      BY <2>1, <2>2, <2>3
    <2>5. handled'["rpc"] = handled["rpc"]
      BY <1>4, <2>1
    <2> QED  BY <1>3, <1>5, <2>1, <2>4, <2>5
  <1>12. CASE \E space \in 1..EntrySpace : Pop(space)
    BY <1>0, <1>11, <1>12
  <1> QED  BY <1>7, <1>8, <1>9, <1>10, <1>12

\* Nothing the others do loses anything.
LEMMA OthersLoss ==
    ASSUME SinkInv, SinkInv', Loss,
           Log \/ Maintain \/ AttachPop \/ DetachPop \/ \E space \in 1..EntrySpace : Pop(space)
    PROVE  Loss'
  <1>1. UNCHANGED <<pc, counters, packet, entry, seen>>
    BY DEF Log, Maintain, AttachPop, DetachPop, Pop, drainVars
  <1>2. /\ handled'["rpc"] = handled["rpc"] /\ sequence_id \in Nat /\ sequence_id' \in Nat
        /\ sequence_id <= sequence_id'
        /\ \A j \in Rest' : \/ pushed'[j].seq >= sequence_id
                            \/ j \in Rest /\ pushed'[j] = pushed[j]
    BY OthersKeepRest
  <1>3. Lost' = Lost /\ Reported' = Reported /\ Done' = Done /\ Whole' = Whole
    BY <1>1, <1>2 DEF Lost, Reported, Done, Whole
  <1>4. ASSUME NEW j \in Rest' PROVE pushed'[j].seq \in Nat
    <2>1. Len(pushed') \in Nat /\ (ring').reader["rpc"].count \in 0..Len(pushed')
          /\ \A i \in 1..Len(pushed') : pushed'[i].seq \in Nat
      BY DrainAssumption, PushedNext DEF Names, PushedOK
    <2>2. j \in 1..Len(pushed')
      BY <2>1 DEF Rest
    <2> QED  BY <2>1, <2>2
  <1>5. Whole /\ pc = "again" => \A j \in Rest' : pushed'[j].seq >= entry.seq
    <2> SUFFICES ASSUME Whole, pc = "again", NEW j \in Rest' PROVE pushed'[j].seq >= entry.seq
      OBVIOUS
    <2>1. entry.seq \in Nat /\ entry.seq < sequence_id /\ \A i \in Rest : pushed[i].seq >= entry.seq
      BY DEF Loss
    <2> QED  BY <1>2, <1>4, <2>1
  <1>6. ASSUME Whole, pc = "pop", \A j \in Rest : pushed[j].seq > entry.seq
        PROVE  \A j \in Rest' : pushed'[j].seq > entry.seq
    <2> SUFFICES ASSUME NEW j \in Rest' PROVE pushed'[j].seq > entry.seq
      OBVIOUS
    <2>1. entry.seq \in Nat /\ entry.seq < sequence_id
      BY <1>6 DEF Loss
    <2> QED  BY <1>2, <1>4, <1>6, <2>1
  <1>7. entry.seq \in Nat /\ entry.seq < sequence_id => entry.seq < sequence_id'
    BY <1>2
  <1> QED  BY <1>1, <1>2, <1>3, <1>5, <1>6, <1>7 DEF Loss

-----------------------------------------------------------------------------
\* What the sink reports before an entry is added to the counts.
LEMMA MissedCounts ==
    ASSUME NEW c0 \in Counts, NEW p, p.drop \in Nat, p.ingress \in Nat
    PROVE  LET w == WithMissed([c0 EXCEPT !.ingress = @ + p.ingress], p)
           IN  /\ w \in Counts /\ w.stack = c0.stack /\ w.slow = c0.slow + p.drop
               /\ Counted(w) = Counted(c0) + (p.drop + p.ingress)
  <1> DEFINE w == WithMissed([c0 EXCEPT !.ingress = @ + p.ingress], p)
             a == p.drop
             b == p.ingress
  <1> DEFINE c1 == [c0 EXCEPT !.ingress = @ + b]
  <1>0. c1 = [slow |-> c0.slow, ingress |-> c0.ingress + b, stack |-> c0.stack, outbound |-> c0.outbound,
              writer |-> c0.writer]
    BY DEF Counts
  <1>1. w = [slow |-> c0.slow + a, ingress |-> c0.ingress + b, stack |-> c0.stack,
             outbound |-> c0.outbound, writer |-> c0.writer]
    <2>1. w = [c1 EXCEPT !.slow = @ + a]
      BY DEF WithMissed
    <2> HIDE DEF c1, w
    <2> QED  BY <1>0, <2>1
  <1>2. /\ c0.slow \in Nat /\ c0.ingress \in Nat /\ c0.stack \in Nat /\ c0.outbound \in Nat
        /\ c0.writer \in Nat /\ a \in Nat /\ b \in Nat
    BY DEF Counts
  <1> HIDE DEF w, a, b
  <1>3. w \in Counts
    BY <1>1, <1>2 DEF Counts
  <1>4. Counted(w) = Counted(c0) + (a + b)
    BY <1>1, <1>2 DEF Counted
  <1> QED  BY <1>1, <1>3, <1>4 DEF w, a, b

\* The drain does not lose ids by handling no new one and having more done with.
LEMMA LostShrinks ==
    ASSUME SinkInv, handled'["rpc"].seq = handled["rpc"].seq, Done \subseteq Done'
    PROVE  Lost' <= Lost /\ Lost \in Nat /\ Lost' \in Nat
  <1> DEFINE h == handled["rpc"].seq
             X == Done
             Y == Done'
  <1>1. h \in Int /\ h >= -1
    BY DrainAssumption DEF SinkInv, Numbered, Names
  <1>2. X \subseteq Y /\ h <= h /\ h - h = 0
    BY <1>1
  <1> HIDE DEF h, X, Y
  <1>3. /\ Cardinality(Missing(h, Y)) <= Cardinality(Missing(h, X)) + 0
        /\ Cardinality(Missing(h, X)) \in Nat /\ Cardinality(Missing(h, Y)) \in Nat
    BY <1>1, <1>2, MissingFacts, MissingGrows
  <1>4. Lost = Cardinality(Missing(h, X)) /\ Lost' = Cardinality(Missing(h, Y))
    BY DEF Lost, h, X, Y
  <1> QED  BY <1>3, <1>4

\* What is lost is bounded by the ids handled.
LEMMA LostFacts ==
    ASSUME SinkInv
    PROVE  Lost \in Nat /\ Lost <= handled["rpc"].seq + 1 /\ handled["rpc"].seq \in Int
           /\ handled["rpc"].seq >= -1 /\ handled["rpc"].seq <= sequence_id - 1
           /\ sequence_id \in Nat /\ sequence_id <= MaxEntries /\ MaxEntries \in Nat
  <1>1. handled["rpc"].seq \in -1..sequence_id - 1 /\ sequence_id \in 0..MaxEntries /\ MaxEntries \in Nat
    BY DrainAssumption, RingAssumption DEF SinkInv, Numbered, Names
  <1>2. handled["rpc"].seq \in Int /\ handled["rpc"].seq >= -1 /\ handled["rpc"].seq <= sequence_id - 1
        /\ sequence_id \in Nat /\ sequence_id <= MaxEntries
    BY <1>1
  <1> QED  BY <1>1, <1>2, MissingFacts DEF Lost

\* The entries after the front one are later ones.
LEMMA FrontIsFirst ==
    ASSUME SinkInv, ring.reader["rpc"].count # 0
    PROVE  LET i == Len(pushed) + 1 - ring.reader["rpc"].count
           IN  /\ i \in Rest /\ i \in 1..Len(pushed) /\ pushed[i].seq \in Nat
               /\ \A j \in Rest : pushed[j].seq \in Nat /\ (j = i \/ pushed[j].seq > pushed[i].seq)
  <1> DEFINE c == ring.reader["rpc"].count
             i == Len(pushed) + 1 - c
  <1>1. c \in 0..Len(pushed) /\ Len(pushed) \in Nat
    BY DrainAssumption, PushedFacts DEF Names
  <1>2. Rest = i..Len(pushed)
    BY DEF Rest
  <1>3. c # 0
    OBVIOUS
  <1> HIDE DEF c
  <1>4. i \in i..Len(pushed) /\ i \in 1..Len(pushed) /\ \A j \in i..Len(pushed) : j \in 1..Len(pushed) /\ (j = i \/ i < j)
    BY <1>1, <1>3
  <1> HIDE DEF i
  <1>5. \A j \in 1..Len(pushed) : pushed[j].seq \in Nat
    BY PushedFacts
  <1>6. \A j \in 1..Len(pushed) : i < j => pushed[i].seq < pushed[j].seq
    BY <1>4 DEF SinkInv, Numbered
  <1>7. \A j \in i..Len(pushed) : pushed[j].seq \in Nat /\ (j = i \/ pushed[j].seq > pushed[i].seq)
    BY <1>4, <1>5, <1>6
  <1> QED  BY <1>2, <1>4, <1>5, <1>7 DEF i, c

\* What the drain's peek gives.
LEMMA RpcPeek ==
    ASSUME SinkInv
    PROVE  LET p == PeekOrPopEntry("rpc", EntrySpace, FALSE)
               c == ring.reader["rpc"].count
               h == handled["rpc"].seq
               front == pushed[Len(pushed) + 1 - c]
           IN  /\ p.drop \in Nat /\ p.ingress \in Nat
               /\ c # 0 => front \in Entry /\ p.entry = front /\ front.seq > h /\ front.seq < sequence_id
               /\ \/ p.status = "small" /\ c # 0 /\ p.handled = handled["rpc"]
                  \/ /\ p.status = "empty" /\ c = 0 /\ p.drop + p.ingress = sequence_id - 1 - h
                     /\ p.ring = ring /\ p.handled.seq = sequence_id - 1
                  \/ /\ p.status = "ok" /\ c # 0 /\ p.drop + p.ingress = front.seq - h - 1
                     /\ p.ring = ring /\ p.handled.seq = h
  <1> DEFINE d == "rpc"
             pop == FALSE
  <1>1. d \in Drains /\ pop \in BOOLEAN /\ ~pop
    BY DrainAssumption
  <1> HIDE DEF d, pop
  <1>2. LET p == PeekOrPopEntry(d, EntrySpace, pop)
            c == ring.reader[d].count
            h == handled[d].seq
            front == pushed[Len(pushed) + 1 - c]
        IN  /\ p.drop \in Nat /\ p.ingress \in Nat
            /\ c # 0 => front \in Entry /\ p.entry = front /\ front.seq > h /\ front.seq < sequence_id
            /\ \/ p.status = "small" /\ c # 0 /\ p.handled = handled[d]
               \/ /\ p.status = "empty" /\ c = 0 /\ p.drop + p.ingress = sequence_id - 1 - h
                  /\ p.ring = ring /\ p.handled.seq = sequence_id - 1
               \/ /\ p.status = "ok" /\ c # 0 /\ p.drop + p.ingress = front.seq - h - 1
                  /\ p.ring = ring /\ p.handled.seq = h
    BY <1>1, PeekFacts
  <1> QED  BY <1>2 DEF d, pop

\* The count of what a slow drain missed has room for all ids (2^32 in the code).
SlowCountFits == counters.slow + MaxEntries < CounterRange

\* Steps after which no entry is peeked.
LEMMA IdleLoss ==
    ASSUME Loss, entry' = entry \/ entry' = NoEntry, pc' \notin {"again", "pop"},
           counters' \in Counts, seen' = seen, Whole => counters'.stack = 0,
           Whole /\ pc' # "crashed" => Lost' <= Reported'
    PROVE  Loss'
  <1>1. NoEntry \in [seq : Int, kind : Kinds \cup {"none"}]
    BY DEF NoEntry
  <1>2. Whole' = Whole
    BY DEF Whole
  <1> QED  BY <1>1, <1>2 DEF Loss

\* A peeked entry has an id.
LEMMA PeekedId ==
    ASSUME SinkInv
    PROVE  LET p == PeekOrPopEntry("rpc", EntrySpace, FALSE) IN p.status = "ok" => p.entry.seq \in Int
  <1> DEFINE p == PeekOrPopEntry("rpc", EntrySpace, FALSE)
  <1>1. p.status = "ok" => p.entry \in Entry
    BY RpcPeek
  <1> HIDE DEF p
  <1>2. p.status = "ok" => p.entry.seq \in Int
    BY <1>1 DEF Entry
  <1> QED  BY <1>2 DEF p

\* What Pack does to the packet.
LEMMA PackFacts ==
    ASSUME Packed, NEW used, NEW kind, NEW content \in Int, Pack(used, kind, content)
    PROVE  /\ {"packed", "entries", "told"} \subseteq DOMAIN packet'
           /\ packet'.told = packet.told
           /\ \/ pc' = "send" /\ packet'.packed = packet.packed /\ packet'.entries = packet.entries
              \/ pc' = "pop" /\ packet'.packed = packet.packed + 1 /\ packet'.entries = packet.entries \cup {content}
  <1> DEFINE v == used + (SizeOf(kind) + Frame)
  <1>1. CASE pc' = "send" /\ packet' = [packet EXCEPT !.used = used]
    BY <1>1 DEF Packed
  <1>2. CASE pc' = "pop" /\ packet' = [packet EXCEPT !.used = v, !.packed = @ + 1, !.entries = @ \cup {content}]
    <2> HIDE DEF v
    <2> QED  BY <1>2 DEF Packed
  <1> QED  BY <1>1, <1>2 DEF Pack

\* It keeps the count of the packet's entries.
LEMMA PackKeeps ==
    ASSUME Packed, NEW used, NEW kind, NEW content \in Int, Pack(used, kind, content)
    PROVE  Packed'
  <1> DEFINE E == packet.entries
             n == packet.packed
  <1>1. /\ {"packed", "entries", "told"} \subseteq DOMAIN packet'
        /\ packet'.told = packet.told /\ packet.told \in Nat
        /\ \/ pc' = "send" /\ packet'.packed = n /\ packet'.entries = E
           \/ pc' = "pop" /\ packet'.packed = n + 1 /\ packet'.entries = E \cup {content}
    BY PackFacts DEF Packed
  <1>2. IsFiniteSet(E) /\ E \in SUBSET Int /\ n \in Nat /\ Cardinality(E) <= n
    BY DEF Packed
  <1> HIDE DEF E, n
  <1>3. /\ IsFiniteSet(E \cup {content}) /\ E \cup {content} \in SUBSET Int
        /\ Cardinality(E \cup {content}) <= n + 1
    <2>1. /\ IsFiniteSet(E \cup {content})
          /\ Cardinality(E \cup {content}) = IF content \in E THEN Cardinality(E) ELSE Cardinality(E) + 1
      BY <1>2, FS_AddElement
    <2>2. Cardinality(E) \in Nat
      BY <1>2, FS_CardinalityType
    <2> QED  BY <1>2, <2>1, <2>2
  <1>4. pc' \notin {"start", "absent", "wait", "bundle"}
    BY <1>1
  <1>5. CASE packet'.packed = n /\ packet'.entries = E
    BY <1>1, <1>2, <1>4, <1>5 DEF Packed
  <1>6. CASE packet'.packed = n + 1 /\ packet'.entries = E \cup {content}
    <2>1. n + 1 \in Nat
      BY <1>2
    <2> QED  BY <1>1, <1>3, <1>4, <1>6, <2>1 DEF Packed
  <1> QED  BY <1>1, <1>5, <1>6

\* A step that leaves the counted part of the packet alone.
LEMMA SamePacket ==
    ASSUME Packed, {"packed", "entries", "told"} \subseteq DOMAIN packet', packet'.packed = packet.packed,
           packet'.told = packet.told, packet'.entries = packet.entries,
           \/ pc' = pc \/ pc' \notin {"start", "absent", "wait", "bundle"}
           \/ pc \in {"start", "absent", "wait", "bundle"}
    PROVE  Packed'
  BY DEF Packed

\* What the messages of a packet tell is a number.
LEMMA ToldFacts ==
    ASSUME SinkInv, counters \in Counts, packet.told \in Nat
    PROVE  LET p == PeekOrPopEntry("rpc", EntrySpace, FALSE)
               c == [counters EXCEPT !.ingress = @ + p.ingress]
               known == [WithMissed(c, p) EXCEPT !.slow = (@ - c.stack) % CounterRange]
               after == EncodeDropMessages([counters |-> known, used |-> packet.used, told |-> packet.told])
           IN  Min({after.told, MaxEntries}) \in Nat
  <1> DEFINE p == PeekOrPopEntry("rpc", EntrySpace, FALSE)
             c == [counters EXCEPT !.ingress = @ + p.ingress]
             w == WithMissed(c, p)
             v == w.slow - c.stack
             n == v % CounterRange
             known == [w EXCEPT !.slow = n]
             x == [counters |-> known, used |-> packet.used, told |-> packet.told]
             after == EncodeDropMessages(x)
  <1>1. p.drop \in Nat /\ p.ingress \in Nat
    BY RpcPeek
  <1> HIDE DEF p
  <1>2. w \in Counts
    BY <1>1, MissedCounts
  <1>3. c.stack \in Nat
    BY <1>1, SMTT(30) DEF Counts
  <1> HIDE DEF c, w
  <1>4. v \in Int
    BY <1>2, <1>3 DEF Counts
  <1> HIDE DEF v
  <1>5. n \in Nat
    <2>1. CounterRange \in Nat \ {0}
      BY DrainAssumption
    <2>2. n \in 0..CounterRange - 1
      BY <1>4, <2>1, ModFacts
    <2> HIDE DEF n
    <2> QED  BY <2>1, <2>2
  <1> HIDE DEF n
  <1>6. known \in Counts
    BY <1>2, <1>5 DEF Counts
  <1>7. known = [WithMissed(c, p) EXCEPT !.slow = (@ - c.stack) % CounterRange]
    BY <1>2 DEF w, n, v, Counts
  <1> HIDE DEF known
  <1>8. x.counters = known /\ x.told = packet.told
    OBVIOUS
  <1>9. after.told \in Nat
    <2> HIDE DEF x
    <2> QED  BY <1>6, <1>8, MessagesKeepCount
  <1> HIDE DEF after
  <1>10. Min({after.told, MaxEntries}) \in Nat
    <2>1. MaxEntries \in Nat
      BY RingAssumption
    <2>2. Min({after.told, MaxEntries}) = IF after.told <= MaxEntries THEN after.told ELSE MaxEntries
      BY <1>9, <2>1, MinOfTwo
    <2> QED  BY <1>9, <2>1, <2>2
  <1> QED  BY <1>7, <1>10 DEF after, c, p

\* Every step keeps the packet's entries counted.
LEMMA PackedStep ==
    ASSUME SinkInv, Packed, counters \in Counts, [Next]_vars
    PROVE  Packed'
  <1>1. ASSUME UNCHANGED packet, \/ pc' = pc \/ pc' \notin {"start", "absent", "wait", "bundle"}
                                 \/ pc \in {"start", "absent", "wait", "bundle"}
        PROVE  Packed'
    BY <1>1 DEF Packed
  <1>4. CASE Trickle
    <2>1. CASE packet' = [packet EXCEPT !.caught = FALSE, !.bundles = 0]
      <3>1. /\ {"packed", "entries", "told"} \subseteq DOMAIN packet' /\ packet'.packed = packet.packed
            /\ packet'.told = packet.told /\ packet'.entries = packet.entries
        BY <2>1 DEF Packed
      <3>2. pc \in {"start", "absent", "wait", "bundle"}
        BY <1>4 DEF Trickle
      <3> QED  BY <3>1, <3>2, SamePacket
    <2> QED  BY <1>1, <1>4, <2>1 DEF Trickle
  <1>5. CASE NextBundle
    <2>1. pc = "bundle" /\ packet.entries = {} /\ packet.told = 0
      BY <1>5 DEF NextBundle, Packed
    <2>2. CASE packet' = [packet EXCEPT !.used = 0, !.packed = 0]
      <3>1. /\ {"packed", "entries", "told"} \subseteq DOMAIN packet' /\ packet'.packed = 0
            /\ packet'.told = 0 /\ packet'.entries = {}
        BY <2>1, <2>2 DEF Packed
      <3>2. IsFiniteSet({}) /\ Cardinality({}) = 0
        BY FS_EmptySet
      <3> QED  BY <3>1, <3>2 DEF Packed
    <2> QED  BY <1>1, <1>5, <2>1, <2>2 DEF NextBundle
  <1>6. CASE Send
    <2>1. ASSUME {"packed", "entries", "told"} \subseteq DOMAIN packet', packet'.packed = packet.packed,
                 packet'.told = 0, packet'.entries = {}
          PROVE  Packed'
      <3>1. IsFiniteSet({}) /\ Cardinality({}) = 0
        BY FS_EmptySet
      <3>2. packet.packed \in Nat
        BY DEF Packed
      <3> QED  BY <2>1, <3>1, <3>2 DEF Packed
    <2>2. ASSUME NEW b, packet' = [packet EXCEPT !.bundles = b, !.entries = {}, !.told = 0] PROVE Packed'
      BY <2>1, <2>2 DEF Packed
    <2>3. CASE packet' = [packet EXCEPT !.entries = {}, !.told = 0]
      BY <2>1, <2>3 DEF Packed
    <2>4. \/ packet' = [packet EXCEPT !.bundles = packet.bundles + (IF packet.used = 0 THEN 0 ELSE 1),
                                     !.entries = {}, !.told = 0]
          \/ packet' = [packet EXCEPT !.entries = {}, !.told = 0]
      BY <1>6 DEF Send
    <2> QED  BY <2>2, <2>3, <2>4
  <1>7. CASE PeekAgain
    <2> DEFINE p == PeekOrPopEntry("rpc", EntrySpace, FALSE)
    <2>1. CASE p.status = "ok"
      <3>1. p.entry.seq \in Int
        BY <2>1, PeekedId
      <3>2. Pack(packet.used, entry.kind, p.entry.seq)
        BY <1>7, <2>1 DEF PeekAgain
      <3> HIDE DEF p
      <3> QED  BY <3>1, <3>2, PackKeeps
    <2>2. CASE p.status # "ok"
      BY <1>1, <1>7, <2>2 DEF PeekAgain
    <2> QED  BY <2>1, <2>2
  <1>9. CASE PeekEntry
    <2> DEFINE p == PeekOrPopEntry("rpc", EntrySpace, FALSE)
               c == [counters EXCEPT !.ingress = @ + p.ingress]
    <2>1. \/ pc' = pc /\ UNCHANGED packet
          \/ pc' = "pop" /\ UNCHANGED packet
          \/ pc' = "send" /\ packet' = [packet EXCEPT !.caught = TRUE]
          \/ p.status = "ok" /\ Report(p, c)
      BY <1>9 DEF PeekEntry
    <2>2. CASE pc' = "send" /\ packet' = [packet EXCEPT !.caught = TRUE]
      <3>1. /\ {"packed", "entries", "told"} \subseteq DOMAIN packet' /\ packet'.packed = packet.packed
            /\ packet'.told = packet.told /\ packet'.entries = packet.entries
        BY <2>2 DEF Packed
      <3> QED  BY <2>2, <3>1, SamePacket
    <2>3. CASE p.status = "ok" /\ Report(p, c)
      <3> DEFINE known == [WithMissed(c, p) EXCEPT !.slow = (@ - c.stack) % CounterRange]
                 after == EncodeDropMessages([counters |-> known, used |-> packet.used, told |-> packet.told])
                 t == Min({after.told, MaxEntries})
      <3>1. p.entry.seq \in Int
        BY <2>3, PeekedId
      <3>2. \/ Pack(packet.used, p.entry.kind, p.entry.seq)
            \/ pc' = "again" /\ packet' = [packet EXCEPT !.used = after.used, !.told = t]
        BY <2>3 DEF Report
      <3>3. CASE Pack(packet.used, p.entry.kind, p.entry.seq)
        <4> HIDE DEF p
        <4> QED  BY <3>1, <3>3, PackKeeps
      <3>4. CASE pc' = "again" /\ packet' = [packet EXCEPT !.used = after.used, !.told = t]
        <4>0. t \in Nat
          BY ToldFacts DEF Packed
        <4> HIDE DEF after, t
        <4>1. /\ {"packed", "entries", "told"} \subseteq DOMAIN packet' /\ packet'.packed = packet.packed
              /\ packet'.told = t /\ packet'.entries = packet.entries
          BY <3>4 DEF Packed
        <4> QED  BY <3>4, <4>0, <4>1 DEF Packed
      <3> QED  BY <3>2, <3>3, <3>4
    <2> QED  BY <1>1, <2>1, <2>2, <2>3
  <1>10. CASE \/ Run \/ PopPeeked \/ DelayEnds \/ Log \/ Maintain \/ Open \/ Close
              \/ AttachPop \/ DetachPop \/ (\E space \in 1..EntrySpace : Pop(space)) \/ UNCHANGED vars
    <2>1. UNCHANGED packet /\ (pc' = pc \/ pc = "start" \/ pc' = "peek")
      BY <1>10 DEF Run, PopPeeked, DelayEnds, Log, Maintain, Open, Close, AttachPop, DetachPop, Pop, vars, drainVars
    <2> QED  BY <1>1, <2>1
  <1> QED  BY <1>4, <1>5, <1>6, <1>7, <1>9, <1>10 DEF Next, Thread

\* RpcLogDrainThread::Run attaches the drain: nothing has been handled.
LEMMA RunLoss ==
    ASSUME SinkInv, Packed, Loss, Run
    PROVE  Loss'
  <1>1. /\ pc' = "wait" /\ UNCHANGED <<counters, packet, entry, seen>>
        /\ handled' = [handled EXCEPT !["rpc"] = [seq |-> handled["oldest"].seq, ingress |-> 0]]
    BY DEF Run, AttachDrain
  <1>2. handled'["rpc"].seq = -1
    BY <1>1, DrainAssumption DEF SinkInv, Numbered, Names
  <1> DEFINE k == -1
             X == Done'
  <1>3. k \in Int /\ k >= -1 /\ k + 1 = 0
    OBVIOUS
  <1>4. Lost' = Cardinality(Missing(k, X))
    BY <1>2 DEF Lost
  <1> HIDE DEF k, X
  <1>5. Lost' <= 0 /\ Lost' \in Nat
    BY <1>3, <1>4, MissingFacts
  <1>6. Reported' \in Nat
    BY <1>1, CountedType DEF Loss, Packed, Reported, Seen
  <1>7. Lost' <= Reported'
    BY <1>5, <1>6
  <1> QED  BY <1>1, <1>7, IdleLoss DEF Loss

\* A message's tally is cut off where no more can be lost.
LEMMA TallyIsEnough ==
    ASSUME NEW told \in Nat, NEW counted \in Nat, NEW need \in Nat,
           need <= MaxEntries, need <= told + counted
    PROVE  Min({told, MaxEntries}) \in Nat /\ need <= Min({told, MaxEntries}) + counted
  <1>1. MaxEntries \in Nat
    BY RingAssumption
  <1>2. Min({told, MaxEntries}) = IF told <= MaxEntries THEN told ELSE MaxEntries
    BY <1>1, MinOfTwo
  <1> QED  BY <1>1, <1>2

\* Steps of the thread and of the stream that leave the sink alone.
LEMMA QuietLoss ==
    ASSUME SinkInv, Packed, Loss, Trickle \/ NextBundle \/ DelayEnds \/ Open \/ Close \/ UNCHANGED vars
    PROVE  Loss'
  <1>1. UNCHANGED <<ring, sequence_id, handled, pushed, counters, entry, seen>>
    BY DEF Trickle, NextBundle, DelayEnds, Open, Close, vars, sinkVars, drainVars
  <1>2. packet'.entries = packet.entries /\ packet'.told = packet.told
    <2>1. CASE packet' = [packet EXCEPT !.caught = FALSE, !.bundles = 0]
      BY <2>1 DEF Packed
    <2>2. CASE packet' = [packet EXCEPT !.used = 0, !.packed = 0]
      BY <2>2 DEF Packed
    <2> QED  BY <2>1, <2>2 DEF Trickle, NextBundle, DelayEnds, Open, Close, vars, drainVars
  <1>3. Lost' = Lost /\ Done' = Done /\ Rest' = Rest /\ Reported' = Reported /\ Whole' = Whole
    BY <1>1, <1>2 DEF Lost, Done, Rest, Reported, Whole
  <1>4. CASE pc' = pc
    BY <1>1, <1>3, <1>4 DEF Loss
  <1>5. CASE pc # "crashed" /\ pc' \notin {"again", "pop"}
    BY <1>1, <1>3, <1>5, IdleLoss DEF Loss
  <1> QED  BY <1>4, <1>5 DEF Trickle, NextBundle, Returns, DelayEnds, Open, Close, vars, drainVars

\* The packet is sent: what was in it is now sent and told. Or it is not: its
\* entries are counted as the writer's, and drops it told of are lost with it.
LEMMA SendLoss ==
    ASSUME SinkInv, Packed, Loss, Send
    PROVE  Loss'
  <1>1. /\ pc = "send" /\ pc' \notin {"again", "pop"} /\ entry' = entry /\ handled' = handled
        /\ (Whole => counters.stack = 0 /\ Lost <= Reported)
        /\ entry \in [seq : Int, kind : Kinds \cup {"none"}]
    BY DEF Send, Returns, Loss, sinkVars
  <1>2. counters \in Counts /\ seen \in Seen /\ seen.told \in Nat
    BY DEF Loss, Seen
  <1>3. /\ packet.told \in Nat /\ packet.packed \in Nat /\ IsFiniteSet(packet.entries)
        /\ packet.entries \in SUBSET Int /\ Cardinality(packet.entries) <= packet.packed
    BY DEF Packed
  <1>4. Counted(counters) \in Nat
    BY <1>2, CountedType
  <1>5. Lost \in Nat /\ Lost <= MaxEntries
    <2> DEFINE l == Lost
               h == handled["rpc"].seq
    <2>1. l \in Nat /\ l <= h + 1 /\ h \in Int /\ h <= sequence_id - 1 /\ sequence_id \in Nat
          /\ sequence_id <= MaxEntries /\ MaxEntries \in Nat
      BY LostFacts
    <2> HIDE DEF l, h
    <2>2. l \in Nat /\ l <= MaxEntries
      BY <2>1
    <2> QED  BY <2>2 DEF l
  <1>6. CASE /\ \E b : packet' = [packet EXCEPT !.bundles = b, !.entries = {}, !.told = 0]
             /\ seen' = [seen EXCEPT !.sent = @ \cup packet.entries, !.told = Min({@ + packet.told, MaxEntries})]
             /\ counters' = counters
    <2> DEFINE t == Min({seen.told + packet.told, MaxEntries})
               told == seen.told + packet.told
               l == Lost
               n == Counted(counters)
    <2>1. packet'.entries = {} /\ packet'.told = 0
      BY <1>6 DEF Packed
    <2>2. told \in Nat
      BY <1>2, <1>3
    <2>3. t \in Nat
      <3>1. MaxEntries \in Nat
        BY RingAssumption
      <3> HIDE DEF told
      <3>2. Min({told, MaxEntries}) = IF told <= MaxEntries THEN told ELSE MaxEntries
        BY <2>2, <3>1, MinOfTwo
      <3>3. Min({told, MaxEntries}) \in Nat
        BY <2>2, <3>1, <3>2
      <3> QED  BY <3>3 DEF told
    <2>4. Whole => l <= t + n
      <3>1. Whole => l <= told + n
        BY <1>1 DEF Reported
      <3> HIDE DEF told, l, n
      <3>2. Whole => l <= Min({told, MaxEntries}) + n
        BY <1>4, <1>5, <2>2, <3>1, TallyIsEnough DEF l, n
      <3> QED  BY <3>2 DEF told
    <2>5. seen' = [seen EXCEPT !.sent = @ \cup packet.entries, !.told = t]
      BY <1>6
    <2> HIDE DEF t
    <2>6. seen' \in Seen /\ seen'.told = t /\ seen'.sent = seen.sent \cup packet.entries
          /\ seen'.filtered = seen.filtered /\ seen'.fits = seen.fits /\ seen'.intact = seen.intact
      BY <1>2, <1>3, <2>3, <2>5 DEF Seen
    <2>7. Done' = Done
      BY <2>1, <2>6 DEF Done
    <2>8. Lost' = Lost
      BY <1>1, <2>7 DEF Lost
    <2>9. Reported' = t + Counted(counters)
      BY <1>4, <1>6, <2>1, <2>3, <2>6 DEF Reported
    <2>10. Whole' = Whole
      BY <2>6 DEF Whole
    <2>11. Whole => Lost' <= Reported'
      BY <2>4, <2>8, <2>9
    <2> QED  BY <1>1, <1>2, <1>6, <2>6, <2>10, <2>11 DEF Loss
  <1>7. CASE /\ packet' = [packet EXCEPT !.entries = {}, !.told = 0]
             /\ seen' = [seen EXCEPT !.intact = @ /\ packet.told = 0]
             /\ counters' = [counters EXCEPT !.writer = @ + packet.packed]
    <2>1. packet'.entries = {} /\ packet'.told = 0
      BY <1>7 DEF Packed
    <2>2. /\ seen' \in Seen /\ seen'.told = seen.told /\ seen'.sent = seen.sent
          /\ seen'.filtered = seen.filtered /\ (Whole' => Whole /\ packet.told = 0)
      <3> DEFINE b == seen.intact /\ packet.told = 0
      <3>1. seen' = [seen EXCEPT !.intact = b] /\ b \in BOOLEAN /\ (b => seen.intact /\ packet.told = 0)
        BY <1>2, <1>7 DEF Seen
      <3> HIDE DEF b
      <3>2. /\ seen' \in Seen /\ seen'.told = seen.told /\ seen'.sent = seen.sent
            /\ seen'.filtered = seen.filtered /\ seen'.fits = seen.fits /\ seen'.intact = b
        BY <1>2, <3>1 DEF Seen
      <3> QED  BY <3>1, <3>2 DEF Whole
    <2>3. /\ counters' \in Counts /\ counters'.stack = counters.stack
          /\ Counted(counters') = Counted(counters) + packet.packed
      BY <1>2, <1>3, <1>7 DEF Counts, Counted
    <2> DEFINE h == handled["rpc"].seq
               E == packet.entries
               X == Done
               Y == Done'
               l == Lost
               m == Lost'
               n == packet.packed
    <2>4. l = Cardinality(Missing(h, X)) /\ m = Cardinality(Missing(h, Y)) /\ h \in Int /\ h >= -1
      BY <1>1, LostFacts DEF Lost
    <2>5. X \subseteq Y \cup E
      BY <2>1, <2>2 DEF Done
    <2>6. Cardinality(E) \in Nat /\ IsFiniteSet(E) /\ Cardinality(E) <= n /\ n \in Nat /\ l \in Nat
      BY <1>3, <1>5, FS_CardinalityType
    <2>7. m <= l + n
      <3> HIDE DEF h, E, X, Y, l, m, n
      <3>1. Cardinality(Missing(h, Y)) <= Cardinality(Missing(h, X)) + Cardinality(E)
            /\ Cardinality(Missing(h, Y)) \in Nat
        BY <2>4, <2>5, <2>6, MissingWithout, MissingFacts
      <3> QED  BY <2>4, <2>6, <3>1
    <2>8. m \in Nat
      BY <2>4, MissingFacts
    <2>9. ASSUME Whole' PROVE Lost' <= Reported' /\ counters'.stack = 0
      <3>1. Whole /\ packet.told = 0 /\ counters.stack = 0 /\ l <= seen.told + packet.told + Counted(counters)
        BY <1>1, <2>2, <2>9 DEF Reported
      <3>2. Reported' = seen.told + 0 + (Counted(counters) + n)
        BY <2>1, <2>2, <2>3 DEF Reported
      <3>3. m <= Reported'
        <4> HIDE DEF l, m, n
        <4> QED  BY <1>2, <1>4, <2>6, <2>7, <2>8, <3>1, <3>2
      <3> QED  BY <2>3, <3>1, <3>3
    <2> QED  BY <1>1, <2>2, <2>3, <2>9 DEF Loss
  <1>8. \/ /\ packet' = [packet EXCEPT !.bundles = packet.bundles + (IF packet.used = 0 THEN 0 ELSE 1),
                                      !.entries = {}, !.told = 0]
           /\ seen' = [seen EXCEPT !.sent = @ \cup packet.entries, !.told = Min({@ + packet.told, MaxEntries})]
           /\ counters' = counters
        \/ /\ packet' = [packet EXCEPT !.entries = {}, !.told = 0]
           /\ seen' = [seen EXCEPT !.intact = @ /\ packet.told = 0]
           /\ counters' = [counters EXCEPT !.writer = @ + packet.packed]
    BY DEF Send
  <1> QED  BY <1>6, <1>7, <1>8

\* The pop of the peeked entry. If it is still the front, it was packed or
\* filtered, so only the ids before it are added to what is lost.
LEMMA PopPeekedLoss ==
    ASSUME SinkInv, Packed, Loss, PopPeeked
    PROVE  Loss'
  <1>1. /\ pc = "pop" /\ pc' = "peek" /\ entry' = NoEntry /\ UNCHANGED <<sequence_id, pushed, counters, packet, seen>>
        /\ PopEntry("rpc", entry.seq)
    BY DEF PopPeeked
  <1>2. Done' = Done /\ Reported' = Reported
    BY <1>1 DEF Done, Reported
  <1>3. Whole => counters.stack = 0 /\ Lost <= Reported
    BY <1>1 DEF Loss
  <1>4. CASE UNCHANGED <<ring, handled>>
    <2>1. Lost' = Lost
      BY <1>2, <1>4 DEF Lost
    <2> QED  BY <1>1, <1>2, <1>3, <2>1, IdleLoss DEF Loss
  <1>5. CASE /\ ring.reader["rpc"].count > 0 /\ FrontEntry(ring, "rpc").seq = entry.seq
             /\ handled' = [handled EXCEPT !["rpc"].seq = entry.seq]
    <2> DEFINE h == handled["rpc"].seq
               k == entry.seq
               X == Done
               i == Len(pushed) + 1 - ring.reader["rpc"].count
    <2>1. ring.reader["rpc"].count # 0
      BY <1>5, DrainAssumption, PushedFacts DEF Names
    <2>2. pushed[i].seq = k /\ k \in Nat
      <3> DEFINE p == PeekOrPopEntry("rpc", EntrySpace, FALSE)
      <3>1. p.entry = FrontEntry(ring, "rpc")
        BY Zenon DEF PeekOrPopEntry
      <3>2. p.entry = pushed[i] /\ pushed[i] \in Entry
        BY <2>1, RpcPeek
      <3> QED  BY <1>5, <3>1, <3>2 DEF Entry
    <2>3. i \in Rest
      BY <2>1, FrontIsFirst
    <2>4. handled'["rpc"].seq = k
      <3>1. "rpc" \in DOMAIN handled /\ handled["rpc"] \in [seq : Int, ingress : Nat]
        BY DrainAssumption DEF SinkInv, Numbered, Names
      <3> QED  BY <1>5, <3>1
    <2>5. h \in Int /\ h >= -1 /\ Lost \in Nat
      BY LostFacts
    <2>6. Lost = Cardinality(Missing(h, X)) /\ Lost' = Cardinality(Missing(k, X))
      BY <1>2, <2>4 DEF Lost
    <2>7. ASSUME Whole PROVE Lost' <= Reported'
      <3>1. h < k /\ Lost + (k - h - 1) <= Reported
        BY <1>1, <2>7 DEF Loss
      <3>2. k \in X
        <4>1. k \in X \/ \A j \in Rest : pushed[j].seq > k
          BY <1>1, <2>7 DEF Loss
        <4>2. ~(k > k)
          BY <2>2
        <4> QED  BY <2>2, <2>3, <4>1, <4>2
      <3>3. Reported \in Int
        BY CountedType DEF Loss, Packed, Reported, Seen
      <3> HIDE DEF h, k, X
      <3>4. Cardinality(Missing(k, X)) <= Cardinality(Missing(h, X)) + (k - h - 1)
            /\ Cardinality(Missing(k, X)) \in Nat
        <4>1. k \in Int /\ h <= k /\ k >= -1
          BY <2>2, <2>5, <3>1
        <4> QED  BY <2>5, <3>1, <3>2, <4>1, MissingGrows, MissingFacts
      <3> QED  BY <1>2, <2>2, <2>5, <2>6, <3>1, <3>3, <3>4
    <2> QED  BY <1>1, <1>3, <2>7, IdleLoss DEF Loss
  <1> QED  BY <1>1, <1>4, <1>5 DEF PopEntry

\* The second look. What is packed is the front entry: the peeked one, or a later
\* one if that was pushed out, and then the pop will find it gone.
LEMMA PeekAgainLoss ==
    ASSUME SinkInv, Packed, Loss, PeekAgain
    PROVE  Loss'
  <1> DEFINE p == PeekOrPopEntry("rpc", EntrySpace, FALSE)
             h == handled["rpc"].seq
             i == Len(pushed) + 1 - ring.reader["rpc"].count
  <1>1. /\ pc = "again" /\ UNCHANGED <<sequence_id, pushed, counters, entry, seen>>
        /\ ring' = p.ring /\ handled' = [handled EXCEPT !["rpc"] = p.handled]
        /\ IF p.status = "ok" THEN Pack(packet.used, entry.kind, p.entry.seq)
           ELSE pc' = "crashed" /\ UNCHANGED packet
    BY DEF PeekAgain
  <1>2. CASE p.status # "ok"
    <2>1. pc' = "crashed" /\ seen' = seen
      BY <1>1, <1>2
    <2> QED  BY <1>1, <2>1, IdleLoss DEF Loss
  <1>3. CASE p.status = "ok"
    <2>1. /\ ring.reader["rpc"].count # 0 /\ p.entry = pushed[i] /\ pushed[i] \in Entry
          /\ ring' = ring /\ p.handled.seq = h
      BY <1>1, <1>3, RpcPeek
    <2>2. handled'["rpc"].seq = h
      <3>1. "rpc" \in DOMAIN handled
        BY DrainAssumption DEF SinkInv, Numbered, Names
      <3> QED  BY <1>1, <2>1, <3>1
    <2>3. Pack(packet.used, entry.kind, pushed[i].seq)
      BY <1>1, <1>3, <2>1
    <2> HIDE DEF p
    <2>4. Rest' = Rest
      BY <1>1, <2>1 DEF Rest
    <2>5. /\ i \in Rest /\ pushed[i].seq \in Nat
          /\ \A j \in Rest : pushed[j].seq \in Nat /\ (j = i \/ pushed[j].seq > pushed[i].seq)
      BY <2>1, FrontIsFirst
    <2>6. CASE pc' = "send" /\ packet'.entries = packet.entries /\ packet'.told = packet.told
      <3>1. Lost' = Lost /\ Reported' = Reported
        BY <1>1, <2>2, <2>6 DEF Lost, Reported, Done
      <3> QED  BY <1>1, <2>6, <3>1, IdleLoss DEF Loss
    <2>7. CASE pc' = "pop" /\ packet'.entries = packet.entries \cup {pushed[i].seq} /\ packet'.told = packet.told
      <3>1. /\ seen' \in Seen
            /\ Whole' = Whole /\ seen'.told = seen.told /\ Done' = Done \cup {pushed[i].seq}
        BY <1>1, <2>5, <2>7 DEF Loss, Done, Whole
      <3>2. Lost' <= Lost /\ Lost \in Nat /\ Lost' \in Nat
        BY <2>2, <3>1, LostShrinks
      <3>3. Reported' = Reported /\ Reported \in Int
        BY <1>1, <2>7, <3>1, CountedType DEF Reported, Loss, Packed, Seen
      <3>4. ASSUME Whole
            PROVE  /\ entry.seq \in Nat /\ h < entry.seq /\ entry.seq < sequence_id
                   /\ Lost + (entry.seq - h - 1) <= Reported /\ Lost <= Reported
                   /\ \A j \in Rest : pushed[j].seq >= entry.seq
        BY <1>1, <3>4 DEF Loss
      <3>5. ASSUME Whole PROVE entry.seq \in Done' \/ \A j \in Rest : pushed[j].seq > entry.seq
        <4>1. CASE pushed[i].seq = entry.seq
          BY <3>1, <4>1
        <4>2. CASE pushed[i].seq # entry.seq
          <5>1. pushed[i].seq > entry.seq /\ entry.seq \in Nat
            BY <2>5, <3>4, <3>5, <4>2
          <5>2. ASSUME NEW j \in Rest PROVE pushed[j].seq > entry.seq
            BY <2>5, <5>1
          <5> QED  BY <5>2
        <4> QED  BY <4>1, <4>2
      <3>6. ASSUME Whole PROVE Lost' + (entry.seq - h - 1) <= Reported /\ Lost' <= Reported
        <4> DEFINE e == entry.seq
                   l == Lost
                   m == Lost'
                   r == Reported
        <4>1. e \in Int /\ h \in Int /\ l + (e - h - 1) <= r /\ l <= r
          BY <3>4, <3>6, LostFacts
        <4>2. m <= l /\ m \in Int /\ l \in Int /\ r \in Int
          BY <3>2, <3>3
        <4> HIDE DEF e, h, l, m, r
        <4>3. m + (e - h - 1) <= r /\ m <= r
          BY <4>1, <4>2
        <4> QED  BY <4>3 DEF e, h, m, r
      <3>7. /\ counters' \in Counts /\ entry' \in [seq : Int, kind : Kinds \cup {"none"}]
            /\ Whole => counters'.stack = 0
        BY <1>1 DEF Loss
      <3> QED  BY <1>1, <2>2, <2>4, <2>7, <3>1, <3>3, <3>4, <3>5, <3>6, <3>7 DEF Loss
    <2>8. pushed[i].seq \in Int
      BY <2>5
    <2> QED  BY <2>3, <2>6, <2>7, <2>8, PackFacts
  <1> QED  BY <1>2, <1>3

\* The first look: what was missed before the front entry is counted or told.
LEMMA PeekEntryLoss ==
    ASSUME SinkInv, Packed, Loss, SlowCountFits, PeekEntry
    PROVE  Loss'
  <1> DEFINE p == PeekOrPopEntry("rpc", EntrySpace, FALSE)
             h == handled["rpc"].seq
             i == Len(pushed) + 1 - ring.reader["rpc"].count
             c == [counters EXCEPT !.ingress = @ + p.ingress]
             w == WithMissed(c, p)
             gap == p.drop + p.ingress
             tooLarge == SizeOf(p.entry.kind) + 2 * Frame > PacketSpace
  <1>1. /\ pc = "peek" /\ UNCHANGED <<sequence_id, pushed>>
        /\ ring' = p.ring /\ handled' = [handled EXCEPT !["rpc"] = p.handled]
        /\ entry' = IF p.status = "ok" THEN p.entry ELSE NoEntry
        /\ \/ /\ p.status = "small"
              /\ counters' = [c EXCEPT !.stack = @ + 1]
              /\ seen' = [seen EXCEPT !.fits = FALSE]
           \/ /\ p.status = "empty"
              /\ counters' = w /\ pc' = "send" /\ seen' = seen /\ packet' = [packet EXCEPT !.caught = TRUE]
           \/ /\ p.status = "ok" /\ counters' = w /\ packet' = packet
              /\ pc' = "pop" /\ seen' = [seen EXCEPT !.filtered = @ \cup {p.entry.seq}]
           \/ /\ p.status = "ok"
              /\ counters' = [c EXCEPT !.outbound = @ + 1]
              /\ pc' = "pop" /\ seen' = [seen EXCEPT !.fits = FALSE]
           \/ p.status = "ok" /\ Report(p, c) /\ seen' = seen
    BY DEF PeekEntry
  <1>2. /\ p.drop \in Nat /\ p.ingress \in Nat
        /\ ring.reader["rpc"].count # 0 =>
             pushed[i] \in Entry /\ p.entry = pushed[i] /\ pushed[i].seq > h /\ pushed[i].seq < sequence_id
        /\ \/ p.status = "small"
           \/ /\ p.status = "empty" /\ gap = sequence_id - 1 - h /\ p.handled.seq = sequence_id - 1
           \/ /\ p.status = "ok" /\ ring.reader["rpc"].count # 0 /\ gap = pushed[i].seq - h - 1
              /\ p.ring = ring /\ p.handled.seq = h
    BY RpcPeek
  <1> HIDE DEF p
  <1>3. counters \in Counts /\ seen \in Seen
        /\ (Whole => counters.stack = 0 /\ Lost <= Reported)
        /\ packet.told \in Nat
    BY <1>1 DEF Loss, Packed
  <1>4. /\ w \in Counts /\ w.stack = counters.stack /\ w.slow = counters.slow + p.drop
        /\ Counted(w) = Counted(counters) + gap
    BY <1>2, <1>3, MissedCounts
  <1>5. /\ c \in Counts /\ [c EXCEPT !.stack = @ + 1] \in Counts /\ [c EXCEPT !.outbound = @ + 1] \in Counts
        /\ c.stack = counters.stack /\ c.slow = counters.slow
    <2>1. c \in Counts /\ c.stack = counters.stack /\ c.slow = counters.slow
      BY <1>2, <1>3, SMTT(30) DEF Counts
    <2> HIDE DEF c
    <2>2. [c EXCEPT !.stack = @ + 1] \in Counts
      BY <2>1 DEF Counts
    <2>3. [c EXCEPT !.outbound = @ + 1] \in Counts
      BY <2>1 DEF Counts
    <2> QED  BY <2>1, <2>2, <2>3
  <1> HIDE DEF c, w
  <1>6. handled'["rpc"] = p.handled
    BY <1>1, DrainAssumption DEF SinkInv, Numbered, Names
  <1>7. Lost \in Nat /\ Lost <= h + 1 /\ h \in Int /\ h >= -1 /\ h <= sequence_id - 1
        /\ sequence_id \in Nat /\ sequence_id <= MaxEntries /\ MaxEntries \in Nat
    BY LostFacts
  <1>8. /\ Reported = seen.told + packet.told + Counted(counters) /\ seen.told \in Nat /\ packet.told \in Nat
        /\ Counted(counters) \in Nat /\ gap \in Nat
    BY <1>2, <1>3, CountedType, SMTT(30) DEF Reported, Seen
  <1>9. entry' \in [seq : Int, kind : Kinds \cup {"none"}]
    <2>1. NoEntry \in [seq : Int, kind : Kinds \cup {"none"}]
      BY DEF NoEntry
    <2>2. p.status = "ok" => p.entry \in [seq : Int, kind : Kinds \cup {"none"}]
      BY <1>2 DEF Entry
    <2> QED  BY <1>1, <2>1, <2>2
  <1>10. ASSUME counters' \in Counts, seen' = [seen EXCEPT !.fits = FALSE] PROVE Loss'
    <2>1. seen' \in Seen /\ ~Whole'
      BY <1>3, <1>10 DEF Seen, Whole
    <2> QED  BY <1>9, <1>10, <2>1 DEF Loss
  <1>11. CASE p.status = "empty"
    <2>1. /\ counters' = w /\ pc' = "send" /\ seen' = seen /\ entry' = NoEntry
          /\ handled'["rpc"].seq = sequence_id - 1 /\ packet' = [packet EXCEPT !.caught = TRUE]
      BY <1>1, <1>2, <1>6, <1>11
    <2>0. packet'.entries = packet.entries /\ packet'.told = packet.told
      BY <2>1 DEF Packed
    <2> DEFINE k == sequence_id - 1
               X == Done
               l == Lost
               m == Lost'
               r == Reported
    <2>2. Reported' = r + gap /\ gap = k - h
      BY <1>2, <1>4, <1>8, <1>11, <2>0, <2>1 DEF Reported
    <2>3. Done' = X
      BY <2>0, <2>1 DEF Done
    <2>4. k \in Int /\ k >= -1 /\ h <= k /\ X \subseteq X
      BY <1>7
    <2>5. l = Cardinality(Missing(h, X)) /\ m = Cardinality(Missing(k, X))
      BY <2>1, <2>3 DEF Lost
    <2>6. r \in Int
      BY <1>8
    <2> HIDE DEF h, k, X, l, m, r, gap
    <2>7. m <= l + (k - h) /\ m \in Nat /\ l \in Nat
      <3>1. Cardinality(Missing(k, X)) <= Cardinality(Missing(h, X)) + (k - h)
        BY <1>7, <2>4, MissingGrows
      <3> QED  BY <1>7, <2>4, <2>5, <3>1, MissingFacts
    <2>8. l <= r => m <= r + gap
      BY <1>7, <2>2, <2>4, <2>6, <2>7
    <2>9. Whole => Lost' <= Reported' /\ counters'.stack = 0
      BY <1>3, <1>4, <2>1, <2>2, <2>8 DEF l, m, r
    <2> QED  BY <1>4, <2>1, <2>9, IdleLoss
  <1>12. CASE p.status = "ok"
    <2>1. /\ ring.reader["rpc"].count # 0 /\ gap = pushed[i].seq - h - 1 /\ p.entry = pushed[i]
          /\ ring' = ring /\ handled'["rpc"].seq = h /\ entry' = pushed[i]
          /\ pushed[i].seq > h /\ pushed[i].seq < sequence_id /\ pushed[i].seq \in Nat
      BY <1>1, <1>2, <1>6, <1>12 DEF Entry
    <2>2. Rest' = Rest /\ pushed' = pushed /\ sequence_id' = sequence_id /\ entry' = pushed[i]
      BY <1>1, <2>1 DEF Rest
    <2>3. \A j \in Rest : pushed[j].seq >= pushed[i].seq
      BY <2>1, FrontIsFirst
    <2> DEFINE e == pushed[i].seq
               l == Lost
               m == Lost'
               need == l + gap
    <2>4. need \in Nat /\ need <= MaxEntries /\ gap = e - h - 1 /\ e \in Nat /\ h < e /\ l <= need
      <3>1. e \in Nat /\ e > h /\ e < sequence_id /\ gap = e - h - 1 /\ l \in Nat /\ l <= h + 1
        BY <1>7, <2>1
      <3> HIDE DEF e, l, h, gap
      <3> QED  BY <1>7, <1>8, <3>1
    \* Whatever the step adds to what is done with, the rest follows from the count.
    <2>5. ASSUME seen' \in Seen,
                 Whole' = Whole, Done \subseteq Done', counters' \in Counts, packet'.told \in Nat,
                 Whole => counters'.stack = 0 /\ need <= seen'.told + packet'.told + Counted(counters'),
                 pc' \in {"send", "again", "pop"}, pc' = "pop" => e \in Done'
          PROVE  Loss'
      <3>1. m <= l /\ m \in Nat /\ l \in Nat
        BY <2>1, <2>5, LostShrinks
      <3>2. Reported' = seen'.told + packet'.told + Counted(counters') /\ Reported' \in Int
        <4>1. Reported' = seen'.told + packet'.told + Counted(counters')
          BY DEF Reported
        <4>2. Counted(counters') \in Nat
          BY <2>5, CountedType
        <4>3. seen'.told \in Nat
          BY <2>5 DEF Seen
        <4> QED  BY <2>5, <4>1, <4>2, <4>3
      <3> DEFINE r == Reported'
      <3>3. ASSUME Whole PROVE m <= r /\ m + (e - h - 1) <= r
        <4>1. l + gap <= r /\ r \in Int
          BY <2>5, <3>2, <3>3
        <4> HIDE DEF l, m, e, h, gap, r
        <4> QED  BY <1>7, <1>8, <2>4, <3>1, <4>1
      <3>4. Whole' => /\ entry'.seq \in Nat /\ handled'["rpc"].seq < entry'.seq /\ entry'.seq < sequence_id'
                          /\ Lost' <= Reported' /\ Lost' + (entry'.seq - handled'["rpc"].seq - 1) <= Reported'
        BY <2>1, <2>2, <2>5, <3>3
      <3>5. \A j \in Rest' : pushed'[j].seq >= entry'.seq
        BY <2>2, <2>3
      <3>6. pc' = "pop" => entry'.seq \in Done'
        BY <2>2, <2>5
      <3>7. Whole' => counters'.stack = 0
        BY <2>5
      <3> HIDE DEF i, h, e, l, m, need, gap
      <3> QED  BY <1>9, <2>5, <3>4, <3>5, <3>6, <3>7 DEF Loss
    <2>6. ASSUME Whole PROVE need <= seen.told + packet.told + Counted(w) /\ w.stack = 0
      <3> DEFINE r == Reported
      <3>1. l <= r /\ r = seen.told + packet.told + Counted(counters)
        BY <1>3, <1>8, <2>6
      <3> HIDE DEF l, r, gap
      <3> QED  BY <1>3, <1>4, <1>7, <1>8, <2>6, <3>1 DEF l
    <2>7. CASE /\ counters' = w /\ pc' = "pop" /\ seen' = [seen EXCEPT !.filtered = @ \cup {p.entry.seq}]
               /\ packet' = packet
      <3>1. /\ seen' \in Seen
            /\ Whole' = Whole /\ seen'.told = seen.told /\ Done' = Done \cup {e}
        BY <1>3, <2>1, <2>7 DEF Done, Whole, Seen
      <3> HIDE DEF e, need
      <3> QED  BY <1>3, <1>4, <2>5, <2>6, <2>7, <3>1
    <2>8. CASE Report(p, c) /\ seen' = seen
      <3> DEFINE n == (w.slow - c.stack) % CounterRange
                 known == [w EXCEPT !.slow = n]
                 x == [counters |-> known, used |-> packet.used, told |-> packet.told]
                 after == EncodeDropMessages(x)
      <3>1. /\ counters' = after.counters
            /\ IF known = NoDrops THEN Pack(packet.used, p.entry.kind, p.entry.seq)
               ELSE /\ pc' = "again"
                    /\ packet' = [packet EXCEPT !.used = after.used, !.told = Min({after.told, MaxEntries})]
        <4>1. known = [WithMissed(c, p) EXCEPT !.slow = (@ - c.stack) % CounterRange]
          BY <1>4 DEF w, Counts
        <4> QED  BY <2>8, <4>1 DEF Report
      <3>2. /\ n \in Nat /\ (Whole => n = w.slow)
        <4> DEFINE v == w.slow - c.stack
        <4>1. CounterRange \in Nat \ {0} /\ v \in Int
          BY <1>4, <1>5, DrainAssumption DEF Counts
        <4>2. n \in 0..CounterRange - 1
          <5> HIDE DEF v
          <5>1. v % CounterRange \in 0..CounterRange - 1
            BY <4>1, ModFacts
          <5> QED  BY <5>1 DEF v
        <4>3. ASSUME Whole PROVE v \in 0..CounterRange - 1 /\ v = w.slow
          <5> DEFINE s == counters.slow
                     a == p.drop
          <5>1. v = w.slow /\ w.slow = s + a /\ s \in Nat /\ a \in Nat /\ s + MaxEntries < CounterRange
            <6>1. c.stack = 0
              BY <1>3, <1>5, <4>3
            <6> QED  BY <1>2, <1>3, <1>4, <6>1 DEF SlowCountFits, Counts
          <5>2. a <= MaxEntries
            <6> DEFINE b == p.ingress
            <6>1. a + b = gap /\ gap <= need /\ b \in Nat
              <7> HIDE DEF l
              <7> QED  BY <1>2, <1>7, <1>8, <2>4 DEF l
            <6> HIDE DEF a, b, gap, need
            <6> QED  BY <1>7, <1>8, <2>4, <5>1, <6>1
          <5> HIDE DEF v, s, a
          <5> QED  BY <1>7, <4>1, <5>1, <5>2
        <4> HIDE DEF v
        <4>4. Whole => v % CounterRange = w.slow
          BY <4>1, <4>3, ModFacts
        <4>5. n \in Nat
          <5> HIDE DEF n
          <5> QED  BY <4>1, <4>2
        <4> QED  BY <4>4, <4>5 DEF v
      <3> HIDE DEF n
      <3>3. known \in Counts /\ known.stack = w.stack /\ (Whole => known = w)
        BY <1>4, <3>2 DEF Counts
      <3> HIDE DEF known
      <3>4. /\ after.counters \in Counts /\ after.told \in Nat
            /\ after.told + Counted(after.counters) = packet.told + Counted(known)
            /\ known.stack = 0 => after.counters.stack = 0
            /\ known = NoDrops => after = x
        <4>1. x.counters = known /\ x.told = packet.told
          OBVIOUS
        <4> HIDE DEF x
        <4> QED  BY <1>8, <3>3, <4>1, MessagesKeepCount
      <3>5. Counted(after.counters) \in Nat
        BY <3>4, CountedType
      <3>6. x.counters = known
        OBVIOUS
      <3> HIDE DEF after, x
      <3>7. ASSUME Whole
            PROVE  after.counters.stack = 0 /\ need <= seen.told + after.told + Counted(after.counters)
        <4>1. known = w /\ need <= seen.told + packet.told + Counted(known) /\ known.stack = 0
          BY <2>6, <3>3, <3>7
        <4>2. Counted(known) \in Nat
          BY <3>3, CountedType
        <4> HIDE DEF need
        <4> QED  BY <1>8, <3>4, <3>5, <4>1, <4>2
      <3>8. CASE known = NoDrops
        <4>1. counters' = known /\ Pack(packet.used, p.entry.kind, p.entry.seq)
          BY <3>1, <3>4, <3>6, <3>8
        <4>2. Whole => counters'.stack = 0 /\ need <= seen.told + packet.told + Counted(counters')
          BY <2>6, <3>3, <4>1
        <4>3. p.entry.seq \in Int /\ p.entry.seq = e
          BY <2>1
        <4>4. /\ packet'.told = packet.told
              /\ \/ pc' = "send" /\ packet'.entries = packet.entries
                 \/ pc' = "pop" /\ packet'.entries = packet.entries \cup {e}
          <5>1. /\ packet'.told = packet.told
                /\ \/ pc' = "send" /\ packet'.entries = packet.entries
                   \/ pc' = "pop" /\ packet'.entries = packet.entries \cup {p.entry.seq}
            BY <4>1, <4>3, PackFacts
          <5> HIDE DEF e
          <5> QED  BY <4>3, <5>1
        <4>5. Done \subseteq Done' /\ (pc' = "pop" => e \in Done')
          <5> HIDE DEF e
          <5> QED  BY <2>8, <4>4 DEF Done
        <4> HIDE DEF need, e
        <4>6. Whole => counters'.stack = 0 /\ need <= seen'.told + packet'.told + Counted(counters')
          BY <2>8, <4>2, <4>4
        <4>7. counters' \in Counts /\ packet'.told \in Nat /\ pc' \in {"send", "again", "pop"}
          BY <1>8, <3>3, <4>1, <4>4
        <4>8. seen' \in Seen /\ Whole' = Whole
          BY <1>3, <2>8 DEF Whole
        <4> QED  BY <2>5, <4>5, <4>6, <4>7, <4>8
      <3>9. CASE known # NoDrops
        <4> DEFINE t == Min({after.told, MaxEntries})
        <4>1. counters' = after.counters /\ pc' = "again" /\ packet' = [packet EXCEPT !.used = after.used, !.told = t]
          BY <3>1, <3>9
        <4>2. t \in Nat
          <5>1. t = IF after.told <= MaxEntries THEN after.told ELSE MaxEntries
            BY <1>7, <3>4, MinOfTwo
          <5> QED  BY <1>7, <3>4, <5>1
        <4>3. Whole => need <= seen.told + t + Counted(after.counters)
          <5> DEFINE n1 == seen.told + Counted(after.counters)
          <5>1. n1 \in Nat
            BY <1>8, <3>5
          <5>2. Whole => need <= after.told + n1
            <6> HIDE DEF need
            <6> QED  BY <1>8, <2>4, <3>4, <3>5, <3>7
          <5>3. Whole => need <= t + n1
            <6> HIDE DEF need, n1
            <6> QED  BY <2>4, <3>4, <5>1, <5>2, TallyIsEnough
          <5> HIDE DEF need, t
          <5> QED  BY <1>8, <2>4, <3>5, <4>2, <5>3
        <4> HIDE DEF t
        <4>4. packet'.entries = packet.entries /\ packet'.told = t
          BY <4>1 DEF Packed
        <4>5. seen' \in Seen /\ Whole' = Whole /\ Done' = Done
          BY <1>3, <2>8, <4>4 DEF Whole, Done
        <4> HIDE DEF need, e
        <4> QED  BY <2>5, <2>8, <3>4, <3>7, <4>1, <4>2, <4>3, <4>4, <4>5
      <3> QED  BY <3>8, <3>9
    <2>9. CASE counters' = [c EXCEPT !.outbound = @ + 1] /\ seen' = [seen EXCEPT !.fits = FALSE]
      BY <1>5, <1>10, <2>9
    <2> QED  BY <1>1, <1>12, <2>7, <2>8, <2>9
  <1>13. CASE p.status = "small"
    BY <1>1, <1>5, <1>10, <1>13
  <1> QED  BY <1>2, <1>11, <1>12, <1>13

\* No entry is lost without a word, whatever the sizes of buffers and entries,
\* however loggers and the drain interleave and whichever writes fail, unless a
\* failed packet held drop messages, while the slow drain's count does not wrap.
THEOREM NothingLostSilently == Spec /\ []SlowCountFits => []NoSilentLoss
  <1>1. Init => SinkInv /\ Packed /\ Loss
    <2> SUFFICES ASSUME Init PROVE SinkInv /\ Packed /\ Loss
      OBVIOUS
    <2>1. SinkInv
      BY SinkInitInv DEF Init
    <2>2. Packed
      BY FS_EmptySet DEF Init, Packed
    <2>3. /\ counters = NoDrops /\ seen = [sent |-> {}, filtered |-> {}, told |-> 0, fits |-> TRUE, intact |-> TRUE]
          /\ packet.told = 0 /\ packet.entries = {}
          /\ entry = NoEntry /\ pc \in {"start", "absent"} /\ handled["rpc"].seq = -1
      BY DrainAssumption DEF Init, SinkInit
    <2> DEFINE k == -1
               X == Done
    <2>4. k \in Int /\ k >= -1 /\ k + 1 = 0
      OBVIOUS
    <2>5. Lost = Cardinality(Missing(k, X))
      BY <2>3 DEF Lost
    <2> HIDE DEF k, X
    <2>6. Lost <= 0 /\ Lost \in Nat
      BY <2>4, <2>5, MissingFacts
    <2>7. counters \in Counts /\ counters.stack = 0 /\ Reported = 0
      BY <2>3 DEF NoDrops, Counts, Reported, Counted
    <2>8. entry \in [seq : Int, kind : Kinds \cup {"none"}]
          /\ seen \in Seen
      BY <2>3 DEF NoEntry, Seen
    <2>9. Loss
      BY <2>3, <2>6, <2>7, <2>8 DEF Loss
    <2> QED  BY <2>1, <2>2, <2>9
  <1>2. SinkInv /\ Packed /\ Loss /\ SlowCountFits /\ [Next]_vars => (SinkInv /\ Packed /\ Loss)'
    <2> SUFFICES ASSUME SinkInv, Packed, Loss, SlowCountFits, [Next]_vars PROVE SinkInv' /\ Packed' /\ Loss'
      OBVIOUS
    <2>1. SinkInv' /\ Packed'
      BY SinkStep, PackedStep DEF Loss
    <2>2. Loss'
      BY <2>1, RunLoss, QuietLoss, SendLoss, PeekEntryLoss, PeekAgainLoss, PopPeekedLoss, OthersLoss DEF Next, Thread
    <2> QED  BY <2>1, <2>2
  <1>3. Loss => NoSilentLoss
    BY DEF Loss, NoSilentLoss, Lost, Reported, Done, Missing, Whole
  <1> QED  BY <1>1, <1>2, <1>3, PTL DEF Spec
==============================================================================
