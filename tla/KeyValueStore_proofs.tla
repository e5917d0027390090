------------------------ MODULE KeyValueStore_proofs ------------------------
(***************************************************************************)
(* The key-value store, for every number of keys, sectors, slots and       *)
(* copies, every garbage collection and recovery option, and any number of *)
(* torn writes, interrupted erases and losses of power: what the cache     *)
(* says is what the flash holds, and the store is an atomic map.           *)
(*                                                                         *)
(* The inductive invariant KvsInv is a conjunction over the parts of the   *)
(* state, each a predicate of the parts it speaks of, so that what one     *)
(* flash operation does to each is a lemma:                                *)
(*   FlashInv   entries in flash that share an id are copies of each other *)
(*              and their keys fit the cache;                              *)
(*   CacheInv   the addresses that the cache lists hold copies of the same *)
(*              entry in sectors of their own and, unless the flash may    *)
(*              hold an entry whose write was reported as failed, every    *)
(*              key in flash is cached, at least as new as in flash;       *)
(*   TxnInv     no entry is newer than the last transaction id;            *)
(*   SectorInv  the sectors' descriptors count copies and free slots;      *)
(*   OpInv      the addresses reserved for an entry in hand are erased, in *)
(*              sectors of their own, and not in the sector collected.     *)
(* It holds also if such a failed entry is in flash, as long as the cache  *)
(* has room for every key (RoomForKeys): the ids, the copies, the sectors' *)
(* accounts and the free sector do not depend on it.  What a Get reads and *)
(* the atomic map do (WritesAreChecked).                                   *)
(* With the power off only FlashInv is left, and the scan of Init()        *)
(* establishes the others again.  Progress says where a call is in its     *)
(* loops; it is an invariant of its own because every step changes the     *)
(* call and few of them change the rest.                                   *)
(*                                                                         *)
(* FreeSectorInv, last, is the invariant behind the free sector: unless a  *)
(* sector is out of use or a repair is still at work, some empty sector is *)
(* not reserved, or the garbage collection under way has one with room for *)
(* all that is left in the sector it collects, which it will erase.        *)
(***************************************************************************)
EXTENDS KeyValueStore, SequenceLemmas, FiniteSetTheorems, TLAPS

\* What flash holds, as functions of the flash: entries and where they are.
Contents == Values \cup {Tombstone}
Formats == IF Upgrade THEN {"old", "new"} ELSE {"new"}
Stored == [key : Keys, value : Contents, txn : Nat \ {0}, format : Formats]
Flash == {F \in [Sectors -> Seq(Stored \cup {Corrupt})] : \A s \in Sectors : Len(F[s]) <= Slots}
Entry(F, a) == F[a[1]][a[2]]
Live(F) == {a \in Addresses : a[2] \in DOMAIN F[a[1]] /\ Entry(F, a) # Corrupt}

Unique(F) ==
  \A a, b \in Live(F) :
    Entry(F, a).txn = Entry(F, b).txn =>
      Entry(F, a).key = Entry(F, b).key /\ Entry(F, a).value = Entry(F, b).value
KeysOf(F) == {Entry(F, a).key : a \in Live(F)}
\* If an entry may be in flash though its write is reported as failed, its key
\* is in flash and not in the cache, and the next Init() must have room for it.
RoomForKeys == "written" \in Faults => Cardinality(Keys) <= MaxEntries
FlashInv(F) == /\ F \in Flash /\ Unique(F) /\ RoomForKeys
               /\ Cardinality(KeysOf(F)) <= MaxEntries

\* The cache lists, for every key in flash, copies of its newest entry.
Descriptors == [value : Contents, txn : Nat \ {0}, addresses : Seq(Addresses)]
Apart(A) == \A i, j \in DOMAIN A : A[i][1] = A[j][1] => i = j
Lists(F, k, d, r) ==
  /\ d.addresses # <<>> /\ Len(d.addresses) <= r /\ Apart(d.addresses)
  /\ \A i \in DOMAIN d.addresses :
       LET a == d.addresses[i]
       IN  /\ a \in Live(F) /\ Entry(F, a).key = k
           /\ Entry(F, a).txn = d.txn /\ Entry(F, a).value = d.value
UpToDate(F, C) ==
  \A a \in Live(F) : C[Entry(F, a).key] # NoEntry /\ Entry(F, a).txn <= C[Entry(F, a).key].txn
CacheInv(F, C, r) ==
  /\ C \in [Keys -> Descriptors \cup {NoEntry}]
  /\ \A k \in Keys : C[k] # NoEntry => Lists(F, k, C[k], r)
  /\ "written" \notin Faults => UpToDate(F, C)

TxnInv(F, t) == t \in Nat /\ \A a \in Live(F) : Entry(F, a).txn <= t

\* The sectors' descriptors count copies and free slots.
Copies(C, s) == {k \in Keys : s \in SectorsOf(C[k].addresses)}
SectorInv(F, C, S) ==
  /\ S \in [Sectors -> [writable : -1..Slots, valid : Nat]]
  /\ \A s \in Sectors : /\ S[s].valid = Cardinality(Copies(C, s))
                        /\ S[s].writable # -1 => S[s].writable = Slots - Len(F[s])

\* The place of the next entry in a sector that has space for it.
Room(F, S, a) == a \in Addresses /\ a[2] = Len(F[a[1]]) + 1 /\ S[a[1]].writable >= 1

Fields == {"pc", "task", "key", "value", "reserved", "written", "then", "gc", "caller", "gcCount",
           "cursor", "pass", "todo", "heavy", "converted", "status", "source"}
Pcs == {"idle", "return", "find", "reserve", "write", "relocate", "erase", "repair", "free",
        "redundancy", "fill", "update", "convert", "sweep", "partial"}
Callers == {"reserve", "repair", "free", "sweep", "partial"}

CachedIn(C) == {k \in Keys : C[k] # NoEntry}

\* An entry is being written: some copies are listed, the others have a place.
Written(o, C) == IF o.then = "fill" THEN Len(C[o.key].addresses) ELSE o.written
Places(o, F, C, S, r) ==
  /\ o.key \in Keys /\ o.written \in Nat
  /\ o.reserved \in Seq(Addresses) /\ Apart(o.reserved)
  /\ Written(o, C) > 0 => C[o.key] # NoEntry /\ Len(C[o.key].addresses) = Written(o, C)
  /\ Written(o, C) <= Len(o.reserved)
  /\ \A i \in 1..Written(o, C) : o.reserved[i] = C[o.key].addresses[i]
  /\ \A i \in Written(o, C) + 1..Len(o.reserved) : Room(F, S, o.reserved[i])
  /\ Written(o, C) < r
Reserved(o, C, r) ==
  CASE o.pc = "fill" -> o.written = 0 /\ Len(o.reserved) = Written(o, C) + 1
    [] o.pc \in {"write", "convert"} -> Len(o.reserved) = r
    [] OTHER -> /\ o.written = 0 /\ Len(o.reserved) < r
                /\ o.then = "fill" => Len(o.reserved) = Written(o, C)
Version(o, F, C, t) ==
  CASE o.then = "fill" -> C[o.key] # NoEntry
    [] o.then = "write" ->
         /\ o.value \in Contents
         /\ IF o.written = 0 THEN C[o.key] # NoEntry \/ Cardinality(CachedIn(C)) < MaxEntries
            ELSE C[o.key].value = o.value /\ C[o.key].txn = t
    [] o.then = "convert" ->
         /\ Upgrade /\ C[o.key] # NoEntry
         /\ IF o.written = 0 THEN \A a \in Live(F) : Entry(F, a).txn < t
            ELSE C[o.key].txn = t
InHand(o, F, C, S, t, r) == Places(o, F, C, S, r) /\ Reserved(o, C, r) /\ Version(o, F, C, t)

\* The parts of what is known of the call in progress.
OpShape(o, C) == DOMAIN o = Fields /\ o.pc \in Pcs /\ o.todo \subseteq CachedIn(C)
OpHand(o, F, C, S, t, r) ==
  /\ o.then = "none" => /\ o.reserved = <<>> /\ o.written = 0
                        /\ o.pc \notin {"reserve", "write", "fill", "convert"}
  /\ o.then # "none" => /\ o.then \in {"write", "fill", "convert"}
                        /\ o.pc \in {"reserve", o.then, "relocate", "erase"}
                        /\ InHand(o, F, C, S, t, r)
OpCollects(o, C) ==
  /\ o.pc \in {"relocate", "erase"} =>
       /\ o.gc \in Sectors /\ o.gc \notin SectorsOf(o.reserved)
       /\ o.caller \in Callers /\ (o.caller = "reserve" <=> o.then # "none")
  /\ o.pc = "erase" => Copies(C, o.gc) = {}
OpWrites(o) ==
  /\ o.task = "Write" => /\ o.key \in Keys /\ o.value \in Contents
                         /\ o.pc \in {"find", "return"} \/ o.then = "write"
  /\ o.then = "write" \/ o.pc = "find" => o.task = "Write"
OpInv(o, F, C, S, t, r) ==
  OpShape(o, C) /\ OpHand(o, F, C, S, t, r) /\ OpCollects(o, C) /\ OpWrites(o)

DataInv(F, C, S, t, r) ==
  FlashInv(F) /\ CacheInv(F, C, r) /\ TxnInv(F, t) /\ SectorInv(F, C, S)

KvsInv ==
  /\ options.redundancy \in Redundancies /\ options.verify \in VerifyModes
  /\ primary \in Formats /\ lastNew \in Sectors /\ FlashInv(flash)
  /\ IF op.pc = "off" THEN op = Off /\ init = "none" /\ cache = NothingCached
     ELSE /\ init # "none"
          /\ DataInv(flash, cache, sectors, lastTxn, options.redundancy)
          /\ OpInv(op, flash, cache, sectors, lastTxn, options.redundancy)

-----------------------------------------------------------------------------
\* An entry, or what a torn write leaves, is appended to a sector.
Appended(G, F, a, e) == G = [F EXCEPT ![a[1]] = Append(@, e)]
\* One slot more is used in sector s.
Grown(G, F, s) == \A u \in Sectors : Len(G[u]) = Len(F[u]) + (IF u = s THEN 1 ELSE 0)

\* Addresses, and what lives at them.
LEMMA LiveFacts ==
    ASSUME NEW F \in Flash, NEW a \in Live(F)
    PROVE  /\ a \in Addresses /\ a[1] \in Sectors /\ a[2] \in 1..Slots /\ a = <<a[1], a[2]>>
           /\ a[2] \in 1..Len(F[a[1]]) /\ Entry(F, a) \in Stored
  <1>1. a \in Addresses /\ a[2] \in DOMAIN F[a[1]] /\ Entry(F, a) # Corrupt
    BY DEF Live
  <1>2. a[1] \in Sectors /\ a[2] \in 1..Slots /\ a = <<a[1], a[2]>>
    BY <1>1 DEF Addresses
  <1>3. F[a[1]] \in Seq(Stored \cup {Corrupt})
    BY <1>2 DEF Flash
  <1>4. DOMAIN F[a[1]] = 1..Len(F[a[1]])
    BY <1>3
  <1>5. F[a[1]][a[2]] \in Stored \cup {Corrupt}
    BY <1>1, <1>3
  <1> QED  BY <1>1, <1>2, <1>4, <1>5 DEF Entry

\* An entry is not what a torn write leaves.
LEMMA StoredFacts ==
    ASSUME NEW e \in Stored
    PROVE  e # Corrupt /\ e.key \in Keys /\ e.value \in Contents /\ e.txn \in Nat /\ e.txn # 0
  BY DEF Stored, Corrupt

\* Programming the next slot of a sector adds what is programmed and changes
\* nothing else.
LEMMA AppendFacts ==
    ASSUME NEW F \in Flash, NEW a \in Addresses, a[2] = Len(F[a[1]]) + 1,
           NEW e \in Stored \cup {Corrupt}, NEW G, Appended(G, F, a, e)
    PROVE  /\ G \in Flash /\ a \notin Live(F) /\ a[2] \notin DOMAIN F[a[1]]
           /\ Live(G) = Live(F) \cup (IF e = Corrupt THEN {} ELSE {a})
           /\ Entry(G, a) = e
           /\ \A b \in Live(F) : b \in Live(G) /\ Entry(G, b) = Entry(F, b)
           /\ Grown(G, F, a[1])
  <1> USE DEF Appended
  <1> DEFINE s == a[1]
             old == F[s]
             new == Append(old, e)
  <1>0a. a[1] \in Sectors /\ a[2] \in 1..Slots /\ a = <<a[1], a[2]>>
    BY DEF Addresses
  <1>0b. Slots \in Nat
    BY KvsAssumption
  <1>0. s \in Sectors /\ a[2] \in 1..Slots /\ a = <<s, a[2]>> /\ Slots \in Nat
    BY <1>0a, <1>0b
  <1>1. F \in [Sectors -> Seq(Stored \cup {Corrupt})] /\ old \in Seq(Stored \cup {Corrupt})
        /\ Len(old) \in Nat /\ DOMAIN old = 1..Len(old)
    BY <1>0 DEF Flash
  <1>2. /\ new \in Seq(Stored \cup {Corrupt}) /\ Len(new) = Len(old) + 1 /\ DOMAIN new = 1..Len(old) + 1
        /\ new[Len(old) + 1] = e /\ \A i \in 1..Len(old) : new[i] = old[i]
    BY <1>1
  <1>3. G = [F EXCEPT ![s] = new] /\ G[s] = new /\ \A u \in Sectors : u # s => G[u] = F[u]
    BY <1>0, <1>1
  <1> HIDE DEF new
  <1>4. G \in Flash
    <2>1. G \in [Sectors -> Seq(Stored \cup {Corrupt})]
      BY <1>0, <1>1, <1>2, <1>3
    <2>2. \A u \in Sectors : Len(G[u]) <= Slots
      <3>1. Len(new) <= Slots
        BY <1>0, <1>1, <1>2
      <3> QED  BY <1>3, <3>1 DEF Flash
    <2> QED  BY <2>1, <2>2 DEF Flash
  <1>5. Entry(G, a) = e /\ a[2] \in DOMAIN G[s] /\ a[2] \notin DOMAIN F[s] /\ a \notin Live(F)
    <2>1. a[2] = Len(old) + 1 /\ a[2] \notin 1..Len(old) /\ a[2] \in 1..Len(old) + 1
      BY <1>1
    <2> QED  BY <1>1, <1>2, <1>3, <2>1 DEF Entry, Live
  <1>6. ASSUME NEW b \in Addresses, b # a
        PROVE  /\ b[2] \in DOMAIN G[b[1]] <=> b[2] \in DOMAIN F[b[1]]
               /\ b[2] \in DOMAIN F[b[1]] => Entry(G, b) = Entry(F, b)
    <2>0. b[1] \in Sectors /\ b = <<b[1], b[2]>> /\ b[2] \in 1..Slots
      BY DEF Addresses
    <2>1. CASE b[1] # s
      BY <1>3, <2>0, <2>1 DEF Entry
    <2>2. CASE b[1] = s
      <3>1. b[2] # Len(old) + 1
        BY <1>0, <1>6, <2>0, <2>2
      <3>2. b[2] \in 1..Len(old) + 1 <=> b[2] \in 1..Len(old)
        BY <1>1, <2>0, <3>1
      <3> QED  BY <1>1, <1>2, <1>3, <2>2, <3>2 DEF Entry
    <2> QED  BY <2>1, <2>2
  <1>7. \A b \in Live(F) : b \in Live(G) /\ Entry(G, b) = Entry(F, b)
    BY <1>5, <1>6 DEF Live
  <1>8. Live(G) = Live(F) \cup (IF e = Corrupt THEN {} ELSE {a})
    <2>1. ASSUME NEW b \in Live(G) PROVE b \in Live(F) \/ (b = a /\ e # Corrupt)
      BY <1>5, <1>6 DEF Live
    <2>2. e # Corrupt => a \in Live(G)
      BY <1>5 DEF Live
    <2> QED  BY <1>7, <2>1, <2>2
  <1>9. \A u \in Sectors : Len(G[u]) = Len(F[u]) + (IF u = s THEN 1 ELSE 0)
    <2> SUFFICES ASSUME NEW u \in Sectors PROVE Len(G[u]) = Len(F[u]) + (IF u = s THEN 1 ELSE 0)
      OBVIOUS
    <2>1. CASE u = s
      BY <1>2, <1>3, <2>1
    <2>2. CASE u # s
      <3>1. Len(F[u]) \in Nat /\ G[u] = F[u]
        BY <1>1, <1>3, <2>2
      <3> QED  BY <2>2, <3>1
    <2> QED  BY <2>1, <2>2
  <1> QED  BY <1>4, <1>5, <1>7, <1>8, <1>9 DEF Grown

-----------------------------------------------------------------------------
(* Programming and erasing                                                 *)

\* G holds some of what F holds, and nothing else.
Within(G, F) == Live(G) \subseteq Live(F) /\ \A a \in Live(G) : Entry(G, a) = Entry(F, a)
\* G holds what F holds, and one entry more.
Plus(G, F, a, e) ==
  /\ a \in Addresses /\ a \notin Live(F) /\ Live(G) = Live(F) \cup {a} /\ Entry(G, a) = e
  /\ \A b \in Live(F) : Entry(G, b) = Entry(F, b)

\* The keys that flash holds are finitely many.
LEMMA KeysOfFinite ==
    ASSUME NEW F \in Flash
    PROVE  KeysOf(F) \subseteq Keys /\ IsFiniteSet(KeysOf(F)) /\ Cardinality(KeysOf(F)) \in Nat
           /\ IsFiniteSet(Keys)
  <1>1. KeysOf(F) \subseteq Keys
    BY LiveFacts, StoredFacts DEF KeysOf
  <1>2. IsFiniteSet(Keys)
    BY KvsAssumption
  <1> QED  BY <1>1, <1>2, FS_Subset, FS_CardinalityType

\* Sector s is erased; slots is what the erase leaves of it.
Erased(G, F, s, slots) == slots \in Remains(F[s]) \cup {<<>>} /\ G = [F EXCEPT ![s] = slots]

\* An erase, interrupted or not, touches one sector and leaves nothing new.
LEMMA EraseFacts ==
    ASSUME NEW F \in Flash, NEW s \in Sectors, NEW slots, NEW G, Erased(G, F, s, slots)
    PROVE  /\ G \in Flash /\ Within(G, F)
           /\ \A b \in Live(F) : b[1] # s => b \in Live(G)
           /\ G[s] = slots /\ \A u \in Sectors : u # s => G[u] = F[u]
  <1> USE DEF Erased
  <1> DEFINE old == F[s]
  <1>0. Slots \in Nat
    BY KvsAssumption
  <1>1. /\ F \in [Sectors -> Seq(Stored \cup {Corrupt})] /\ old \in Seq(Stored \cup {Corrupt})
        /\ Len(old) \in Nat /\ DOMAIN old = 1..Len(old) /\ Len(old) <= Slots
    BY DEF Flash
  <1>2. /\ slots \in Seq(Stored \cup {Corrupt}) /\ Len(slots) <= Slots
        /\ \A i \in DOMAIN slots : i \in DOMAIN old /\ slots[i] \in {old[i], Corrupt}
    <2>1. CASE slots = <<>>
      BY <1>0, <2>1
    <2>2. CASE slots # <<>>
      <3>1. PICK lost \in SUBSET (DOMAIN old) :
              slots = [i \in DOMAIN old |-> IF i \in lost THEN Corrupt ELSE old[i]]
        BY <2>2 DEF Remains
      <3>2. DOMAIN slots = 1..Len(old)
        BY <1>1, <3>1
      <3>3. \A i \in 1..Len(old) : slots[i] \in {old[i], Corrupt}
        BY <1>1, <3>1
      <3>4. \A i \in 1..Len(old) : slots[i] \in Stored \cup {Corrupt}
        BY <1>1, <3>3
      <3>5. slots = [i \in 1..Len(old) |-> slots[i]]
        BY <1>1, <3>1
      <3>6. slots \in Seq(Stored \cup {Corrupt})
        BY <1>1, <3>4, <3>5
      <3>7. Len(slots) = Len(old)
        BY <1>1, <3>2, <3>6
      <3> QED  BY <1>1, <3>2, <3>3, <3>6, <3>7
    <2> QED  BY <2>1, <2>2
  <1>3. G[s] = slots /\ \A u \in Sectors : u # s => G[u] = F[u]
    BY <1>1
  <1>4. G \in Flash
    <2>1. G \in [Sectors -> Seq(Stored \cup {Corrupt})]
      BY <1>1, <1>2
    <2>2. \A u \in Sectors : Len(G[u]) <= Slots
      BY <1>2, <1>3 DEF Flash
    <2> QED  BY <2>1, <2>2 DEF Flash
  <1>5. ASSUME NEW b \in Live(G) PROVE b \in Live(F) /\ Entry(G, b) = Entry(F, b)
    <2>1. b \in Addresses /\ b[1] \in Sectors /\ b[2] \in DOMAIN G[b[1]] /\ G[b[1]][b[2]] # Corrupt
      BY DEF Live, Addresses, Entry
    <2>2. CASE b[1] # s
      BY <1>3, <2>1, <2>2 DEF Live, Entry
    <2>3. CASE b[1] = s
      BY <1>2, <1>3, <2>1, <2>3 DEF Live, Entry
    <2> QED  BY <2>2, <2>3
  <1>6. \A b \in Live(F) : b[1] # s => b \in Live(G)
    <2> SUFFICES ASSUME NEW b \in Live(F), b[1] # s PROVE b \in Live(G)
      OBVIOUS
    <2>1. b[1] \in Sectors
      BY LiveFacts
    <2> QED  BY <1>3, <2>1 DEF Live, Entry
  <1> QED  BY <1>3, <1>4, <1>5, <1>6 DEF Within

\* A flash that holds a part of what another holds keeps what is known of it.
LEMMA WithinKeeps ==
    ASSUME NEW F, NEW G \in Flash, FlashInv(F), Within(G, F), NEW t
    PROVE  FlashInv(G) /\ (TxnInv(F, t) => TxnInv(G, t))
           /\ ((\A a \in Live(F) : Entry(F, a).txn < t) => \A a \in Live(G) : Entry(G, a).txn < t)
  <1>1. Unique(G)
    BY DEF FlashInv, Unique, Within
  <1>2. KeysOf(G) \subseteq KeysOf(F)
    BY DEF KeysOf, Within
  <1>3. IsFiniteSet(KeysOf(F)) /\ Cardinality(KeysOf(F)) \in Nat
    BY KeysOfFinite DEF FlashInv
  <1>4. Cardinality(KeysOf(G)) <= Cardinality(KeysOf(F)) /\ Cardinality(KeysOf(G)) \in Nat
    BY <1>2, <1>3, FS_Subset, KeysOfFinite
  <1>5. Cardinality(KeysOf(G)) <= MaxEntries
    <2>1. MaxEntries \in Nat
      BY KvsAssumption
    <2> QED  BY <1>3, <1>4, <2>1 DEF FlashInv
  <1>6. TxnInv(F, t) => TxnInv(G, t)
    BY DEF TxnInv, Within
  <1> QED  BY <1>1, <1>5, <1>6 DEF FlashInv, Within

\* A copy of an entry that is there already.
LEMMA CopyKeeps ==
    ASSUME NEW F, NEW G \in Flash, FlashInv(F), NEW a, NEW e \in Stored, Plus(G, F, a, e),
           NEW b \in Live(F), Entry(F, b).key = e.key, Entry(F, b).value = e.value, Entry(F, b).txn = e.txn,
           NEW t
    PROVE  FlashInv(G) /\ (TxnInv(F, t) => TxnInv(G, t))
           /\ ((\A c \in Live(F) : Entry(F, c).txn < t) => \A c \in Live(G) : Entry(G, c).txn < t)
  <1>1. \A c \in Live(G) : \E d \in Live(F) :
          Entry(G, c).key = Entry(F, d).key /\ Entry(G, c).value = Entry(F, d).value
          /\ Entry(G, c).txn = Entry(F, d).txn
    BY DEF Plus
  <1>2. Unique(G)
    BY <1>1 DEF FlashInv, Unique
  <1>3. KeysOf(G) = KeysOf(F)
    BY DEF KeysOf, Plus
  <1>4. TxnInv(F, t) => TxnInv(G, t)
    BY <1>1 DEF TxnInv
  <1>5. (\A c \in Live(F) : Entry(F, c).txn < t) => \A c \in Live(G) : Entry(G, c).txn < t
    BY <1>1
  <1> QED  BY <1>2, <1>3, <1>4, <1>5 DEF FlashInv

\* The same, for a caller that knows only that such an entry exists.
LEMMA CopyOfLive ==
    ASSUME NEW F, NEW G \in Flash, FlashInv(F), NEW a, NEW e \in Stored, Plus(G, F, a, e), NEW t, TxnInv(F, t),
           \E b \in Live(F) : Entry(F, b).key = e.key /\ Entry(F, b).value = e.value /\ Entry(F, b).txn = e.txn
    PROVE  FlashInv(G) /\ TxnInv(G, t)
  <1>1. PICK b \in Live(F) : Entry(F, b).key = e.key /\ Entry(F, b).value = e.value /\ Entry(F, b).txn = e.txn
    OBVIOUS
  <1> QED  BY <1>1, CopyKeeps

\* What the cache lists is in flash, and what is in flash is in the cache.
LEMMA CachedKeys ==
    ASSUME NEW F \in Flash, NEW C, NEW r, CacheInv(F, C, r), "written" \notin Faults
    PROVE  CachedIn(C) = KeysOf(F)
  <1>1. ASSUME NEW k \in CachedIn(C) PROVE k \in KeysOf(F)
    <2>1. k \in Keys /\ C[k] # NoEntry /\ C[k] \in Descriptors /\ Lists(F, k, C[k], r)
      BY DEF CachedIn, CacheInv
    <2>2. C[k].addresses \in Seq(Addresses) /\ C[k].addresses # <<>>
      BY <2>1 DEF Descriptors, Lists
    <2>3. 1 \in DOMAIN C[k].addresses
      BY <2>2
    <2> QED  BY <2>1, <2>3 DEF Lists, KeysOf
  <1>2. ASSUME NEW k \in KeysOf(F) PROVE k \in CachedIn(C)
    <2>1. PICK a \in Live(F) : k = Entry(F, a).key
      BY DEF KeysOf
    <2>2. k \in Keys
      BY <2>1, LiveFacts, StoredFacts
    <2> QED  BY <2>1, <2>2 DEF CachedIn, CacheInv, UpToDate
  <1> QED  BY <1>1, <1>2

\* A new entry, newer than all others.
LEMMA NewKeeps ==
    ASSUME NEW F, NEW G \in Flash, FlashInv(F), NEW a, NEW e \in Stored, Plus(G, F, a, e),
           NEW C, NEW r, CacheInv(F, C, r), \A b \in Live(F) : Entry(F, b).txn < e.txn,
           "written" \notin Faults => C[e.key] # NoEntry \/ Cardinality(CachedIn(C)) < MaxEntries
    PROVE  FlashInv(G) /\ TxnInv(G, e.txn)
  <1>0. F \in Flash /\ MaxEntries \in Nat /\ e.txn \in Nat /\ e.key \in Keys
    BY KvsAssumption, StoredFacts DEF FlashInv
  <1>1. \A b \in Live(F) : Entry(F, b).txn \in Nat
    BY <1>0, LiveFacts, StoredFacts
  <1>2. Unique(G)
    <2> SUFFICES ASSUME NEW b \in Live(G), NEW c \in Live(G), Entry(G, b).txn = Entry(G, c).txn
                 PROVE  Entry(G, b).key = Entry(G, c).key /\ Entry(G, b).value = Entry(G, c).value
      BY DEF Unique
    <2>1. CASE b \in Live(F) /\ c \in Live(F)
      BY <2>1 DEF Plus, FlashInv, Unique
    <2>2. CASE b = a /\ c = a
      BY <2>2
    <2>3. CASE b = a /\ c \in Live(F)
      <3>1. Entry(G, b) = e /\ Entry(G, c) = Entry(F, c)
        BY <2>3 DEF Plus
      <3>2. Entry(F, c).txn < e.txn /\ Entry(F, c).txn \in Nat
        BY <1>1, <2>3
      <3> QED  BY <1>0, <3>1, <3>2
    <2>4. CASE c = a /\ b \in Live(F)
      <3>1. Entry(G, c) = e /\ Entry(G, b) = Entry(F, b)
        BY <2>4 DEF Plus
      <3>2. Entry(F, b).txn < e.txn /\ Entry(F, b).txn \in Nat
        BY <1>1, <2>4
      <3> QED  BY <1>0, <3>1, <3>2
    <2> QED  BY <2>1, <2>2, <2>3, <2>4 DEF Plus
  <1>3. KeysOf(G) = KeysOf(F) \cup {e.key}
    BY DEF KeysOf, Plus
  <1>4. Cardinality(KeysOf(G)) <= MaxEntries
    <2>0. CASE "written" \in Faults
      <3>1. KeysOf(G) \subseteq Keys
        <4> SUFFICES ASSUME NEW b \in Live(G) PROVE Entry(G, b).key \in Keys
          BY DEF KeysOf
        <4> QED  BY LiveFacts, StoredFacts
      <3>2. IsFiniteSet(Keys) /\ Cardinality(Keys) <= MaxEntries
        BY <2>0, KvsAssumption DEF FlashInv, RoomForKeys
      <3>3. Cardinality(KeysOf(G)) <= Cardinality(Keys)
        BY <3>1, <3>2, FS_Subset
      <3>4. Cardinality(KeysOf(G)) \in Nat /\ Cardinality(Keys) \in Nat
        BY <3>1, <3>2, FS_Subset, FS_CardinalityType
      <3> QED  BY <1>0, <3>2, <3>3, <3>4
    <2>1. "written" \notin Faults => CachedIn(C) = KeysOf(F)
      BY <1>0, CachedKeys
    <2>2. IsFiniteSet(KeysOf(F)) /\ Cardinality(KeysOf(F)) \in Nat
      BY <1>0, KeysOfFinite
    <2>3. CASE e.key \in KeysOf(F)
      <3>1. KeysOf(G) = KeysOf(F)
        BY <1>3, <2>3
      <3> QED  BY <3>1 DEF FlashInv
    <2>4. CASE e.key \notin KeysOf(F) /\ "written" \notin Faults
      <3>1. Cardinality(KeysOf(F)) < MaxEntries
        BY <1>0, <2>1, <2>4 DEF CachedIn
      <3>2. Cardinality(KeysOf(G)) = Cardinality(KeysOf(F)) + 1
        BY <1>3, <2>2, <2>4, FS_AddElement
      <3> QED  BY <1>0, <2>2, <3>1, <3>2
    <2> QED  BY <2>0, <2>3, <2>4
  <1>5. TxnInv(G, e.txn)
    <2> SUFFICES ASSUME NEW b \in Live(G) PROVE Entry(G, b).txn <= e.txn
      BY <1>0 DEF TxnInv
    <2>1. CASE b = a
      BY <1>0, <2>1 DEF Plus
    <2>2. CASE b \in Live(F)
      <3>1. Entry(G, b) = Entry(F, b)
        BY <2>2 DEF Plus
      <3>2. Entry(F, b).txn < e.txn /\ Entry(F, b).txn \in Nat
        BY <1>1, <2>2
      <3> QED  BY <1>0, <3>1, <3>2
    <2> QED  BY <2>1, <2>2 DEF Plus
  <1> QED  BY <1>2, <1>4, <1>5 DEF FlashInv

-----------------------------------------------------------------------------
(* The cache                                                               *)

\* What is known of a key's descriptor.
LEMMA DescriptorFacts ==
    ASSUME NEW F, NEW C, NEW r, CacheInv(F, C, r), NEW k \in Keys, C[k] # NoEntry
    PROVE  /\ C[k] \in Descriptors /\ Lists(F, k, C[k], r)
           /\ C[k].value \in Contents /\ C[k].txn \in Nat \ {0} /\ C[k].addresses \in Seq(Addresses)
           /\ Len(C[k].addresses) \in Nat \ {0} /\ DOMAIN C[k].addresses = 1..Len(C[k].addresses)
           /\ C[k] = [value |-> C[k].value, txn |-> C[k].txn, addresses |-> C[k].addresses]
  <1>1. C[k] \in Descriptors /\ Lists(F, k, C[k], r)
    BY DEF CacheInv
  <1>2. /\ C[k].value \in Contents /\ C[k].txn \in Nat \ {0} /\ C[k].addresses \in Seq(Addresses)
        /\ C[k] = [value |-> C[k].value, txn |-> C[k].txn, addresses |-> C[k].addresses]
    BY <1>1 DEF Descriptors
  <1>3. C[k].addresses # <<>>
    BY <1>1 DEF Lists
  <1> QED  BY <1>1, <1>2, <1>3

\* The descriptor of a key that is not cached.
LEMMA NoEntryFacts ==
    /\ \A d \in Descriptors : d # NoEntry
    /\ NoEntry.addresses = <<>> /\ NoEntry.value = NoValue /\ NoEntry.txn = 0
    /\ SectorsOf(<<>>) = {}
  <1>1. \A d \in Descriptors : d # NoEntry
    BY DEF Descriptors, NoEntry
  <1> QED  BY <1>1 DEF NoEntry, SectorsOf, Range

\* The addresses of a descriptor change, and nothing else.
Readdressed(D, C, k, A) == D = [C EXCEPT ![k].addresses = A]
\* A descriptor with other addresses, written out.
LEMMA NewAddresses ==
    ASSUME NEW F, NEW C, NEW r, CacheInv(F, C, r), NEW k \in Keys, C[k] # NoEntry, NEW A, NEW D, Readdressed(D, C, k, A)
    PROVE  D = [C EXCEPT ![k] = [value |-> C[k].value, txn |-> C[k].txn, addresses |-> A]]
  <1>1. C[k] = [value |-> C[k].value, txn |-> C[k].txn, addresses |-> C[k].addresses]
    BY DescriptorFacts
  <1>2. [C[k] EXCEPT !.addresses = A] = [value |-> C[k].value, txn |-> C[k].txn, addresses |-> A]
    BY <1>1
  <1> QED  BY <1>2 DEF Readdressed

\* One descriptor changes.
LEMMA OneChanged ==
    ASSUME NEW F, NEW C, NEW r, CacheInv(F, C, r), NEW k \in Keys, NEW d, NEW D, D = [C EXCEPT ![k] = d]
    PROVE  D[k] = d /\ \A l \in Keys : l # k => D[l] = C[l]
  <1>1. C \in [Keys -> Descriptors \cup {NoEntry}]
    BY DEF CacheInv
  <1> QED  BY <1>1

\* The cache lists what has not been erased.
LEMMA CacheWithin ==
    ASSUME NEW F, NEW G, NEW C, NEW r, CacheInv(F, C, r), Within(G, F),
           \A k \in Keys : C[k] # NoEntry =>
             \A i \in DOMAIN C[k].addresses : C[k].addresses[i] \in Live(G)
    PROVE  CacheInv(G, C, r)
  <1>1. ASSUME NEW k \in Keys, C[k] # NoEntry PROVE Lists(G, k, C[k], r)
    <2>1. Lists(F, k, C[k], r)
      BY <1>1 DEF CacheInv
    <2> QED  BY <1>1, <2>1 DEF Lists, Within
  <1>2. "written" \notin Faults => UpToDate(G, C)
    BY DEF CacheInv, UpToDate, Within
  <1> QED  BY <1>1, <1>2 DEF CacheInv

\* A is a list of a and of addresses that d lists for the same version.
Relisted(A, a, d, e) ==
  \A i \in DOMAIN A : \/ A[i] = a
                      \/ /\ d # NoEntry /\ e.txn = d.txn /\ e.value = d.value
                         /\ \E j \in DOMAIN d.addresses : A[i] = d.addresses[j]
Newest(F, d, e) == (d # NoEntry /\ e.txn = d.txn) \/ \A b \in Live(F) : Entry(F, b).txn < e.txn

\* A descriptor changes together with the flash: to a new version or to one
\* that lists a copy more of the same one.
LEMMA CachePlus ==
    ASSUME NEW F \in Flash, NEW G, NEW C, NEW r, CacheInv(F, C, r), NEW a, NEW e \in Stored,
           Plus(G, F, a, e), NEW k, k = e.key, NEW A \in Seq(Addresses), NEW D,
           D = [C EXCEPT ![k] = [value |-> e.value, txn |-> e.txn, addresses |-> A]],
           A # <<>>, Len(A) <= r, Apart(A),
           Relisted(A, a, C[k], e), Newest(F, C[k], e)
    PROVE  CacheInv(G, D, r)
  <1>0. k \in Keys /\ e.value \in Contents /\ e.txn \in Nat \ {0}
    BY StoredFacts
  <1> DEFINE d == [value |-> e.value, txn |-> e.txn, addresses |-> A]
  <1>1. C \in [Keys -> Descriptors \cup {NoEntry}] /\ d \in Descriptors
    BY <1>0 DEF CacheInv, Descriptors
  <1>2. D \in [Keys -> Descriptors \cup {NoEntry}] /\ D[k] = d /\ \A l \in Keys : l # k => D[l] = C[l]
    <2> HIDE DEF d
    <2> QED BY <1>0, <1>1 DEF d
  <1>3. d.addresses = A /\ d.txn = e.txn /\ d.value = e.value /\ d # NoEntry
    BY <1>1, NoEntryFacts
  <1> HIDE DEF d
  <1>4. Lists(G, k, d, r)
    <2> SUFFICES ASSUME NEW i \in DOMAIN A
                 PROVE  /\ A[i] \in Live(G) /\ Entry(G, A[i]).key = k
                        /\ Entry(G, A[i]).txn = e.txn /\ Entry(G, A[i]).value = e.value
      BY <1>3 DEF Lists
    <2>1. CASE A[i] = a
      BY <2>1 DEF Plus
    <2>2. CASE /\ C[k] # NoEntry /\ e.txn = C[k].txn /\ e.value = C[k].value
               /\ \E j \in DOMAIN C[k].addresses : A[i] = C[k].addresses[j]
      <3>1. Lists(F, k, C[k], r)
        BY <1>0, <2>2 DEF CacheInv
      <3>2. PICK j \in DOMAIN C[k].addresses : A[i] = C[k].addresses[j]
        BY <2>2
      <3>3. /\ A[i] \in Live(F) /\ Entry(F, A[i]).key = k
            /\ Entry(F, A[i]).txn = e.txn /\ Entry(F, A[i]).value = e.value
        BY <2>2, <3>1, <3>2 DEF Lists
      <3> QED  BY <3>3 DEF Plus
    <2> QED  BY <2>1, <2>2 DEF Relisted
  <1>5. ASSUME NEW l \in Keys, D[l] # NoEntry PROVE Lists(G, l, D[l], r)
    <2>1. CASE l = k
      BY <1>2, <1>4, <2>1
    <2>2. CASE l # k
      <3>1. D[l] = C[l] /\ Lists(F, l, C[l], r)
        BY <1>2, <1>5, <2>2 DEF CacheInv
      <3> QED  BY <3>1 DEF Lists, Plus
    <2> QED  BY <2>1, <2>2
  <1>6. ASSUME "written" \notin Faults, NEW b \in Live(G)
        PROVE  D[Entry(G, b).key] # NoEntry /\ Entry(G, b).txn <= D[Entry(G, b).key].txn
    <2>1. CASE b = a
      <3>1. Entry(G, b) = e
        BY <2>1 DEF Plus
      <3> QED  BY <1>0, <1>2, <1>3, <3>1
    <2>2. CASE b \in Live(F)
      <3>1. Entry(G, b) = Entry(F, b) /\ Entry(F, b).key \in Keys /\ Entry(F, b).txn \in Nat
        BY <2>2, LiveFacts, StoredFacts DEF Plus
      <3>2. C[Entry(F, b).key] # NoEntry /\ Entry(F, b).txn <= C[Entry(F, b).key].txn
        BY <1>6, <2>2 DEF CacheInv, UpToDate
      <3>3. CASE Entry(F, b).key # k
        BY <1>2, <3>1, <3>2, <3>3
      <3>4. CASE Entry(F, b).key = k
        <4>1. Entry(F, b).txn <= e.txn
          BY <1>0, <2>2, <3>1, <3>2, <3>4 DEF Newest
        <4> QED  BY <1>2, <1>3, <3>1, <3>4, <4>1
      <3> QED  BY <3>3, <3>4
    <2> QED  BY <2>1, <2>2 DEF Plus
  <1> QED  BY <1>2, <1>5, <1>6 DEF CacheInv, UpToDate

-----------------------------------------------------------------------------
(* Sector descriptors                                                      *)

\* What is known of a sector's descriptor.
LEMMA SectorFacts ==
    ASSUME NEW F \in Flash, NEW C, SectorInv(F, C, sectors), NEW s \in Sectors
    PROVE  /\ sectors[s] = [writable |-> sectors[s].writable, valid |-> sectors[s].valid]
           /\ sectors[s].writable \in -1..Slots /\ sectors[s].valid \in Nat
           /\ Slots \in Nat \ {0} /\ Len(F[s]) \in 0..Slots
           /\ IsFiniteSet(Copies(C, s)) /\ sectors[s].valid = Cardinality(Copies(C, s))
           /\ sectors[s].valid = 0 => Copies(C, s) = {}
           /\ IsCorrupt(s) <=> sectors[s].writable = -1
           /\ Writable(s) \in 0..Slots /\ (sectors[s].writable >= 1 => Writable(s) = sectors[s].writable)
           /\ Writable(s) >= 1 => sectors[s].writable >= 1
           /\ sectors[s].writable >= 1 => Len(F[s]) = Slots - sectors[s].writable
  <1>1. sectors[s] \in [writable : -1..Slots, valid : Nat] /\ Slots \in Nat \ {0}
    BY KvsAssumption DEF SectorInv
  <1>2. F[s] \in Seq(Stored \cup {Corrupt}) /\ Len(F[s]) <= Slots
    BY DEF Flash
  <1>3. Len(F[s]) \in 0..Slots
    BY <1>1, <1>2
  <1>4. IsFiniteSet(Copies(C, s))
    <2>1. Copies(C, s) \subseteq Keys /\ IsFiniteSet(Keys)
      BY KvsAssumption DEF Copies
    <2> QED  BY <2>1, FS_Subset
  <1>5. sectors[s].valid = Cardinality(Copies(C, s))
    BY DEF SectorInv
  <1>6. sectors[s].valid = 0 => Copies(C, s) = {}
    BY <1>4, <1>5, FS_EmptySet
  <1>7. IsCorrupt(s) <=> sectors[s].writable = -1
    BY DEF IsCorrupt, kCorruptSector
  <1>8. sectors[s].writable # -1 => sectors[s].writable = Slots - Len(F[s])
    BY DEF SectorInv
  <1>9. /\ sectors[s] = [writable |-> sectors[s].writable, valid |-> sectors[s].valid]
        /\ sectors[s].writable \in -1..Slots /\ sectors[s].valid \in Nat
    BY <1>1
  <1>10. /\ Writable(s) \in 0..Slots /\ (sectors[s].writable >= 1 => Writable(s) = sectors[s].writable)
         /\ Writable(s) >= 1 => sectors[s].writable >= 1
    BY <1>1, <1>7, <1>9 DEF Writable
  <1>11. sectors[s].writable >= 1 => Len(F[s]) = Slots - sectors[s].writable
    BY <1>1, <1>3, <1>8, <1>9
  <1> QED  BY <1>1, <1>3, <1>4, <1>5, <1>6, <1>7, <1>9, <1>10, <1>11

\* The operations of SectorDescriptor.
LEMMA FilledFacts ==
    ASSUME NEW w \in -1..Slots, NEW v \in Nat, NEW sd, sd = [writable |-> w, valid |-> v], Slots \in Nat
    PROVE  /\ Filled(sd) = [writable |-> IF w <= 0 THEN 0 ELSE w - 1, valid |-> v + 1]
           /\ RemoveValid(sd) = [writable |-> w, valid |-> IF v = 0 THEN 0 ELSE v - 1]
           /\ RemoveValid(Filled(sd)) = [writable |-> IF w <= 0 THEN 0 ELSE w - 1, valid |-> v]
           /\ MarkCorrupt(sd) = [writable |-> -1, valid |-> v]
  <1>1. Filled(sd) = [writable |-> IF w <= 0 THEN 0 ELSE w - 1, valid |-> v + 1]
    BY DEF Filled
  <1>2. RemoveValid(sd) = [writable |-> w, valid |-> IF v = 0 THEN 0 ELSE v - 1]
    BY DEF RemoveValid
  <1>3. RemoveValid(Filled(sd)) = [writable |-> IF w <= 0 THEN 0 ELSE w - 1, valid |-> v]
    <2> DEFINE x == IF w <= 0 THEN 0 ELSE w - 1
    <2> HIDE DEF x
    <2>1. Filled(sd) = [writable |-> x, valid |-> v + 1]
      BY <1>1 DEF x
    <2>2. RemoveValid([writable |-> x, valid |-> v + 1]) = [writable |-> x, valid |-> IF v + 1 = 0 THEN 0 ELSE v + 1 - 1]
      BY DEF RemoveValid
    <2>3. (IF v + 1 = 0 THEN 0 ELSE v + 1 - 1) = v
      OBVIOUS
    <2> QED  BY <2>1, <2>2, <2>3 DEF x
  <1>4. MarkCorrupt(sd) = [writable |-> -1, valid |-> v]
    BY DEF MarkCorrupt, kCorruptSector
  <1> QED  BY <1>1, <1>2, <1>3, <1>4

\* The copies of k in the sectors stale are no longer listed, one in s is.
Relocates(C, D, k, s, stale) ==
  /\ \A l \in Keys : l # k => D[l].addresses = C[l].addresses
  /\ stale \subseteq SectorsOf(C[k].addresses)
  /\ SectorsOf(D[k].addresses) = (SectorsOf(C[k].addresses) \ stale) \cup {s}
  /\ s \in SectorsOf(C[k].addresses) => s \in stale

\* Writing an entry at s keeps the account of every sector: stale are the
\* sectors in which a copy of the key is no longer listed.
LEMMA AccountedKeeps ==
    ASSUME NEW F \in Flash, NEW C, SectorInv(F, C, sectors), NEW G \in Flash, NEW D,
           NEW k \in Keys, NEW s \in Sectors, sectors[s].writable >= 1, NEW stale,
           Relocates(C, D, k, s, stale), Grown(G, F, s)
    PROVE  SectorInv(G, D, Accounted(s, stale))
  <1> DEFINE S == Accounted(s, stale)
             A == SectorsOf(C[k].addresses)
  <1>0. /\ \A l \in Keys : l # k => D[l].addresses = C[l].addresses
        /\ stale \subseteq A /\ (s \in A => s \in stale)
        /\ SectorsOf(D[k].addresses) = (A \ stale) \cup {s}
    BY DEF Relocates
  <1>1. ASSUME NEW u \in Sectors
        PROVE  /\ S[u] \in [writable : -1..Slots, valid : Nat]
               /\ S[u].valid = Cardinality(Copies(D, u))
               /\ S[u].writable # -1 => S[u].writable = Slots - Len(G[u])
    <2> DEFINE w == sectors[u].writable
               v == sectors[u].valid
    <2>1. /\ sectors[u] = [writable |-> w, valid |-> v] /\ w \in -1..Slots /\ v \in Nat
          /\ Slots \in Nat \ {0} /\ Len(F[u]) \in 0..Slots
          /\ IsFiniteSet(Copies(C, u)) /\ v = Cardinality(Copies(C, u))
      BY SectorFacts
    <2>2. w # -1 => w = Slots - Len(F[u])
      BY DEF SectorInv
    <2>3. S[u] = IF u \in stale THEN RemoveValid(IF u = s THEN Filled(sectors[u]) ELSE sectors[u])
                 ELSE (IF u = s THEN Filled(sectors[u]) ELSE sectors[u])
      BY DEF Accounted
    <2> DEFINE x == IF w <= 0 THEN 0 ELSE w - 1
    <2>4. /\ Filled(sectors[u]) = [writable |-> x, valid |-> v + 1]
          /\ RemoveValid(sectors[u]) = [writable |-> w, valid |-> IF v = 0 THEN 0 ELSE v - 1]
          /\ RemoveValid(Filled(sectors[u])) = [writable |-> x, valid |-> v]
      <3> HIDE DEF w, v
      <3> QED  BY <2>1, FilledFacts
    <2>5. \A l \in Keys : l # k => (l \in Copies(C, u) <=> l \in Copies(D, u))
      BY <1>0 DEF Copies
    <2>6. k \in Copies(C, u) <=> u \in A
      BY DEF Copies
    <2>7. k \in Copies(D, u) <=> (u \in A /\ u \notin stale) \/ u = s
      BY <1>0 DEF Copies
    <2>8. u = s => w >= 1
      OBVIOUS
    <2>8a. w >= 1 => x = w - 1
      <3>1. w \in Int
        BY <2>1
      <3> HIDE DEF w
      <3> QED  BY <3>1
    <2>9. Copies(C, u) \subseteq Keys /\ Copies(D, u) \subseteq Keys
      BY DEF Copies
    <2>10. Len(G[u]) = Len(F[u]) + (IF u = s THEN 1 ELSE 0)
      BY DEF Grown
    <2> HIDE DEF w, v, S, x
    <2>11. CASE u = s /\ u \in stale
      <3>1. S[u] = [writable |-> x, valid |-> v]
        BY <2>3, <2>4, <2>11
      <3>2. Copies(D, u) = Copies(C, u)
        <4>0. u \in A
          BY <1>0, <2>11
        <4>1. k \in Copies(D, u) <=> k \in Copies(C, u)
          BY <2>6, <2>7, <2>11, <4>0
        <4>2. \A l : l \in Copies(D, u) <=> l \in Copies(C, u)
          BY <2>5, <2>9, <4>1
        <4> QED  BY <4>2
      <3>3. x = w - 1 /\ x \in -1..Slots /\ x = Slots - Len(G[u])
        <4>1. w >= 1 /\ w = Slots - Len(F[u]) /\ Len(G[u]) = Len(F[u]) + 1
          BY <2>1, <2>2, <2>8, <2>10, <2>11
        <4>2. w \in Int /\ Len(F[u]) \in Int /\ Len(G[u]) \in Int /\ Slots \in Int /\ Len(F[u]) >= 0
          BY <2>1, <4>1
        <4>3. x = w - 1
          BY <2>8a, <4>1
        <4>4. w - 1 \in -1..Slots /\ w - 1 = Slots - Len(G[u])
          BY <4>1, <4>2
        <4> QED  BY <4>3, <4>4
      <3> QED  BY <2>1, <3>1, <3>2, <3>3
    <2>12. CASE u = s /\ u \notin stale
      <3>1. S[u] = [writable |-> x, valid |-> v + 1]
        BY <2>3, <2>4, <2>12
      <3>2. Copies(D, u) = Copies(C, u) \cup {k} /\ k \notin Copies(C, u)
        BY <1>0, <2>5, <2>6, <2>7, <2>9, <2>12
      <3>3. x = w - 1 /\ x \in -1..Slots /\ x = Slots - Len(G[u])
        <4>1. w >= 1 /\ w = Slots - Len(F[u]) /\ Len(G[u]) = Len(F[u]) + 1
          BY <2>1, <2>2, <2>8, <2>10, <2>12
        <4>2. w \in Int /\ Len(F[u]) \in Int /\ Len(G[u]) \in Int /\ Slots \in Int /\ Len(F[u]) >= 0
          BY <2>1, <4>1
        <4>3. x = w - 1
          BY <2>8a, <4>1
        <4>4. w - 1 \in -1..Slots /\ w - 1 = Slots - Len(G[u])
          BY <4>1, <4>2
        <4> QED  BY <4>3, <4>4
      <3>4. Cardinality(Copies(D, u)) = v + 1
        BY <2>1, <3>2, FS_AddElement
      <3> QED  BY <2>1, <3>1, <3>3, <3>4
    <2>13. CASE u # s /\ u \in stale
      <3>1. S[u] = [writable |-> w, valid |-> IF v = 0 THEN 0 ELSE v - 1]
        BY <2>3, <2>4, <2>13
      <3>2. Copies(D, u) = Copies(C, u) \ {k} /\ k \in Copies(C, u)
        <4>1. k \in Copies(C, u) /\ k \notin Copies(D, u)
          BY <1>0, <2>6, <2>7, <2>13
        <4>2. \A l : l \in Copies(D, u) <=> l \in Copies(C, u) /\ l # k
          BY <2>5, <2>9, <4>1
        <4> QED  BY <4>1, <4>2
      <3>3. Cardinality(Copies(D, u)) = v - 1
        <4>1. IsFiniteSet(Copies(C, u)) /\ k \in Copies(C, u)
          BY <2>1, <3>2
        <4>2. Cardinality(Copies(C, u) \ {k}) = Cardinality(Copies(C, u)) - 1
          BY ONLY <4>1, FS_RemoveElement
        <4> QED  BY <2>1, <3>2, <4>2
      <3>4. Cardinality(Copies(D, u)) \in Nat
        BY <2>1, <3>2, FS_RemoveElement, FS_CardinalityType
      <3>5. Len(G[u]) = Len(F[u])
        BY <2>1, <2>10, <2>13
      <3> QED  BY <2>1, <2>2, <3>1, <3>3, <3>4, <3>5
    <2>14. CASE u # s /\ u \notin stale
      <3>1. S[u] = [writable |-> w, valid |-> v]
        BY <2>1, <2>3, <2>14
      <3>2. Copies(D, u) = Copies(C, u)
        <4>1. k \in Copies(D, u) <=> k \in Copies(C, u)
          BY <1>0, <2>6, <2>7, <2>14
        <4>2. \A l : l \in Copies(D, u) <=> l \in Copies(C, u)
          BY <2>5, <2>9, <4>1
        <4> QED  BY <4>2
      <3>3. Len(G[u]) = Len(F[u])
        BY <2>1, <2>10, <2>14
      <3> QED  BY <2>1, <2>2, <3>1, <3>2, <3>3
    <2> QED  BY <2>11, <2>12, <2>13, <2>14
  <1>2. S \in [Sectors -> [writable : -1..Slots, valid : Nat]]
    <2>1. S = [u \in Sectors |-> S[u]]
      BY DEF Accounted
    <2> HIDE DEF S
    <2> QED  BY <1>1, <2>1, FunctionInto
  <1> HIDE DEF S
  <1>3. SectorInv(G, D, S)
    BY <1>1, <1>2 DEF SectorInv
  <1> QED  BY <1>3 DEF S

\* A sector in which an operation failed is no longer written to.
LEMMA MarkCorruptKeeps ==
    ASSUME NEW F \in Flash, NEW C, SectorInv(F, C, sectors), NEW G, NEW s \in Sectors,
           \A u \in Sectors : u # s => Len(G[u]) = Len(F[u])
    PROVE  SectorInv(G, C, [sectors EXCEPT ![s] = MarkCorrupt(@)])
  <1> DEFINE S == [sectors EXCEPT ![s] = MarkCorrupt(@)]
             v == sectors[s].valid
             w == sectors[s].writable
  <1>1. sectors \in [Sectors -> [writable : -1..Slots, valid : Nat]]
    BY DEF SectorInv
  <1>2. v \in Nat /\ Slots \in Nat /\ w \in -1..Slots /\ sectors[s] = [writable |-> w, valid |-> v]
    BY SectorFacts
  <1>3. MarkCorrupt(sectors[s]) = [writable |-> -1, valid |-> v]
    <2> HIDE DEF w, v
    <2> QED  BY <1>2, FilledFacts
  <1>4. S = [sectors EXCEPT ![s] = [writable |-> -1, valid |-> v]]
    BY <1>3
  <1>5. [writable |-> -1, valid |-> v] \in [writable : -1..Slots, valid : Nat]
    BY <1>2
  <1>6. S \in [Sectors -> [writable : -1..Slots, valid : Nat]]
    BY <1>1, <1>4, <1>5
  <1>7. S[s] = [writable |-> -1, valid |-> v] /\ \A u \in Sectors : u # s => S[u] = sectors[u]
    BY <1>1, <1>4
  <1> HIDE DEF S
  <1> QED  BY <1>6, <1>7 DEF SectorInv, S

\* An erased sector is empty again.
LEMMA ErasedKeeps ==
    ASSUME NEW F \in Flash, NEW C, SectorInv(F, C, sectors), NEW G, NEW s \in Sectors,
           G[s] = <<>>, \A u \in Sectors : u # s => G[u] = F[u]
    PROVE  SectorInv(G, C, [sectors EXCEPT ![s].writable = Slots])
  <1> DEFINE S == [sectors EXCEPT ![s].writable = Slots]
             v == sectors[s].valid
             w == sectors[s].writable
  <1>1. sectors \in [Sectors -> [writable : -1..Slots, valid : Nat]]
    BY DEF SectorInv
  <1>2. v \in Nat /\ Slots \in Nat /\ sectors[s] = [writable |-> w, valid |-> v]
    BY SectorFacts
  <1>3. [sectors[s] EXCEPT !.writable = Slots] = [writable |-> Slots, valid |-> v]
    <2> HIDE DEF w, v
    <2> QED  BY <1>2
  <1>4. S = [sectors EXCEPT ![s] = [writable |-> Slots, valid |-> v]]
    BY <1>3
  <1>5. [writable |-> Slots, valid |-> v] \in [writable : -1..Slots, valid : Nat]
    BY <1>2
  <1>6. S \in [Sectors -> [writable : -1..Slots, valid : Nat]]
    BY <1>1, <1>4, <1>5
  <1>7. S[s] = [writable |-> Slots, valid |-> v] /\ \A u \in Sectors : u # s => S[u] = sectors[u]
    BY <1>1, <1>4
  <1>8. Slots = Slots - Len(G[s])
    BY <1>2
  <1> HIDE DEF S
  <1> QED  BY <1>6, <1>7, <1>8 DEF SectorInv, S

-----------------------------------------------------------------------------
(* Writing an entry or a copy                                              *)

\* The sectors of a list of addresses.
LEMMA SectorsOfMember ==
    ASSUME NEW A \in Seq(Addresses), NEW s
    PROVE  s \in SectorsOf(A) <=> \E i \in DOMAIN A : A[i][1] = s
  BY DEF SectorsOf, Range

\* The sectors of a list with an address more.
LEMMA SectorsOfAppend ==
    ASSUME NEW A \in Seq(Addresses), NEW a \in Addresses
    PROVE  /\ <<a>> \in Seq(Addresses) /\ SectorsOf(<<a>>) = {a[1]} /\ Apart(<<a>>)
           /\ Append(A, a) \in Seq(Addresses) /\ SectorsOf(Append(A, a)) = SectorsOf(A) \cup {a[1]}
           /\ Apart(A) /\ a[1] \notin SectorsOf(A) => Apart(Append(A, a))
  <1>1. <<a>> \in Seq(Addresses) /\ SectorsOf(<<a>>) = {a[1]} /\ Apart(<<a>>)
    <2>1. <<a>> \in Seq(Addresses) /\ DOMAIN <<a>> = {1} /\ <<a>>[1] = a
      OBVIOUS
    <2> QED  BY <2>1 DEF SectorsOf, Range, Apart
  <1> DEFINE B == Append(A, a)
             n == Len(A)
  <1>2. /\ B \in Seq(Addresses) /\ n \in Nat /\ DOMAIN A = 1..n /\ DOMAIN B = 1..n + 1
        /\ B[n + 1] = a /\ \A i \in 1..n : B[i] = A[i]
    OBVIOUS
  <1> HIDE DEF B, n
  <1>3. DOMAIN B = DOMAIN A \cup {n + 1} /\ n + 1 \notin DOMAIN A
    BY <1>2
  <1>4. SectorsOf(B) = SectorsOf(A) \cup {a[1]}
    <2>1. \A s : s \in SectorsOf(B) <=> \E i \in DOMAIN B : B[i][1] = s
      BY <1>2 DEF SectorsOf, Range
    <2>2. \A s : s \in SectorsOf(A) <=> \E i \in DOMAIN A : A[i][1] = s
      BY DEF SectorsOf, Range
    <2>3. \A s : s \in SectorsOf(B) <=> s \in SectorsOf(A) \/ s = a[1]
      BY <1>2, <1>3, <2>1, <2>2
    <2> QED  BY <2>3
  <1>5. ASSUME Apart(A), a[1] \notin SectorsOf(A) PROVE Apart(B)
    <2> SUFFICES ASSUME NEW i \in DOMAIN B, NEW j \in DOMAIN B, B[i][1] = B[j][1] PROVE i = j
      BY DEF Apart
    <2>1. \A l \in DOMAIN A : A[l][1] # a[1]
      BY <1>5, SectorsOfMember
    <2>2. CASE i \in DOMAIN A /\ j \in DOMAIN A
      BY <1>2, <1>5, <2>2 DEF Apart
    <2>3. CASE i = n + 1 \/ j = n + 1
      BY <1>2, <1>3, <2>1, <2>3
    <2> QED  BY <1>3, <2>2, <2>3
  <1> QED  BY <1>1, <1>2, <1>4, <1>5 DEF B

\* The sectors of a list in which one address is replaced.
LEMMA SectorsOfMove ==
    ASSUME NEW A \in Seq(Addresses), NEW a \in Addresses, NEW i \in DOMAIN A, Apart(A),
           a[1] \notin SectorsOf(A), NEW B, B = [A EXCEPT ![i] = a]
    PROVE  /\ B \in Seq(Addresses) /\ Len(B) = Len(A) /\ DOMAIN B = DOMAIN A /\ Apart(B)
           /\ B[i] = a /\ \A j \in DOMAIN A : j # i => B[j] = A[j]
           /\ SectorsOf(B) = (SectorsOf(A) \ {A[i][1]}) \cup {a[1]} /\ A[i][1] \in SectorsOf(A)
  <1>1. /\ B \in Seq(Addresses) /\ Len(B) = Len(A) /\ DOMAIN B = DOMAIN A
        /\ B[i] = a /\ \A j \in DOMAIN A : j # i => B[j] = A[j]
    OBVIOUS
  <1>2. \A j \in DOMAIN A : A[j][1] # a[1]
    BY SectorsOfMember
  <1>3. Apart(B)
    BY <1>1, <1>2 DEF Apart
  <1>4. SectorsOf(B) = (SectorsOf(A) \ {A[i][1]}) \cup {a[1]}
    <2>1. \A s : s \in SectorsOf(B) <=> \E j \in DOMAIN B : B[j][1] = s
      BY <1>1 DEF SectorsOf, Range
    <2>2. \A s : s \in SectorsOf(A) <=> \E j \in DOMAIN A : A[j][1] = s
      BY DEF SectorsOf, Range
    <2>3. ASSUME NEW s \in SectorsOf(B) PROVE s = a[1] \/ (s \in SectorsOf(A) /\ s # A[i][1])
      BY <1>1, <2>1, <2>2 DEF Apart
    <2>4. ASSUME NEW s \in SectorsOf(A), s # A[i][1] PROVE s \in SectorsOf(B)
      BY <1>1, <2>1, <2>2, <2>4
    <2>5. a[1] \in SectorsOf(B)
      BY <1>1, <2>1
    <2> QED  BY <2>3, <2>4, <2>5
  <1>5. A[i][1] \in SectorsOf(A)
    BY SectorsOfMember
  <1> QED  BY <1>1, <1>3, <1>4, <1>5

\* Programming where there is room: an entry more, or a torn slot.
LEMMA ProgramFacts ==
    ASSUME flash \in Flash, NEW a, Room(flash, sectors, a), NEW e \in Stored \cup {Corrupt},
           NEW G, G = Programmed(a, e)
    PROVE  /\ G \in Flash /\ a[1] \in Sectors /\ a \in Addresses /\ sectors[a[1]].writable >= 1
           /\ e \in Stored => Plus(G, flash, a, e)
           /\ e = Corrupt => Within(G, flash) /\ Live(G) = Live(flash)
           /\ Grown(G, flash, a[1])
           /\ \A u \in Sectors : u # a[1] => Len(G[u]) = Len(flash[u])
  <1>1. a \in Addresses /\ a[1] \in Sectors /\ a[2] = Len(flash[a[1]]) + 1 /\ sectors[a[1]].writable >= 1
    BY DEF Room, Addresses
  <1> DEFINE H == [flash EXCEPT ![a[1]] = Append(@, e)]
  <1>2. /\ H \in Flash /\ a \notin Live(flash) /\ a[2] \notin DOMAIN flash[a[1]]
        /\ Live(H) = Live(flash) \cup (IF e = Corrupt THEN {} ELSE {a})
        /\ Entry(H, a) = e
        /\ \A b \in Live(flash) : b \in Live(H) /\ Entry(H, b) = Entry(flash, b)
        /\ Grown(H, flash, a[1])
    <2>1. Appended(H, flash, a, e)
      BY DEF Appended
    <2> HIDE DEF H
    <2>2. H \in Flash /\ a \notin Live(flash) /\ a[2] \notin DOMAIN flash[a[1]]
      BY <1>1, <2>1, AppendFacts
    <2>3. Live(H) = Live(flash) \cup (IF e = Corrupt THEN {} ELSE {a}) /\ Entry(H, a) = e
      BY <1>1, <2>1, AppendFacts
    <2>4. \A b \in Live(flash) : b \in Live(H) /\ Entry(H, b) = Entry(flash, b)
      BY <1>1, <2>1, AppendFacts
    <2>5. Grown(H, flash, a[1])
      BY <1>1, <2>1, AppendFacts
    <2> QED  BY <2>2, <2>3, <2>4, <2>5
  <1>3. G = H
    BY <1>2 DEF Programmed
  <1> HIDE DEF H
  <1>4. e \in Stored => Plus(G, flash, a, e)
    BY <1>1, <1>2, <1>3, StoredFacts DEF Plus
  <1>5. e = Corrupt => Within(G, flash) /\ Live(G) = Live(flash)
    BY <1>2, <1>3 DEF Within
  <1>6. \A u \in Sectors : u # a[1] => Len(G[u]) = Len(flash[u])
    <2> SUFFICES ASSUME NEW u \in Sectors, u # a[1] PROVE Len(G[u]) = Len(flash[u])
      OBVIOUS
    <2>1. flash[u] \in Seq(Stored \cup {Corrupt})
      BY DEF Flash
    <2>2. Len(flash[u]) \in Nat
      BY <2>1
    <2>3. Len(G[u]) = Len(flash[u]) + (IF u = a[1] THEN 1 ELSE 0)
      BY <1>2, <1>3 DEF Grown
    <2> QED  BY <2>2, <2>3
  <1> QED  BY <1>1, <1>2, <1>3, <1>4, <1>5, <1>6

\* The first copy of a new version.
LEMMA WriteNew ==
    ASSUME NEW u, NEW r \in Nat \ {0}, DataInv(flash, cache, sectors, u, r), NEW a, Room(flash, sectors, a),
           NEW e \in Stored, \A b \in Live(flash) : Entry(flash, b).txn < e.txn,
           cache[e.key] # NoEntry \/ Cardinality(CachedIn(cache)) < MaxEntries,
           NEW G, G = Programmed(a, e),
           NEW D, D = [cache EXCEPT ![e.key] = [value |-> e.value, txn |-> e.txn, addresses |-> <<a>>]],
           NEW S, S = Accounted(a[1], SectorsOf(cache[e.key].addresses))
    PROVE  /\ DataInv(G, D, S, e.txn, r) /\ Plus(G, flash, a, e)
           /\ D[e.key] = [value |-> e.value, txn |-> e.txn, addresses |-> <<a>>]
           /\ \A l \in Keys : l # e.key => D[l] = cache[l]
  <1>0. FlashInv(flash) /\ CacheInv(flash, cache, r) /\ SectorInv(flash, cache, sectors) /\ flash \in Flash
    BY DEF DataInv, FlashInv
  <1>1. /\ G \in Flash /\ a[1] \in Sectors /\ a \in Addresses /\ sectors[a[1]].writable >= 1
        /\ Plus(G, flash, a, e)
        /\ Grown(G, flash, a[1])
    BY <1>0, ProgramFacts
  <1>2. FlashInv(G) /\ TxnInv(G, e.txn)
    BY <1>0, <1>1, NewKeeps
  <1>3. /\ <<a>> \in Seq(Addresses) /\ SectorsOf(<<a>>) = {a[1]} /\ Apart(<<a>>)
        /\ <<a>> # <<>> /\ Len(<<a>>) <= r /\ DOMAIN <<a>> = {1} /\ <<a>>[1] = a
    <2>1. <<>> \in Seq(Addresses) /\ <<a>> # <<>> /\ Len(<<a>>) <= r /\ DOMAIN <<a>> = {1} /\ <<a>>[1] = a
      OBVIOUS
    <2> QED  BY <1>1, <2>1, SectorsOfAppend
  <1>4. CacheInv(G, D, r)
    <2> DEFINE A == <<a>>
    <2>1. A \in Seq(Addresses) /\ Apart(A) /\ A # <<>> /\ Len(A) <= r /\ \A i \in DOMAIN A : A[i] = a
      BY <1>3
    <2>2. D = [cache EXCEPT ![e.key] = [value |-> e.value, txn |-> e.txn, addresses |-> A]]
      OBVIOUS
    <2> HIDE DEF A
    <2>3. Relisted(A, a, cache[e.key], e) /\ Newest(flash, cache[e.key], e)
      BY <2>1 DEF Relisted, Newest
    <2> QED  BY <1>0, <1>1, <2>1, <2>2, <2>3, CachePlus
  <1>5. e.key \in Keys /\ cache \in [Keys -> Descriptors \cup {NoEntry}]
    BY <1>0, StoredFacts DEF CacheInv
  <1>6. /\ D[e.key] = [value |-> e.value, txn |-> e.txn, addresses |-> <<a>>]
        /\ \A l \in Keys : l # e.key => D[l] = cache[l]
    BY <1>5
  <1>7. D[e.key].addresses = <<a>>
    BY <1>6
  <1>8. SectorInv(G, D, S)
    <2> DEFINE A == SectorsOf(cache[e.key].addresses)
    <2>1. SectorsOf(D[e.key].addresses) = (A \ A) \cup {a[1]}
      BY <1>3, <1>7
    <2>2. \A l \in Keys : l # e.key => D[l].addresses = cache[l].addresses
      BY <1>6
    <2>3. Relocates(cache, D, e.key, a[1], A)
      BY <2>1, <2>2 DEF Relocates
    <2> QED  BY <1>0, <1>1, <1>5, <2>3, AccountedKeeps
  <1> QED  BY <1>1, <1>2, <1>4, <1>6, <1>8 DEF DataInv

\* One more copy of the newest version, in a sector of its own.
LEMMA WriteCopyKeeps ==
    ASSUME NEW t, NEW r \in Nat, DataInv(flash, cache, sectors, t, r), NEW a, Room(flash, sectors, a),
           NEW e \in Stored, NEW k, k = e.key, cache[k] # NoEntry,
           e.value = cache[k].value, e.txn = cache[k].txn, Len(cache[k].addresses) < r,
           a[1] \notin SectorsOf(cache[k].addresses),
           NEW G, G = Programmed(a, e),
           NEW D, D = [cache EXCEPT ![k] = [value |-> e.value, txn |-> e.txn, addresses |-> Append(cache[k].addresses, a)]],
           NEW S, S = Accounted(a[1], {})
    PROVE  /\ DataInv(G, D, S, t, r) /\ Plus(G, flash, a, e)
           /\ D[k] = [value |-> e.value, txn |-> e.txn, addresses |-> Append(cache[k].addresses, a)]
           /\ \A l \in Keys : l # k => D[l] = cache[l]
  <1>0. FlashInv(flash) /\ CacheInv(flash, cache, r) /\ SectorInv(flash, cache, sectors) /\ flash \in Flash
        /\ TxnInv(flash, t)
    BY DEF DataInv, FlashInv
  <1>1. /\ G \in Flash /\ a[1] \in Sectors /\ a \in Addresses /\ sectors[a[1]].writable >= 1
        /\ Plus(G, flash, a, e)
        /\ Grown(G, flash, a[1])
    BY <1>0, ProgramFacts
  <1>2. k \in Keys /\ cache \in [Keys -> Descriptors \cup {NoEntry}]
    BY <1>0, StoredFacts DEF CacheInv
  <1> DEFINE A == cache[k].addresses
             B == Append(A, a)
  <1>3. A \in Seq(Addresses) /\ Len(A) \in Nat \ {0} /\ DOMAIN A = 1..Len(A) /\ Lists(flash, k, cache[k], r)
    <2>1. CacheInv(flash, cache, r) /\ k \in Keys /\ cache[k] # NoEntry
      BY <1>0, <1>2
    <2> HIDE DEF A
    <2>2. cache[k].addresses \in Seq(Addresses)
      BY <2>1, DescriptorFacts
    <2>3. Lists(flash, k, cache[k], r)
      BY <2>1, DescriptorFacts
    <2>4. Len(cache[k].addresses) \in Nat \ {0}
      BY <2>1, DescriptorFacts
    <2>5. DOMAIN cache[k].addresses = 1..Len(cache[k].addresses)
      BY <2>1, DescriptorFacts
    <2> QED  BY <2>2, <2>3, <2>4, <2>5 DEF A
  <1>4. Apart(A) /\ \A i \in DOMAIN A : /\ A[i] \in Live(flash) /\ Entry(flash, A[i]).key = k
           /\ Entry(flash, A[i]).txn = e.txn /\ Entry(flash, A[i]).value = e.value
    BY <1>3 DEF Lists
  <1>5. 1 \in DOMAIN A
    BY <1>3
  <1>6. B \in Seq(Addresses) /\ SectorsOf(B) = SectorsOf(A) \cup {a[1]} /\ Apart(B)
    BY <1>1, <1>3, <1>4, SectorsOfAppend
  <1>7. B # <<>> /\ Len(B) <= r /\ \A i \in DOMAIN B : B[i] = a \/ \E j \in DOMAIN A : B[i] = A[j]
    <2>1. Len(B) = Len(A) + 1 /\ DOMAIN B = 1..Len(A) + 1 /\ B[Len(A) + 1] = a /\ \A i \in 1..Len(A) : B[i] = A[i]
      BY <1>3
    <2> QED  BY <1>3, <2>1
  <1>8. D = [cache EXCEPT ![k] = [value |-> e.value, txn |-> e.txn, addresses |-> B]]
    OBVIOUS
  <1>9. /\ D[k] = [value |-> e.value, txn |-> e.txn, addresses |-> B]
        /\ \A l \in Keys : l # k => D[l] = cache[l]
    BY <1>2, <1>8
  <1> HIDE DEF A, B
  <1>10. FlashInv(G) /\ TxnInv(G, t)
    <2>1. \E b \in Live(flash) : /\ Entry(flash, b).key = e.key /\ Entry(flash, b).value = e.value
                                 /\ Entry(flash, b).txn = e.txn
      BY <1>4, <1>5
    <2>2. e \in Stored
      OBVIOUS
    <2> QED  BY ONLY <1>0, <1>1, <2>1, <2>2, CopyOfLive
  <1>11. CacheInv(G, D, r)
    <2>1. Relisted(B, a, cache[k], e) /\ Newest(flash, cache[k], e)
      BY <1>7 DEF Relisted, Newest, A
    <2> QED  BY <1>0, <1>1, <1>6, <1>7, <1>8, <2>1, CachePlus
  <1>12. SectorInv(G, D, S)
    <2>1. D[k].addresses = B
      BY <1>9
    <2>2. SectorsOf(D[k].addresses) = (SectorsOf(A) \ {}) \cup {a[1]}
      BY <1>6, <2>1
    <2>3. \A l \in Keys : l # k => D[l].addresses = cache[l].addresses
      BY <1>9
    <2>4. {} \subseteq SectorsOf(A)
      OBVIOUS
    <2>5. a[1] \notin SectorsOf(A)
      BY DEF A
    <2>6. Relocates(cache, D, k, a[1], {})
      BY <2>2, <2>3, <2>4, <2>5 DEF Relocates, A
    <2> QED  BY <1>0, <1>1, <1>2, <2>6, AccountedKeeps
  <1> QED  BY <1>1, <1>9, <1>10, <1>11, <1>12 DEF DataInv, A, B

\* A copy moves to another sector.
LEMMA WriteMove ==
    ASSUME NEW t, NEW r \in Nat, DataInv(flash, cache, sectors, t, r), NEW a, Room(flash, sectors, a),
           NEW e \in Stored, NEW k, k = e.key, cache[k] # NoEntry,
           e.value = cache[k].value, e.txn = cache[k].txn,
           a[1] \notin SectorsOf(cache[k].addresses), NEW i \in DOMAIN cache[k].addresses,
           NEW G, G = Programmed(a, e),
           NEW D, D = [cache EXCEPT ![k] = [value |-> e.value, txn |-> e.txn, addresses |-> [cache[k].addresses EXCEPT ![i] = a]]],
           NEW S, S = Accounted(a[1], {cache[k].addresses[i][1]})
    PROVE  /\ DataInv(G, D, S, t, r) /\ Plus(G, flash, a, e)
           /\ D[k] = [value |-> e.value, txn |-> e.txn, addresses |-> [cache[k].addresses EXCEPT ![i] = a]]
           /\ \A l \in Keys : l # k => D[l] = cache[l]
  <1>0. FlashInv(flash) /\ CacheInv(flash, cache, r) /\ SectorInv(flash, cache, sectors) /\ flash \in Flash
        /\ TxnInv(flash, t)
    BY DEF DataInv, FlashInv
  <1>1. /\ G \in Flash /\ a[1] \in Sectors /\ a \in Addresses /\ sectors[a[1]].writable >= 1
        /\ Plus(G, flash, a, e)
        /\ Grown(G, flash, a[1])
    BY <1>0, ProgramFacts
  <1>2. k \in Keys /\ cache \in [Keys -> Descriptors \cup {NoEntry}]
    BY <1>0, StoredFacts DEF CacheInv
  <1> DEFINE A == cache[k].addresses
             B == [A EXCEPT ![i] = a]
  <1>3. A \in Seq(Addresses) /\ Len(A) \in Nat \ {0} /\ DOMAIN A = 1..Len(A) /\ Lists(flash, k, cache[k], r)
    <2>1. CacheInv(flash, cache, r) /\ k \in Keys /\ cache[k] # NoEntry
      BY <1>0, <1>2
    <2> HIDE DEF A
    <2>2. cache[k].addresses \in Seq(Addresses)
      BY <2>1, DescriptorFacts
    <2>3. Lists(flash, k, cache[k], r)
      BY <2>1, DescriptorFacts
    <2>4. Len(cache[k].addresses) \in Nat \ {0}
      BY <2>1, DescriptorFacts
    <2>5. DOMAIN cache[k].addresses = 1..Len(cache[k].addresses)
      BY <2>1, DescriptorFacts
    <2> QED  BY <2>2, <2>3, <2>4, <2>5 DEF A
  <1>4. Apart(A) /\ Len(A) <= r /\ \A j \in DOMAIN A : /\ A[j] \in Live(flash) /\ Entry(flash, A[j]).key = k
           /\ Entry(flash, A[j]).txn = e.txn /\ Entry(flash, A[j]).value = e.value
    BY <1>3 DEF Lists
  <1>5. 1 \in DOMAIN A
    BY <1>3
  <1>6. /\ B \in Seq(Addresses) /\ Len(B) = Len(A) /\ DOMAIN B = DOMAIN A /\ Apart(B)
        /\ B[i] = a /\ \A j \in DOMAIN A : j # i => B[j] = A[j]
        /\ SectorsOf(B) = (SectorsOf(A) \ {A[i][1]}) \cup {a[1]} /\ A[i][1] \in SectorsOf(A)
    <2> HIDE DEF A
    <2>1. i \in DOMAIN A /\ a[1] \notin SectorsOf(A)
      BY DEF A
    <2> QED  BY <1>1, <1>3, <1>4, <2>1, SectorsOfMove
  <1>7. B # <<>> /\ Len(B) <= r /\ \A j \in DOMAIN B : B[j] = a \/ \E m \in DOMAIN A : B[j] = A[m]
    <2> HIDE DEF A, B
    <2> QED  BY <1>3, <1>4, <1>6
  <1>8. D = [cache EXCEPT ![k] = [value |-> e.value, txn |-> e.txn, addresses |-> B]]
    OBVIOUS
  <1>9. /\ D[k] = [value |-> e.value, txn |-> e.txn, addresses |-> B]
        /\ \A l \in Keys : l # k => D[l] = cache[l]
    BY <1>2, <1>8
  <1>9a. S = Accounted(a[1], {A[i][1]}) /\ a[1] \notin SectorsOf(A)
    OBVIOUS
  <1> HIDE DEF A, B
  <1>10. FlashInv(G) /\ TxnInv(G, t)
    <2>1. \E b \in Live(flash) : /\ Entry(flash, b).key = e.key /\ Entry(flash, b).value = e.value
                                 /\ Entry(flash, b).txn = e.txn
      BY <1>4, <1>5
    <2>2. e \in Stored
      OBVIOUS
    <2> QED  BY ONLY <1>0, <1>1, <2>1, <2>2, CopyOfLive
  <1>11. CacheInv(G, D, r)
    <2>1. Relisted(B, a, cache[k], e) /\ Newest(flash, cache[k], e)
      BY <1>7 DEF Relisted, Newest, A
    <2> QED  BY <1>0, <1>1, <1>6, <1>7, <1>8, <2>1, CachePlus
  <1>12. SectorInv(G, D, S)
    <2>1. D[k].addresses = B
      BY <1>9
    <2>2. SectorsOf(D[k].addresses) = (SectorsOf(A) \ {A[i][1]}) \cup {a[1]}
      BY <1>6, <2>1
    <2>3. \A l \in Keys : l # k => D[l].addresses = cache[l].addresses
      BY <1>9
    <2>4. {A[i][1]} \subseteq SectorsOf(A)
      BY <1>6
    <2>5. Relocates(cache, D, k, a[1], {A[i][1]})
      BY <1>9a, <2>2, <2>3, <2>4 DEF Relocates, A
    <2> QED  BY <1>0, <1>1, <1>2, <1>9a, <2>5, AccountedKeeps
  <1> QED  BY <1>1, <1>9, <1>10, <1>11, <1>12 DEF DataInv, A, B

-----------------------------------------------------------------------------
(* Failed writes, and choosing sectors                                     *)

\* The next transaction id is new.
LEMMA LaterTxn ==
    ASSUME NEW F \in Flash, NEW t, TxnInv(F, t)
    PROVE  t + 1 \in Nat \ {0} /\ TxnInv(F, t + 1) /\ \A a \in Live(F) : Entry(F, a).txn < t + 1
  <1>1. t \in Nat /\ \A a \in Live(F) : Entry(F, a).txn <= t
    BY DEF TxnInv
  <1>2. \A a \in Live(F) : Entry(F, a).txn \in Nat
    BY LiveFacts, StoredFacts
  <1>3. \A a \in Live(F) : Entry(F, a).txn < t + 1 /\ Entry(F, a).txn <= t + 1
    BY <1>1, <1>2
  <1> QED  BY <1>1, <1>3 DEF TxnInv

\* The sectors other than s are as they were.
Others(G, F, S, s) ==
  \A u \in Sectors : u # s => Len(G[u]) = Len(F[u]) /\ S[u].writable = sectors[u].writable

\* A flash without entries as new as t still has none.
NoneAsNew(F, G, t) ==
  (\A a \in Live(F) : Entry(F, a).txn < t) => \A a \in Live(G) : Entry(G, a).txn < t

\* What is written is a copy of an entry in flash, or newer than all of them.
Copied(e) ==
  \E b \in Live(flash) : /\ Entry(flash, b).key = e.key /\ Entry(flash, b).value = e.value
                         /\ Entry(flash, b).txn = e.txn
Legitimate(e, t) == Copied(e) \/ (e.txn = t /\ \A b \in Live(flash) : Entry(flash, b).txn < t)

\* What a write leaves that did not get through: nothing or a torn entry, in
\* a sector that is marked corrupt.
Torn(G, S, a) ==
  /\ G = flash \/ G = Programmed(a, Corrupt)
  /\ S = [sectors EXCEPT ![a[1]] = MarkCorrupt(@)]

\* A torn write leaves no entry.
LEMMA TornWrite ==
    ASSUME NEW t, NEW r, DataInv(flash, cache, sectors, t, r), NEW a, Room(flash, sectors, a),
           NEW G, NEW S, Torn(G, S, a)
    PROVE  /\ DataInv(G, cache, S, t, r)
           /\ Within(G, flash) /\ Live(G) = Live(flash) /\ Others(G, flash, S, a[1])
  <1> USE DEF Torn
  <1>0. /\ flash \in Flash /\ FlashInv(flash) /\ CacheInv(flash, cache, r) /\ TxnInv(flash, t)
        /\ SectorInv(flash, cache, sectors)
    BY DEF DataInv, FlashInv
  <1>2. a[1] \in Sectors
    BY DEF Room, Addresses
  <1>3. /\ G \in Flash /\ Within(G, flash) /\ Live(G) = Live(flash)
        /\ \A u \in Sectors : u # a[1] => Len(G[u]) = Len(flash[u])
    <2>1. CASE G = flash
      BY <1>0, <2>1 DEF Within
    <2>2. CASE G = Programmed(a, Corrupt)
      <3> DEFINE c == Corrupt
      <3>1. c \in Stored \cup {Corrupt} /\ c = Corrupt /\ G = Programmed(a, c)
        BY <2>2
      <3> HIDE DEF c
      <3> QED  BY <1>0, <3>1, ProgramFacts
    <2> QED  BY <2>1, <2>2
  <1>4. FlashInv(G) /\ TxnInv(G, t)
    BY <1>0, <1>3, WithinKeeps
  <1>5. CacheInv(G, cache, r)
    <2>1. \A k \in Keys : cache[k] # NoEntry =>
            \A i \in DOMAIN cache[k].addresses : cache[k].addresses[i] \in Live(G)
      BY <1>0, <1>3 DEF CacheInv, Lists
    <2> QED  BY <1>0, <1>3, <2>1, CacheWithin
  <1>6. SectorInv(G, cache, S)
    BY <1>0, <1>2, <1>3, MarkCorruptKeeps
  <1>7. sectors \in [Sectors -> [writable : -1..Slots, valid : Nat]]
    BY <1>0 DEF SectorInv
  <1>8. \A u \in Sectors : u # a[1] => S[u] = sectors[u]
    BY <1>2, <1>7
  <1> QED  BY <1>3, <1>4, <1>5, <1>6, <1>8 DEF DataInv, Others

\* The entry is complete all the same, and the cache does not list it.
LEMMA WrittenWrite ==
    ASSUME NEW t, NEW r, DataInv(flash, cache, sectors, t, r), NEW a, Room(flash, sectors, a),
           NEW e \in Stored, Legitimate(e, t), "written" \in Faults, NEW G, NEW S, G = Programmed(a, e),
           S = [sectors EXCEPT ![a[1]] = MarkCorrupt(@)]
    PROVE  /\ DataInv(G, cache, S, t, r) /\ Others(G, flash, S, a[1])
           /\ Copied(e) => NoneAsNew(flash, G, t)
  <1>0. /\ flash \in Flash /\ FlashInv(flash) /\ CacheInv(flash, cache, r) /\ TxnInv(flash, t)
        /\ SectorInv(flash, cache, sectors)
    BY DEF DataInv, FlashInv
  <1>1. G \in Flash /\ a[1] \in Sectors /\ Plus(G, flash, a, e) /\ Grown(G, flash, a[1])
    BY <1>0, ProgramFacts
  <1>2. FlashInv(G) /\ TxnInv(G, t)
    <2>1. CASE Copied(e)
      BY <1>0, <1>1, <2>1, CopyOfLive DEF Copied
    <2>2. CASE e.txn = t /\ \A b \in Live(flash) : Entry(flash, b).txn < t
      BY <1>0, <1>1, <2>2, NewKeeps
    <2> QED  BY <2>1, <2>2 DEF Legitimate
  <1>3. CacheInv(G, cache, r)
    <2>1. ASSUME NEW k \in Keys, cache[k] # NoEntry PROVE Lists(G, k, cache[k], r)
      <3>1. Lists(flash, k, cache[k], r)
        BY <1>0, <2>1 DEF CacheInv
      <3> QED  BY <1>1, <3>1 DEF Lists, Plus
    <2> QED  BY <1>0, <2>1 DEF CacheInv
  <1>4. \A u \in Sectors : u # a[1] => Len(G[u]) = Len(flash[u])
    <2> SUFFICES ASSUME NEW u \in Sectors, u # a[1] PROVE Len(G[u]) = Len(flash[u])
      OBVIOUS
    <2>1. Len(G[u]) = Len(flash[u]) + (IF u = a[1] THEN 1 ELSE 0)
      BY <1>1 DEF Grown
    <2>2. flash[u] \in Seq(Stored \cup {Corrupt})
      BY <1>0 DEF Flash
    <2>3. Len(flash[u]) \in Nat
      BY <2>2
    <2> QED  BY <2>1, <2>3
  <1>5. SectorInv(G, cache, S)
    BY <1>0, <1>1, <1>4, MarkCorruptKeeps
  <1>6. sectors \in [Sectors -> [writable : -1..Slots, valid : Nat]]
    BY <1>0 DEF SectorInv
  <1>7. \A u \in Sectors : u # a[1] => S[u] = sectors[u]
    BY <1>1, <1>6
  <1>8. ASSUME Copied(e) PROVE NoneAsNew(flash, G, t)
    <2>1. PICK b \in Live(flash) : /\ Entry(flash, b).key = e.key /\ Entry(flash, b).value = e.value
                                   /\ Entry(flash, b).txn = e.txn
      BY <1>8 DEF Copied
    <2> QED  BY <1>0, <1>1, <2>1, CopyKeeps DEF NoneAsNew
  <1> QED  BY <1>2, <1>3, <1>4, <1>5, <1>7, <1>8 DEF DataInv, Others

\* A failed write leaves nothing, a torn entry, or the entry.
LEMMA FailedWrite ==
    ASSUME NEW t, NEW r, DataInv(flash, cache, sectors, t, r), NEW a, Room(flash, sectors, a),
           NEW e \in Stored, Legitimate(e, t), ProgramFails(a, e)
    PROVE  /\ DataInv(flash', cache', sectors', t, r) /\ cache' = cache
           /\ Copied(e) => NoneAsNew(flash, flash', t)
           /\ Others(flash', flash, sectors', a[1])
           /\ options' = options /\ primary' = primary /\ init' = init
  <1>1. /\ Torn(flash', sectors', a) \/ ("written" \in Faults /\ flash' = Programmed(a, e))
        /\ sectors' = [sectors EXCEPT ![a[1]] = MarkCorrupt(@)] /\ cache' = cache
        /\ options' = options /\ primary' = primary /\ init' = init
    BY DEF ProgramFails, Torn
  <1>2. CASE Torn(flash', sectors', a)
    <2>1. /\ DataInv(flash', cache, sectors', t, r) /\ Within(flash', flash)
          /\ Others(flash', flash, sectors', a[1])
      BY <1>2, TornWrite
    <2>2. flash' \in Flash /\ FlashInv(flash) /\ flash \in Flash
      BY <2>1 DEF DataInv, FlashInv
    <2>3. NoneAsNew(flash, flash', t)
      BY <2>1, <2>2, WithinKeeps DEF NoneAsNew
    <2> QED  BY <1>1, <2>1, <2>3
  <1>3. CASE "written" \in Faults /\ flash' = Programmed(a, e)
    BY <1>1, <1>3, WrittenWrite
  <1> QED  BY <1>1, <1>2, <1>3

\* First is the least of its set, or 0.
LEMMA FirstFacts ==
    ASSUME NEW S \in SUBSET Nat
    PROVE  /\ S = {} => First(S) = 0
           /\ S # {} => First(S) \in S /\ \A i \in S : First(S) <= i
  <1>1. CASE S = {}
    BY <1>1 DEF First
  <1>2. CASE S # {}
    <2>1. Min(S) \in S /\ \A i \in S : Min(S) <= i
      BY <1>2, NatMin
    <2>2. \E j \in S : \A i \in S : j <= i
      BY <2>1
    <2>3. First(S) = CHOOSE j \in S : \A i \in S : j <= i
      BY <1>2 DEF First
    <2> QED  BY <1>2, <2>2, <2>3
  <1> QED  BY <1>1, <1>2

\* A number of steps behind last_new_ is a sector.
LEMMA AtFacts ==
    ASSUME lastNew \in Sectors, NEW j \in Steps
    PROVE  At(j) \in Sectors /\ At(j) # NoSector /\ j \in Nat /\ j # 0
  <1>1. SectorCount \in Nat /\ SectorCount >= 2
    BY KvsAssumption
  <1>2. lastNew \in Int /\ j \in Int /\ j >= 1
    BY <1>1 DEF Sectors, Steps
  <1>3. (lastNew + j) % SectorCount \in 0..(SectorCount - 1)
    BY <1>1, <1>2
  <1>4. At(j) # NoSector
    BY <1>1, <1>3 DEF At, NoSector
  <1> QED  BY <1>2, <1>3, <1>4 DEF At, Sectors

\* A search yields one of its candidates, or nothing.
LEMMA FirstOf ==
    ASSUME lastNew \in Sectors, NEW S \in SUBSET Steps
    PROVE  First(S) = 0 \/ (First(S) \in S /\ First(S) # 0 /\ At(First(S)) \in Sectors /\ At(First(S)) # NoSector)
  <1>1. Steps \subseteq Nat /\ 0 \notin Steps
    <2>1. SectorCount \in Nat
      BY KvsAssumption
    <2> QED  BY <2>1 DEF Steps
  <1>2. First(S) = 0 \/ First(S) \in S
    BY <1>1, FirstFacts
  <1>3. First(S) \in S => First(S) \in Steps /\ First(S) # 0
    BY <1>1
  <1> HIDE DEF Steps
  <1>4. First(S) \in Steps => At(First(S)) \in Sectors /\ At(First(S)) # NoSector
    BY AtFacts
  <1> QED  BY <1>2, <1>3, <1>4

\* Space is found in a sector that has some and is not to be avoided.
LEMMA FindFacts ==
    ASSUME lastNew \in Sectors, flash \in Flash, SectorInv(flash, cache, sectors), NEW mode, NEW skip,
           NEW f, f = Find(mode, skip)
    PROVE  /\ f.lastNew \in Sectors
           /\ f.sector # NoSector =>
                /\ f.sector \in Sectors /\ f.sector \notin skip /\ Room(flash, sectors, NextWritableAddress(f.sector))
                /\ NextWritableAddress(f.sector)[1] = f.sector
  <1> DEFINE partial == FindPartial(mode, skip)
             empty == FindEmpty(mode, skip)
             most == Most(PartlyFilled(skip), Recoverable)
             j == IF partial # 0 THEN partial ELSE IF empty # 0 THEN empty ELSE most
  <1>1. PartlyFilled(skip) \subseteq Steps /\ \A i \in PartlyFilled(skip) : At(i) \notin skip /\ Writable(At(i)) >= 1
    BY DEF PartlyFilled
  <1>2. partial = 0 \/ partial \in PartlyFilled(skip)
    <2> DEFINE T == {i \in PartlyFilled(skip) : mode = "append" \/ Recoverable(At(i)) = 0}
    <2>1. partial = First(T) /\ T \in SUBSET Steps
      BY <1>1 DEF FindPartial
    <2>2. First(T) = 0 \/ First(T) \in T
      <3> HIDE DEF T
      <3> QED  BY <2>1, FirstOf
    <2> QED  BY <2>1, <2>2
  <1>3. most = 0 \/ most \in PartlyFilled(skip)
    <2> DEFINE T == {i \in PartlyFilled(skip) : \A l \in PartlyFilled(skip) : Recoverable(At(l)) <= Recoverable(At(i))}
    <2>1. most = First(T) /\ T \in SUBSET Steps
      BY <1>1 DEF Most
    <2>2. First(T) = 0 \/ First(T) \in T
      <3> HIDE DEF T
      <3> QED  BY <2>1, FirstOf
    <2> QED  BY <2>1, <2>2
  <1> DEFINE E == {i \in Steps : At(i) \notin skip /\ Empty(At(i))}
  <1>4. empty = 0 \/ empty \in E
    <2>1. empty = (IF mode = "gc" \/ Cardinality(E) >= 2 THEN First(E) ELSE 0)
      BY DEF FindEmpty
    <2>2. E \in SUBSET Steps
      OBVIOUS
    <2>3. First(E) = 0 \/ First(E) \in E
      <3> HIDE DEF E
      <3> QED  BY <2>2, FirstOf
    <2> QED  BY <2>1, <2>3
  <1>5. f.sector = (IF j = 0 THEN NoSector ELSE At(j))
        /\ f.lastNew = (IF partial = 0 /\ empty # 0 THEN At(empty) ELSE lastNew)
    BY DEF Find
  <1>6. \A i \in E : i \in Steps /\ At(i) \notin skip /\ Writable(At(i)) >= 1
    <2>1. Slots \in Nat \ {0}
      BY KvsAssumption
    <2> QED  BY <2>1 DEF Empty
  <1>7. j = 0 \/ (j \in Steps /\ At(j) \notin skip /\ Writable(At(j)) >= 1)
    BY <1>1, <1>2, <1>3, <1>4, <1>6
  <1> HIDE DEF partial, empty, most, j
  <1>8. f.lastNew \in Sectors
    BY <1>4, <1>5, AtFacts
  <1>9. ASSUME f.sector # NoSector
        PROVE  /\ f.sector \in Sectors /\ f.sector \notin skip /\ Room(flash, sectors, NextWritableAddress(f.sector))
               /\ NextWritableAddress(f.sector)[1] = f.sector
    <2> DEFINE s == f.sector
    <2>1. s = At(j) /\ s \in Sectors /\ s \notin skip /\ Writable(s) >= 1
      BY <1>5, <1>7, <1>9, AtFacts
    <2> HIDE DEF s
    <2>2. /\ Slots \in Nat \ {0} /\ Writable(s) \in 0..Slots /\ sectors[s].writable >= 1
          /\ Len(flash[s]) = Slots - Writable(s) /\ Len(flash[s]) \in 0..Slots
      BY <2>1, SectorFacts
    <2> DEFINE w == Writable(s)
               p == Slots - w + 1
    <2>3. p \in 1..Slots /\ p = Len(flash[s]) + 1
      <3>1. w \in 0..Slots /\ w >= 1 /\ Slots \in Nat /\ Len(flash[s]) = Slots - w
        BY <2>1, <2>2
      <3> HIDE DEF w
      <3> QED  BY <3>1
    <2>4. NextWritableAddress(s) = <<s, p>>
      BY DEF NextWritableAddress
    <2> HIDE DEF p, w
    <2>5. Room(flash, sectors, <<s, p>>)
      BY <2>1, <2>2, <2>3 DEF Room, Addresses
    <2> QED  BY <2>1, <2>4, <2>5 DEF s
  <1> QED  BY <1>8, <1>9

\* The sector to collect is none of those to avoid.
LEMMA GarbageFacts ==
    ASSUME lastNew \in Sectors, NEW skip, NEW g, g = FindSectorToGarbageCollect(skip)
    PROVE  g # NoSector => g \in Sectors /\ g \notin skip
  <1> DEFINE all == {j \in Steps : At(j) \notin skip}
             stale == {j \in all : ValidBytes(At(j)) = 0 /\ Recoverable(At(j)) > 0}
             reclaimable == {j \in all : Recoverable(At(j)) > 0}
             inUse == {j \in all : ValidBytes(At(j)) > 0}
             R == {i \in reclaimable : \A l \in reclaimable : Recoverable(At(l)) <= Recoverable(At(i))}
             V == {i \in inUse : \A l \in inUse : ValidBytes(At(l)) <= ValidBytes(At(i))}
             j == IF stale # {} THEN First(stale)
                  ELSE IF reclaimable # {} THEN First(R) ELSE First(V)
  <1>1. Most(reclaimable, Recoverable) = First(R) /\ Most(inUse, ValidBytes) = First(V)
    BY DEF Most
  <1>2. g = IF j = 0 THEN NoSector ELSE At(j)
    BY <1>1 DEF FindSectorToGarbageCollect
  <1>3. stale \in SUBSET Steps /\ R \in SUBSET Steps /\ V \in SUBSET Steps
        /\ stale \subseteq all /\ R \subseteq all /\ V \subseteq all
    OBVIOUS
  <1>4. \A i \in all : i \in Steps /\ At(i) \notin skip
    OBVIOUS
  <1> HIDE DEF stale, R, V, all, reclaimable, inUse
  <1>5. /\ First(stale) = 0 \/ First(stale) \in stale
        /\ First(R) = 0 \/ First(R) \in R
        /\ First(V) = 0 \/ First(V) \in V
    BY <1>3, FirstOf
  <1>6. j = 0 \/ (j \in Steps /\ At(j) \notin skip)
    BY <1>3, <1>4, <1>5
  <1> HIDE DEF j
  <1> QED  BY <1>2, <1>6, AtFacts

-----------------------------------------------------------------------------
(* The entry in hand                                                       *)

\* Accounting for a copy changes one sector's room only.
LEMMA WriteOthers ==
    ASSUME NEW C, SectorInv(flash, C, sectors), flash \in Flash, NEW s \in Sectors, NEW G, Grown(G, flash, s),
           NEW stale, NEW S, S = Accounted(s, stale)
    PROVE  Others(G, flash, S, s)
  <1> SUFFICES ASSUME NEW u \in Sectors, u # s
               PROVE  Len(G[u]) = Len(flash[u]) /\ S[u].writable = sectors[u].writable
    BY DEF Others
  <1>1. Len(flash[u]) \in Nat
    <2>1. flash[u] \in Seq(Stored \cup {Corrupt})
      BY DEF Flash
    <2> QED  BY <2>1
  <1>2. Len(G[u]) = Len(flash[u])
    <2>1. Len(G[u]) = Len(flash[u]) + (IF u = s THEN 1 ELSE 0)
      BY DEF Grown
    <2> QED  BY <1>1, <2>1
  <1>3. sectors[u] \in [writable : -1..Slots, valid : Nat]
    BY DEF SectorInv
  <1>4. RemoveValid(sectors[u]).writable = sectors[u].writable
    BY <1>3 DEF RemoveValid
  <1>5. S[u] \in {sectors[u], RemoveValid(sectors[u])}
    BY DEF Accounted
  <1> QED  BY <1>2, <1>4, <1>5

\* Space found in another sector is still there.
LEMMA RoomKept ==
    ASSUME NEW F, NEW a, Room(F, sectors, a), NEW G, NEW S, NEW s, Others(G, F, S, s), a[1] # s
    PROVE  Room(G, S, a)
  <1>1. a[1] \in Sectors
    BY DEF Room, Addresses
  <1> QED  BY <1>1 DEF Room, Others

\* The entry in hand when the flash changes elsewhere.
SameHand(o, C, D) ==
  /\ CachedIn(D) = CachedIn(C)
  /\ \/ D[o.key] = C[o.key]
     \/ o.then # "fill" /\ o.written = 0

\* The entry in hand outlives a flash operation in a sector it does not use.
LEMMA HandKept ==
    ASSUME NEW o, NEW F, NEW G, NEW C, NEW D, NEW S, NEW t, NEW r, NEW s,
           InHand(o, F, C, sectors, t, r), o.then \in {"write", "fill", "convert"}, SameHand(o, C, D), NoneAsNew(F, G, t),
           Others(G, F, S, s), s \notin SectorsOf(o.reserved)
    PROVE  InHand(o, G, D, S, t, r)
  <1>1. Written(o, C) = Written(o, D) /\ (Written(o, C) > 0 => D[o.key] = C[o.key])
    BY DEF Written, SameHand
  <1>2. o.key \in Keys /\ o.reserved \in Seq(Addresses)
    BY DEF InHand, Places
  <1>3. C[o.key] # NoEntry <=> D[o.key] # NoEntry
    BY <1>2 DEF SameHand, CachedIn
  <1>4. ASSUME NEW i \in Written(o, C) + 1..Len(o.reserved) PROVE Room(G, S, o.reserved[i])
    <2>1. Room(F, sectors, o.reserved[i])
      BY DEF InHand, Places
    <2>2. Written(o, C) \in Nat
      <3>1. CASE o.then # "fill"
        BY <3>1 DEF Written, InHand, Places
      <3>2. CASE o.then = "fill"
        <4>1. Written(o, C) = Len(C[o.key].addresses)
          BY <3>2 DEF Written
        <4> QED BY <4>1 DEF InHand, Places
      <3> QED  BY <3>1, <3>2
    <2>3. i \in DOMAIN o.reserved
      BY <1>2, <2>2
    <2>4. o.reserved[i][1] \in SectorsOf(o.reserved)
      BY <1>2, <2>3, SectorsOfMember
    <2> QED  BY <2>1, <2>4, RoomKept
  <1>5. Places(o, G, D, S, r)
    <2>1. Places(o, F, C, sectors, r)
      BY DEF InHand
    <2>2. CASE D[o.key] = C[o.key]
      BY <1>1, <1>4, <2>1, <2>2 DEF Places
    <2>3. CASE o.then # "fill" /\ o.written = 0
      <3>1. Written(o, C) = 0 /\ Written(o, D) = 0
        BY <2>3 DEF Written
      <3> QED  BY <1>4, <2>1, <3>1 DEF Places
    <2> QED  BY <2>2, <2>3 DEF SameHand
  <1>6. Reserved(o, D, r)
    BY <1>1 DEF InHand, Reserved
  <1>7. Version(o, G, D, t)
    <2>1. Version(o, F, C, t)
      BY DEF InHand
    <2>2. CASE o.then = "fill"
      BY <1>3, <2>1, <2>2 DEF Version
    <2>3. CASE o.then = "write"
      BY <1>3, <2>1, <2>3 DEF Version, SameHand
    <2>4. CASE o.then = "convert"
      BY <1>3, <2>1, <2>4 DEF Version, SameHand, NoneAsNew
    <2> QED  BY <2>2, <2>3, <2>4
  <1> QED  BY <1>5, <1>6, <1>7 DEF InHand

-----------------------------------------------------------------------------
(* Ways a call goes on                                                     *)

\* No call is in progress.
LEMMA IdleFacts ==
    /\ DOMAIN Idle = Fields
    /\ Idle.pc = "idle" /\ Idle.task = "none" /\ Idle.key = NoKey /\ Idle.value = NoValue
    /\ Idle.reserved = <<>> /\ Idle.written = 0 /\ Idle.then = "none" /\ Idle.gc = NoSector
    /\ Idle.caller = "none" /\ Idle.todo = {} /\ Idle.status = "OK"
  BY DEF Idle, Fields

\* A call that holds nothing.
LEMMA Resting ==
    ASSUME NEW o, NEW F, NEW C, NEW S, NEW t, NEW r, OpShape(o, C), o.then = "none", o.reserved = <<>>, o.written = 0,
           o.pc \in Pcs \ {"reserve", "write", "fill", "convert", "relocate", "erase", "find"},
           o.task = "Write" => o.key \in Keys /\ o.value \in Contents /\ o.pc = "return"
    PROVE  OpInv(o, F, C, S, t, r)
  BY DEF OpInv, OpHand, OpCollects, OpWrites

\* A call that returns holds nothing.
LEMMA ReturningKeeps ==
    ASSUME OpWrites(op), NEW status, NEW F, NEW S, NEW t, NEW r, NEW D
    PROVE  OpInv(Returning(status), F, D, S, t, r)
  <1> DEFINE o == Returning(status)
  <1>1. /\ DOMAIN o = Fields /\ o.pc = "return" /\ o.task = op.task /\ o.key = op.key /\ o.value = op.value
        /\ o.then = "none" /\ o.reserved = <<>> /\ o.written = 0 /\ o.todo = {}
    BY IdleFacts DEF Returning, Fields
  <1> HIDE DEF o
  <1>2. OpShape(o, D)
    BY <1>1 DEF OpShape, Pcs
  <1>3. o.task = "Write" => o.key \in Keys /\ o.value \in Contents
    BY <1>1 DEF OpWrites
  <1>4. OpInv(o, F, D, S, t, r)
    BY <1>1, <1>2, <1>3, Resting DEF Pcs
  <1> QED  BY <1>4 DEF o

\* A loop that goes on holds nothing.
LEMMA SettledKeeps ==
    ASSUME DOMAIN op = Fields, NEW pc \in {"redundancy", "update"}, op.task # "Write", NEW F, NEW S, NEW t, NEW r, NEW D,
           op.todo \subseteq CachedIn(D)
    PROVE  /\ OpInv(Settled(pc), F, D, S, t, r) /\ DOMAIN Settled(pc) = Fields
           /\ Settled(pc).task = op.task /\ Settled(pc).then = "none" /\ Settled(pc).reserved = <<>>
           /\ Settled(pc).written = 0 /\ Settled(pc).pc = pc /\ Settled(pc).todo = op.todo
  <1> DEFINE o == Settled(pc)
  <1>1. /\ DOMAIN o = Fields /\ o.pc = pc /\ o.task = op.task /\ o.then = "none" /\ o.reserved = <<>>
        /\ o.written = 0 /\ o.todo = op.todo
    BY DEF Settled, Fields
  <1> HIDE DEF o
  <1>2. OpShape(o, D)
    BY <1>1 DEF OpShape, Pcs
  <1>4. OpInv(o, F, D, S, t, r)
    BY <1>1, <1>2, Resting DEF Pcs
  <1> QED  BY <1>1, <1>4 DEF o

\* A step that failed gives up the entry in hand.
LEMMA FailedKeeps ==
    ASSUME DOMAIN op = Fields, OpWrites(op), op.then \in {"write", "fill", "convert"},
           op.pc \in {"reserve", op.then, "relocate", "erase"},
           NEW status, NEW F, NEW S, NEW t, NEW r, NEW D, op.todo \subseteq CachedIn(D)
    PROVE  OpInv(Failed(status), F, D, S, t, r)
  <1>1. CASE op.then = "write"
    BY <1>1, ReturningKeeps DEF Failed
  <1>2. CASE op.then = "fill"
    <2> DEFINE x == FirstError(status)
               q == "redundancy"
               p == Settled(q)
               o == [p EXCEPT !.status = x]
    <2>1. op.task # "Write"
      BY <1>2 DEF OpWrites
    <2>2. q \in {"redundancy", "update"} /\ q = "redundancy"
      OBVIOUS
    <2> HIDE DEF q, x
    <2>3. /\ DOMAIN p = Fields
          /\ p.task = op.task /\ p.then = "none" /\ p.reserved = <<>>
          /\ p.written = 0 /\ p.pc = q /\ p.todo = op.todo
      BY <2>1, <2>2, SettledKeeps
    <2>4. Failed(status) = o
      BY <1>2 DEF Failed, q, x
    <2> HIDE DEF p
    <2>5. /\ DOMAIN o = Fields
          /\ o.task = op.task /\ o.then = "none" /\ o.reserved = <<>>
          /\ o.written = 0 /\ o.pc = q /\ o.todo = op.todo
      BY <2>3 DEF Fields
    <2> HIDE DEF o
    <2>6. OpShape(o, D)
      BY <2>2, <2>5 DEF OpShape, Pcs
    <2>7. OpInv(o, F, D, S, t, r)
      BY <2>1, <2>2, <2>5, <2>6, Resting DEF Pcs
    <2> QED  BY <2>4, <2>7
  <1>3. CASE op.then = "convert"
    <2> DEFINE x == FirstError(status)
               q == "update"
               p == Settled(q)
               o == [p EXCEPT !.todo = {}, !.converted = FALSE, !.status = x]
    <2>1. op.task # "Write"
      BY <1>3 DEF OpWrites
    <2>2. q \in {"redundancy", "update"} /\ q = "update"
      OBVIOUS
    <2> HIDE DEF q, x
    <2>3. /\ DOMAIN p = Fields
          /\ p.task = op.task /\ p.then = "none" /\ p.reserved = <<>>
          /\ p.written = 0 /\ p.pc = q /\ p.todo = op.todo
      BY <2>1, <2>2, SettledKeeps
    <2>4. Failed(status) = o
      BY <1>3 DEF Failed, q, x
    <2> HIDE DEF p
    <2>5. /\ DOMAIN o = Fields
          /\ o.task = op.task /\ o.then = "none" /\ o.reserved = <<>>
          /\ o.written = 0 /\ o.pc = q /\ o.todo = {}
      BY <2>3 DEF Fields
    <2> HIDE DEF o
    <2>6. OpShape(o, D)
      BY <2>2, <2>5 DEF OpShape, Pcs
    <2>7. OpInv(o, F, D, S, t, r)
      BY <2>1, <2>2, <2>5, <2>6, Resting DEF Pcs
    <2> QED  BY <2>4, <2>7
  <1> QED  BY <1>1, <1>2, <1>3

\* While places are sought, it does not matter which step is next.
Seeking == {"reserve", "relocate", "erase"}
\* The entry in hand while space is sought for it.
LEMMA SeekingHand ==
    ASSUME NEW o, NEW F, NEW C, NEW S, NEW t, NEW r, InHand(o, F, C, S, t, r), o.pc \in Seeking,
           NEW p, p.pc \in Seeking, p.key = o.key, p.value = o.value, p.written = o.written,
           p.reserved = o.reserved, p.then = o.then
    PROVE  InHand(p, F, C, S, t, r)
  <1>1. Written(p, C) = Written(o, C)
    BY DEF Written
  <1>2. Places(p, F, C, S, r)
    <2>1. Places(o, F, C, S, r)
      BY DEF InHand
    <2> QED  BY <1>1, <2>1 DEF Places
  <1>3. Reserved(p, C, r)
    <2>1. /\ o.written = 0 /\ Len(o.reserved) < r
          /\ o.then = "fill" => Len(o.reserved) = Written(o, C)
      BY DEF InHand, Reserved, Seeking
    <2> QED  BY <1>1, <2>1 DEF Reserved, Seeking
  <1>4. Version(p, F, C, t)
    <2>1. Version(o, F, C, t)
      BY DEF InHand
    <2> QED  BY <2>1 DEF Version
  <1> QED  BY <1>2, <1>3, <1>4 DEF InHand

\* p differs from the call in progress only in what is not said here.
SameWork(p) ==
  /\ DOMAIN p = Fields /\ p.task = op.task /\ p.key = op.key /\ p.value = op.value
  /\ p.reserved = op.reserved /\ p.written = op.written /\ p.then = op.then

\* The garbage collection of a sector begins.
LEMMA CollectSectorKeeps ==
    ASSUME NEW t, NEW r, flash \in Flash, SectorInv(flash, cache, sectors), OpInv(op, flash, cache, sectors, t, r),
           op.pc \in {"reserve", "repair", "free", "sweep", "partial"},
           NEW s \in Sectors, s \notin SectorsOf(op.reserved), NEW caller, caller = op.pc,
           NEW p, SameWork(p), p.todo = op.todo, p.gc = s, p.caller = caller,
           p.pc = (IF sectors[s].valid = 0 THEN "erase" ELSE "relocate")
    PROVE  OpInv(p, flash, cache, sectors, t, r)
  <1>1. OpShape(p, cache)
    BY DEF OpInv, OpShape, SameWork, Pcs
  <1>2. op.pc = "reserve" <=> op.then # "none"
    BY DEF OpInv, OpHand
  <1>3. OpHand(p, flash, cache, sectors, t, r)
    <2>1. CASE op.then = "none"
      BY <2>1 DEF OpInv, OpHand, SameWork
    <2>2. CASE op.then # "none"
      <3>1. InHand(op, flash, cache, sectors, t, r) /\ op.then \in {"write", "fill", "convert"}
        BY <2>2 DEF OpInv, OpHand
      <3>2. op.pc \in Seeking /\ p.pc \in Seeking
        BY <1>2, <2>2 DEF Seeking
      <3>3. InHand(p, flash, cache, sectors, t, r)
        BY <3>1, <3>2, SeekingHand DEF SameWork
      <3> QED  BY <2>2, <3>1, <3>3 DEF OpHand, SameWork
    <2> QED  BY <2>1, <2>2
  <1>4. OpCollects(p, cache)
    <2>1. sectors[s].valid = 0 => Copies(cache, s) = {}
      BY SectorFacts
    <2> QED  BY <1>2, <2>1 DEF OpCollects, SameWork, Callers
  <1>5. OpWrites(p)
    BY <1>2 DEF OpInv, OpWrites, OpHand, SameWork
  <1> QED  BY <1>1, <1>3, <1>4, <1>5 DEF OpInv

\* The garbage collection of a sector ends, with success or not.
LEMMA CollectedKeeps ==
    ASSUME NEW F, NEW C, NEW S, NEW u, NEW t, NEW r, OpInv(op, F, C, S, u, r), op.pc \in {"relocate", "erase"},
           C = cache, NEW G, NEW T, op.then # "none" => InHand(op, G, cache, T, t, r), NEW status
    PROVE  OpInv(Collected(status), G, cache, T, t, r)
  <1>1. /\ DOMAIN op = Fields /\ op.todo \subseteq CachedIn(cache) /\ OpWrites(op)
        /\ op.caller \in Callers /\ (op.caller = "reserve" <=> op.then # "none")
    BY DEF OpInv, OpShape, OpCollects
  <1>2. op.then = "none" => op.reserved = <<>> /\ op.written = 0 /\ op.task # "Write"
    BY DEF OpInv, OpHand, OpWrites
  <1> DEFINE keep == IF op.status \in {"OK", "RESOURCE_EXHAUSTED"} /\ status # "OK" THEN status ELSE op.status
             done == [op EXCEPT !.gc = NoSector, !.caller = "none"]
  <1>3. SameWork(done) /\ done.todo = op.todo
    BY <1>1 DEF SameWork, Fields
  <1>4. CASE op.caller = "reserve" /\ status = "OK"
    <2> DEFINE n == IF done.gcCount > SectorCount + 2 THEN done.gcCount ELSE done.gcCount + 1
               o == [done EXCEPT !.pc = "reserve", !.gcCount = n]
    <2>1. Collected(status) = o
      BY <1>4 DEF Collected
    <2> HIDE DEF n, done
    <2>2. SameWork(o) /\ o.todo = op.todo /\ o.pc = "reserve"
      BY <1>3 DEF SameWork, Fields
    <2> HIDE DEF o
    <2>3. InHand(op, G, cache, T, t, r) /\ op.then \in {"write", "fill", "convert"}
      BY <1>1, <1>4 DEF OpInv, OpHand
    <2>4. InHand(o, G, cache, T, t, r)
      BY <2>2, <2>3, SeekingHand DEF SameWork, Seeking
    <2>5. OpShape(o, cache)
      BY <1>1, <2>2 DEF OpShape, SameWork, Pcs
    <2>6. OpHand(o, G, cache, T, t, r)
      BY <2>2, <2>3, <2>4 DEF OpHand, SameWork
    <2>7. OpCollects(o, cache)
      BY <2>2 DEF OpCollects
    <2>8. OpWrites(o)
      BY <1>1, <2>2, <2>3 DEF OpWrites, SameWork
    <2> QED  BY <2>1, <2>5, <2>6, <2>7, <2>8 DEF OpInv
  <1>5. CASE op.caller = "reserve" /\ status # "OK"
    <2>1. Collected(status) = Failed(status)
      BY <1>5 DEF Collected
    <2>2. op.then \in {"write", "fill", "convert"} /\ op.pc \in {"reserve", op.then, "relocate", "erase"}
      BY <1>1, <1>5 DEF OpInv, OpHand
    <2> QED  BY <1>1, <2>1, <2>2, FailedKeeps
  <1>6. CASE op.caller = "repair"
    <2> DEFINE o == [done EXCEPT !.pc = "repair", !.status = keep]
    <2>1. Collected(status) = o
      BY <1>6 DEF Collected
    <2> HIDE DEF done, keep
    <2>2. SameWork(o) /\ o.todo = op.todo /\ o.pc = "repair"
      BY <1>3 DEF SameWork, Fields
    <2> HIDE DEF o
    <2>3. OpShape(o, cache)
      BY <1>1, <2>2 DEF OpShape, SameWork, Pcs
    <2> QED  BY <1>1, <1>2, <1>6, <2>1, <2>2, <2>3, Resting DEF SameWork, Pcs
  <1>7. CASE op.caller = "free"
    <2> DEFINE x == FirstError(status)
               o == [done EXCEPT !.pc = "redundancy", !.todo = Cached, !.status = x]
    <2>1. Collected(status) = o
      BY <1>7 DEF Collected
    <2> HIDE DEF done, x
    <2>2. SameWork(o) /\ o.todo = CachedIn(cache) /\ o.pc = "redundancy"
      BY <1>3 DEF SameWork, Fields, Cached, CachedIn
    <2> HIDE DEF o
    <2>3. OpShape(o, cache)
      BY <1>1, <2>2 DEF OpShape, SameWork, Pcs
    <2> QED  BY <1>1, <1>2, <1>7, <2>1, <2>2, <2>3, Resting DEF SameWork, Pcs
  <1>8. CASE op.caller = "sweep" /\ status = "OK"
    <2> DEFINE o == [done EXCEPT !.pc = "sweep"]
    <2>1. Collected(status) = o
      BY <1>8 DEF Collected
    <2> HIDE DEF done
    <2>2. SameWork(o) /\ o.todo = op.todo /\ o.pc = "sweep"
      BY <1>3 DEF SameWork, Fields
    <2> HIDE DEF o
    <2>3. OpShape(o, cache)
      BY <1>1, <2>2 DEF OpShape, SameWork, Pcs
    <2> QED  BY <1>1, <1>2, <1>8, <2>1, <2>2, <2>3, Resting DEF SameWork, Pcs
  <1>9. CASE op.caller = "sweep" /\ status # "OK"
    <2>1. Collected(status) = Returning(FirstError(status))
      BY <1>9 DEF Collected
    <2> QED  BY <1>1, <2>1, ReturningKeeps
  <1>10. CASE op.caller = "partial"
    <2>1. Collected(status) = Returning(status)
      BY <1>10 DEF Collected
    <2> QED  BY <1>1, <2>1, ReturningKeeps
  <1> QED  BY <1>1, <1>4, <1>5, <1>6, <1>7, <1>8, <1>9, <1>10 DEF Callers

-----------------------------------------------------------------------------
(* Calls and writes                                                        *)

red == options.redundancy

\* There is at least one copy.
LEMMA RedundancyFacts ==
    ASSUME KvsInv
    PROVE  red \in Nat \ {0}
  <1>1. red \in Redundancies
    BY DEF KvsInv, red
  <1>2. Redundancies \subseteq 1..(SectorCount - 1) /\ SectorCount \in Nat
    BY KvsAssumption
  <1> QED  BY <1>1, <1>2

\* The parts of the invariant, with the power on.
LEMMA InvFacts ==
    ASSUME KvsInv, op.pc # "off"
    PROVE  /\ init # "none" /\ flash \in Flash /\ FlashInv(flash) /\ CacheInv(flash, cache, red)
           /\ TxnInv(flash, lastTxn) /\ SectorInv(flash, cache, sectors)
           /\ DataInv(flash, cache, sectors, lastTxn, red)
           /\ OpInv(op, flash, cache, sectors, lastTxn, red)
           /\ OpShape(op, cache) /\ OpHand(op, flash, cache, sectors, lastTxn, red)
           /\ OpCollects(op, cache) /\ OpWrites(op) /\ DOMAIN op = Fields
           /\ lastNew \in Sectors /\ primary \in Formats
  BY DEF KvsInv, DataInv, FlashInv, OpInv, OpShape, red

\* What is left to show of a step that is not a boot or a power loss.
LEMMA StepInv ==
    ASSUME KvsInv, op.pc # "off", options' = options, primary' = primary, lastNew' \in Sectors, init' # "none",
           DataInv(flash', cache', sectors', lastTxn', red),
           OpInv(op', flash', cache', sectors', lastTxn', red)
    PROVE  KvsInv'
  <1>1. op'.pc \in Pcs
    BY DEF OpInv, OpShape
  <1>2. op'.pc # "off"
    BY <1>1 DEF Pcs
  <1>3. FlashInv(flash')
    BY DEF DataInv
  <1> QED  BY <1>2, <1>3 DEF KvsInv, red

\* A step that only moves the call along.
LEMMA QuietStep ==
    ASSUME KvsInv, op.pc # "off", UNCHANGED <<options, flash, cache, sectors, lastTxn, primary>>,
           lastNew' \in Sectors, init' # "none",
           OpInv(op', flash, cache, sectors, lastTxn, red)
    PROVE  KvsInv'
  <1>1. DataInv(flash', cache', sectors', lastTxn', red)
    BY InvFacts
  <1>2. OpInv(op', flash', cache', sectors', lastTxn', red)
    OBVIOUS
  <1> QED  BY <1>1, <1>2, StepInv

\* Return.
LEMMA ReturnKeeps ==
    ASSUME KvsInv, Return
    PROVE  KvsInv'
  <1>1. op.pc # "off" /\ op' = Idle
    BY DEF Return
  <1>2. OpShape(op', cache)
    BY <1>1, IdleFacts DEF OpShape, Pcs
  <1>3. OpInv(op', flash, cache, sectors, lastTxn, red)
    BY <1>1, <1>2, IdleFacts, Resting DEF Pcs
  <1> QED  BY <1>1, <1>3, InvFacts, QuietStep DEF Return, ram

\* PutBytes and Delete.
LEMMA CallWriteKeeps ==
    ASSUME KvsInv, NEW k \in Keys, NEW v \in Contents, CallWrite(k, v)
    PROVE  KvsInv'
  <1>1. op.pc # "off" /\ op' = [Idle EXCEPT !.pc = "find", !.task = "Write", !.key = k, !.value = v]
    BY DEF CallWrite
  <1>2. /\ DOMAIN op' = Fields /\ op'.pc = "find" /\ op'.task = "Write" /\ op'.key = k /\ op'.value = v
        /\ op'.then = "none" /\ op'.todo = {} /\ op'.reserved = <<>> /\ op'.written = 0
    BY <1>1, IdleFacts DEF Fields
  <1>3. OpInv(op', flash, cache, sectors, lastTxn, red)
    BY <1>2 DEF OpInv, OpShape, OpHand, OpCollects, OpWrites, Pcs
  <1> QED  BY <1>1, <1>3, InvFacts, QuietStep DEF CallWrite, ram

\* The checks before a write.
LEMMA FindExistingKeeps ==
    ASSUME KvsInv, FindExisting
    PROVE  KvsInv'
  <1>0. op.pc = "find" /\ op.pc # "off"
    BY DEF FindExisting
  <1>1. OpWrites(op) /\ OpShape(op, cache) /\ OpHand(op, flash, cache, sectors, lastTxn, red) /\ DOMAIN op = Fields
        /\ CacheInv(flash, cache, red)
    BY <1>0, InvFacts
  <1>2. op.task = "Write" /\ op.key \in Keys /\ op.value \in Contents /\ op.then = "none"
        /\ op.reserved = <<>> /\ op.written = 0
    BY <1>0, <1>1 DEF OpWrites, OpHand
  <1> DEFINE o == [op EXCEPT !.pc = "reserve", !.then = "write"]
  <1>3. \/ \E status : op' = Returning(status)
        \/ op' = o /\ (cache[op.key] # NoEntry \/ ~(Cardinality(Cached) >= MaxEntries))
    BY DEF FindExisting
  <1>4. CASE \E status : op' = Returning(status)
    <2>1. OpInv(op', flash, cache, sectors, lastTxn, red)
      BY <1>1, <1>4, ReturningKeeps
    <2> QED  BY <1>0, <2>1, InvFacts, QuietStep DEF FindExisting, ram
  <1>5. CASE op' = o /\ (cache[op.key] # NoEntry \/ ~(Cardinality(Cached) >= MaxEntries))
    <2>1. /\ DOMAIN o = Fields /\ o.pc = "reserve" /\ o.then = "write" /\ o.task = "Write" /\ o.key = op.key
          /\ o.value = op.value /\ o.reserved = <<>> /\ o.written = 0 /\ o.todo = op.todo
      BY <1>1, <1>2 DEF Fields
    <2> HIDE DEF o
    <2>2. cache[o.key] # NoEntry \/ Cardinality(CachedIn(cache)) < MaxEntries
      <3>1. Cached = CachedIn(cache)
        BY DEF Cached, CachedIn
      <3>2. MaxEntries \in Nat /\ Cardinality(CachedIn(cache)) \in Nat
        <4>1. IsFiniteSet(Keys) /\ CachedIn(cache) \subseteq Keys
          BY KvsAssumption DEF CachedIn
        <4> QED  BY <4>1, FS_Subset, FS_CardinalityType, KvsAssumption
      <3> QED  BY <1>5, <2>1, <3>1, <3>2
    <2>3. Written(o, cache) = 0
      BY <2>1 DEF Written
    <2>4. red \in Nat \ {0}
      BY RedundancyFacts
    <2>5. Places(o, flash, cache, sectors, red)
      <3>1. <<>> \in Seq(Addresses) /\ Apart(<<>>) /\ Len(<<>>) = 0
        BY DEF Apart
      <3> QED  BY <1>2, <2>1, <2>3, <2>4, <3>1 DEF Places
    <2>6. Reserved(o, cache, red)
      BY <2>1, <2>3, <2>4 DEF Reserved
    <2>7. Version(o, flash, cache, lastTxn)
      BY <1>2, <2>1, <2>2 DEF Version
    <2>8. OpHand(o, flash, cache, sectors, lastTxn, red)
      BY <2>1, <2>5, <2>6, <2>7 DEF OpHand, InHand
    <2>9. OpInv(o, flash, cache, sectors, lastTxn, red)
      BY <1>1, <1>2, <2>1, <2>8 DEF OpInv, OpShape, OpCollects, OpWrites, Pcs
    <2> QED  BY <1>0, <1>5, <2>9, InvFacts, QuietStep DEF FindExisting, ram
  <1> QED  BY <1>3, <1>4, <1>5

\* What is known while space is sought.
LEMMA SeekFacts ==
    ASSUME KvsInv, op.pc \in Seeking, op.then # "none"
    PROVE  /\ op.then \in {"write", "fill", "convert"} /\ op.pc # "off"
           /\ InHand(op, flash, cache, sectors, lastTxn, red) /\ Places(op, flash, cache, sectors, red)
           /\ Version(op, flash, cache, lastTxn) /\ op.written = 0 /\ Len(op.reserved) < red
           /\ op.then = "fill" => Len(op.reserved) = Written(op, cache)
           /\ op.reserved \in Seq(Addresses) /\ Len(op.reserved) \in Nat /\ Written(op, cache) \in Nat
  <1>1. op.pc # "off"
    BY DEF Seeking
  <1>2. OpHand(op, flash, cache, sectors, lastTxn, red)
    BY <1>1, InvFacts
  <1>3. op.then \in {"write", "fill", "convert"} /\ InHand(op, flash, cache, sectors, lastTxn, red)
    BY <1>2 DEF OpHand
  <1>4. Places(op, flash, cache, sectors, red) /\ Version(op, flash, cache, lastTxn) /\ Reserved(op, cache, red)
    BY <1>3 DEF InHand
  <1>5. op.written = 0 /\ Len(op.reserved) < red /\ (op.then = "fill" => Len(op.reserved) = Written(op, cache))
    BY <1>3, <1>4 DEF Reserved, Seeking
  <1>6. op.reserved \in Seq(Addresses)
    BY <1>4 DEF Places
  <1>7. Len(op.reserved) \in Nat
    BY <1>6
  <1>8. Written(op, cache) \in Nat
    BY <1>3, <1>5, <1>7 DEF Written
  <1> QED  BY <1>1, <1>3, <1>4, <1>5, <1>6, <1>7, <1>8

\* A place is found for one more copy.
LEMMA PlaceKeeps ==
    ASSUME KvsInv, op.pc = "reserve", op.then # "none", NEW a, Room(flash, sectors, a), a[1] \notin SectorsOf(op.reserved),
           NEW o, DOMAIN o = Fields, o.key = op.key, o.value = op.value, o.written = op.written, o.then = op.then,
           o.task = op.task, o.todo = op.todo, o.reserved = Append(op.reserved, a),
           o.pc = (IF Len(o.reserved) < CopiesNeeded THEN "reserve" ELSE op.then)
    PROVE  OpInv(o, flash, cache, sectors, lastTxn, red)
  <1>0. op.pc \in Seeking /\ op.pc # "off"
    BY DEF Seeking
  <1>1. /\ op.then \in {"write", "fill", "convert"}
        /\ Places(op, flash, cache, sectors, red)
        /\ Version(op, flash, cache, lastTxn) /\ op.written = 0 /\ Len(op.reserved) < red
        /\ op.then = "fill" => Len(op.reserved) = Written(op, cache)
        /\ op.reserved \in Seq(Addresses) /\ Len(op.reserved) \in Nat /\ Written(op, cache) \in Nat
    BY <1>0, SeekFacts
  <1>2. red \in Nat \ {0} /\ a \in Addresses
    BY RedundancyFacts DEF Room
  <1> DEFINE A == op.reserved
             B == o.reserved
             n == Len(A)
             w == Written(op, cache)
  <1>3. B = Append(A, a) /\ B \in Seq(Addresses) /\ Apart(B)
    BY <1>1, <1>2, SectorsOfAppend DEF Places
  <1>4. Len(B) = n + 1 /\ B[n + 1] = a /\ \A i \in 1..n : B[i] = A[i]
    BY <1>1, <1>3
  <1>5. Written(o, cache) = w
    BY DEF Written
  <1>6. /\ w > 0 => cache[op.key] # NoEntry /\ Len(cache[op.key].addresses) = w
        /\ w <= n /\ w < red
        /\ \A i \in 1..w : A[i] = cache[op.key].addresses[i]
        /\ \A i \in w + 1..n : Room(flash, sectors, A[i])
        /\ op.key \in Keys
    BY <1>1 DEF Places
  <1> HIDE DEF A, B, n, w
  <1>7. w \in Nat /\ n \in Nat /\ n < red
    BY <1>1 DEF A, n, w
  <1>8. \A i \in 1..w : B[i] = cache[o.key].addresses[i]
    BY <1>4, <1>6, <1>7
  <1>9. \A i \in w + 1..n + 1 : Room(flash, sectors, B[i])
    <2> SUFFICES ASSUME NEW i \in w + 1..n + 1 PROVE Room(flash, sectors, B[i])
      OBVIOUS
    <2>1. CASE i = n + 1
      BY <1>4, <2>1
    <2>2. CASE i # n + 1
      <3>1. i \in w + 1..n /\ i \in 1..n
        BY <1>7, <2>2
      <3> QED  BY <1>4, <1>6, <3>1
    <2> QED  BY <2>1, <2>2
  <1>10. Places(o, flash, cache, sectors, red)
    <2>1. w <= n + 1
      BY <1>6, <1>7
    <2> QED  BY <1>1, <1>3, <1>4, <1>5, <1>6, <1>8, <1>9, <2>1 DEF Places, B
  <1>11. Reserved(o, cache, red) /\ (op.then = "fill" => o.pc = "fill")
    <2>1. CASE op.then = "fill"
      <3>1. n = w /\ CopiesNeeded = Len(cache[op.key].addresses) + 1 /\ w = Len(cache[op.key].addresses)
        BY <1>1, <2>1 DEF CopiesNeeded, Written, n, w, A
      <3>2. ~(Len(B) < CopiesNeeded)
        BY <1>4, <1>7, <3>1
      <3>3. o.pc = "fill"
        BY <2>1, <3>2 DEF B
      <3> QED  BY <1>1, <1>4, <1>5, <3>1, <3>3 DEF Reserved, B
    <2>2. CASE op.then # "fill"
      <3>1. CopiesNeeded = red
        BY <2>2 DEF CopiesNeeded, red
      <3>2. CASE Len(B) < red
        <4>1. o.pc = "reserve"
          BY <3>1, <3>2 DEF B
        <4> QED  BY <1>1, <2>2, <3>2, <4>1 DEF Reserved, B
      <3>3. CASE ~(Len(B) < red)
        <4>1. Len(B) = red
          BY <1>2, <1>4, <1>7, <3>3
        <4>2. o.pc = op.then /\ o.pc \in {"write", "convert"}
          BY <1>1, <2>2, <3>1, <3>3 DEF B
        <4> QED  BY <2>2, <4>1, <4>2 DEF Reserved, B
      <3> QED  BY <3>2, <3>3
    <2> QED  BY <2>1, <2>2
  <1>12. Version(o, flash, cache, lastTxn)
    BY <1>1 DEF Version
  <1>13. OpHand(o, flash, cache, sectors, lastTxn, red)
    BY <1>1, <1>10, <1>11, <1>12 DEF OpHand, InHand
  <1>14. OpShape(op, cache) /\ OpWrites(op)
    BY <1>0, InvFacts
  <1>15. OpShape(o, cache)
    BY <1>1, <1>14 DEF OpShape, Pcs
  <1>16. OpCollects(o, cache)
    BY <1>1 DEF OpCollects
  <1>17. OpWrites(o)
    BY <1>1, <1>14 DEF OpWrites
  <1> QED  BY <1>13, <1>15, <1>16, <1>17 DEF OpInv

\* GetSectorForWrite.
LEMMA GetSectorForWriteKeeps ==
    ASSUME KvsInv, GetSectorForWrite
    PROVE  KvsInv'
  <1>0. op.pc = "reserve" /\ op.pc # "off" /\ op.pc \in Seeking
    BY DEF GetSectorForWrite, Seeking
  <1>1. /\ flash \in Flash /\ SectorInv(flash, cache, sectors) /\ OpInv(op, flash, cache, sectors, lastTxn, red)
        /\ OpWrites(op) /\ DOMAIN op = Fields /\ lastNew \in Sectors /\ OpShape(op, cache)
        /\ OpHand(op, flash, cache, sectors, lastTxn, red) /\ init # "none"
    BY <1>0, InvFacts
  <1>2. op.then # "none"
    BY <1>0, <1>1 DEF OpHand
  <1>3. op.then \in {"write", "fill", "convert"}
    BY <1>0, <1>2, SeekFacts
  <1> DEFINE skip == ReservedSectors
             mode == "append"
             found == Find(mode, skip)
             garbage == FindSectorToGarbageCollect(skip)
             a == NextWritableAddress(found.sector)
             reserved == Append(op.reserved, a)
             pc == IF Len(reserved) < CopiesNeeded THEN "reserve" ELSE op.then
             placed == [op EXCEPT !.reserved = reserved, !.gcCount = 0, !.pc = pc]
             collecting == CollectSector(garbage, "reserve")
  <1>4. lastNew' = found.lastNew
        /\ \/ op' = Failed("RESOURCE_EXHAUSTED")
           \/ found.sector # NoSector /\ op' = placed
           \/ garbage # NoSector /\ op' = collecting
    BY DEF GetSectorForWrite
  <1>5. skip = SectorsOf(op.reserved)
    BY DEF ReservedSectors
  <1>6. /\ found.lastNew \in Sectors
        /\ found.sector # NoSector => Room(flash, sectors, a) /\ a[1] \notin SectorsOf(op.reserved)
    <2>1. found = Find(mode, skip)
      OBVIOUS
    <2> HIDE DEF found, mode, skip
    <2> QED  BY <1>1, <1>5, <2>1, FindFacts
  <1>7. garbage # NoSector => garbage \in Sectors /\ garbage \notin SectorsOf(op.reserved)
    <2>1. garbage = FindSectorToGarbageCollect(skip)
      OBVIOUS
    <2> HIDE DEF garbage, skip
    <2> QED  BY <1>1, <1>5, <2>1, GarbageFacts
  <1> HIDE DEF skip, mode, found, garbage, a
  <1>8. CASE op' = Failed("RESOURCE_EXHAUSTED")
    <2>1. op.todo \subseteq CachedIn(cache)
      BY <1>1 DEF OpShape
    <2>2. OpInv(op', flash, cache, sectors, lastTxn, red)
      BY <1>0, <1>1, <1>3, <1>8, <2>1, FailedKeeps
    <2> QED  BY <1>0, <1>1, <1>4, <1>6, <2>2, QuietStep DEF GetSectorForWrite
  <1>9. CASE found.sector # NoSector /\ op' = placed
    <2> HIDE DEF reserved
    <2>1. /\ DOMAIN placed = Fields /\ placed.key = op.key /\ placed.value = op.value
          /\ placed.written = op.written /\ placed.then = op.then
          /\ placed.task = op.task /\ placed.todo = op.todo /\ placed.reserved = reserved
          /\ placed.pc = (IF Len(reserved) < CopiesNeeded THEN "reserve" ELSE op.then)
      <3> HIDE DEF pc
      <3>1. /\ DOMAIN placed = Fields /\ placed.key = op.key /\ placed.value = op.value
            /\ placed.written = op.written /\ placed.then = op.then
            /\ placed.task = op.task /\ placed.todo = op.todo /\ placed.reserved = reserved
            /\ placed.pc = pc
        BY <1>1 DEF Fields
      <3> QED  BY <3>1 DEF pc
    <2> HIDE DEF placed, pc
    <2>2. OpInv(placed, flash, cache, sectors, lastTxn, red)
      BY <1>0, <1>2, <1>6, <1>9, <2>1, PlaceKeeps DEF reserved
    <2> QED  BY <1>0, <1>1, <1>4, <1>6, <1>9, <2>2, QuietStep DEF GetSectorForWrite
  <1>10. CASE garbage # NoSector /\ op' = collecting
    <2>1. /\ SameWork(collecting) /\ collecting.todo = op.todo /\ collecting.gc = garbage
          /\ collecting.caller = "reserve"
          /\ collecting.pc = (IF sectors[garbage].valid = 0 THEN "erase" ELSE "relocate")
      BY <1>1 DEF SameWork, CollectSector, Fields
    <2> HIDE DEF collecting
    <2> DEFINE caller == op.pc
    <2>2. caller = op.pc /\ collecting.caller = caller
      BY <1>0, <2>1
    <2> HIDE DEF caller
    <2>3. OpInv(collecting, flash, cache, sectors, lastTxn, red)
      BY <1>0, <1>1, <1>7, <1>10, <2>1, <2>2, CollectSectorKeeps
    <2> QED  BY <1>0, <1>1, <1>4, <1>6, <1>10, <2>3, QuietStep DEF GetSectorForWrite
  <1> QED  BY <1>4, <1>8, <1>9, <1>10

\* All places are found and copies are being written.
LEMMA WritingFacts ==
    ASSUME KvsInv, op.pc \in {"write", "convert"}
    PROVE  /\ op.pc # "off" /\ op.then = op.pc /\ op.key \in Keys
           /\ op.written \in Nat /\ op.written < red /\ op.written + 1 \in 1..red /\ Written(op, cache) = op.written
           /\ op.reserved \in Seq(Addresses) /\ Len(op.reserved) = red /\ Apart(op.reserved)
           /\ Room(flash, sectors, op.reserved[op.written + 1])
           /\ \A i \in 1..red : i > op.written => Room(flash, sectors, op.reserved[i])
           /\ Version(op, flash, cache, lastTxn)
           /\ op.written > 0 => /\ cache[op.key] # NoEntry /\ Len(cache[op.key].addresses) = op.written
                                /\ \A i \in 1..op.written : cache[op.key].addresses[i] = op.reserved[i]
                                /\ op.reserved[op.written + 1][1] \notin SectorsOf(cache[op.key].addresses)
  <1>0. op.pc # "off" /\ red \in Nat \ {0}
    BY RedundancyFacts
  <1>1. OpHand(op, flash, cache, sectors, lastTxn, red) /\ CacheInv(flash, cache, red)
    BY <1>0, InvFacts
  <1>2. op.then = op.pc /\ InHand(op, flash, cache, sectors, lastTxn, red)
    BY <1>1 DEF OpHand
  <1>3. Places(op, flash, cache, sectors, red) /\ Reserved(op, cache, red) /\ Version(op, flash, cache, lastTxn)
    BY <1>2 DEF InHand
  <1> DEFINE w == op.written
  <1>4. Written(op, cache) = w
    BY <1>2 DEF Written
  <1>5. /\ op.key \in Keys /\ w \in Nat /\ w < red
        /\ op.reserved \in Seq(Addresses) /\ Apart(op.reserved)
        /\ w > 0 => cache[op.key] # NoEntry /\ Len(cache[op.key].addresses) = w
        /\ \A i \in 1..w : op.reserved[i] = cache[op.key].addresses[i]
        /\ \A i \in w + 1..Len(op.reserved) : Room(flash, sectors, op.reserved[i])
    BY <1>3, <1>4 DEF Places
  <1>6. Len(op.reserved) = red
    BY <1>3 DEF Reserved
  <1> HIDE DEF w
  <1>7. w + 1 \in 1..red /\ \A i \in 1..red : i > w => i \in w + 1..red
    BY <1>0, <1>5
  <1>8. \A i \in 1..red : i > w => Room(flash, sectors, op.reserved[i])
    BY <1>5, <1>6, <1>7
  <1>9. w + 1 > w
    BY <1>5
  <1>10. ASSUME w > 0 PROVE op.reserved[w + 1][1] \notin SectorsOf(cache[op.key].addresses)
    <2> DEFINE A == cache[op.key].addresses
    <2>1. A \in Seq(Addresses) /\ Len(A) = w
      BY <1>1, <1>5, <1>10, DescriptorFacts
    <2>2. DOMAIN A = 1..w
      BY <2>1
    <2>3. DOMAIN op.reserved = 1..red
      BY <1>5, <1>6
    <2> HIDE DEF A
    <2>4. ASSUME NEW i \in DOMAIN A, A[i][1] = op.reserved[w + 1][1] PROVE FALSE
      <3>1. i \in 1..w /\ op.reserved[i] = A[i]
        BY <1>5, <2>2, <2>4 DEF A
      <3>2. i \in 1..red /\ w + 1 \in 1..red /\ i # w + 1
        BY <1>0, <1>5, <1>7, <3>1
      <3> QED  BY <1>5, <2>3, <2>4, <3>1, <3>2 DEF Apart
    <2> QED  BY <2>1, <2>4, SectorsOfMember DEF A
  <1> QED  BY <1>0, <1>2, <1>3, <1>4, <1>5, <1>6, <1>7, <1>8, <1>9, <1>10 DEF w

\* One copy is written and listed; the others still have their places.
LEMMA NextCopy ==
    ASSUME KvsInv, op.pc \in {"write", "convert"}, NEW a, a = op.reserved[op.written + 1], op.written + 1 # red,
           NEW G, NEW D, NEW S, NEW t, Others(G, flash, S, a[1]),
           CachedIn(cache) \subseteq CachedIn(D), D[op.key] # NoEntry, D[op.key].txn = t,
           op.then = "write" => D[op.key].value = op.value,
           op.then = "convert" => Upgrade,
           NEW A, A = D[op.key].addresses, A \in Seq(Addresses), Len(A) = op.written + 1,
           \A i \in 1..op.written + 1 : A[i] = op.reserved[i],
           NEW o, o = [op EXCEPT !.written = @ + 1]
    PROVE  OpInv(o, G, D, S, t, red)
  <1>0. /\ op.pc # "off" /\ op.then = op.pc /\ op.key \in Keys
        /\ op.written \in Nat /\ op.written < red /\ op.written + 1 \in 1..red
        /\ op.reserved \in Seq(Addresses) /\ Len(op.reserved) = red /\ Apart(op.reserved)
        /\ \A i \in 1..red : i > op.written => Room(flash, sectors, op.reserved[i])
        /\ Version(op, flash, cache, lastTxn)
    BY WritingFacts
  <1>1. OpShape(op, cache) /\ OpWrites(op) /\ DOMAIN op = Fields /\ red \in Nat \ {0}
    BY <1>0, InvFacts, RedundancyFacts
  <1> DEFINE w == op.written
             n == w + 1
  <1>3. /\ DOMAIN o = Fields /\ o.task = op.task /\ o.key = op.key /\ o.value = op.value /\ o.reserved = op.reserved
        /\ o.then = op.then /\ o.pc = op.pc /\ o.todo = op.todo /\ o.written = n
    BY <1>1 DEF Fields
  <1>4. n \in Nat /\ n < red /\ n > 0 /\ n # 0
    BY <1>0, <1>1
  <1>5. Written(o, D) = n
    BY <1>0, <1>3 DEF Written
  <1>6. ASSUME NEW i \in n + 1..Len(o.reserved) PROVE Room(G, S, o.reserved[i])
    <2>1. i \in 1..red /\ i > w /\ i # n
      BY <1>0, <1>3, <1>4
    <2>2. Room(flash, sectors, op.reserved[i])
      BY <1>0, <2>1
    <2>3. DOMAIN op.reserved = 1..red
      BY <1>0
    <2>4. op.reserved[i][1] # a[1]
      BY <1>0, <2>1, <2>3 DEF Apart
    <2> QED  BY <1>3, <2>2, <2>4, RoomKept
  <1> HIDE DEF n, w
  <1>7. Places(o, G, D, S, red)
    <2>1. \A i \in 1..n : o.reserved[i] = D[o.key].addresses[i]
      BY <1>3 DEF n, w
    <2>2. Len(D[o.key].addresses) = n
      BY <1>3 DEF n, w
    <2>3. n <= Len(o.reserved)
      BY <1>0, <1>1, <1>3, <1>4
    <2> QED  BY <1>0, <1>3, <1>4, <1>5, <1>6, <2>1, <2>2, <2>3 DEF Places
  <1>8. Reserved(o, D, red)
    BY <1>0, <1>3 DEF Reserved
  <1>9. Version(o, G, D, t)
    <2>1. CASE op.then = "write"
      <3>1. op.value \in Contents
        BY <1>0, <2>1 DEF Version
      <3> QED  BY <1>3, <1>4, <2>1, <3>1 DEF Version
    <2>2. CASE op.then = "convert"
      BY <1>3, <1>4, <2>2 DEF Version
    <2> QED  BY <1>0, <2>1, <2>2
  <1>10. OpHand(o, G, D, S, t, red)
    BY <1>0, <1>3, <1>7, <1>8, <1>9 DEF OpHand, InHand
  <1>11. OpShape(o, D)
    BY <1>1, <1>3 DEF OpShape
  <1>12. OpCollects(o, D) /\ OpWrites(o)
    BY <1>1, <1>3 DEF OpCollects, OpWrites
  <1> QED  BY <1>10, <1>11, <1>12 DEF OpInv

\* A write uncaches no key.
LEMMA CachedGrows ==
    ASSUME NEW C, NEW D, NEW k, D[k] # NoEntry, \A l \in Keys : l # k => D[l] = C[l]
    PROVE  CachedIn(C) \subseteq CachedIn(D)
  BY DEF CachedIn

\* A copy of what the cache lists is a copy of an entry in flash.
LEMMA ListedCopied ==
    ASSUME NEW r, CacheInv(flash, cache, r), NEW k \in Keys, cache[k] # NoEntry, NEW e,
           e.key = k, e.value = cache[k].value, e.txn = cache[k].txn
    PROVE  Copied(e)
  <1>1. Lists(flash, k, cache[k], r) /\ 1 \in DOMAIN cache[k].addresses
    <2>1. Lists(flash, k, cache[k], r) /\ Len(cache[k].addresses) \in Nat \ {0}
      BY DescriptorFacts
    <2>2. DOMAIN cache[k].addresses = 1..Len(cache[k].addresses)
      BY DescriptorFacts
    <2> QED  BY <2>1, <2>2
  <1> QED  BY <1>1 DEF Lists, Copied

\* WriteEntry: the first copy.
LEMMA WriteEntryKeeps ==
    ASSUME KvsInv, WriteEntry
    PROVE  KvsInv'
  <1>0. op.pc = "write" /\ op.written = 0 /\ lastTxn' = lastTxn + 1 /\ lastNew' = lastNew
    BY DEF WriteEntry, NewTransactionId
  <1>1. /\ op.pc # "off" /\ op.then = "write" /\ op.key \in Keys /\ op.written + 1 = 1
        /\ op.reserved \in Seq(Addresses) /\ Len(op.reserved) = red
        /\ Room(flash, sectors, op.reserved[1]) /\ Version(op, flash, cache, lastTxn)
    BY <1>0, WritingFacts
  <1>2. /\ op.value \in Contents
        /\ cache[op.key] # NoEntry \/ Cardinality(CachedIn(cache)) < MaxEntries
    BY <1>0, <1>1 DEF Version
  <1>3. /\ DataInv(flash, cache, sectors, lastTxn, red) /\ flash \in Flash /\ TxnInv(flash, lastTxn)
        /\ FlashInv(flash) /\ CacheInv(flash, cache, red)
        /\ SectorInv(flash, cache, sectors) /\ lastNew \in Sectors /\ primary \in Formats /\ OpWrites(op)
        /\ init # "none" /\ red \in Nat \ {0}
    BY <1>1, InvFacts, RedundancyFacts
  <1> DEFINE a == op.reserved[1]
             t == lastTxn + 1
             e == [key |-> op.key, value |-> op.value, txn |-> t, format |-> primary]
  <1>4. t \in Nat \ {0} /\ TxnInv(flash, t) /\ \A b \in Live(flash) : Entry(flash, b).txn < t
    BY <1>3, LaterTxn
  <1>5. e \in Stored /\ e.key = op.key /\ e.value = op.value /\ e.txn = t
    <2> HIDE DEF t
    <2> QED  BY <1>1, <1>2, <1>3, <1>4 DEF Stored
  <1>6. \/ /\ ProgramSucceeds(a, e, SectorsOf(cache[op.key].addresses))
           /\ cache' = [cache EXCEPT ![op.key] = [value |-> op.value, txn |-> t, addresses |-> <<a>>]]
           /\ op' = IF options.redundancy = 1 THEN Returning("OK") ELSE [op EXCEPT !.written = 1]
        \/ ProgramFails(a, e) /\ op' = Returning("DATA_LOSS")
    BY DEF WriteEntry, NewTransactionId
  <1>7. Room(flash, sectors, a) /\ lastTxn' = t
    BY <1>0, <1>1
  <1> HIDE DEF a, e, t
  <1>8. CASE ProgramFails(a, e) /\ op' = Returning("DATA_LOSS")
    <2>1. DataInv(flash, cache, sectors, t, red) /\ Legitimate(e, t)
      BY <1>3, <1>4, <1>5 DEF DataInv, Legitimate
    <2>2. /\ DataInv(flash', cache', sectors', t, red)
          /\ options' = options /\ primary' = primary /\ init' = init
      BY <1>5, <1>7, <1>8, <2>1, FailedWrite
    <2>3. DataInv(flash', cache', sectors', lastTxn', red)
      BY <1>7, <2>2
    <2>4. OpInv(op', flash', cache', sectors', lastTxn', red)
      BY <1>3, <1>8, ReturningKeeps
    <2> QED  BY <1>0, <1>1, <1>3, <2>2, <2>3, <2>4, StepInv
  <1>9. CASE /\ ProgramSucceeds(a, e, SectorsOf(cache[op.key].addresses))
             /\ cache' = [cache EXCEPT ![op.key] = [value |-> op.value, txn |-> t, addresses |-> <<a>>]]
             /\ op' = IF options.redundancy = 1 THEN Returning("OK") ELSE [op EXCEPT !.written = 1]
    <2>1. /\ flash' = Programmed(a, e) /\ sectors' = Accounted(a[1], SectorsOf(cache[op.key].addresses))
          /\ options' = options /\ init' = init /\ primary' = primary
      BY <1>9 DEF ProgramSucceeds
    <2> DEFINE d == [value |-> e.value, txn |-> e.txn, addresses |-> <<a>>]
    <2>2. /\ cache' = [cache EXCEPT ![e.key] = [value |-> e.value, txn |-> e.txn, addresses |-> <<a>>]]
          /\ sectors' = Accounted(a[1], SectorsOf(cache[e.key].addresses))
          /\ cache[e.key] # NoEntry \/ Cardinality(CachedIn(cache)) < MaxEntries
          /\ \A b \in Live(flash) : Entry(flash, b).txn < e.txn
      BY <1>2, <1>4, <1>5, <1>9, <2>1
    <2>3. DataInv(flash', cache', sectors', e.txn, red)
      BY <1>3, <1>5, <1>7, <2>1, <2>2, WriteNew
    <2>4. /\ cache'[e.key] = d
          /\ \A l \in Keys : l # e.key => cache'[l] = cache[l]
      <3>1. cache' = [cache EXCEPT ![e.key] = d] /\ e.key \in Keys
        BY <1>1, <1>5, <2>2
      <3> HIDE DEF d
      <3> QED  BY <1>3, <3>1, OneChanged
    <2>5. DataInv(flash', cache', sectors', lastTxn', red)
      BY <1>5, <1>7, <2>3
    <2>6. OpInv(op', flash', cache', sectors', lastTxn', red)
      <3>1. CASE op' = Returning("OK")
        BY <1>3, <3>1, ReturningKeeps
      <3>2. CASE red # 1 /\ op' = [op EXCEPT !.written = 1]
        <4>1. op' = [op EXCEPT !.written = @ + 1]
          BY <1>0, <3>2
        <4>2. a[1] \in Sectors /\ a \in Addresses
          BY <1>7 DEF Room, Addresses
        <4>3. Grown(flash', flash, a[1])
          BY <1>3, <1>5, <1>7, <2>1, ProgramFacts
        <4>4. Others(flash', flash, sectors', a[1])
          BY <1>3, <2>1, <4>2, <4>3, WriteOthers
        <4>5. cache'[op.key].addresses = <<a>> /\ cache'[op.key].value = op.value /\ cache'[op.key].txn = t
          BY <1>5, <2>4
        <4>6. cache'[op.key] # NoEntry
          <5>1. NoEntry.addresses = <<>> /\ <<a>> # <<>>
            BY NoEntryFacts
          <5> QED  BY <4>5, <5>1
        <4>7. CachedIn(cache) \subseteq CachedIn(cache')
          BY <1>5, <2>4, <4>6, CachedGrows
        <4> DEFINE A == <<a>>
        <4>8. A = cache'[op.key].addresses /\ A \in Seq(Addresses) /\ Len(A) = op.written + 1
              /\ \A i \in 1..op.written + 1 : A[i] = op.reserved[i]
          BY <1>1, <4>2, <4>5 DEF a
        <4> HIDE DEF A
        <4>9. a = op.reserved[op.written + 1] /\ op.written + 1 # red
          BY <1>1, <3>2 DEF a
        <4> QED  BY <1>0, <1>1, <1>7, <4>1, <4>4, <4>5, <4>6, <4>7, <4>8, <4>9, NextCopy
      <3> QED  BY <1>9, <3>1, <3>2 DEF red
    <2> QED  BY <1>0, <1>1, <1>3, <2>1, <2>5, <2>6, StepInv
  <1> QED  BY <1>6, <1>8, <1>9

\* WriteCopy: each of the others.
LEMMA WriteCopyStepKeeps ==
    ASSUME KvsInv, WriteCopy
    PROVE  KvsInv'
  <1>0. op.pc = "write" /\ op.written > 0 /\ lastTxn' = lastTxn /\ lastNew' = lastNew
    BY DEF WriteCopy
  <1> DEFINE w == op.written
             a == op.reserved[w + 1]
             k == op.key
             A == cache[k].addresses
             e == [key |-> k, value |-> op.value, txn |-> lastTxn, format |-> primary]
  <1>1. /\ op.pc # "off" /\ op.then = "write" /\ k \in Keys /\ w \in Nat /\ w < red
        /\ Room(flash, sectors, a) /\ Version(op, flash, cache, lastTxn)
        /\ cache[k] # NoEntry /\ Len(A) = w /\ a[1] \notin SectorsOf(A)
        /\ \A i \in 1..w : A[i] = op.reserved[i]
    BY <1>0, WritingFacts
  <1>2. op.value \in Contents /\ cache[k].value = op.value /\ cache[k].txn = lastTxn
    BY <1>0, <1>1 DEF Version
  <1>3. /\ DataInv(flash, cache, sectors, lastTxn, red) /\ flash \in Flash /\ CacheInv(flash, cache, red)
        /\ SectorInv(flash, cache, sectors) /\ lastNew \in Sectors /\ primary \in Formats /\ OpWrites(op)
        /\ init # "none" /\ red \in Nat \ {0} /\ DOMAIN op = Fields
    BY <1>1, InvFacts, RedundancyFacts
  <1>4. cache[k].txn \in Nat \ {0} /\ A \in Seq(Addresses)
    BY <1>1, <1>3, DescriptorFacts
  <1>5. e \in Stored /\ e.key = k /\ e.value = op.value /\ e.txn = lastTxn
    <2> HIDE DEF k
    <2> QED  BY <1>1, <1>2, <1>3, <1>4 DEF Stored
  <1>6. \/ /\ ProgramSucceeds(a, e, {})
           /\ cache' = [cache EXCEPT ![k].addresses = Append(@, a)]
           /\ op' = IF w + 1 = options.redundancy THEN Returning("OK") ELSE [op EXCEPT !.written = @ + 1]
        \/ ProgramFails(a, e) /\ op' = Returning("DATA_LOSS")
    BY DEF WriteCopy
  <1>6a. a = op.reserved[op.written + 1] /\ k = op.key /\ w = op.written
    OBVIOUS
  <1>6b. [cache EXCEPT ![k].addresses = Append(@, a)] = [cache EXCEPT ![k].addresses = Append(A, a)]
    OBVIOUS
  <1>6c. A = cache[k].addresses
    OBVIOUS
  <1> HIDE DEF a, e, k, w, A
  <1>7. CASE ProgramFails(a, e) /\ op' = Returning("DATA_LOSS")
    <2>0. Legitimate(e, lastTxn)
      BY <1>1, <1>2, <1>3, <1>5, ListedCopied DEF Legitimate
    <2>1. /\ DataInv(flash', cache', sectors', lastTxn, red)
          /\ options' = options /\ primary' = primary /\ init' = init
      BY <1>1, <1>3, <1>5, <1>7, <2>0, FailedWrite
    <2>2. OpInv(op', flash', cache', sectors', lastTxn', red)
      BY <1>3, <1>7, ReturningKeeps
    <2> QED  BY <1>0, <1>1, <1>3, <2>1, <2>2, StepInv
  <1>8. CASE /\ ProgramSucceeds(a, e, {})
             /\ cache' = [cache EXCEPT ![k].addresses = Append(@, a)]
             /\ op' = IF w + 1 = options.redundancy THEN Returning("OK") ELSE [op EXCEPT !.written = @ + 1]
    <2>1. /\ flash' = Programmed(a, e) /\ sectors' = Accounted(a[1], {})
          /\ options' = options /\ init' = init /\ primary' = primary
      BY <1>8 DEF ProgramSucceeds
    <2> DEFINE B == Append(A, a)
    <2>2. cache' = [cache EXCEPT ![k].addresses = B]
      BY <1>6b, <1>8
    <2>2b. B = Append(cache[k].addresses, a)
      BY <1>6c
    <2> HIDE DEF B
    <2>2c. Readdressed(cache', cache, k, B)
      BY <2>2 DEF Readdressed
    <2>3. cache' = [cache EXCEPT ![k] = [value |-> cache[k].value, txn |-> cache[k].txn, addresses |-> B]]
      BY <1>1, <1>3, <2>2c, NewAddresses
    <2>4. cache' = [cache EXCEPT ![k] = [value |-> e.value, txn |-> e.txn, addresses |-> Append(cache[k].addresses, a)]]
      BY <1>2, <1>5, <2>2b, <2>3
    <2>5. Len(cache[k].addresses) < red /\ a[1] \notin SectorsOf(cache[k].addresses) /\ red \in Nat
          /\ e.value = cache[k].value /\ e.txn = cache[k].txn /\ k = e.key
      BY <1>1, <1>2, <1>3, <1>5, <1>6c
    <2>6. DataInv(flash', cache', sectors', lastTxn, red)
      BY <1>1, <1>3, <1>5, <2>1, <2>4, <2>5, WriteCopyKeeps
    <2>7. /\ cache'[k] = [value |-> e.value, txn |-> e.txn, addresses |-> Append(cache[k].addresses, a)]
          /\ \A l \in Keys : l # k => cache'[l] = cache[l]
      <3> DEFINE d == [value |-> e.value, txn |-> e.txn, addresses |-> Append(cache[k].addresses, a)]
      <3>1. cache' = [cache EXCEPT ![k] = d]
        BY <2>4
      <3> HIDE DEF d
      <3>2. cache'[k] = d /\ \A l \in Keys : l # k => cache'[l] = cache[l]
        <4>1. k \in Keys /\ cache \in [Keys -> Descriptors \cup {NoEntry}]
          BY <1>1, <1>3 DEF CacheInv
        <4> QED  BY <3>1, <4>1
      <3> QED  BY <3>2 DEF d
    <2>8. cache'[k].addresses = B /\ cache'[k].value = op.value /\ cache'[k].txn = lastTxn
      BY <1>5, <2>2b, <2>7
    <2>9. OpInv(op', flash', cache', sectors', lastTxn', red)
      <3>1. CASE op' = Returning("OK")
        BY <1>3, <3>1, ReturningKeeps
      <3>2. CASE w + 1 # red /\ op' = [op EXCEPT !.written = @ + 1]
        <4>2. a[1] \in Sectors /\ a \in Addresses
          BY <1>1 DEF Room, Addresses
        <4>3. Grown(flash', flash, a[1])
          BY <1>1, <1>3, <1>5, <2>1, ProgramFacts
        <4>4. Others(flash', flash, sectors', a[1])
          BY <1>3, <2>1, <4>2, <4>3, WriteOthers
        <4>5. B \in Seq(Addresses) /\ Len(B) = w + 1 /\ B[w + 1] = a /\ \A i \in 1..w : B[i] = A[i]
          BY <1>1, <1>4, <4>2 DEF B
        <4>6. cache'[k] # NoEntry
          <5>1. NoEntry.addresses = <<>> /\ B # <<>>
            BY <1>1, <4>5, NoEntryFacts
          <5> QED  BY <2>8, <5>1
        <4>7. CachedIn(cache) \subseteq CachedIn(cache')
          BY <2>7, <4>6, CachedGrows
        <4>8. \A i \in 1..w + 1 : B[i] = op.reserved[i]
          <5> SUFFICES ASSUME NEW i \in 1..w + 1 PROVE B[i] = op.reserved[i]
            OBVIOUS
          <5>1. CASE i = w + 1
            BY <1>6a, <4>5, <5>1
          <5>2. CASE i # w + 1
            <6>1. i \in 1..w
              BY <1>1, <5>2
            <6> QED  BY <1>1, <4>5, <6>1
          <5> QED  BY <5>1, <5>2
        <4> HIDE DEF B
        <4>9. /\ a = op.reserved[op.written + 1] /\ op.written + 1 # red /\ B = cache'[op.key].addresses
              /\ cache'[op.key] # NoEntry /\ cache'[op.key].txn = lastTxn' /\ cache'[op.key].value = op.value
              /\ B \in Seq(Addresses) /\ Len(B) = op.written + 1
              /\ \A i \in 1..op.written + 1 : B[i] = op.reserved[i]
          BY <1>0, <1>6a, <2>8, <3>2, <4>5, <4>6, <4>8
        <4> QED  BY <1>0, <1>1, <3>2, <4>4, <4>7, <4>9, NextCopy
      <3> QED  BY <1>8, <3>1, <3>2 DEF red
    <2> QED  BY <1>0, <1>1, <1>3, <2>1, <2>6, <2>9, StepInv
  <1> QED  BY <1>6, <1>7, <1>8

-----------------------------------------------------------------------------
(* Garbage collection                                                      *)

\* What is known while a sector is collected.
LEMMA CollectingFacts ==
    ASSUME KvsInv, op.pc \in {"relocate", "erase"}
    PROVE  /\ op.pc # "off" /\ op.gc \in Sectors /\ op.gc \notin SectorsOf(op.reserved)
           /\ op.then # "none" => /\ InHand(op, flash, cache, sectors, lastTxn, red) /\ op.written = 0
                                  /\ op.then \in {"write", "fill", "convert"}
           /\ op.pc = "erase" => Copies(cache, op.gc) = {}
  <1>1. op.pc # "off" /\ op.pc \in Seeking
    BY DEF Seeking
  <1>2. OpCollects(op, cache)
    BY <1>1, InvFacts
  <1> QED  BY <1>1, <1>2, SeekFacts DEF OpCollects

\* The entry in hand when the cache is left alone.
LEMMA SameCacheHand ==
    ASSUME NEW C
    PROVE  SameHand(op, C, C)
  BY DEF SameHand

\* The entries of a sector under collection move, one copy at a time.
LEMMA MovedFacts ==
    ASSUME KvsInv, NEW k \in Keys, RelocateEntry(k)
    PROVE  \E i, a, e, next :
             /\ cache[k] # NoEntry /\ i \in DOMAIN cache[k].addresses /\ cache[k].addresses[i][1] = op.gc
             /\ e \in Stored /\ e.key = k /\ e.value = cache[k].value /\ e.txn = cache[k].txn
             /\ cache[k].addresses[1] \in Live(flash) /\ e = Entry(flash, cache[k].addresses[1])
             /\ next \in Sectors /\ lastNew' = next
             /\ \/ /\ op' = Collected("RESOURCE_EXHAUSTED")
                   /\ UNCHANGED <<options, flash, cache, sectors, init, error, primary, used>>
                \/ /\ Room(flash, sectors, a) /\ a[1] \notin SectorsOf(cache[k].addresses) /\ a[1] \notin SectorsOf(op.reserved)
                   /\ ProgramSucceeds(a, e, {op.gc})
                   /\ cache' = [cache EXCEPT ![k].addresses[i] = a] /\ op' = op
                \/ /\ Room(flash, sectors, a) /\ a[1] \notin SectorsOf(op.reserved)
                   /\ ProgramFails(a, e) /\ op' = Collected("DATA_LOSS")
  <1>0. op.pc = "relocate" /\ op.pc # "off" /\ InCollected(k) # {}
    BY DEF RelocateEntry
  <1>1. flash \in Flash /\ CacheInv(flash, cache, red) /\ lastNew \in Sectors /\ SectorInv(flash, cache, sectors)
    BY <1>0, InvFacts
  <1> DEFINE A == cache[k].addresses
             i == CHOOSE j \in InCollected(k) : TRUE
             skip == SectorsOf(A) \cup ReservedSectors
             mode == "gc"
             found == Find(mode, skip)
             a == NextWritableAddress(found.sector)
             e == SlotAt(A[1])
  <1>2. i \in InCollected(k)
    BY <1>0
  <1>3. i \in DOMAIN A /\ A[i][1] = op.gc
    BY <1>2 DEF InCollected
  <1>4. cache[k] # NoEntry
    <2>1. DOMAIN <<>> = {}
      OBVIOUS
    <2> HIDE DEF i
    <2> QED  BY <1>3, <2>1, NoEntryFacts
  <1>5. Len(A) \in Nat \ {0} /\ DOMAIN A = 1..Len(A) /\ Lists(flash, k, cache[k], red)
    <2>1. Len(A) \in Nat \ {0}
      BY <1>1, <1>4, DescriptorFacts
    <2>2. DOMAIN A = 1..Len(A)
      BY <1>1, <1>4, DescriptorFacts
    <2>3. Lists(flash, k, cache[k], red)
      BY <1>1, <1>4, DescriptorFacts
    <2> QED  BY <2>1, <2>2, <2>3
  <1>6. 1 \in DOMAIN A
    BY <1>5
  <1>7. /\ A[1] \in Live(flash) /\ Entry(flash, A[1]).key = k /\ Entry(flash, A[1]).value = cache[k].value
        /\ Entry(flash, A[1]).txn = cache[k].txn
    BY <1>5, <1>6 DEF Lists
  <1>8. e = Entry(flash, A[1]) /\ e \in Stored
    BY <1>1, <1>7, LiveFacts DEF SlotAt, Entry
  <1>9. /\ found.lastNew \in Sectors
        /\ found.sector # NoSector => Room(flash, sectors, a) /\ a[1] \notin skip
    <2>1. found = Find(mode, skip)
      OBVIOUS
    <2> HIDE DEF found, mode, skip
    <2> QED  BY <1>1, <2>1, FindFacts
  <1>10. skip = SectorsOf(A) \cup SectorsOf(op.reserved)
    BY DEF ReservedSectors
  <1>11. /\ lastNew' = found.lastNew
         /\ \/ /\ op' = Collected("RESOURCE_EXHAUSTED")
               /\ UNCHANGED <<options, flash, cache, sectors, init, error, primary, used>>
            \/ /\ found.sector # NoSector
               /\ ProgramSucceeds(a, e, {op.gc})
               /\ cache' = [cache EXCEPT ![k].addresses[i] = a] /\ op' = op
            \/ /\ found.sector # NoSector
               /\ ProgramFails(a, e) /\ op' = Collected("DATA_LOSS")
    BY DEF RelocateEntry
  <1> HIDE DEF i, found, e, skip, mode, a
  <1> WITNESS i, a, e, found.lastNew
  <1> QED  BY <1>3, <1>4, <1>7, <1>8, <1>9, <1>10, <1>11

\* RelocateEntry.
LEMMA RelocateEntryKeeps ==
    ASSUME KvsInv, NEW k \in Keys, RelocateEntry(k)
    PROVE  KvsInv'
  <1>0. op.pc = "relocate" /\ lastTxn' = lastTxn
    BY DEF RelocateEntry
  <1>1. PICK i, a, e, next :
             /\ cache[k] # NoEntry /\ i \in DOMAIN cache[k].addresses /\ cache[k].addresses[i][1] = op.gc
             /\ e \in Stored /\ e.key = k /\ e.value = cache[k].value /\ e.txn = cache[k].txn
             /\ cache[k].addresses[1] \in Live(flash) /\ e = Entry(flash, cache[k].addresses[1])
             /\ next \in Sectors /\ lastNew' = next
             /\ \/ /\ op' = Collected("RESOURCE_EXHAUSTED")
                   /\ UNCHANGED <<options, flash, cache, sectors, init, error, primary, used>>
                \/ /\ Room(flash, sectors, a) /\ a[1] \notin SectorsOf(cache[k].addresses) /\ a[1] \notin SectorsOf(op.reserved)
                   /\ ProgramSucceeds(a, e, {op.gc})
                   /\ cache' = [cache EXCEPT ![k].addresses[i] = a] /\ op' = op
                \/ /\ Room(flash, sectors, a) /\ a[1] \notin SectorsOf(op.reserved)
                   /\ ProgramFails(a, e) /\ op' = Collected("DATA_LOSS")
    BY MovedFacts
  <1>2. /\ op.pc # "off" /\ op.gc \in Sectors /\ op.gc \notin SectorsOf(op.reserved)
        /\ op.then # "none" => /\ InHand(op, flash, cache, sectors, lastTxn, red) /\ op.written = 0
                               /\ op.then \in {"write", "fill", "convert"}
    BY <1>0, CollectingFacts
  <1>3. /\ DataInv(flash, cache, sectors, lastTxn, red) /\ flash \in Flash /\ FlashInv(flash)
        /\ CacheInv(flash, cache, red) /\ SectorInv(flash, cache, sectors)
        /\ OpInv(op, flash, cache, sectors, lastTxn, red) /\ init # "none" /\ red \in Nat \ {0}
    BY <1>2, InvFacts, RedundancyFacts
  <1>4. CASE /\ op' = Collected("RESOURCE_EXHAUSTED")
             /\ UNCHANGED <<options, flash, cache, sectors, init, error, primary, used>>
    <2>1. OpInv(op', flash, cache, sectors, lastTxn, red)
      BY <1>0, <1>2, <1>3, <1>4, CollectedKeeps
    <2> QED  BY <1>0, <1>1, <1>2, <1>3, <1>4, <2>1, QuietStep
  <1>5. CASE /\ Room(flash, sectors, a) /\ a[1] \notin SectorsOf(op.reserved)
             /\ ProgramFails(a, e) /\ op' = Collected("DATA_LOSS")
    <2>0. e \in Stored /\ Copied(e) /\ Legitimate(e, lastTxn)
      BY <1>1, <1>3, ListedCopied DEF Legitimate
    <2>1. /\ DataInv(flash', cache', sectors', lastTxn, red) /\ cache' = cache
          /\ NoneAsNew(flash, flash', lastTxn) /\ Others(flash', flash, sectors', a[1])
          /\ options' = options /\ primary' = primary /\ init' = init
      BY <1>3, <1>5, <2>0, FailedWrite
    <2>2. op.then # "none" => InHand(op, flash', cache, sectors', lastTxn, red)
      BY <1>2, <1>5, <2>1, SameCacheHand, HandKept
    <2>3. OpInv(op', flash', cache, sectors', lastTxn, red)
      BY <1>0, <1>3, <1>5, <2>2, CollectedKeeps
    <2>4. OpInv(op', flash', cache', sectors', lastTxn', red)
      BY <1>0, <2>1, <2>3
    <2> QED  BY <1>0, <1>1, <1>2, <1>3, <2>1, <2>4, StepInv
  <1>6. CASE /\ Room(flash, sectors, a) /\ a[1] \notin SectorsOf(cache[k].addresses) /\ a[1] \notin SectorsOf(op.reserved)
             /\ ProgramSucceeds(a, e, {op.gc})
             /\ cache' = [cache EXCEPT ![k].addresses[i] = a] /\ op' = op
    <2> DEFINE A == cache[k].addresses
               B == [A EXCEPT ![i] = a]
    <2>1. /\ flash' = Programmed(a, e) /\ sectors' = Accounted(a[1], {A[i][1]})
          /\ options' = options /\ init' = init /\ primary' = primary
      BY <1>1, <1>6 DEF ProgramSucceeds
    <2>2. Readdressed(cache', cache, k, B)
      BY <1>6 DEF Readdressed
    <2>3. cache' = [cache EXCEPT ![k] = [value |-> cache[k].value, txn |-> cache[k].txn, addresses |-> B]]
      <3> HIDE DEF B, A
      <3> QED  BY <1>1, <1>3, <2>2, NewAddresses
    <2>4. cache' = [cache EXCEPT ![k] = [value |-> e.value, txn |-> e.txn, addresses |-> [cache[k].addresses EXCEPT ![i] = a]]]
      BY <1>1, <2>3
    <2>5. DataInv(flash', cache', sectors', lastTxn, red) /\ Plus(flash', flash, a, e)
      <3>1. red \in Nat /\ DataInv(flash, cache, sectors, lastTxn, red)
        BY <1>3
      <3>2. sectors' = Accounted(a[1], {cache[k].addresses[i][1]}) /\ flash' = Programmed(a, e)
        BY <2>1
      <3>3. /\ e \in Stored /\ k = e.key /\ cache[k] # NoEntry /\ i \in DOMAIN cache[k].addresses
            /\ e.value = cache[k].value /\ e.txn = cache[k].txn
        BY <1>1
      <3>4. Room(flash, sectors, a) /\ a[1] \notin SectorsOf(cache[k].addresses)
        BY <1>6
      <3> HIDE DEF red
      <3> QED  BY <2>4, <3>1, <3>2, <3>3, <3>4, WriteMove
    <2>6. /\ cache'[k] # NoEntry
          /\ \A l \in Keys : l # k => cache'[l] = cache[l]
      <3> DEFINE d == [value |-> cache[k].value, txn |-> cache[k].txn, addresses |-> B]
      <3>1. k \in Keys /\ cache \in [Keys -> Descriptors \cup {NoEntry}] /\ cache' = [cache EXCEPT ![k] = d]
        BY <1>3, <2>3 DEF CacheInv
      <3>2. d.txn = cache[k].txn /\ cache[k].txn \in Nat \ {0}
        BY <1>1, <1>3, DescriptorFacts
      <3>3. d # NoEntry
        BY <3>2, NoEntryFacts
      <3> HIDE DEF d
      <3> QED  BY <3>1, <3>3
    <2> HIDE DEF A, B
    <2>7. CachedIn(cache') = CachedIn(cache)
      BY <1>1, <2>6 DEF CachedIn
    <2>8. ASSUME op.then # "none" PROVE InHand(op, flash', cache', sectors', lastTxn, red)
      <3>1. NoneAsNew(flash, flash', lastTxn)
        <4>1. flash' \in Flash
          BY <2>5 DEF DataInv, FlashInv
        <4>2. PICK b \in Live(flash) : e = Entry(flash, b)
          BY <1>1
        <4> QED  BY <1>1, <1>3, <2>5, <4>1, <4>2, CopyKeeps DEF NoneAsNew
      <3>2. a[1] \in Sectors
        BY <1>6 DEF Room, Addresses
      <3>3. Grown(flash', flash, a[1])
        BY <1>1, <1>3, <1>6, <2>1, ProgramFacts
      <3>4. Others(flash', flash, sectors', a[1])
        BY <1>3, <2>1, <3>2, <3>3, WriteOthers
      <3>5. SameHand(op, cache, cache')
        <4>1. CASE op.key # k
          <5>1. op.key \in Keys
            BY <1>2, <2>8 DEF InHand, Places
          <5> QED  BY <2>6, <2>7, <4>1, <5>1 DEF SameHand
        <4>2. CASE op.then # "fill"
          BY <1>2, <2>7, <2>8, <4>2 DEF SameHand
        <4>3. CASE op.key = k /\ op.then = "fill"
          <5>1. op.pc \in Seeking
            BY <1>0 DEF Seeking
          <5>2. /\ Len(op.reserved) = Written(op, cache) /\ op.reserved \in Seq(Addresses)
                /\ Places(op, flash, cache, sectors, red)
            BY <2>8, <4>3, <5>1, SeekFacts
          <5>3. Written(op, cache) = Len(cache[k].addresses)
            BY <4>3 DEF Written
          <5>4. DOMAIN cache[k].addresses = 1..Len(cache[k].addresses)
            BY <1>1, <1>3, DescriptorFacts
          <5>5. i \in 1..Written(op, cache) /\ i \in DOMAIN op.reserved
            BY <1>1, <5>2, <5>3, <5>4
          <5>6. op.reserved[i] = cache[k].addresses[i]
            BY <4>3, <5>2, <5>5 DEF Places
          <5>7. op.gc \in SectorsOf(op.reserved)
            BY <1>1, <5>2, <5>5, <5>6, SectorsOfMember
          <5> QED  BY <1>2, <5>7
        <4> QED  BY <4>1, <4>2, <4>3
      <3> QED  BY <1>2, <1>6, <2>8, <3>1, <3>4, <3>5, HandKept
    <2>9. OpInv(op', flash', cache', sectors', lastTxn', red)
      <3>1. OpShape(op, cache')
        BY <1>3, <2>7 DEF OpInv, OpShape
      <3>2. OpHand(op, flash', cache', sectors', lastTxn, red)
        BY <1>3, <2>8 DEF OpInv, OpHand
      <3>3. OpCollects(op, cache')
        BY <1>0, <1>3 DEF OpInv, OpCollects
      <3>4. OpWrites(op)
        BY <1>3 DEF OpInv
      <3> QED  BY <1>0, <1>6, <3>1, <3>2, <3>3, <3>4 DEF OpInv
    <2>10. DataInv(flash', cache', sectors', lastTxn', red)
      BY <1>0, <2>5
    <2> QED  BY <1>1, <1>2, <1>3, <2>1, <2>9, <2>10, StepInv
  <1> QED  BY <1>1, <1>4, <1>5, <1>6

\* Relocated: a sector without copies is erased next.
LEMMA RelocatedKeeps ==
    ASSUME KvsInv, Relocated
    PROVE  KvsInv'
  <1>0. op.pc = "relocate" /\ op.pc # "off"
    BY DEF Relocated
  <1>1. /\ op.gc \in Sectors /\ op.gc \notin SectorsOf(op.reserved)
        /\ op.then # "none" => InHand(op, flash, cache, sectors, lastTxn, red)
    BY <1>0, CollectingFacts
  <1>2. /\ flash \in Flash /\ SectorInv(flash, cache, sectors) /\ init # "none" /\ lastNew \in Sectors
        /\ OpInv(op, flash, cache, sectors, lastTxn, red) /\ DOMAIN op = Fields
    BY <1>0, InvFacts
  <1> DEFINE o == [op EXCEPT !.pc = "erase"]
  <1>3. \/ op' = Collected("INTERNAL")
        \/ sectors[op.gc].valid = 0 /\ op' = o
    BY DEF Relocated
  <1>4. CASE op' = Collected("INTERNAL")
    <2>1. OpInv(op', flash, cache, sectors, lastTxn, red)
      BY <1>0, <1>1, <1>2, <1>4, CollectedKeeps
    <2> QED  BY <1>0, <1>2, <2>1, QuietStep DEF Relocated, ram
  <1>5. CASE sectors[op.gc].valid = 0 /\ op' = o
    <2>1. Copies(cache, op.gc) = {}
      BY <1>1, <1>2, <1>5, SectorFacts
    <2>2. SameWork(o) /\ o.todo = op.todo /\ o.pc = "erase" /\ o.gc = op.gc /\ o.caller = op.caller
      BY <1>2 DEF SameWork, Fields
    <2> HIDE DEF o
    <2>3. OpShape(o, cache)
      BY <1>2, <2>2 DEF OpInv, OpShape, SameWork, Pcs
    <2>4. OpHand(o, flash, cache, sectors, lastTxn, red)
      <3>1. CASE op.then = "none"
        BY <1>2, <2>2, <3>1 DEF OpInv, OpHand, SameWork
      <3>2. CASE op.then # "none"
        <4>1. InHand(op, flash, cache, sectors, lastTxn, red) /\ op.then \in {"write", "fill", "convert"}
          BY <1>1, <1>2, <3>2 DEF OpInv, OpHand
        <4>2. op.pc \in Seeking /\ o.pc \in Seeking
          BY <1>0, <2>2 DEF Seeking
        <4>3. InHand(o, flash, cache, sectors, lastTxn, red)
          BY <2>2, <4>1, <4>2, SeekingHand DEF SameWork
        <4> QED  BY <2>2, <3>2, <4>1, <4>3 DEF OpHand, SameWork
      <3> QED  BY <3>1, <3>2
    <2>5. OpCollects(o, cache)
      <3>1. op.caller \in Callers /\ (op.caller = "reserve" <=> op.then # "none")
        BY <1>0, <1>2 DEF OpInv, OpCollects
      <3> QED  BY <1>1, <2>1, <2>2, <3>1 DEF OpCollects, SameWork
    <2>6. OpWrites(o)
      BY <1>0, <1>2, <2>2 DEF OpInv, OpWrites, SameWork
    <2>7. OpInv(op', flash, cache, sectors, lastTxn, red)
      BY <1>5, <2>3, <2>4, <2>5, <2>6 DEF OpInv
    <2> QED  BY <1>0, <1>2, <2>7, QuietStep DEF Relocated, ram
  <1> QED  BY <1>3, <1>4, <1>5

\* Erasing a sector in which no copy is listed, whatever is left of it,
\* loses nothing that the cache lists.
LEMMA ErasedData ==
    ASSUME NEW t, NEW r, DataInv(flash, cache, sectors, t, r), NEW s \in Sectors, Copies(cache, s) = {},
           NEW slots, NEW G, Erased(G, flash, s, slots)
    PROVE  /\ FlashInv(G) /\ CacheInv(G, cache, r) /\ TxnInv(G, t) /\ NoneAsNew(flash, G, t)
           /\ G[s] = slots /\ \A u \in Sectors : u # s => G[u] = flash[u]
  <1>1. /\ flash \in Flash /\ FlashInv(flash) /\ CacheInv(flash, cache, r) /\ TxnInv(flash, t)
    BY DEF DataInv, FlashInv
  <1>2. /\ G \in Flash /\ Within(G, flash)
        /\ \A b \in Live(flash) : b[1] # s => b \in Live(G)
        /\ G[s] = slots /\ \A u \in Sectors : u # s => G[u] = flash[u]
    BY <1>1, EraseFacts
  <1>3. FlashInv(G) /\ TxnInv(G, t) /\ NoneAsNew(flash, G, t)
    BY <1>1, <1>2, WithinKeeps DEF NoneAsNew
  <1>4. ASSUME NEW k \in Keys, cache[k] # NoEntry, NEW i \in DOMAIN cache[k].addresses
        PROVE  cache[k].addresses[i] \in Live(G)
    <2>1. cache[k].addresses \in Seq(Addresses) /\ Lists(flash, k, cache[k], r)
      BY <1>1, <1>4, DescriptorFacts
    <2>2. s \notin SectorsOf(cache[k].addresses)
      BY DEF Copies
    <2>3. cache[k].addresses[i][1] # s
      BY <2>1, <2>2, SectorsOfMember
    <2>4. cache[k].addresses[i] \in Live(flash)
      BY <2>1 DEF Lists
    <2> QED  BY <1>2, <2>3, <2>4
  <1>5. CacheInv(G, cache, r)
    BY <1>1, <1>2, <1>4, CacheWithin
  <1> QED  BY <1>2, <1>3, <1>5

\* The erase at the end of a garbage collection, whole or interrupted.
LEMMA EraseSectorKeeps ==
    ASSUME KvsInv, EraseSector
    PROVE  KvsInv'
  <1>0. /\ op.pc = "erase" /\ op.pc # "off"
        /\ UNCHANGED <<options, cache, lastNew, lastTxn, init, error, primary>>
    BY DEF EraseSector
  <1> DEFINE s == op.gc
  <1>1. /\ s \in Sectors /\ s \notin SectorsOf(op.reserved) /\ Copies(cache, s) = {}
        /\ op.then # "none" => InHand(op, flash, cache, sectors, lastTxn, red) /\ op.then \in {"write", "fill", "convert"}
    BY <1>0, CollectingFacts
  <1>2. /\ flash \in Flash /\ SectorInv(flash, cache, sectors) /\ init # "none" /\ lastNew \in Sectors
        /\ DataInv(flash, cache, sectors, lastTxn, red)
        /\ OpInv(op, flash, cache, sectors, lastTxn, red)
    BY <1>0, InvFacts
  <1>3. \/ /\ op' = Collected("OK") /\ UNCHANGED <<flash, sectors>>
        \/ /\ flash' = [flash EXCEPT ![s] = <<>>]
           /\ sectors' = [sectors EXCEPT ![s].writable = Slots]
           /\ op' = Collected("OK")
        \/ /\ \E slots \in Remains(flash[s]) : flash' = [flash EXCEPT ![s] = slots]
           /\ sectors' = [sectors EXCEPT ![s] = MarkCorrupt(@)]
           /\ op' = Collected("INTERNAL")
    BY DEF EraseSector
  <1> HIDE DEF s
  <1>4. ASSUME NEW status, op' = Collected(status), NEW slots, Erased(flash', flash, s, slots), SectorInv(flash', cache, sectors'),
               \A u \in Sectors : u # s => sectors'[u].writable = sectors[u].writable
        PROVE  KvsInv'
    <2>1. /\ FlashInv(flash') /\ CacheInv(flash', cache, red) /\ TxnInv(flash', lastTxn) /\ NoneAsNew(flash, flash', lastTxn)
          /\ \A u \in Sectors : u # s => flash'[u] = flash[u]
      BY <1>1, <1>2, <1>4, ErasedData
    <2>2. Others(flash', flash, sectors', s)
      BY <1>4, <2>1 DEF Others
    <2>3. op.then # "none" => InHand(op, flash', cache, sectors', lastTxn, red)
      BY <1>1, <2>1, <2>2, SameCacheHand, HandKept
    <2>4. OpInv(op', flash', cache, sectors', lastTxn, red)
      BY <1>0, <1>2, <1>4, <2>3, CollectedKeeps
    <2>5. DataInv(flash', cache, sectors', lastTxn, red)
      BY <1>4, <2>1 DEF DataInv
    <2>6. DataInv(flash', cache', sectors', lastTxn', red) /\ OpInv(op', flash', cache', sectors', lastTxn', red)
      BY <1>0, <2>4, <2>5
    <2> QED  BY <1>0, <1>2, <2>6, StepInv
  <1>5. CASE op' = Collected("OK") /\ UNCHANGED <<flash, sectors>>
    <2>1. OpInv(op', flash, cache, sectors, lastTxn, red)
      BY <1>0, <1>1, <1>2, <1>5, CollectedKeeps
    <2> QED  BY <1>0, <1>2, <1>5, <2>1, QuietStep
  <1>6. CASE /\ flash' = [flash EXCEPT ![s] = <<>>]
             /\ sectors' = [sectors EXCEPT ![s].writable = Slots]
             /\ op' = Collected("OK")
    <2> DEFINE left == <<>>
    <2>1. Erased(flash', flash, s, left)
      BY <1>6 DEF Erased
    <2>0. left = <<>>
      OBVIOUS
    <2> HIDE DEF left
    <2>2. flash'[s] = <<>> /\ \A u \in Sectors : u # s => flash'[u] = flash[u]
      BY <1>1, <1>2, <2>0, <2>1, ErasedData
    <2>3. SectorInv(flash', cache, sectors')
      BY <1>1, <1>2, <1>6, <2>2, ErasedKeeps
    <2>4. sectors \in [Sectors -> [writable : -1..Slots, valid : Nat]]
      BY <1>2 DEF SectorInv
    <2>5. \A u \in Sectors : u # s => sectors'[u].writable = sectors[u].writable
      BY <1>1, <1>6, <2>4
    <2> QED  BY <1>4, <1>6, <2>1, <2>3, <2>5
  <1>7. CASE /\ \E slots \in Remains(flash[s]) : flash' = [flash EXCEPT ![s] = slots]
             /\ sectors' = [sectors EXCEPT ![s] = MarkCorrupt(@)]
             /\ op' = Collected("INTERNAL")
    <2>1. PICK slots \in Remains(flash[s]) : flash' = [flash EXCEPT ![s] = slots]
      BY <1>7
    <2>0. Erased(flash', flash, s, slots)
      BY <2>1 DEF Erased
    <2>2. \A u \in Sectors : u # s => flash'[u] = flash[u]
      BY <1>1, <1>2, <2>0, <2>1, ErasedData
    <2>3. SectorInv(flash', cache, sectors')
      BY <1>1, <1>2, <1>7, <2>2, MarkCorruptKeeps
    <2>4. sectors \in [Sectors -> [writable : -1..Slots, valid : Nat]]
      BY <1>2 DEF SectorInv
    <2>5. \A u \in Sectors : u # s => sectors'[u].writable = sectors[u].writable
      BY <1>1, <1>7, <2>4
    <2> QED  BY <1>4, <1>7, <2>0, <2>1, <2>3, <2>5
  <1> QED  BY <1>3, <1>5, <1>6, <1>7

-----------------------------------------------------------------------------
(* Loops over sectors and keys                                             *)

Loops == {"repair", "free", "redundancy", "update", "sweep", "partial"}

\* Between two entries or sectors a loop has nothing in hand.
LEMMA LoopFacts ==
    ASSUME KvsInv, op.pc \in Loops
    PROVE  /\ op.pc # "off" /\ op.then = "none" /\ op.reserved = <<>> /\ op.written = 0 /\ op.task # "Write"
           /\ DOMAIN op = Fields /\ op.todo \subseteq CachedIn(cache) /\ OpWrites(op)
           /\ SectorsOf(op.reserved) = {}
  <1>1. op.pc # "off"
    BY DEF Loops
  <1>2. OpShape(op, cache) /\ OpHand(op, flash, cache, sectors, lastTxn, red) /\ OpWrites(op) /\ DOMAIN op = Fields
    BY <1>1, InvFacts
  <1>3. op.then = "none"
    BY <1>2 DEF OpHand, Loops
  <1> QED  BY <1>1, <1>2, <1>3, NoEntryFacts DEF OpHand, OpWrites, OpShape, Loops

\* A loop goes on to something that needs no entry in hand.
LEMMA LoopGoesOn ==
    ASSUME KvsInv, op.pc \in Loops, NEW p, SameWork(p), p.todo \subseteq CachedIn(cache), p.pc \in Loops
    PROVE  OpInv(p, flash, cache, sectors, lastTxn, red)
  <1>1. op.then = "none" /\ op.reserved = <<>> /\ op.written = 0 /\ op.task # "Write"
    BY LoopFacts
  <1>2. OpShape(p, cache)
    BY DEF OpShape, SameWork, Loops, Pcs
  <1> QED  BY <1>1, <1>2, Resting DEF SameWork, Loops, Pcs

\* A loop collects a sector.
LEMMA LoopCollects ==
    ASSUME KvsInv, op.pc \in {"repair", "free", "sweep", "partial"}, NEW s \in Sectors,
           NEW p, SameWork(p), p.todo = op.todo, p.gc = s, p.caller = op.pc,
           p.pc = (IF sectors[s].valid = 0 THEN "erase" ELSE "relocate")
    PROVE  OpInv(p, flash, cache, sectors, lastTxn, red)
  <1>1. op.pc # "off" /\ SectorsOf(op.reserved) = {}
    BY LoopFacts DEF Loops
  <1>2. flash \in Flash /\ SectorInv(flash, cache, sectors) /\ OpInv(op, flash, cache, sectors, lastTxn, red)
    BY <1>1, InvFacts
  <1> DEFINE caller == op.pc
  <1>3. caller = op.pc /\ p.caller = caller /\ s \notin SectorsOf(op.reserved)
    BY <1>1
  <1> HIDE DEF caller
  <1> QED  BY <1>2, <1>3, CollectSectorKeeps

\* What a loop's step leaves alone.
LEMMA LoopStep ==
    ASSUME KvsInv, op.pc \in Loops, UNCHANGED <<options, flash, ram, primary, used>>,
           OpInv(op', flash, cache, sectors, lastTxn, red)
    PROVE  KvsInv'
  <1>1. op.pc # "off"
    BY LoopFacts
  <1>2. init # "none" /\ lastNew \in Sectors
    BY <1>1, InvFacts
  <1> QED  BY <1>1, <1>2, QuietStep DEF ram

\* The model's name for the cached keys.
LEMMA CachedSame == Cached = CachedIn(cache)
  BY DEF Cached, CachedIn

\* RepairCorruptSectors.
LEMMA RepairCorruptSectorsKeeps ==
    ASSUME KvsInv, RepairCorruptSectors
    PROVE  KvsInv'
  <1>0. op.pc = "repair" /\ op.pc \in Loops /\ UNCHANGED <<options, flash, ram, primary, used>>
    BY DEF RepairCorruptSectors, Loops
  <1>1. DOMAIN op = Fields /\ op.todo \subseteq CachedIn(cache)
    BY <1>0, LoopFacts
  <1> DEFINE corrupt == {s \in Sectors : s >= op.cursor /\ IsCorrupt(s)}
             s == CHOOSE t \in corrupt : \A u \in corrupt : t <= u
             x == IF op.status = "RESOURCE_EXHAUSTED" THEN "OK" ELSE op.status
             p == CollectSector(s, "repair")
             collecting == [p EXCEPT !.cursor = s + 1]
             again == [op EXCEPT !.cursor = 0, !.pass = 2, !.status = x]
             onward == [op EXCEPT !.pc = "free", !.cursor = 0, !.pass = 0]
  <1>2. \/ corrupt # {} /\ op' = collecting
        \/ op' = again
        \/ op' = onward
    BY <1>1 DEF RepairCorruptSectors, Fields
  <1>3. corrupt # {} => s \in Sectors
    <2>0. SectorCount \in Nat
      BY KvsAssumption
    <2>1. corrupt \in SUBSET Nat
      BY <2>0 DEF Sectors
    <2> HIDE DEF corrupt
    <2>2. corrupt # {} => s = First(corrupt)
      BY DEF First
    <2>3. corrupt # {} => s \in corrupt
      BY <2>1, <2>2, FirstFacts
    <2> QED  BY <2>3 DEF corrupt
  <1> HIDE DEF corrupt, s, x
  <1>4. CASE corrupt # {} /\ op' = collecting
    <2> DEFINE c == s + 1
    <2>1. SameWork(p) /\ p.todo = op.todo /\ p.gc = s /\ p.caller = "repair"
          /\ p.pc = (IF sectors[s].valid = 0 THEN "erase" ELSE "relocate")
      BY <1>1 DEF SameWork, CollectSector, Fields
    <2> HIDE DEF p
    <2>2. SameWork(collecting) /\ collecting.todo = op.todo /\ collecting.gc = s /\ collecting.caller = op.pc
          /\ collecting.pc = (IF sectors[s].valid = 0 THEN "erase" ELSE "relocate")
      <3> HIDE DEF c
      <3>1. collecting = [p EXCEPT !.cursor = c]
        BY DEF c
      <3> QED  BY <1>0, <2>1, <3>1 DEF SameWork, Fields
    <2> HIDE DEF collecting
    <2>3. OpInv(op', flash, cache, sectors, lastTxn, red)
      BY <1>0, <1>3, <1>4, <2>2, LoopCollects
    <2> QED  BY <1>0, <2>3, LoopStep
  <1>5. CASE op' = again
    <2>1. SameWork(again) /\ again.todo = op.todo /\ again.pc = op.pc
      BY <1>1 DEF SameWork, Fields
    <2> HIDE DEF again
    <2>2. OpInv(op', flash, cache, sectors, lastTxn, red)
      BY <1>0, <1>1, <1>5, <2>1, LoopGoesOn
    <2> QED  BY <1>0, <2>2, LoopStep
  <1>6. CASE op' = onward
    <2>1. SameWork(onward) /\ onward.todo = op.todo /\ onward.pc = "free"
      BY <1>1 DEF SameWork, Fields
    <2> HIDE DEF onward
    <2>2. OpInv(op', flash, cache, sectors, lastTxn, red)
      BY <1>0, <1>1, <1>6, <2>1, LoopGoesOn DEF Loops
    <2> QED  BY <1>0, <2>2, LoopStep
  <1> QED  BY <1>2, <1>4, <1>5, <1>6

\* EnsureFreeSectorExists.
LEMMA EnsureFreeSectorExistsKeeps ==
    ASSUME KvsInv, EnsureFreeSectorExists
    PROVE  KvsInv'
  <1>0. op.pc = "free" /\ op.pc \in Loops /\ UNCHANGED <<options, flash, ram, primary, used>>
    BY DEF EnsureFreeSectorExists, Loops
  <1>1. DOMAIN op = Fields /\ op.todo \subseteq CachedIn(cache) /\ op.pc # "off"
    BY <1>0, LoopFacts
  <1> DEFINE skip == {}
             garbage == FindSectorToGarbageCollect(skip)
             x == FirstError("NOT_FOUND")
             onward == [op EXCEPT !.pc = "redundancy", !.todo = Cached]
             failed == [onward EXCEPT !.status = x]
             collecting == CollectSector(garbage, "free")
  <1>2. \/ op' = onward
        \/ op' = failed
        \/ garbage # NoSector /\ op' = collecting
    BY DEF EnsureFreeSectorExists
  <1>3. garbage # NoSector => garbage \in Sectors
    <2>1. garbage = FindSectorToGarbageCollect(skip) /\ lastNew \in Sectors
      BY <1>1, InvFacts
    <2> HIDE DEF garbage, skip
    <2> QED  BY <2>1, GarbageFacts
  <1> HIDE DEF garbage, skip, x
  <1>4. SameWork(onward) /\ onward.todo = CachedIn(cache) /\ onward.pc = "redundancy"
    BY <1>1, CachedSame DEF SameWork, Fields
  <1>5. CASE op' = onward
    <2> HIDE DEF onward
    <2>1. OpInv(op', flash, cache, sectors, lastTxn, red)
      BY <1>0, <1>4, <1>5, LoopGoesOn DEF Loops
    <2> QED  BY <1>0, <2>1, LoopStep
  <1>6. CASE op' = failed
    <2> HIDE DEF onward
    <2>1. SameWork(failed) /\ failed.todo = CachedIn(cache) /\ failed.pc = "redundancy"
      BY <1>4 DEF SameWork, Fields
    <2> HIDE DEF failed
    <2>2. OpInv(op', flash, cache, sectors, lastTxn, red)
      BY <1>0, <1>6, <2>1, LoopGoesOn DEF Loops
    <2> QED  BY <1>0, <2>2, LoopStep
  <1>7. CASE garbage # NoSector /\ op' = collecting
    <2>1. SameWork(collecting) /\ collecting.todo = op.todo /\ collecting.gc = garbage /\ collecting.caller = op.pc
          /\ collecting.pc = (IF sectors[garbage].valid = 0 THEN "erase" ELSE "relocate")
      BY <1>0, <1>1 DEF SameWork, CollectSector, Fields
    <2> HIDE DEF collecting
    <2>2. OpInv(op', flash, cache, sectors, lastTxn, red)
      BY <1>0, <1>3, <1>7, <2>1, LoopCollects
    <2> QED  BY <1>0, <2>2, LoopStep
  <1> QED  BY <1>2, <1>5, <1>6, <1>7

\* The one sector that PartialMaintenance collects.
LEMMA GarbageCollectKeeps ==
    ASSUME KvsInv, GarbageCollect
    PROVE  KvsInv'
  <1>0. op.pc = "partial" /\ op.pc \in Loops /\ UNCHANGED <<options, flash, ram, primary, used>>
    BY DEF GarbageCollect, Loops
  <1>1. DOMAIN op = Fields /\ op.todo \subseteq CachedIn(cache) /\ op.pc # "off" /\ OpWrites(op)
    BY <1>0, LoopFacts
  <1> DEFINE skip == {}
             garbage == FindSectorToGarbageCollect(skip)
             collecting == CollectSector(garbage, "partial")
  <1>2. \/ op' = Returning("NOT_FOUND")
        \/ garbage # NoSector /\ op' = collecting
    BY DEF GarbageCollect
  <1>3. garbage # NoSector => garbage \in Sectors
    <2>1. garbage = FindSectorToGarbageCollect(skip) /\ lastNew \in Sectors
      BY <1>1, InvFacts
    <2> HIDE DEF garbage, skip
    <2> QED  BY <2>1, GarbageFacts
  <1> HIDE DEF garbage, skip
  <1>4. CASE op' = Returning("NOT_FOUND")
    <2>1. OpInv(op', flash, cache, sectors, lastTxn, red)
      BY <1>1, <1>4, ReturningKeeps
    <2> QED  BY <1>0, <2>1, LoopStep
  <1>5. CASE garbage # NoSector /\ op' = collecting
    <2>1. SameWork(collecting) /\ collecting.todo = op.todo /\ collecting.gc = garbage /\ collecting.caller = op.pc
          /\ collecting.pc = (IF sectors[garbage].valid = 0 THEN "erase" ELSE "relocate")
      BY <1>0, <1>1 DEF SameWork, CollectSector, Fields
    <2> HIDE DEF collecting
    <2>2. OpInv(op', flash, cache, sectors, lastTxn, red)
      BY <1>0, <1>3, <1>5, <2>1, LoopCollects
    <2> QED  BY <1>0, <2>2, LoopStep
  <1> QED  BY <1>2, <1>4, <1>5

-----------------------------------------------------------------------------
(* Where a call is in its loops                                            *)

\* Where a call is in its loops, and that there is a call.
Progress(o) ==
  /\ DOMAIN o = Fields /\ o.cursor \in Nat /\ o.pass \in Nat
  /\ o.task \in {"none", "Write", "Init", "FullMaintenance", "PartialMaintenance"}
  /\ o.task = "none" => o.pc \in {"idle", "off"}
Busy(o) == Progress(o) /\ o.task # "none"
\* o is a stage of the same call as the one in progress.
OfCall(o) == Busy(o) /\ o.task = op.task
\* o is a later stage of the call in progress.
Onward(o) == DOMAIN o = Fields /\ o.cursor = op.cursor /\ o.pass = op.pass /\ o.task = op.task

\* No call, and the start of one.
LEMMA IdleProgress ==
    /\ Progress(Idle) /\ Progress(Off)
    /\ \A task \in {"Write", "Init", "FullMaintenance", "PartialMaintenance"} :
         /\ Busy(FixErrors(task))
         /\ \A o : DOMAIN o = Fields /\ o.cursor = 0 /\ o.pass = 0 /\ o.task = task => Busy(o)
  <1>1. /\ DOMAIN Idle = Fields /\ Idle.cursor = 0 /\ Idle.pass = 0 /\ Idle.pc = "idle" /\ Idle.task = "none"
    BY DEF Idle, Fields
  <1>2. Progress(Idle)
    BY <1>1 DEF Progress
  <1>3. Progress(Off)
    <2>1. /\ DOMAIN Off = Fields /\ Off.cursor = 0 /\ Off.pass = 0 /\ Off.pc = "off" /\ Off.task = "none"
      BY <1>1 DEF Off, Fields
    <2> QED  BY <2>1 DEF Progress
  <1>4. ASSUME NEW task \in {"Write", "Init", "FullMaintenance", "PartialMaintenance"}
        PROVE  /\ Busy(FixErrors(task))
               /\ \A o : DOMAIN o = Fields /\ o.cursor = 0 /\ o.pass = 0 /\ o.task = task => Busy(o)
    <2>1. /\ DOMAIN FixErrors(task) = Fields /\ FixErrors(task).cursor = 0 /\ FixErrors(task).pass = 1
          /\ FixErrors(task).pc = "repair" /\ FixErrors(task).task = task
      BY <1>1 DEF FixErrors, Fields
    <2> QED  BY <2>1 DEF Busy, Progress
  <1> QED  BY <1>2, <1>3, <1>4

\* A call that goes on is still that call.
LEMMA OnwardBusy ==
    ASSUME Busy(op), NEW o, Onward(o)
    PROVE  OfCall(o)
  BY DEF OfCall, Busy, Progress, Onward

\* A call that returns is still that call.
LEMMA ReturningBusy ==
    ASSUME Busy(op), NEW status
    PROVE  OfCall(Returning(status))
  <1>1. /\ DOMAIN Idle = Fields /\ Idle.cursor = 0 /\ Idle.pass = 0 /\ Idle.pc = "idle" /\ Idle.task = "none"
    BY DEF Idle, Fields
  <1>2. /\ DOMAIN Returning(status) = Fields /\ Returning(status).cursor = 0 /\ Returning(status).pass = 0
        /\ Returning(status).task = op.task
    BY <1>1 DEF Returning, Fields
  <1> QED  BY <1>2 DEF OfCall, Busy, Progress

\* A loop that settles goes on.
LEMMA SettledOnward ==
    ASSUME DOMAIN op = Fields, NEW pc
    PROVE  Onward(Settled(pc))
  BY DEF Onward, Settled, Fields

\* A call in which a step failed is still that call.
LEMMA FailedBusy ==
    ASSUME Busy(op), op.then \in {"write", "fill", "convert"}, NEW status
    PROVE  OfCall(Failed(status))
  <1>0. DOMAIN op = Fields
    BY DEF Busy, Progress
  <1>1. CASE op.then = "write"
    BY <1>1, ReturningBusy DEF Failed
  <1>2. CASE op.then = "fill"
    <2> DEFINE x == FirstError(status)
               q == "redundancy"
               p == Settled(q)
               o == [p EXCEPT !.status = x]
    <2>1. Failed(status) = o
      BY <1>2 DEF Failed
    <2> HIDE DEF q, x
    <2>2. Onward(p)
      BY <1>0, SettledOnward
    <2> HIDE DEF p
    <2>3. Onward(o)
      BY <2>2 DEF Onward, Fields
    <2> HIDE DEF o
    <2> QED  BY <2>1, <2>3, OnwardBusy
  <1>3. CASE op.then = "convert"
    <2> DEFINE x == FirstError(status)
               q == "update"
               p == Settled(q)
               o == [p EXCEPT !.todo = {}, !.converted = FALSE, !.status = x]
    <2>1. Failed(status) = o
      BY <1>3 DEF Failed
    <2> HIDE DEF q, x
    <2>2. Onward(p)
      BY <1>0, SettledOnward
    <2> HIDE DEF p
    <2>3. Onward(o)
      BY <2>2 DEF Onward, Fields
    <2> HIDE DEF o
    <2> QED  BY <2>1, <2>3, OnwardBusy
  <1> QED  BY <1>1, <1>2, <1>3

\* A call whose garbage collection ended is still that call.
LEMMA CollectedBusy ==
    ASSUME Busy(op), op.caller \in Callers, op.caller = "reserve" => op.then \in {"write", "fill", "convert"}, NEW status
    PROVE  OfCall(Collected(status))
  <1> DEFINE keep == IF op.status \in {"OK", "RESOURCE_EXHAUSTED"} /\ status # "OK" THEN status ELSE op.status
             done == [op EXCEPT !.gc = NoSector, !.caller = "none"]
             n == IF done.gcCount > SectorCount + 2 THEN done.gcCount ELSE done.gcCount + 1
             x == FirstError(status)
             C == Cached
  <1>0. DOMAIN op = Fields
    BY DEF Busy, Progress
  <1>1. Onward(done)
    BY <1>0 DEF Onward, Fields
  <1>2. \/ Collected(status) = [done EXCEPT !.pc = "reserve", !.gcCount = n]
        \/ op.caller = "reserve" /\ Collected(status) = Failed(status)
        \/ Collected(status) = [done EXCEPT !.pc = "repair", !.status = keep]
        \/ Collected(status) = [done EXCEPT !.pc = "redundancy", !.todo = C, !.status = x]
        \/ Collected(status) = [done EXCEPT !.pc = "sweep"]
        \/ Collected(status) = Returning(x)
        \/ Collected(status) = Returning(status)
    BY DEF Collected, Callers
  <1> HIDE DEF keep, done, n, x, C
  <1>3. /\ Onward([done EXCEPT !.pc = "reserve", !.gcCount = n])
        /\ Onward([done EXCEPT !.pc = "repair", !.status = keep])
        /\ Onward([done EXCEPT !.pc = "redundancy", !.todo = C, !.status = x])
        /\ Onward([done EXCEPT !.pc = "sweep"])
    BY <1>1 DEF Onward, Fields
  <1> DEFINE o == Collected(status)
  <1>4. Onward(o) \/ (op.caller = "reserve" /\ o = Failed(status)) \/ \E y : o = Returning(y)
    BY <1>2, <1>3
  <1> HIDE DEF o
  <1>5. OfCall(o)
    BY <1>4, OnwardBusy, FailedBusy, ReturningBusy
  <1> QED  BY <1>5 DEF o

\* What a step of a call may make of it.
Later(o) ==
  \/ Onward(o)
  \/ \E x : o = Returning(x)
  \/ op.then # "none" /\ \E x : o = Failed(x)
  \/ op.pc \in {"relocate", "erase"} /\ \E x : o = Collected(x)

\* What a step makes of a call is a stage of it.
LEMMA LaterProgress ==
    ASSUME KvsInv, Progress(op), op.pc \notin {"idle", "off"}, NEW o, Later(o)
    PROVE  Progress(o) /\ o.task = op.task
  <1>1. Busy(op)
    BY DEF Busy, Progress
  <1>2. OpHand(op, flash, cache, sectors, lastTxn, red) /\ OpCollects(op, cache)
    BY InvFacts
  <1>3. op.then # "none" => op.then \in {"write", "fill", "convert"}
    BY <1>2 DEF OpHand
  <1>4. op.pc \in {"relocate", "erase"} => op.caller \in Callers /\ (op.caller = "reserve" <=> op.then # "none")
    BY <1>2 DEF OpCollects
  <1>5. OfCall(o)
    BY <1>1, <1>3, <1>4, OnwardBusy, ReturningBusy, FailedBusy, CollectedBusy DEF Later
  <1> QED  BY <1>5 DEF OfCall, Busy

\* A loop's position is set.
LEMMA MovedProgress ==
    ASSUME Progress(op), op.task # "none", NEW o, DOMAIN o = Fields, o.task = op.task, o.cursor \in Nat, o.pass \in Nat
    PROVE  Progress(o) /\ o.task = op.task
  BY DEF Progress

\* A call that collects a sector goes on.
LEMMA CollectSectorOnward ==
    ASSUME DOMAIN op = Fields, NEW s, NEW caller
    PROVE  Onward(CollectSector(s, caller))
  BY DEF Onward, CollectSector, Fields

\* The steps of a write are stages of it.
LEMMA WritesProgress ==
    ASSUME KvsInv, Progress(op), FindExisting \/ GetSectorForWrite \/ WriteEntry \/ WriteCopy
    PROVE  Progress(op') /\ op'.task = op.task
  <1>0. DOMAIN op = Fields
    BY DEF Progress
  <1>1. CASE FindExisting
    <2>1. op.pc \notin {"idle", "off"}
      BY <1>1 DEF FindExisting
    <2>2. (\E x : op' = Returning(x)) \/ op' = [op EXCEPT !.pc = "reserve", !.then = "write"]
      BY <1>1 DEF FindExisting
    <2>3. Onward([op EXCEPT !.pc = "reserve", !.then = "write"])
      BY <1>0 DEF Onward, Fields
    <2>4. Later(op')
      BY <2>2, <2>3 DEF Later
    <2> QED  BY <2>1, <2>4, LaterProgress
  <1>2. CASE GetSectorForWrite
    <2>1. op.pc = "reserve" /\ op.pc \notin {"idle", "off"}
      BY <1>2 DEF GetSectorForWrite
    <2>2. op.then # "none"
      <3>1. OpHand(op, flash, cache, sectors, lastTxn, red)
        BY <2>1, InvFacts
      <3> QED  BY <2>1, <3>1 DEF OpHand
    <2> DEFINE garbage == FindSectorToGarbageCollect(ReservedSectors)
               reserved == Append(op.reserved, NextWritableAddress(Find("append", ReservedSectors).sector))
               pc == IF Len(reserved) < CopiesNeeded THEN "reserve" ELSE op.then
               placed == [op EXCEPT !.reserved = reserved, !.gcCount = 0, !.pc = pc]
               collecting == CollectSector(garbage, "reserve")
    <2>3. op' = Failed("RESOURCE_EXHAUSTED") \/ op' = placed \/ op' = collecting
      BY <1>2 DEF GetSectorForWrite
    <2>4. Onward(collecting)
      BY <1>0, CollectSectorOnward
    <2>5. Onward(placed)
      <3> HIDE DEF reserved, pc
      <3> QED  BY <1>0 DEF Onward, Fields
    <2> HIDE DEF placed, collecting
    <2>6. Later(op')
      BY <2>2, <2>3, <2>4, <2>5 DEF Later
    <2> QED  BY <2>1, <2>6, LaterProgress
  <1>3. CASE WriteEntry
    <2>1. op.pc \notin {"idle", "off"}
      BY <1>3 DEF WriteEntry
    <2>2. (\E x : op' = Returning(x)) \/ op' = [op EXCEPT !.written = 1]
      BY <1>3 DEF WriteEntry
    <2>3. Onward([op EXCEPT !.written = 1])
      BY <1>0 DEF Onward, Fields
    <2>4. Later(op')
      BY <2>2, <2>3 DEF Later
    <2> QED  BY <2>1, <2>4, LaterProgress
  <1>4. CASE WriteCopy
    <2> DEFINE n == op.written + 1
    <2>1. op.pc \notin {"idle", "off"}
      BY <1>4 DEF WriteCopy
    <2>2. (\E x : op' = Returning(x)) \/ op' = [op EXCEPT !.written = n]
      BY <1>0, <1>4 DEF WriteCopy, Fields
    <2>3. Onward([op EXCEPT !.written = n])
      BY <1>0 DEF Onward, Fields
    <2>4. Later(op')
      BY <2>2, <2>3 DEF Later
    <2> QED  BY <2>1, <2>4, LaterProgress
  <1> QED  BY <1>1, <1>2, <1>3, <1>4

\* The steps of a garbage collection are stages of the call.
LEMMA CollectsProgress ==
    ASSUME KvsInv, Progress(op), (\E k \in Keys : RelocateEntry(k)) \/ Relocated \/ EraseSector
    PROVE  Progress(op') /\ op'.task = op.task
  <1>0. DOMAIN op = Fields
    BY DEF Progress
  <1>1. op.pc \in {"relocate", "erase"}
    BY DEF RelocateEntry, Relocated, EraseSector
  <1>2. (\E x : op' = Collected(x)) \/ op' = op \/ op' = [op EXCEPT !.pc = "erase"]
    <2>1. CASE \E k \in Keys : RelocateEntry(k)
      <3>1. PICK k \in Keys : RelocateEntry(k)
        BY <2>1
      <3> QED  BY <3>1 DEF RelocateEntry
    <2>2. CASE Relocated
      BY <2>2 DEF Relocated
    <2>3. CASE EraseSector
      BY <2>3 DEF EraseSector
    <2> QED  BY <2>1, <2>2, <2>3
  <1>3. Onward(op) /\ Onward([op EXCEPT !.pc = "erase"])
    BY <1>0 DEF Onward, Fields
  <1>4. Later(op')
    BY <1>1, <1>2, <1>3 DEF Later
  <1> QED  BY <1>1, <1>4, LaterProgress

\* The steps of a repair are stages of the call.
LEMMA RepairsProgress ==
    ASSUME KvsInv, Progress(op),
           RepairCorruptSectors \/ EnsureFreeSectorExists \/ (\E k \in Keys : EnsureEntryRedundancy(k))
             \/ AddRedundantEntry \/ ErrorsFixed
    PROVE  Progress(op') /\ op'.task = op.task
  <1>0. DOMAIN op = Fields /\ (op.pc \notin {"idle", "off"} => op.task # "none")
    BY DEF Progress
  <1>1. CASE RepairCorruptSectors
    <2>1. op.pc \notin {"idle", "off"}
      BY <1>1 DEF RepairCorruptSectors
    <2> DEFINE corrupt == {s \in Sectors : s >= op.cursor /\ IsCorrupt(s)}
               s == CHOOSE t \in corrupt : \A u \in corrupt : t <= u
               x == IF op.status = "RESOURCE_EXHAUSTED" THEN "OK" ELSE op.status
               p == CollectSector(s, "repair")
               collecting == [p EXCEPT !.cursor = s + 1]
               again == [op EXCEPT !.cursor = 0, !.pass = 2, !.status = x]
               onward == [op EXCEPT !.pc = "free", !.cursor = 0, !.pass = 0]
    <2>2. \/ corrupt # {} /\ op' = collecting
          \/ op' = again
          \/ op' = onward
      BY <1>0, <1>1 DEF RepairCorruptSectors, Fields
    <2>3. corrupt # {} => s + 1 \in Nat
      <3>0. SectorCount \in Nat
        BY KvsAssumption
      <3>1. corrupt \in SUBSET Nat
        BY <3>0 DEF Sectors
      <3> HIDE DEF corrupt
      <3>2. corrupt # {} => s = First(corrupt)
        BY DEF First
      <3>3. corrupt # {} => s \in Nat
        BY <3>1, <3>2, FirstFacts
      <3> HIDE DEF s
      <3> QED  BY <3>3
    <2>4. DOMAIN p = Fields /\ p.pass = op.pass /\ p.task = op.task
      BY <1>0, CollectSectorOnward DEF Onward
    <2> DEFINE c == s + 1
    <2>5. collecting = [p EXCEPT !.cursor = c]
      OBVIOUS
    <2> HIDE DEF p, s, corrupt, x
    <2>6. CASE corrupt # {} /\ op' = collecting
      <3>1. c \in Nat
        BY <2>3, <2>6
      <3> HIDE DEF c, collecting
      <3>2. DOMAIN op' = Fields /\ op'.cursor = c /\ op'.pass = op.pass /\ op'.task = op.task
        BY <2>4, <2>5, <2>6 DEF Fields
      <3>3. op.pass \in Nat
        BY DEF Progress
      <3> QED  BY <1>0, <2>1, <3>1, <3>2, <3>3, MovedProgress
    <2>7. CASE op' = again
      <3>1. DOMAIN op' = Fields /\ op'.cursor = 0 /\ op'.pass = 2 /\ op'.task = op.task
        BY <1>0, <2>7 DEF Fields
      <3> QED  BY <1>0, <2>1, <3>1, MovedProgress
    <2>8. CASE op' = onward
      <3>1. DOMAIN op' = Fields /\ op'.cursor = 0 /\ op'.pass = 0 /\ op'.task = op.task
        BY <1>0, <2>8 DEF Fields
      <3> QED  BY <1>0, <2>1, <3>1, MovedProgress
    <2> QED  BY <2>2, <2>6, <2>7, <2>8
  <1>2. CASE EnsureFreeSectorExists
    <2>1. op.pc \notin {"idle", "off"}
      BY <1>2 DEF EnsureFreeSectorExists
    <2> DEFINE garbage == FindSectorToGarbageCollect({})
               x == FirstError("NOT_FOUND")
               C == Cached
               onward == [op EXCEPT !.pc = "redundancy", !.todo = C]
               failed == [onward EXCEPT !.status = x]
               collecting == CollectSector(garbage, "free")
    <2>2. op' = onward \/ op' = failed \/ op' = collecting
      BY <1>2 DEF EnsureFreeSectorExists
    <2> HIDE DEF C, x, garbage
    <2>3. Onward(onward) /\ Onward(failed) /\ Onward(collecting)
      BY <1>0, CollectSectorOnward DEF Onward, Fields
    <2> HIDE DEF onward, failed, collecting
    <2>4. Later(op')
      BY <2>2, <2>3 DEF Later
    <2> QED  BY <2>1, <2>4, LaterProgress
  <1>3. CASE \E k \in Keys : EnsureEntryRedundancy(k)
    <2>1. PICK k \in Keys : EnsureEntryRedundancy(k)
      BY <1>3
    <2>2. op.pc \notin {"idle", "off"} /\ Onward(op')
      BY <1>0, <2>1 DEF EnsureEntryRedundancy, Onward, Fields
    <2>3. Later(op')
      BY <2>2 DEF Later
    <2> QED  BY <2>2, <2>3, LaterProgress
  <1>4. CASE AddRedundantEntry
    <2>1. op.pc = "fill" /\ op.pc \notin {"idle", "off"}
      BY <1>4 DEF AddRedundantEntry
    <2>2. op.then # "none"
      <3>1. OpHand(op, flash, cache, sectors, lastTxn, red)
        BY <2>1, InvFacts
      <3> QED  BY <2>1, <3>1 DEF OpHand
    <2>3. op' = [op EXCEPT !.pc = "reserve"] \/ op' = Settled("redundancy") \/ op' = Failed("DATA_LOSS")
      BY <1>4 DEF AddRedundantEntry
    <2>4. Onward([op EXCEPT !.pc = "reserve"]) /\ Onward(Settled("redundancy"))
      BY <1>0, SettledOnward DEF Onward, Fields
    <2>5. Later(op')
      BY <2>2, <2>3, <2>4 DEF Later
    <2> QED  BY <2>1, <2>5, LaterProgress
  <1>5. CASE ErrorsFixed
    <2>1. op.pc = "redundancy" /\ op.pc \notin {"idle", "off"}
      BY <1>5 DEF ErrorsFixed
    <2>2. op.task \in {"Init", "FullMaintenance", "PartialMaintenance"}
      <3>1. op.task # "Write"
        BY <2>1, LoopFacts DEF Loops
      <3> QED  BY <1>0, <2>1, <3>1 DEF Progress
    <2> DEFINE C == Cached
    <2>3. \/ \E x : op' = Returning(x)
          \/ op' = [op EXCEPT !.pc = "update", !.todo = C]
          \/ op' = [op EXCEPT !.pc = "partial", !.todo = {}]
      BY <1>5, <2>2 DEF ErrorsFixed
    <2> HIDE DEF C
    <2>4. /\ Onward([op EXCEPT !.pc = "update", !.todo = C])
          /\ Onward([op EXCEPT !.pc = "partial", !.todo = {}])
      BY <1>0 DEF Onward, Fields
    <2>5. Later(op')
      BY <2>3, <2>4 DEF Later
    <2> QED  BY <2>1, <2>5, LaterProgress
  <1> QED  BY <1>1, <1>2, <1>3, <1>4, <1>5

\* Where a sweep over the sectors is next.
SweepAt(j) == (op.cursor + j) % SectorCount
SweepSteps == {i \in (op.pass + 1)..SectorCount : /\ Recoverable(SweepAt(i)) > 0
                                                  /\ op.heavy \/ ValidBytes(SweepAt(i)) = 0}

\* The next sector of the sweep is one.
LEMMA SweepFacts ==
    ASSUME Progress(op), NEW j, j = First(SweepSteps), j # 0
    PROVE  j \in Nat /\ SweepAt(j) \in Sectors
  <1>1. op.cursor \in Nat /\ op.pass \in Nat
    BY DEF Progress
  <1>2. SectorCount \in Nat /\ SectorCount >= 2
    BY KvsAssumption
  <1>3. SweepSteps \in SUBSET Nat
    BY <1>1, <1>2 DEF SweepSteps
  <1>4. j \in Nat
    BY <1>3, FirstFacts
  <1>5. op.cursor + j \in Nat
    BY <1>1, <1>4
  <1> DEFINE n == op.cursor + j
  <1>6. n % SectorCount \in 0..(SectorCount - 1)
    <2> HIDE DEF n
    <2>1. n \in Nat
      BY <1>5 DEF n
    <2> QED  BY <1>2, <2>1
  <1> QED  BY <1>4, <1>6 DEF SweepAt, Sectors

\* Sweep with these names.
LEMMA SweepStep ==
    ASSUME Sweep
    PROVE  LET j == First(SweepSteps)
           IN  op' = IF j = 0 THEN Returning(op.status)
                     ELSE [CollectSector(SweepAt(j), "sweep") EXCEPT !.pass = j]
  BY DEF Sweep, SweepSteps, SweepAt

\* The steps of maintenance are stages of it.
LEMMA MaintainsProgress ==
    ASSUME KvsInv, Progress(op),
           (\E k \in Keys : UpdateEntry(k)) \/ ConvertEntry \/ UpdateDone \/ Sweep \/ GarbageCollect
    PROVE  Progress(op') /\ op'.task = op.task
  <1>0. DOMAIN op = Fields /\ (op.pc \notin {"idle", "off"} => op.task # "none")
    BY DEF Progress
  <1>1. CASE \E k \in Keys : UpdateEntry(k)
    <2>1. PICK k \in Keys : UpdateEntry(k)
      BY <1>1
    <2>2. op.pc \notin {"idle", "off"} /\ Onward(op')
      BY <1>0, <2>1 DEF UpdateEntry, Onward, Fields
    <2>3. Later(op')
      BY <2>2 DEF Later
    <2> QED  BY <2>2, <2>3, LaterProgress
  <1>2. CASE ConvertEntry
    <2>1. op.pc = "convert" /\ op.pc \notin {"idle", "off"}
      BY <1>2 DEF ConvertEntry
    <2>2. op.then # "none"
      <3>1. OpHand(op, flash, cache, sectors, lastTxn, red)
        BY <2>1, InvFacts
      <3> QED  BY <2>1, <3>1 DEF OpHand
    <2> DEFINE n == op.written + 1
    <2>3. op' = [op EXCEPT !.written = n] \/ op' = Settled("update") \/ op' = Failed("DATA_LOSS")
      BY <1>0, <1>2 DEF ConvertEntry, Fields
    <2> HIDE DEF n
    <2>4. Onward([op EXCEPT !.written = n]) /\ Onward(Settled("update"))
      BY <1>0, SettledOnward DEF Onward, Fields
    <2>5. Later(op')
      BY <2>2, <2>3, <2>4 DEF Later
    <2> QED  BY <2>1, <2>5, LaterProgress
  <1>3. CASE UpdateDone
    <2>1. op.pc = "update" /\ op.pc \notin {"idle", "off"}
      BY <1>3 DEF UpdateDone
    <2>2. DOMAIN op' = Fields /\ op'.cursor = lastNew /\ op'.pass = 0 /\ op'.task = op.task
      <3> DEFINE h == op.heavy \/ OverUsageThreshold \/ op.converted
      <3>1. op' = [op EXCEPT !.pc = "sweep", !.todo = {}, !.cursor = lastNew, !.pass = 0, !.heavy = h]
        BY <1>0, <1>3 DEF UpdateDone, Fields
      <3> HIDE DEF h
      <3> QED  BY <1>0, <3>1 DEF Fields
    <2>3. lastNew \in Nat
      <3>1. SectorCount \in Nat
        BY KvsAssumption
      <3>2. lastNew \in Sectors
        BY <2>1, InvFacts
      <3> QED  BY <3>1, <3>2 DEF Sectors
    <2> QED  BY <1>0, <2>1, <2>2, <2>3, MovedProgress
  <1>4. CASE Sweep
    <2>1. op.pc = "sweep" /\ op.pc \notin {"idle", "off"}
      BY <1>4 DEF Sweep
    <2> DEFINE j == First(SweepSteps)
               s == SweepAt(j)
               p == CollectSector(s, "sweep")
    <2>2. op' = Returning(op.status) \/ (j # 0 /\ op' = [p EXCEPT !.pass = j])
      BY <1>4, SweepStep
    <2>3. j # 0 => j \in Nat
      BY SweepFacts
    <2> HIDE DEF j, s
    <2>4. DOMAIN p = Fields /\ p.cursor = op.cursor /\ p.task = op.task
      BY <1>0, CollectSectorOnward DEF Onward
    <2> HIDE DEF p
    <2>5. CASE op' = Returning(op.status)
      <3>1. Later(op')
        BY <2>5 DEF Later
      <3> QED  BY <2>1, <3>1, LaterProgress
    <2>6. CASE j # 0 /\ op' = [p EXCEPT !.pass = j]
      <3>1. DOMAIN op' = Fields /\ op'.cursor = op.cursor /\ op'.pass = j /\ op'.task = op.task
        BY <2>4, <2>6 DEF Fields
      <3>2. op.cursor \in Nat
        BY DEF Progress
      <3> QED  BY <1>0, <2>1, <2>3, <2>6, <3>1, <3>2, MovedProgress
    <2> QED  BY <2>2, <2>5, <2>6
  <1>5. CASE GarbageCollect
    <2>1. op.pc \notin {"idle", "off"}
      BY <1>5 DEF GarbageCollect
    <2> DEFINE s == FindSectorToGarbageCollect({})
    <2>2. op' = Returning("NOT_FOUND") \/ op' = CollectSector(s, "partial")
      BY <1>5 DEF GarbageCollect
    <2> HIDE DEF s
    <2>3. Later(op')
      BY <1>0, <2>2, CollectSectorOnward DEF Later
    <2> QED  BY <2>1, <2>3, LaterProgress
  <1> QED  BY <1>1, <1>2, <1>3, <1>4, <1>5

\* A call starts at the first of its loops.
LEMMA CallsProgress ==
    ASSUME Boot \/ (\E k \in Keys, v \in Values : PutBytes(k, v)) \/ (\E k \in Keys : Delete(k))
             \/ FullMaintenance \/ HeavyMaintenance \/ PartialMaintenance \/ PowerLoss
    PROVE  Progress(op')
  <1> DEFINE Tasks == {"Write", "Init", "FullMaintenance", "PartialMaintenance"}
  <1>0. /\ DOMAIN Idle = Fields /\ Idle.cursor = 0 /\ Idle.pass = 0 /\ Idle.pc = "idle" /\ Idle.task = "none"
    BY DEF Idle, Fields
  <1>1. ASSUME NEW task \in Tasks, NEW o, DOMAIN o = Fields, o.cursor = 0, o.pass = 0, o.task = task
        PROVE  Progress(o)
    BY <1>1, IdleProgress DEF Busy
  <1>2. ASSUME NEW task \in Tasks PROVE Progress(FixErrors(task)) /\ DOMAIN FixErrors(task) = Fields
    BY <1>2, IdleProgress DEF Busy, Progress
  <1>3. CASE Boot
    <2> DEFINE task == "Init"
               o == [Idle EXCEPT !.pc = "return", !.task = task]
               p == [Idle EXCEPT !.pc = "return", !.task = task, !.status = "DATA_LOSS"]
    <2>1. op' = o \/ op' = p \/ op' = FixErrors("Init")
      BY <1>3 DEF Boot
    <2>2. /\ DOMAIN o = Fields /\ o.cursor = 0 /\ o.pass = 0 /\ o.task = task
          /\ DOMAIN p = Fields /\ p.cursor = 0 /\ p.pass = 0 /\ p.task = task
      BY <1>0 DEF Fields
    <2>3. task \in Tasks /\ task = "Init"
      OBVIOUS
    <2> HIDE DEF o, p, task, Tasks
    <2> QED  BY <1>1, <1>2, <2>1, <2>2, <2>3
  <1>4. ASSUME NEW k, NEW v, CallWrite(k, v) PROVE Progress(op')
    <2>1. DOMAIN op' = Fields /\ op'.cursor = 0 /\ op'.pass = 0 /\ op'.task = "Write"
      BY <1>0, <1>4 DEF CallWrite, Fields
    <2> QED  BY <1>1, <2>1
  <1>5. ASSUME NEW task \in Tasks, NEW repairs, NEW heavy, Maintenance(task, repairs, heavy) PROVE Progress(op')
    <2> DEFINE todo == IF task = "FullMaintenance" THEN Cached ELSE {}
               pc == IF task = "FullMaintenance" THEN "update" ELSE "partial"
    <2>1. \/ op' = [FixErrors(task) EXCEPT !.heavy = heavy]
          \/ op' = [Idle EXCEPT !.pc = pc, !.task = task, !.heavy = heavy, !.todo = todo]
      BY <1>5 DEF Maintenance
    <2> HIDE DEF todo, pc
    <2>2. CASE op' = [Idle EXCEPT !.pc = pc, !.task = task, !.heavy = heavy, !.todo = todo]
      <3>1. DOMAIN op' = Fields /\ op'.cursor = 0 /\ op'.pass = 0 /\ op'.task = task
        BY <1>0, <2>2 DEF Fields
      <3> QED  BY <1>1, <3>1
    <2>3. CASE op' = [FixErrors(task) EXCEPT !.heavy = heavy]
      <3> DEFINE f == FixErrors(task)
      <3>1. Progress(f) /\ DOMAIN f = Fields
        BY <1>2
      <3>2. op' = [f EXCEPT !.heavy = heavy]
        BY <2>3
      <3> HIDE DEF f
      <3>3. /\ DOMAIN op' = Fields /\ op'.cursor = f.cursor /\ op'.pass = f.pass /\ op'.task = f.task
            /\ op'.pc = f.pc
        BY <3>1, <3>2 DEF Fields
      <3> QED  BY <3>1, <3>3 DEF Progress
    <2> QED  BY <2>1, <2>2, <2>3
  <1>6. CASE PowerLoss
    BY <1>6, IdleProgress DEF PowerLoss
  <1>7. CASE FullMaintenance \/ HeavyMaintenance \/ PartialMaintenance
    <2>1. "FullMaintenance" \in Tasks /\ "PartialMaintenance" \in Tasks
      OBVIOUS
    <2> HIDE DEF Tasks
    <2> QED  BY <1>5, <1>7, <2>1 DEF FullMaintenance, HeavyMaintenance, PartialMaintenance
  <1> QED  BY <1>3, <1>4, <1>6, <1>7 DEF PutBytes, Delete

\* Every step leaves a call or none.
LEMMA ProgressKeeps ==
    ASSUME KvsInv, Progress(op), [Next]_vars
    PROVE  Progress(op')
  <1>1. CASE Step
    BY <1>1, WritesProgress, CollectsProgress, RepairsProgress, MaintainsProgress, IdleProgress DEF Step, Return
  <1>2. CASE UNCHANGED vars
    BY <1>2 DEF vars
  <1> QED  BY <1>1, <1>2, CallsProgress DEF Next

-----------------------------------------------------------------------------
(* Maintenance and repair                                                  *)

\* The sweep of a full maintenance.
LEMMA SweepKeeps ==
    ASSUME KvsInv, Progress(op), Sweep
    PROVE  KvsInv'
  <1>0. op.pc = "sweep" /\ op.pc \in Loops /\ UNCHANGED <<options, flash, ram, primary, used>>
    BY DEF Sweep, Loops
  <1>1. DOMAIN op = Fields /\ OpWrites(op)
    BY <1>0, LoopFacts
  <1> DEFINE j == First(SweepSteps)
             s == SweepAt(j)
             p == CollectSector(s, "sweep")
             o == [p EXCEPT !.pass = j]
  <1>2. op' = Returning(op.status) \/ (j # 0 /\ op' = o)
    BY SweepStep
  <1>3. j # 0 => s \in Sectors
    BY SweepFacts
  <1> HIDE DEF j, s
  <1>4. CASE op' = Returning(op.status)
    <2>1. OpInv(op', flash, cache, sectors, lastTxn, red)
      BY <1>1, <1>4, ReturningKeeps
    <2> QED  BY <1>0, <2>1, LoopStep
  <1>5. CASE j # 0 /\ op' = o
    <2>1. SameWork(p) /\ p.todo = op.todo /\ p.gc = s /\ p.caller = op.pc
          /\ p.pc = (IF sectors[s].valid = 0 THEN "erase" ELSE "relocate")
      BY <1>0, <1>1 DEF SameWork, CollectSector, Fields
    <2> HIDE DEF p
    <2>2. SameWork(o) /\ o.todo = op.todo /\ o.gc = s /\ o.caller = op.pc
          /\ o.pc = (IF sectors[s].valid = 0 THEN "erase" ELSE "relocate")
      BY <2>1 DEF SameWork, Fields
    <2> HIDE DEF o
    <2>3. OpInv(op', flash, cache, sectors, lastTxn, red)
      BY <1>0, <1>3, <1>5, <2>2, LoopCollects
    <2> QED  BY <1>0, <2>3, LoopStep
  <1> QED  BY <1>2, <1>4, <1>5

\* The end of UpdateEntriesToPrimaryFormat.
LEMMA UpdateDoneKeeps ==
    ASSUME KvsInv, UpdateDone
    PROVE  KvsInv'
  <1>0. op.pc = "update" /\ op.pc \in Loops /\ UNCHANGED <<options, flash, ram, primary, used>>
    BY DEF UpdateDone, Loops
  <1>1. DOMAIN op = Fields
    BY <1>0, LoopFacts
  <1> DEFINE h == op.heavy \/ OverUsageThreshold \/ op.converted
             o == [op EXCEPT !.pc = "sweep", !.todo = {}, !.cursor = lastNew, !.pass = 0, !.heavy = h]
  <1>2. op' = o
    BY <1>1 DEF UpdateDone, Fields
  <1> HIDE DEF h
  <1>3. SameWork(o) /\ o.todo = {} /\ o.pc = "sweep"
    BY <1>1 DEF SameWork, Fields
  <1> HIDE DEF o
  <1>4. o.todo \subseteq CachedIn(cache) /\ o.pc \in Loops
    BY <1>3 DEF Loops
  <1>5. OpInv(op', flash, cache, sectors, lastTxn, red)
    BY <1>0, <1>2, <1>3, <1>4, LoopGoesOn
  <1> QED  BY <1>0, <1>5, LoopStep

\* The end of FixErrors.
LEMMA ErrorsFixedKeeps ==
    ASSUME KvsInv, Progress(op), ErrorsFixed
    PROVE  KvsInv'
  <1>0. op.pc = "redundancy" /\ op.pc \in Loops
        /\ UNCHANGED <<options, flash, cache, sectors, lastNew, lastTxn, primary, used>>
    BY DEF ErrorsFixed, Loops
  <1>1. DOMAIN op = Fields /\ op.pc # "off" /\ op.task # "Write" /\ OpWrites(op)
    BY <1>0, LoopFacts
  <1>2. op.task \in {"Init", "FullMaintenance", "PartialMaintenance"}
    BY <1>0, <1>1 DEF Progress
  <1>3. init # "none" /\ lastNew \in Sectors /\ (init' = init \/ init' = "ready")
    BY <1>1, InvFacts DEF ErrorsFixed
  <1> DEFINE C == Cached
             o == [op EXCEPT !.pc = "update", !.todo = C]
             p == [op EXCEPT !.pc = "partial", !.todo = {}]
  <1>4. \/ \E x : op' = Returning(x)
        \/ op' = o
        \/ op' = p
    BY <1>2 DEF ErrorsFixed
  <1>5. C = CachedIn(cache)
    BY CachedSame
  <1> HIDE DEF C
  <1>6. /\ SameWork(o) /\ o.todo = CachedIn(cache) /\ o.pc = "update"
        /\ SameWork(p) /\ p.todo = {} /\ p.pc = "partial"
    BY <1>1, <1>5 DEF SameWork, Fields
  <1> HIDE DEF o, p
  <1>7. /\ o.todo \subseteq CachedIn(cache) /\ o.pc \in Loops
        /\ p.todo \subseteq CachedIn(cache) /\ p.pc \in Loops
    BY <1>6 DEF Loops
  <1>8. OpInv(op', flash, cache, sectors, lastTxn, red)
    BY <1>0, <1>1, <1>4, <1>6, <1>7, LoopGoesOn, ReturningKeeps
  <1> QED  BY <1>0, <1>1, <1>3, <1>8, QuietStep

\* EnsureEntryRedundancy: the copies in the cache are the first places.
LEMMA EnsureEntryRedundancyKeeps ==
    ASSUME KvsInv, NEW k \in Keys, EnsureEntryRedundancy(k)
    PROVE  KvsInv'
  <1>0. op.pc = "redundancy" /\ op.pc \in Loops /\ UNCHANGED <<options, flash, ram, primary, used>>
    BY DEF EnsureEntryRedundancy, Loops
  <1>1. /\ op.pc # "off" /\ op.then = "none" /\ op.written = 0 /\ op.task # "Write"
        /\ DOMAIN op = Fields /\ op.todo \subseteq CachedIn(cache)
    BY <1>0, LoopFacts
  <1>2. k \in op.todo /\ Len(cache[k].addresses) < red
    BY DEF EnsureEntryRedundancy, MissingCopies, red
  <1>3. CacheInv(flash, cache, red) /\ cache[k] # NoEntry
    BY <1>1, <1>2, InvFacts DEF CachedIn
  <1> DEFINE A == cache[k].addresses
             todo == op.todo \ {k}
             o == [op EXCEPT !.pc = "reserve", !.then = "fill", !.key = k, !.todo = todo, !.reserved = A]
  <1>4. op' = o
    BY <1>1 DEF EnsureEntryRedundancy, Fields
  <1>5. A \in Seq(Addresses) /\ Len(A) \in Nat \ {0} /\ DOMAIN A = 1..Len(A) /\ Apart(A)
    <2>1. /\ Lists(flash, k, cache[k], red) /\ cache[k].addresses \in Seq(Addresses)
          /\ Len(cache[k].addresses) \in Nat \ {0} /\ DOMAIN cache[k].addresses = 1..Len(cache[k].addresses)
      <3>1. Lists(flash, k, cache[k], red)
        BY <1>3, DescriptorFacts
      <3>2. cache[k].addresses \in Seq(Addresses)
        BY <1>3, DescriptorFacts
      <3>3. Len(cache[k].addresses) \in Nat \ {0}
        BY <1>3, DescriptorFacts
      <3>4. DOMAIN cache[k].addresses = 1..Len(cache[k].addresses)
        BY <1>3, DescriptorFacts
      <3> QED  BY <3>1, <3>2, <3>3, <3>4
    <2>2. Apart(cache[k].addresses)
      BY <2>1 DEF Lists
    <2> QED  BY <2>1, <2>2
  <1>6. todo \subseteq CachedIn(cache)
    BY <1>1
  <1>7. Len(A) < red
    BY <1>2
  <1> HIDE DEF todo
  <1>8. /\ DOMAIN o = Fields /\ o.pc = "reserve" /\ o.then = "fill" /\ o.key = k /\ o.todo = todo /\ o.reserved = A
        /\ o.written = 0 /\ o.task = op.task
    <2> HIDE DEF A
    <2> QED  BY <1>1 DEF Fields
  <1> HIDE DEF o
  <1>9. Written(o, cache) = Len(A)
    BY <1>8 DEF Written
  <1>10. Places(o, flash, cache, sectors, red)
    <2>1. cache[o.key].addresses = A /\ cache[o.key] # NoEntry
      BY <1>3, <1>8
    <2> HIDE DEF A
    <2> QED  BY <1>5, <1>7, <1>8, <1>9, <2>1 DEF Places
  <1>11. Reserved(o, cache, red)
    BY <1>7, <1>8, <1>9 DEF Reserved
  <1>12. Version(o, flash, cache, lastTxn)
    BY <1>3, <1>8 DEF Version
  <1>13. OpHand(o, flash, cache, sectors, lastTxn, red)
    BY <1>8, <1>10, <1>11, <1>12 DEF OpHand, InHand
  <1>14. OpInv(o, flash, cache, sectors, lastTxn, red)
    BY <1>1, <1>6, <1>8, <1>13 DEF OpInv, OpShape, OpCollects, OpWrites, Pcs
  <1>15. OpInv(op', flash, cache, sectors, lastTxn, red)
    BY <1>4, <1>14
  <1> QED  BY <1>0, <1>15, LoopStep

\* The entry to which a copy is added, and the place of the copy.
LEMMA FillingFacts ==
    ASSUME KvsInv, op.pc = "fill"
    PROVE  /\ op.pc # "off" /\ op.then = "fill" /\ op.task # "Write" /\ op.written = 0
           /\ op.key \in Keys /\ cache[op.key] # NoEntry
           /\ op.reserved \in Seq(Addresses) /\ Apart(op.reserved)
           /\ cache[op.key].addresses \in Seq(Addresses)
           /\ Len(cache[op.key].addresses) \in Nat \ {0} /\ Len(cache[op.key].addresses) < red
           /\ Len(op.reserved) = Len(cache[op.key].addresses) + 1
           /\ \A i \in 1..Len(cache[op.key].addresses) : op.reserved[i] = cache[op.key].addresses[i]
           /\ Room(flash, sectors, Last(op.reserved)) /\ Last(op.reserved) = op.reserved[Len(op.reserved)]
           /\ op.todo \subseteq CachedIn(cache) /\ DOMAIN op = Fields
  <1>1. op.pc # "off"
    OBVIOUS
  <1>2. /\ OpHand(op, flash, cache, sectors, lastTxn, red) /\ OpWrites(op) /\ CacheInv(flash, cache, red)
        /\ OpShape(op, cache)
    BY <1>1, InvFacts
  <1>3. op.then = "fill" /\ InHand(op, flash, cache, sectors, lastTxn, red)
    BY <1>2 DEF OpHand
  <1>4. op.task # "Write"
    BY <1>2, <1>3 DEF OpWrites
  <1>5. Places(op, flash, cache, sectors, red) /\ Reserved(op, cache, red) /\ Version(op, flash, cache, lastTxn)
    BY <1>3 DEF InHand
  <1>6. cache[op.key] # NoEntry /\ op.key \in Keys
    BY <1>3, <1>5 DEF Version, Places
  <1> DEFINE A == cache[op.key].addresses
             n == Len(A)
  <1>7. A \in Seq(Addresses) /\ n \in Nat \ {0}
    BY <1>2, <1>6, DescriptorFacts
  <1>8. Written(op, cache) = n
    BY <1>3 DEF Written
  <1>9. Len(op.reserved) = n + 1 /\ op.written = 0
    BY <1>5, <1>8 DEF Reserved
  <1>10. /\ op.reserved \in Seq(Addresses) /\ Apart(op.reserved) /\ n < red
         /\ \A i \in 1..n : op.reserved[i] = A[i]
         /\ \A i \in n + 1..Len(op.reserved) : Room(flash, sectors, op.reserved[i])
    BY <1>5, <1>8 DEF Places
  <1> HIDE DEF n, A
  <1>11. Room(flash, sectors, op.reserved[Len(op.reserved)])
    <2>1. n + 1 \in n + 1..Len(op.reserved)
      BY <1>7, <1>9
    <2> QED  BY <1>9, <1>10, <2>1
  <1>12. Last(op.reserved) = op.reserved[Len(op.reserved)]
    BY DEF Last
  <1> QED  BY <1>2, <1>3, <1>4, <1>6, <1>7, <1>9, <1>10, <1>11, <1>12 DEF A, n, OpShape

\* AddRedundantEntries.
LEMMA AddRedundantEntryKeeps ==
    ASSUME KvsInv, AddRedundantEntry
    PROVE  KvsInv'
  <1>0. op.pc = "fill" /\ lastTxn' = lastTxn /\ lastNew' = lastNew
    BY DEF AddRedundantEntry
  <1> DEFINE k == op.key
             A == cache[k].addresses
             n == Len(A)
             a == Last(op.reserved)
             e == SlotAt(op.reserved[1])
             B == Append(A, a)
  <1>1. /\ op.pc # "off" /\ op.then = "fill" /\ op.task # "Write" /\ op.written = 0
        /\ k \in Keys /\ cache[k] # NoEntry
        /\ op.reserved \in Seq(Addresses) /\ Apart(op.reserved)
        /\ A \in Seq(Addresses) /\ n \in Nat \ {0} /\ n < red
        /\ Len(op.reserved) = n + 1
        /\ \A i \in 1..n : op.reserved[i] = A[i]
        /\ Room(flash, sectors, a) /\ a = op.reserved[n + 1]
        /\ op.todo \subseteq CachedIn(cache) /\ DOMAIN op = Fields
    BY <1>0, FillingFacts
  <1>2. /\ DataInv(flash, cache, sectors, lastTxn, red) /\ flash \in Flash
        /\ CacheInv(flash, cache, red) /\ SectorInv(flash, cache, sectors)
        /\ lastNew \in Sectors /\ init # "none" /\ red \in Nat \ {0} /\ OpWrites(op)
    BY <1>1, InvFacts, RedundancyFacts
  <1>3. e \in Stored /\ e.key = k /\ e.value = cache[k].value /\ e.txn = cache[k].txn
    <2>1. 1 \in 1..n /\ op.reserved[1] = A[1] /\ Lists(flash, k, cache[k], red) /\ DOMAIN A = 1..n
      <3>1. 1 \in 1..n /\ op.reserved[1] = A[1] /\ DOMAIN A = 1..n
        BY <1>1
      <3>2. Lists(flash, k, cache[k], red)
        BY <1>1, <1>2, DescriptorFacts
      <3> QED  BY <3>1, <3>2
    <2>2. /\ A[1] \in Live(flash) /\ Entry(flash, A[1]).key = k /\ Entry(flash, A[1]).value = cache[k].value
          /\ Entry(flash, A[1]).txn = cache[k].txn
      BY <2>1 DEF Lists
    <2>3. e = Entry(flash, A[1])
      BY <2>1 DEF SlotAt, Entry
    <2>4. Entry(flash, A[1]) \in Stored
      BY <1>2, <2>2, LiveFacts
    <2> QED  BY <2>2, <2>3, <2>4
  <1>4. a[1] \notin SectorsOf(A)
    <2>1. ASSUME NEW i \in DOMAIN A PROVE A[i][1] # a[1]
      <3>1. i \in 1..n /\ i \in DOMAIN op.reserved /\ n + 1 \in DOMAIN op.reserved /\ i # n + 1
        BY <1>1
      <3>2. op.reserved[i] = A[i]
        BY <1>1, <3>1
      <3> QED  BY <1>1, <3>1, <3>2 DEF Apart
    <2> QED  BY <1>1, <2>1, SectorsOfMember
  <1>5. \/ /\ ProgramSucceeds(a, e, {})
           /\ cache' = [cache EXCEPT ![k].addresses = B]
           /\ op' = IF Len(op.reserved) < options.redundancy THEN [op EXCEPT !.pc = "reserve"] ELSE Settled("redundancy")
        \/ ProgramFails(a, e) /\ op' = Failed("DATA_LOSS")
    BY DEF AddRedundantEntry
  <1>6. A = cache[k].addresses /\ B = Append(A, a) /\ k = op.key
    OBVIOUS
  <1>7. B \in Seq(Addresses) /\ Len(B) = n + 1 /\ \A i \in 1..n + 1 : B[i] = op.reserved[i]
    <2>1. a \in Addresses
      BY <1>1 DEF Room
    <2>2. B \in Seq(Addresses) /\ Len(B) = n + 1 /\ B[n + 1] = a /\ \A i \in 1..n : B[i] = A[i]
      BY <1>1, <2>1
    <2>3. ASSUME NEW i \in 1..n + 1 PROVE B[i] = op.reserved[i]
      <3>1. CASE i = n + 1
        BY <1>1, <2>2, <3>1
      <3>2. CASE i # n + 1
        <4>1. i \in 1..n
          BY <1>1, <3>2
        <4> QED  BY <1>1, <2>2, <4>1
      <3> QED  BY <3>1, <3>2
    <2> QED  BY <2>2, <2>3
  <1> HIDE DEF k, A, n, a, e, B
  <1>8. CASE ProgramFails(a, e) /\ op' = Failed("DATA_LOSS")
    <2>0. Legitimate(e, lastTxn)
      BY <1>1, <1>2, <1>3, ListedCopied DEF Legitimate
    <2>1. /\ DataInv(flash', cache', sectors', lastTxn, red) /\ cache' = cache
          /\ options' = options /\ primary' = primary /\ init' = init
      BY <1>1, <1>2, <1>3, <1>8, <2>0, FailedWrite
    <2>2. OpInv(op', flash', cache', sectors', lastTxn', red)
      BY <1>0, <1>1, <1>2, <1>8, <2>1, FailedKeeps
    <2>3. DataInv(flash', cache', sectors', lastTxn', red)
      BY <1>0, <2>1
    <2> QED  BY <1>0, <1>1, <1>2, <2>1, <2>2, <2>3, StepInv
  <1>9. CASE /\ ProgramSucceeds(a, e, {})
             /\ cache' = [cache EXCEPT ![k].addresses = B]
             /\ op' = IF Len(op.reserved) < options.redundancy THEN [op EXCEPT !.pc = "reserve"] ELSE Settled("redundancy")
    <2>1. /\ flash' = Programmed(a, e) /\ sectors' = Accounted(a[1], {})
          /\ options' = options /\ init' = init /\ primary' = primary
      BY <1>9 DEF ProgramSucceeds
    <2>2. Readdressed(cache', cache, k, B)
      BY <1>9 DEF Readdressed
    <2>3. cache' = [cache EXCEPT ![k] = [value |-> cache[k].value, txn |-> cache[k].txn, addresses |-> B]]
      BY <1>1, <1>2, <2>2, NewAddresses
    <2>4. cache' = [cache EXCEPT ![k] = [value |-> e.value, txn |-> e.txn, addresses |-> Append(cache[k].addresses, a)]]
      BY <1>3, <1>6, <2>3
    <2>5. Len(cache[k].addresses) < red /\ a[1] \notin SectorsOf(cache[k].addresses) /\ red \in Nat
          /\ e.value = cache[k].value /\ e.txn = cache[k].txn /\ k = e.key
      BY <1>1, <1>2, <1>3, <1>4, <1>6 DEF n
    <2>6. DataInv(flash', cache', sectors', lastTxn, red)
      BY <1>1, <1>2, <1>3, <2>1, <2>4, <2>5, WriteCopyKeeps
    <2>7. cache'[k].addresses = B /\ cache'[k] # NoEntry /\ \A l \in Keys : l # k => cache'[l] = cache[l]
      <3> DEFINE d == [value |-> cache[k].value, txn |-> cache[k].txn, addresses |-> B]
      <3>1. k \in Keys /\ cache \in [Keys -> Descriptors \cup {NoEntry}] /\ cache' = [cache EXCEPT ![k] = d]
        BY <1>1, <1>2, <2>3 DEF CacheInv
      <3>2. d.addresses = B /\ d # NoEntry
        <4>1. B # <<>> /\ NoEntry.addresses = <<>>
          BY <1>1, <1>7, NoEntryFacts
        <4> QED  BY <4>1
      <3> HIDE DEF d
      <3> QED  BY <3>1, <3>2
    <2>8. op.todo \subseteq CachedIn(cache')
      BY <1>1, <2>7 DEF CachedIn
    <2>9. OpInv(op', flash', cache', sectors', lastTxn', red)
      <3>1. CASE op' = Settled("redundancy")
        <4> DEFINE q == "redundancy"
        <4>1. q \in {"redundancy", "update"} /\ op' = Settled(q)
          BY <3>1
        <4> HIDE DEF q
        <4> QED  BY <1>1, <2>8, <4>1, SettledKeeps
      <3>2. CASE n + 1 < red /\ op' = [op EXCEPT !.pc = "reserve"]
        <4> DEFINE o == [op EXCEPT !.pc = "reserve"]
        <4>1. SameWork(o) /\ o.todo = op.todo /\ o.pc = "reserve"
          BY <1>1 DEF SameWork, Fields
        <4> HIDE DEF o
        <4>2. Written(o, cache') = n + 1 /\ o.reserved = op.reserved /\ o.key = k /\ o.then = "fill" /\ o.written = 0
          BY <1>1, <1>6, <1>7, <2>7, <4>1 DEF Written, SameWork
        <4> DEFINE m == n + 1
        <4>3. m \in Nat /\ m > 0 /\ Len(op.reserved) = m
          BY <1>1
        <4>4. Places(o, flash', cache', sectors', red)
          <5>1. /\ Written(o, cache') = m /\ \A i \in 1..m : o.reserved[i] = cache'[o.key].addresses[i]
                /\ Len(cache'[o.key].addresses) = m /\ m < red
            BY <1>7, <2>7, <3>2, <4>2
          <5>2. m + 1..Len(o.reserved) = {}
            BY <4>2, <4>3
          <5> HIDE DEF m
          <5>3. /\ o.key \in Keys /\ o.written \in Nat /\ o.reserved \in Seq(Addresses) /\ Apart(o.reserved)
                /\ cache'[o.key] # NoEntry /\ Len(o.reserved) = m
            BY <1>1, <2>7, <4>2, <4>3
          <5> QED  BY <4>3, <5>1, <5>2, <5>3 DEF Places
        <4>5. Reserved(o, cache', red)
          BY <1>1, <3>2, <4>1, <4>2 DEF Reserved
        <4>6. Version(o, flash', cache', lastTxn)
          BY <2>7, <4>2 DEF Version
        <4>7. OpHand(o, flash', cache', sectors', lastTxn, red)
          BY <4>1, <4>2, <4>4, <4>5, <4>6 DEF OpHand, InHand
        <4>8. OpShape(o, cache') /\ OpCollects(o, cache') /\ OpWrites(o)
          BY <1>1, <2>8, <4>1, <4>2 DEF OpShape, OpCollects, OpWrites, SameWork, Pcs
        <4> QED  BY <1>0, <3>2, <4>7, <4>8 DEF OpInv, o
      <3> QED  BY <1>1, <1>9, <3>1, <3>2 DEF red
    <2>10. DataInv(flash', cache', sectors', lastTxn', red)
      BY <1>0, <2>6
    <2> QED  BY <1>0, <1>1, <1>2, <2>1, <2>9, <2>10, StepInv
  <1> QED  BY <1>5, <1>8, <1>9

-----------------------------------------------------------------------------
(* Converting entries to the primary format                                *)

\* UpdateEntry: a transaction id is taken for an entry in the old format.
LEMMA UpdateEntryKeeps ==
    ASSUME KvsInv, NEW k \in Keys, UpdateEntry(k)
    PROVE  KvsInv'
  <1>0. /\ op.pc = "update" /\ op.pc \in Loops /\ k \in op.todo /\ lastTxn' = lastTxn + 1
        /\ UNCHANGED <<options, flash, cache, sectors, lastNew, init, primary>>
        /\ SlotAt(cache[k].addresses[1]).format # primary
    BY DEF UpdateEntry, Loops
  <1>1. /\ op.pc # "off" /\ op.then = "none" /\ op.written = 0 /\ op.task # "Write" /\ op.reserved = <<>>
        /\ DOMAIN op = Fields /\ op.todo \subseteq CachedIn(cache)
    BY <1>0, LoopFacts
  <1>2. /\ CacheInv(flash, cache, red) /\ flash \in Flash /\ TxnInv(flash, lastTxn) /\ primary \in Formats
        /\ lastNew \in Sectors /\ init # "none" /\ DataInv(flash, cache, sectors, lastTxn, red) /\ red \in Nat \ {0}
    BY <1>1, InvFacts, RedundancyFacts
  <1>3. cache[k] # NoEntry
    BY <1>0, <1>1 DEF CachedIn
  <1> DEFINE t == lastTxn + 1
             A == cache[k].addresses
             source == A[1]
             todo == op.todo \ {k}
             o == [op EXCEPT !.pc = "reserve", !.then = "convert", !.key = k, !.todo = todo,
                             !.source = source, !.converted = TRUE]
  <1>4. TxnInv(flash, t) /\ \A a \in Live(flash) : Entry(flash, a).txn < t
    BY <1>2, LaterTxn
  <1>5. Upgrade
    <2>1. Lists(flash, k, cache[k], red) /\ Len(A) \in Nat \ {0} /\ DOMAIN A = 1..Len(A)
      <3>1. /\ Lists(flash, k, cache[k], red) /\ Len(cache[k].addresses) \in Nat \ {0}
            /\ DOMAIN cache[k].addresses = 1..Len(cache[k].addresses)
        <4>1. Lists(flash, k, cache[k], red)
          BY <1>2, <1>3, DescriptorFacts
        <4>2. Len(cache[k].addresses) \in Nat \ {0}
          BY <1>2, <1>3, DescriptorFacts
        <4>3. DOMAIN cache[k].addresses = 1..Len(cache[k].addresses)
          BY <1>2, <1>3, DescriptorFacts
        <4> QED  BY <4>1, <4>2, <4>3
      <3> QED  BY <3>1
    <2>2. 1 \in DOMAIN A
      BY <2>1
    <2>3. A[1] \in Live(flash)
      BY <2>1, <2>2 DEF Lists
    <2>4. SlotAt(A[1]) \in Stored
      BY <1>2, <2>3, LiveFacts DEF SlotAt, Entry
    <2>5. SlotAt(A[1]).format \in Formats
      BY <2>4 DEF Stored
    <2> QED  BY <1>0, <1>2, <2>5 DEF Formats
  <1>6. op' = o
    BY <1>1 DEF UpdateEntry, Fields
  <1>7. todo \subseteq CachedIn(cache)
    BY <1>1
  <1> HIDE DEF todo, A, source
  <1>8. /\ DOMAIN o = Fields /\ o.pc = "reserve" /\ o.then = "convert" /\ o.key = k /\ o.todo = todo
        /\ o.reserved = <<>> /\ o.written = 0 /\ o.task = op.task
    BY <1>1 DEF Fields
  <1> HIDE DEF o, t
  <1>9. Written(o, cache) = 0
    BY <1>8 DEF Written
  <1>10. Places(o, flash, cache, sectors, red)
    <2>1. <<>> \in Seq(Addresses) /\ Apart(<<>>) /\ Len(<<>>) = 0
      BY DEF Apart
    <2> QED  BY <1>2, <1>8, <1>9, <2>1 DEF Places
  <1>11. Reserved(o, cache, red)
    BY <1>2, <1>8, <1>9 DEF Reserved
  <1>12. Version(o, flash, cache, t)
    BY <1>3, <1>4, <1>5, <1>8 DEF Version
  <1>13. OpHand(o, flash, cache, sectors, t, red)
    BY <1>8, <1>10, <1>11, <1>12 DEF OpHand, InHand
  <1>14. OpInv(o, flash, cache, sectors, t, red)
    BY <1>1, <1>7, <1>8, <1>13 DEF OpInv, OpShape, OpCollects, OpWrites, Pcs
  <1>15. DataInv(flash, cache, sectors, t, red)
    BY <1>2, <1>4 DEF DataInv
  <1>16. OpInv(op', flash', cache', sectors', lastTxn', red) /\ DataInv(flash', cache', sectors', lastTxn', red)
    BY <1>0, <1>6, <1>14, <1>15 DEF t
  <1> QED  BY <1>0, <1>1, <1>2, <1>16, StepInv

\* ConvertEntry gave up.
LEMMA ConvertFailed ==
    ASSUME KvsInv, op.pc = "convert", DataInv(flash', cache, sectors', lastTxn, red),
           op' = Failed("DATA_LOSS"), UNCHANGED <<options, cache, lastTxn, lastNew, init, primary>>
    PROVE  KvsInv'
  <1>0. op.pc # "off" /\ op.then = "convert"
    BY WritingFacts
  <1>1. /\ OpWrites(op) /\ DOMAIN op = Fields
        /\ OpShape(op, cache) /\ lastNew \in Sectors /\ init # "none"
    BY <1>0, InvFacts
  <1>2. DataInv(flash', cache, sectors', lastTxn, red)
    OBVIOUS
  <1>3. op.todo \subseteq CachedIn(cache)
    BY <1>1 DEF OpShape
  <1>4. OpInv(op', flash', cache, sectors', lastTxn, red)
    BY <1>0, <1>1, <1>3, FailedKeeps
  <1>5. DataInv(flash', cache', sectors', lastTxn', red) /\ OpInv(op', flash', cache', sectors', lastTxn', red)
    BY <1>2, <1>4
  <1> QED  BY <1>0, <1>1, <1>5, StepInv

\* A copy e of k's entry is written at a, in the new format and with the new
\* id; B is what the descriptor lists then.
Converts(a, e, k, B) ==
  /\ a = op.reserved[op.written + 1] /\ k = op.key
  /\ e = [key |-> k, value |-> cache[k].value, txn |-> lastTxn, format |-> primary]
  /\ ProgramSucceeds(a, e, IF op.written = 0 THEN SectorsOf(cache[k].addresses) ELSE {})
  /\ B = IF op.written = 0 THEN <<a>> ELSE Append(cache[k].addresses, a)
  /\ cache' = [cache EXCEPT ![k] = [value |-> cache[k].value, txn |-> lastTxn, addresses |-> B]]
  /\ op' = IF op.written + 1 = red THEN Settled("update") ELSE [op EXCEPT !.written = @ + 1]
  /\ UNCHANGED <<lastTxn, lastNew>>

\* A copy in the new format is written and listed.
LEMMA ConvertWritten ==
    ASSUME KvsInv, op.pc = "convert", NEW a, NEW e, NEW k, NEW B, Converts(a, e, k, B)
    PROVE  KvsInv'
  <1> DEFINE w == op.written
             A == cache[k].addresses
  <1>0. a = op.reserved[w + 1] /\ k = op.key /\ lastTxn' = lastTxn /\ lastNew' = lastNew
    BY DEF Converts
  <1>1. /\ op.pc # "off" /\ op.then = "convert" /\ k \in Keys /\ w \in Nat /\ w < red /\ w + 1 \in 1..red
        /\ Room(flash, sectors, a) /\ Version(op, flash, cache, lastTxn)
        /\ op.reserved \in Seq(Addresses) /\ Len(op.reserved) = red
        /\ w > 0 => /\ Len(A) = w /\ a[1] \notin SectorsOf(A)
                    /\ \A i \in 1..w : A[i] = op.reserved[i]
    BY <1>0, WritingFacts
  <1>2. /\ Upgrade /\ cache[k] # NoEntry
        /\ w = 0 => \A b \in Live(flash) : Entry(flash, b).txn < lastTxn
        /\ w # 0 => cache[k].txn = lastTxn
    BY <1>0, <1>1 DEF Version
  <1>3. /\ DataInv(flash, cache, sectors, lastTxn, red) /\ flash \in Flash /\ CacheInv(flash, cache, red)
        /\ SectorInv(flash, cache, sectors) /\ lastNew \in Sectors /\ primary \in Formats /\ OpWrites(op)
        /\ init # "none" /\ red \in Nat \ {0} /\ DOMAIN op = Fields /\ TxnInv(flash, lastTxn)
        /\ op.todo \subseteq CachedIn(cache)
    BY <1>1, InvFacts, RedundancyFacts DEF OpShape
  <1>4. /\ cache[k].txn \in Nat \ {0} /\ A \in Seq(Addresses) /\ cache[k].value \in Contents
        /\ Lists(flash, k, cache[k], red) /\ Len(A) \in Nat \ {0} /\ DOMAIN A = 1..Len(A)
    <2>0. k \in Keys /\ cache[k] # NoEntry /\ CacheInv(flash, cache, red)
      BY <1>1, <1>2, <1>3
    <2>1. /\ cache[k].txn \in Nat \ {0} /\ cache[k].addresses \in Seq(Addresses) /\ cache[k].value \in Contents
          /\ Lists(flash, k, cache[k], red) /\ Len(cache[k].addresses) \in Nat \ {0}
          /\ DOMAIN cache[k].addresses = 1..Len(cache[k].addresses)
      <3>1. cache[k].txn \in Nat \ {0}
        BY <2>0, DescriptorFacts
      <3>2. cache[k].addresses \in Seq(Addresses)
        BY <2>0, DescriptorFacts
      <3>3. cache[k].value \in Contents
        BY <2>0, DescriptorFacts
      <3>4. Lists(flash, k, cache[k], red)
        BY <2>0, DescriptorFacts
      <3>5. Len(cache[k].addresses) \in Nat \ {0}
        BY <2>0, DescriptorFacts
      <3>6. DOMAIN cache[k].addresses = 1..Len(cache[k].addresses)
        BY <2>0, DescriptorFacts
      <3> QED  BY <3>1, <3>2, <3>3, <3>4, <3>5, <3>6
    <2> QED  BY <2>1
  <1>5. lastTxn \in Nat \ {0}
    <2>1. lastTxn \in Nat
      BY <1>3 DEF TxnInv
    <2>2. 1 \in DOMAIN A
      BY <1>4
    <2>3. A[1] \in Live(flash) /\ Entry(flash, A[1]).txn = cache[k].txn
      BY <1>4, <2>2 DEF Lists
    <2>4. cache[k].txn <= lastTxn
      BY <1>3, <2>3 DEF TxnInv
    <2> QED  BY <1>4, <2>1, <2>4
  <1>6. e \in Stored /\ e.key = k /\ e.value = cache[k].value /\ e.txn = lastTxn
    <2>1. e = [key |-> k, value |-> cache[k].value, txn |-> lastTxn, format |-> primary]
      BY DEF Converts
    <2> QED  BY <1>1, <1>3, <1>4, <1>5, <2>1 DEF Stored
  <1>7. a \in Addresses /\ a[1] \in Sectors
    BY <1>1 DEF Room, Addresses
  <1>8. B \in Seq(Addresses) /\ Len(B) = w + 1 /\ \A i \in 1..w + 1 : B[i] = op.reserved[i]
    <2>1. CASE w = 0
      <3>1. B = <<a>> /\ 1..w + 1 = {1}
        BY <2>1 DEF Converts
      <3> QED  BY <1>0, <1>7, <2>1, <3>1
    <2>2. CASE w # 0
      <3>1. w > 0 /\ B = Append(A, a)
        BY <1>1, <2>2 DEF Converts
      <3>2. Len(A) = w /\ \A i \in 1..w : A[i] = op.reserved[i]
        BY <1>1, <3>1
      <3> HIDE DEF A
      <3>3. B \in Seq(Addresses) /\ Len(B) = w + 1 /\ B[w + 1] = a /\ \A i \in 1..w : B[i] = A[i]
        <4>1. w \in Nat /\ A \in Seq(Addresses) /\ a \in Addresses /\ B = Append(A, a) /\ Len(A) = w
          BY <1>1, <1>4, <1>7, <3>1, <3>2
        <4> HIDE DEF w
        <4> QED  BY <4>1
      <3>4. ASSUME NEW i \in 1..w + 1 PROVE B[i] = op.reserved[i]
        <4>1. CASE i = w + 1
          BY <1>0, <3>3, <4>1
        <4>2. CASE i # w + 1
          <5>1. i \in 1..w
            BY <1>1, <4>2
          <5> QED  BY <3>2, <3>3, <5>1
        <4> QED  BY <4>1, <4>2
      <3> QED  BY <3>3, <3>4
    <2> QED  BY <2>1, <2>2
  <1>9. /\ flash' = Programmed(a, e) /\ options' = options /\ init' = init /\ primary' = primary
        /\ w = 0 => sectors' = Accounted(a[1], SectorsOf(cache[k].addresses))
        /\ w # 0 => sectors' = Accounted(a[1], {})
    BY DEF ProgramSucceeds, Converts
  <1>10. DataInv(flash', cache', sectors', lastTxn, red)
    <2>1. CASE w = 0
      <3>1. /\ cache' = [cache EXCEPT ![e.key] = [value |-> e.value, txn |-> e.txn, addresses |-> <<a>>]]
            /\ sectors' = Accounted(a[1], SectorsOf(cache[e.key].addresses))
            /\ cache[e.key] # NoEntry /\ \A b \in Live(flash) : Entry(flash, b).txn < e.txn
        BY <1>2, <1>6, <1>9, <2>1 DEF Converts
      <3>2. DataInv(flash, cache, sectors, lastTxn, red) /\ red \in Nat \ {0} /\ Room(flash, sectors, a)
            /\ e \in Stored /\ flash' = Programmed(a, e)
        BY <1>1, <1>3, <1>6, <1>9
      <3>3. DataInv(flash', cache', sectors', e.txn, red)
        BY <3>1, <3>2, WriteNew
      <3> QED  BY <1>6, <3>3
    <2>2. CASE w # 0
      <3>1. /\ cache' = [cache EXCEPT ![k] = [value |-> e.value, txn |-> e.txn, addresses |-> Append(cache[k].addresses, a)]]
            /\ sectors' = Accounted(a[1], {}) /\ cache[k] # NoEntry
            /\ e.value = cache[k].value /\ e.txn = cache[k].txn /\ k = e.key
        BY <1>2, <1>6, <1>9, <2>2 DEF Converts
      <3>2. DataInv(flash, cache, sectors, lastTxn, red) /\ red \in Nat /\ Room(flash, sectors, a)
            /\ e \in Stored /\ flash' = Programmed(a, e)
        BY <1>1, <1>3, <1>6, <1>9
      <3>3. Len(cache[k].addresses) < red /\ a[1] \notin SectorsOf(cache[k].addresses)
        BY <1>1, <2>2
      <3> QED  BY <3>1, <3>2, <3>3, WriteCopyKeeps
    <2> QED  BY <2>1, <2>2
  <1>11. cache'[k].addresses = B /\ cache'[k].txn = lastTxn /\ cache'[k] # NoEntry
         /\ \A l \in Keys : l # k => cache'[l] = cache[l]
    <2> DEFINE d == [value |-> cache[k].value, txn |-> lastTxn, addresses |-> B]
    <2>1. k \in Keys /\ cache \in [Keys -> Descriptors \cup {NoEntry}] /\ cache' = [cache EXCEPT ![k] = d]
      BY <1>1, <1>3 DEF CacheInv, Converts
    <2>2. d.addresses = B /\ d.txn = lastTxn /\ d # NoEntry
      <3>1. B # <<>> /\ NoEntry.addresses = <<>>
        BY <1>1, <1>8, NoEntryFacts
      <3> QED  BY <3>1
    <2> HIDE DEF d
    <2> QED  BY <2>1, <2>2
  <1> HIDE DEF w, A
  <1>12. CachedIn(cache) \subseteq CachedIn(cache')
    BY <1>11, CachedGrows
  <1>13. OpInv(op', flash', cache', sectors', lastTxn', red)
    <2>1. CASE op' = Settled("update")
      <3> DEFINE q == "update"
      <3>1. q \in {"redundancy", "update"} /\ op' = Settled(q) /\ op.task # "Write"
        BY <1>1, <1>3, <2>1 DEF OpWrites
      <3>2. op.todo \subseteq CachedIn(cache')
        BY <1>3, <1>12
      <3> HIDE DEF q
      <3> QED  BY <1>3, <3>1, <3>2, SettledKeeps
    <2>2. CASE op.written + 1 # red /\ op' = [op EXCEPT !.written = @ + 1]
      <3>1. Grown(flash', flash, a[1])
        BY <1>1, <1>3, <1>6, <1>9, ProgramFacts
      <3>2. Others(flash', flash, sectors', a[1])
        BY <1>3, <1>7, <1>9, <3>1, WriteOthers
      <3>3. /\ a = op.reserved[op.written + 1] /\ op.written + 1 # red /\ B = cache'[op.key].addresses
            /\ cache'[op.key] # NoEntry /\ cache'[op.key].txn = lastTxn'
            /\ B \in Seq(Addresses) /\ Len(B) = op.written + 1
            /\ \A i \in 1..op.written + 1 : B[i] = op.reserved[i]
        BY <1>0, <1>8, <1>11, <2>2 DEF w
      <3> QED  BY <1>0, <1>1, <1>2, <1>12, <2>2, <3>2, <3>3, NextCopy
    <2> QED  BY <2>1, <2>2 DEF Converts
  <1>14. DataInv(flash', cache', sectors', lastTxn', red)
    BY <1>0, <1>10
  <1> QED  BY <1>0, <1>1, <1>3, <1>9, <1>13, <1>14, StepInv

\* The entry in the new format, written whole though its write is reported as
\* failed, is new or a copy of the one written before.
LEMMA ConvertedEntry ==
    ASSUME KvsInv, op.pc = "convert", NEW e,
           e = [key |-> op.key, value |-> cache[op.key].value, txn |-> lastTxn, format |-> primary]
    PROVE  e \in Stored /\ Legitimate(e, lastTxn)
  <1>1. /\ op.pc # "off" /\ op.then = "convert" /\ op.key \in Keys /\ Version(op, flash, cache, lastTxn)
    BY WritingFacts
  <1>2. /\ cache[op.key] # NoEntry
        /\ op.written = 0 => \A b \in Live(flash) : Entry(flash, b).txn < lastTxn
        /\ op.written # 0 => cache[op.key].txn = lastTxn
    BY <1>1 DEF Version
  <1>3. /\ CacheInv(flash, cache, red) /\ TxnInv(flash, lastTxn) /\ primary \in Formats
    BY <1>1, InvFacts
  <1>4. cache[op.key].value \in Contents /\ cache[op.key].txn \in Nat \ {0}
    BY <1>1, <1>2, <1>3, DescriptorFacts
  <1>5. PICK b \in Live(flash) : Entry(flash, b).txn = cache[op.key].txn
    <2>1. [key |-> op.key, value |-> cache[op.key].value, txn |-> cache[op.key].txn].txn = cache[op.key].txn
      OBVIOUS
    <2>2. Copied([key |-> op.key, value |-> cache[op.key].value, txn |-> cache[op.key].txn])
      BY <1>1, <1>2, <1>3, ListedCopied
    <2> QED  BY <2>1, <2>2 DEF Copied
  <1>6. lastTxn \in Nat \ {0}
    <2>1. lastTxn \in Nat /\ cache[op.key].txn <= lastTxn
      BY <1>3, <1>5 DEF TxnInv
    <2> QED  BY <1>4, <2>1
  <1>7. e \in Stored /\ e.key = op.key /\ e.value = cache[op.key].value /\ e.txn = lastTxn
    BY <1>1, <1>3, <1>4, <1>6 DEF Stored
  <1>8. CASE op.written = 0
    BY <1>2, <1>7, <1>8 DEF Legitimate
  <1>9. CASE op.written # 0
    BY <1>1, <1>2, <1>3, <1>7, <1>9, ListedCopied DEF Legitimate
  <1> QED  BY <1>7, <1>8, <1>9

\* The copy of an entry in the primary format.
LEMMA ConvertEntryKeeps ==
    ASSUME KvsInv, ConvertEntry, Upgrade => VerifyModes \subseteq {TRUE}
    PROVE  KvsInv'
  <1>0. op.pc = "convert" /\ lastTxn' = lastTxn /\ lastNew' = lastNew
    BY DEF ConvertEntry
  <1> DEFINE a == op.reserved[op.written + 1]
             k == op.key
             d == cache[k]
             intact == /\ Readable(op.source)
                       /\ SlotAt(op.source).key = k /\ SlotAt(op.source).value = d.value
             e == IF intact THEN [key |-> k, value |-> d.value, txn |-> lastTxn, format |-> primary] ELSE Corrupt
             B == IF op.written = 0 THEN <<a>> ELSE Append(d.addresses, a)
             stale == IF op.written = 0 THEN SectorsOf(d.addresses) ELSE {}
  <1>1. Room(flash, sectors, a) /\ Version(op, flash, cache, lastTxn) /\ op.then = "convert"
    BY <1>0, WritingFacts
  <1>1a. DataInv(flash, cache, sectors, lastTxn, red)
    BY <1>0, InvFacts
  <1>2. options.verify
    <2>1. Upgrade
      BY <1>1 DEF Version
    <2>2. options.verify \in VerifyModes
      BY DEF KvsInv
    <2> QED  BY <2>1, <2>2
  <1>3. \/ /\ intact
           /\ ProgramSucceeds(a, e, stale)
           /\ cache' = [cache EXCEPT ![k] = [value |-> d.value, txn |-> lastTxn, addresses |-> B]]
           /\ op' = IF op.written + 1 = red THEN Settled("update") ELSE [op EXCEPT !.written = @ + 1]
        \/ /\ ~intact /\ flash' = Programmed(a, e)
           /\ sectors' = [sectors EXCEPT ![a[1]] = MarkCorrupt(@)]
           /\ op' = Failed("DATA_LOSS")
           /\ UNCHANGED <<options, cache, init, primary, used>>
        \/ /\ ProgramFails(a, e)
           /\ op' = Failed("DATA_LOSS")
    BY <1>2 DEF ConvertEntry, red
  <1>4. CASE /\ intact
             /\ ProgramSucceeds(a, e, stale)
             /\ cache' = [cache EXCEPT ![k] = [value |-> d.value, txn |-> lastTxn, addresses |-> B]]
             /\ op' = IF op.written + 1 = red THEN Settled("update") ELSE [op EXCEPT !.written = @ + 1]
    <2>1. e = [key |-> k, value |-> cache[k].value, txn |-> lastTxn, format |-> primary]
      BY <1>4
    <2>2. ProgramSucceeds(a, e, IF op.written = 0 THEN SectorsOf(cache[k].addresses) ELSE {})
      BY <1>4
    <2>3. /\ B = (IF op.written = 0 THEN <<a>> ELSE Append(cache[k].addresses, a))
          /\ cache' = [cache EXCEPT ![k] = [value |-> cache[k].value, txn |-> lastTxn, addresses |-> B]]
          /\ op' = (IF op.written + 1 = red THEN Settled("update") ELSE [op EXCEPT !.written = @ + 1])
      BY <1>4
    <2>4. a = op.reserved[op.written + 1] /\ k = op.key
      OBVIOUS
    <2> HIDE DEF a, e, B, k
    <2>5. Converts(a, e, k, B)
      BY <1>0, <2>1, <2>2, <2>3, <2>4 DEF Converts
    <2> QED  BY <1>0, <2>5, ConvertWritten
  <1>5. CASE /\ ~intact /\ flash' = Programmed(a, e)
             /\ sectors' = [sectors EXCEPT ![a[1]] = MarkCorrupt(@)]
             /\ op' = Failed("DATA_LOSS")
             /\ UNCHANGED <<options, cache, init, primary, used>>
    <2>1. Torn(flash', sectors', a)
      BY <1>5 DEF Torn
    <2> HIDE DEF a, e
    <2>2. DataInv(flash', cache, sectors', lastTxn, red)
      BY <1>1, <1>1a, <2>1, TornWrite
    <2> QED  BY <1>0, <1>5, <2>2, ConvertFailed
  <1>6. CASE ProgramFails(a, e) /\ op' = Failed("DATA_LOSS")
    <2>1. CASE intact
      <3>1. e = [key |-> op.key, value |-> cache[op.key].value, txn |-> lastTxn, format |-> primary]
        BY <2>1
      <3> HIDE DEF a, e, intact
      <3>2. e \in Stored /\ Legitimate(e, lastTxn)
        BY <1>0, <3>1, ConvertedEntry
      <3>3. /\ DataInv(flash', cache', sectors', lastTxn, red) /\ cache' = cache
            /\ options' = options /\ primary' = primary /\ init' = init
        BY <1>1, <1>1a, <1>6, <3>2, FailedWrite
      <3> QED  BY <1>0, <1>6, <3>3, ConvertFailed
    <2>2. CASE ~intact
      <3>1. e = Corrupt
        BY <2>2
      <3> HIDE DEF a, e, intact
      <3>2. Torn(flash', sectors', a) /\ UNCHANGED <<options, cache, init, primary>>
        BY <1>6, <3>1 DEF Torn, ProgramFails
      <3>3. DataInv(flash', cache, sectors', lastTxn, red)
        BY <1>1, <1>1a, <3>2, TornWrite
      <3> QED  BY <1>0, <1>6, <3>2, <3>3, ConvertFailed
    <2> QED  BY <2>1, <2>2
  <1> QED  BY <1>3, <1>4, <1>5, <1>6

-----------------------------------------------------------------------------
(* The scan of Init()                                                      *)

\* What a scan that has seen the entries at the addresses V knows.
Scanned(sc, V) ==
  /\ DOMAIN sc = {"cache", "bad"} /\ sc.cache \in [Keys -> Descriptors \cup {NoEntry}]
  /\ \A k \in Keys : sc.cache[k] # NoEntry => Lists(flash, k, sc.cache[k], red)
  /\ \A a \in V : /\ sc.cache[Entry(flash, a).key] # NoEntry
                  /\ Entry(flash, a).txn <= sc.cache[Entry(flash, a).key].txn

\* While an entry is being loaded whose key is not cached, the cache has room.
LEMMA RoomInCache ==
    ASSUME FlashInv(flash), NEW C \in [Keys -> Descriptors \cup {NoEntry}],
           \A k \in Keys : C[k] # NoEntry => Lists(flash, k, C[k], red),
           NEW a \in Live(flash), C[Entry(flash, a).key] = NoEntry
    PROVE  ~(Cardinality({k \in Keys : C[k] # NoEntry}) >= MaxEntries)
  <1> DEFINE K == {k \in Keys : C[k] # NoEntry}
             x == Entry(flash, a).key
  <1>0. flash \in Flash /\ MaxEntries \in Nat /\ Cardinality(KeysOf(flash)) <= MaxEntries
    BY KvsAssumption DEF FlashInv
  <1>1. x \in KeysOf(flash) /\ x \notin K
    BY DEF KeysOf
  <1>2. K \subseteq KeysOf(flash)
    <2> SUFFICES ASSUME NEW k \in Keys, C[k] # NoEntry PROVE k \in KeysOf(flash)
      OBVIOUS
    <2>1. C[k] \in Descriptors /\ Lists(flash, k, C[k], red)
      OBVIOUS
    <2>2. C[k].addresses \in Seq(Addresses) /\ C[k].addresses # <<>>
      BY <2>1 DEF Descriptors, Lists
    <2>3. 1 \in DOMAIN C[k].addresses
      BY <2>2
    <2>4. C[k].addresses[1] \in Live(flash) /\ Entry(flash, C[k].addresses[1]).key = k
      BY <2>1, <2>3 DEF Lists
    <2> QED  BY <2>4 DEF KeysOf
  <1> HIDE DEF K, x
  <1>3. IsFiniteSet(KeysOf(flash)) /\ Cardinality(KeysOf(flash)) \in Nat
    BY <1>0, KeysOfFinite
  <1>4. K \subseteq KeysOf(flash) \ {x}
    BY <1>1, <1>2
  <1>5. IsFiniteSet(KeysOf(flash) \ {x}) /\ Cardinality(KeysOf(flash) \ {x}) = Cardinality(KeysOf(flash)) - 1
    BY <1>1, <1>3, FS_RemoveElement
  <1>6. Cardinality(K) <= Cardinality(KeysOf(flash)) - 1 /\ Cardinality(K) \in Nat
    BY <1>4, <1>5, FS_Subset, FS_CardinalityType
  <1>7. ~(Cardinality(K) >= MaxEntries)
    BY <1>0, <1>3, <1>6
  <1> QED  BY <1>7 DEF K

\* A scan's cache changes for one key.
LEMMA LoadedKeeps ==
    ASSUME NEW sc, NEW V, Scanned(sc, V), V \subseteq Live(flash), NEW a \in Live(flash), NEW k \in Keys, k = Entry(flash, a).key,
           NEW d \in Descriptors, Lists(flash, k, d, red), sc.cache[k] # NoEntry => sc.cache[k].txn <= d.txn,
           flash \in Flash, Entry(flash, a).txn <= d.txn,
           NEW tc, DOMAIN tc = {"cache", "bad"}, tc.cache = [sc.cache EXCEPT ![k] = d]
    PROVE  Scanned(tc, V \cup {a})
  <1>1. sc.cache \in [Keys -> Descriptors \cup {NoEntry}] /\ d # NoEntry
    BY NoEntryFacts DEF Scanned
  <1>2. /\ tc.cache \in [Keys -> Descriptors \cup {NoEntry}]
        /\ tc.cache[k] = d /\ \A l \in Keys : l # k => tc.cache[l] = sc.cache[l]
    BY <1>1
  <1>3. \A l \in Keys : tc.cache[l] # NoEntry => Lists(flash, l, tc.cache[l], red)
    <2> SUFFICES ASSUME NEW l \in Keys, tc.cache[l] # NoEntry PROVE Lists(flash, l, tc.cache[l], red)
      OBVIOUS
    <2>1. CASE l = k
      BY <1>2, <2>1
    <2>2. CASE l # k
      BY <1>2, <2>2 DEF Scanned
    <2> QED  BY <2>1, <2>2
  <1>4. ASSUME NEW b \in V \cup {a}
        PROVE  tc.cache[Entry(flash, b).key] # NoEntry /\ Entry(flash, b).txn <= tc.cache[Entry(flash, b).key].txn
    <2>0. b \in Live(flash)
      OBVIOUS
    <2>1. Entry(flash, b) \in Stored
      BY <2>0, LiveFacts
    <2>2. Entry(flash, b).key \in Keys /\ Entry(flash, b).txn \in Nat
      BY <2>1, StoredFacts
    <2>3. CASE b = a
      BY <1>1, <1>2, <2>3
    <2>4. CASE b \in V /\ Entry(flash, b).key # k
      BY <1>2, <2>2, <2>4 DEF Scanned
    <2>5. CASE b \in V /\ Entry(flash, b).key = k
      <3>1. sc.cache[k] # NoEntry /\ Entry(flash, b).txn <= sc.cache[k].txn
        BY <2>5 DEF Scanned
      <3>2. sc.cache[k] \in Descriptors
        BY <1>1, <3>1
      <3>3. sc.cache[k].txn \in Nat /\ d.txn \in Nat
        BY <3>2 DEF Descriptors
      <3>4. Entry(flash, b).txn <= d.txn
        BY <2>2, <3>1, <3>3
      <3> QED  BY <1>1, <1>2, <2>5, <3>4
    <2> QED  BY <2>3, <2>4, <2>5
  <1> QED  BY <1>2, <1>3, <1>4 DEF Scanned

\* Loading an entry keeps what the scan knows.
LEMMA LoadKeeps ==
    ASSUME FlashInv(flash), red \in Nat \ {0}, NEW sc, NEW V, Scanned(sc, V), V \subseteq Live(flash),
           NEW a \in Live(flash), NEW e, e = Entry(flash, a)
    PROVE  Scanned(Load(sc, a, e), V \cup {a})
  <1> DEFINE k == e.key
             d == sc.cache[k]
             fresh == [value |-> e.value, txn |-> e.txn, addresses |-> <<a>>]
             bad == sc.bad \cup {a[1]}
             failed == [sc EXCEPT !.bad = bad]
             full == Cardinality({l \in Keys : sc.cache[l] # NoEntry}) >= MaxEntries
             twice == a[1] \in SectorsOf(d.addresses)
             loaded == [sc EXCEPT !.cache[k] = fresh]
             added == [sc EXCEPT !.cache[k].addresses = Append(@, a)]
  <1>1. flash \in Flash /\ e \in Stored /\ a \in Addresses
    BY LiveFacts DEF FlashInv
  <1>2. k \in Keys /\ e.value \in Contents /\ e.txn \in Nat /\ e.txn # 0
    BY <1>1, StoredFacts
  <1>3. /\ DOMAIN sc = {"cache", "bad"} /\ sc.cache \in [Keys -> Descriptors \cup {NoEntry}]
        /\ \A l \in Keys : sc.cache[l] # NoEntry => Lists(flash, l, sc.cache[l], red)
        /\ d # NoEntry => d \in Descriptors /\ Lists(flash, k, d, red)
    BY <1>2 DEF Scanned
  <1>4. d = NoEntry => ~full
    BY <1>3, RoomInCache
  <1>5. d # NoEntry => d.txn \in Nat /\ d.addresses \in Seq(Addresses) /\ d.value \in Contents
    BY <1>3 DEF Descriptors
  <1> HIDE DEF full
  <1>6. \/ (d = NoEntry \/ (d # NoEntry /\ e.txn > d.txn)) /\ Load(sc, a, e) = loaded
        \/ d # NoEntry /\ e.txn = d.txn /\ Load(sc, a, e) = failed
        \/ d # NoEntry /\ e.txn = d.txn /\ ~twice /\ Len(d.addresses) < red /\ Load(sc, a, e) = added
        \/ d # NoEntry /\ ~(e.txn > d.txn) /\ Load(sc, a, e) = sc
    <2>1. CASE d = NoEntry
      <3>1. ~full
        BY <1>4, <2>1
      <3>2. Load(sc, a, e) = loaded
        BY <2>1, <3>1 DEF Load, full
      <3> QED  BY <2>1, <3>2
    <2>2. CASE d # NoEntry /\ e.txn > d.txn
      BY <1>2, <1>5, <2>2 DEF Load
    <2>3. CASE d # NoEntry /\ e.txn = d.txn
      <3>1. ~(e.txn > d.txn)
        BY <1>2, <2>3
      <3>2. CASE twice
        BY <2>3, <3>1, <3>2 DEF Load
      <3>3. CASE ~twice /\ Len(d.addresses) < red
        BY <2>3, <3>1, <3>3 DEF Load, red
      <3>4. CASE ~twice /\ ~(Len(d.addresses) < red)
        BY <2>3, <3>1, <3>4 DEF Load, red
      <3> QED  BY <3>2, <3>3, <3>4
    <2>4. CASE d # NoEntry /\ ~(e.txn > d.txn) /\ e.txn # d.txn
      BY <2>4 DEF Load
    <2> QED  BY <2>1, <2>2, <2>3, <2>4
  <1>7. ASSUME NEW tc, DOMAIN tc = {"cache", "bad"}, tc.cache = sc.cache, d # NoEntry, e.txn <= d.txn
        PROVE  Scanned(tc, V \cup {a})
    BY <1>7 DEF Scanned
  <1>8. CASE (d = NoEntry \/ (d # NoEntry /\ e.txn > d.txn)) /\ Load(sc, a, e) = loaded
    <2>1. fresh \in Descriptors
      BY <1>1, <1>2 DEF Descriptors
    <2>2. Lists(flash, k, fresh, red)
      <3>1. <<a>> # <<>> /\ Len(<<a>>) = 1 /\ 1 <= red /\ DOMAIN <<a>> = {1} /\ <<a>>[1] = a
        OBVIOUS
      <3>2. fresh.addresses = <<a>> /\ fresh.value = e.value /\ fresh.txn = e.txn
        OBVIOUS
      <3>3. Apart(<<a>>)
        BY <3>1 DEF Apart
      <3> HIDE DEF fresh
      <3> QED  BY <3>1, <3>2, <3>3 DEF Lists
    <2>3. e.txn = fresh.txn /\ e.txn <= fresh.txn
      BY <1>2
    <2> HIDE DEF fresh
    <2>4. d # NoEntry => d.txn <= fresh.txn
      BY <1>2, <1>5, <1>8, <2>3
    <2>5. DOMAIN loaded = {"cache", "bad"} /\ loaded.cache = [sc.cache EXCEPT ![k] = fresh]
      BY <1>3
    <2> HIDE DEF loaded
    <2>6. Scanned(loaded, V \cup {a})
      BY <1>1, <1>2, <2>1, <2>2, <2>3, <2>4, <2>5, LoadedKeeps
    <2> QED  BY <1>8, <2>6
  <1>9. CASE d # NoEntry /\ e.txn = d.txn /\ Load(sc, a, e) = failed
    <2> HIDE DEF bad
    <2>1. DOMAIN failed = {"cache", "bad"} /\ failed.cache = sc.cache
      BY <1>3
    <2> HIDE DEF failed
    <2>2. e.txn <= d.txn
      BY <1>2, <1>9
    <2> QED  BY <1>7, <1>9, <2>1, <2>2
  <1>10. CASE d # NoEntry /\ ~(e.txn > d.txn) /\ Load(sc, a, e) = sc
    <2>1. e.txn <= d.txn
      BY <1>2, <1>5, <1>10
    <2> QED  BY <1>3, <1>7, <1>10, <2>1
  <1>11. CASE d # NoEntry /\ e.txn = d.txn /\ ~twice /\ Len(d.addresses) < red /\ Load(sc, a, e) = added
    <2> DEFINE A == d.addresses
               B == Append(A, a)
               g == [value |-> d.value, txn |-> d.txn, addresses |-> B]
    <2>1. A \in Seq(Addresses) /\ a \in Addresses /\ d \in Descriptors /\ Lists(flash, k, d, red)
      BY <1>1, <1>3, <1>11 DEF Descriptors
    <2>2. Apart(A) /\ A # <<>> /\ \A i \in DOMAIN A : /\ A[i] \in Live(flash) /\ Entry(flash, A[i]).key = k
                                                      /\ Entry(flash, A[i]).txn = d.txn /\ Entry(flash, A[i]).value = d.value
      BY <2>1 DEF Lists
    <2>3. B \in Seq(Addresses) /\ Apart(B)
      BY <1>11, <2>1, <2>2, SectorsOfAppend
    <2>4. g \in Descriptors
      BY <2>1, <2>3 DEF Descriptors
    <2>5. e.value = d.value
      <3>1. 1 \in DOMAIN A
        BY <2>1, <2>2
      <3>2. A[1] \in Live(flash) /\ Entry(flash, A[1]).txn = e.txn /\ Entry(flash, A[1]).value = d.value
        BY <1>11, <2>2, <3>1
      <3> QED  BY <3>2 DEF FlashInv, Unique
    <2>6. Lists(flash, k, g, red)
      <3>1. g.addresses = B /\ g.value = d.value /\ g.txn = d.txn
        OBVIOUS
      <3>2. Len(A) \in Nat /\ Len(A) < red
        BY <1>11, <2>1
      <3>3. Len(B) = Len(A) + 1 /\ B # <<>> /\ B[Len(A) + 1] = a /\ (\A i \in 1..Len(A) : B[i] = A[i]) /\ DOMAIN A = 1..Len(A)
            /\ DOMAIN B = 1..Len(A) + 1
        <4> HIDE DEF A
        <4> QED  BY <2>1
      <3>4. Len(B) <= red
        BY <3>2, <3>3
      <3>5. ASSUME NEW i \in DOMAIN B
            PROVE  /\ B[i] \in Live(flash) /\ Entry(flash, B[i]).key = k
                   /\ Entry(flash, B[i]).txn = d.txn /\ Entry(flash, B[i]).value = d.value
        <4>1. CASE i = Len(A) + 1
          BY <1>11, <2>5, <3>3, <4>1
        <4>2. CASE i # Len(A) + 1
          <5>1. i \in 1..Len(A)
            <6>1. i \in 1..Len(A) + 1
              BY <3>3
            <6> HIDE DEF A, B
            <6> QED  BY <3>2, <4>2, <6>1
          <5>2. B[i] = A[i] /\ i \in DOMAIN A
            BY <3>3, <5>1
          <5>3. /\ A[i] \in Live(flash) /\ Entry(flash, A[i]).key = k
                /\ Entry(flash, A[i]).txn = d.txn /\ Entry(flash, A[i]).value = d.value
            BY <2>2, <5>2
          <5> QED  BY <5>2, <5>3
        <4> QED  BY <4>1, <4>2
      <3> HIDE DEF g, B
      <3> QED  BY <2>3, <3>1, <3>3, <3>4, <3>5 DEF Lists
    <2>7. DOMAIN added = {"cache", "bad"} /\ added.cache = [sc.cache EXCEPT ![k] = g]
      <3>1. d = [value |-> d.value, txn |-> d.txn, addresses |-> d.addresses]
        BY <2>1 DEF Descriptors
      <3>2. added.cache = [sc.cache EXCEPT ![k] = [d EXCEPT !.addresses = B]] /\ DOMAIN added = {"cache", "bad"}
        BY <1>2, <1>3
      <3>3. [d EXCEPT !.addresses = B] = g
        <4> HIDE DEF B, A, d
        <4> QED  BY <3>1
      <3> QED  BY <3>2, <3>3
    <2>8. g.txn = d.txn
      OBVIOUS
    <2> HIDE DEF g, added
    <2>9. d.txn <= g.txn /\ e.txn <= g.txn
      BY <1>2, <1>11, <2>8
    <2>10. Scanned(added, V \cup {a})
      BY <1>1, <1>2, <2>4, <2>6, <2>7, <2>9, LoadedKeeps
    <2> QED  BY <1>11, <2>10
  <1> QED  BY <1>6, <1>8, <1>9, <1>10, <1>11

\* Visiting a slot adds what it holds to what the scan knows.
LEMMA VisitKeeps ==
    ASSUME FlashInv(flash), red \in Nat \ {0}, NEW sc, NEW V, Scanned(sc, V), V \subseteq Live(flash), NEW a \in Addresses
    PROVE  Scanned(Visit(sc, a), V \cup ({a} \cap Live(flash)))
  <1>1. CASE a \notin Live(flash)
    <2> DEFINE bad == sc.bad \cup {a[1]}
    <2>1. Visit(sc, a) = sc \/ Visit(sc, a) = [sc EXCEPT !.bad = bad]
      BY <1>1 DEF Visit, Live, Entry, SlotAt
    <2> HIDE DEF bad
    <2>2. DOMAIN Visit(sc, a) = {"cache", "bad"} /\ Visit(sc, a).cache = sc.cache
      BY <2>1 DEF Scanned
    <2> DEFINE tc == Visit(sc, a)
    <2>3. tc.cache = sc.cache /\ DOMAIN tc = {"cache", "bad"}
      BY <2>2
    <2>4. V \cup ({a} \cap Live(flash)) = V
      BY <1>1
    <2> HIDE DEF tc
    <2>5. Scanned(tc, V)
      BY <2>3 DEF Scanned
    <2> QED  BY <2>4, <2>5 DEF tc
  <1>2. CASE a \in Live(flash)
    <2>1. Visit(sc, a) = Load(sc, a, Entry(flash, a))
      BY <1>2 DEF Visit, Live, Entry, SlotAt
    <2>2. V \cup ({a} \cap Live(flash)) = V \cup {a}
      BY <1>2
    <2> DEFINE e == Entry(flash, a)
    <2>3. e = Entry(flash, a)
      OBVIOUS
    <2> HIDE DEF e
    <2>4. Scanned(Load(sc, a, e), V \cup {a})
      BY <1>2, <2>3, LoadKeeps
    <2> QED  BY <2>1, <2>2, <2>3, <2>4
  <1> QED  BY <1>1, <1>2

\* Products of numbers.
LEMMA Products ==
    ASSUME NEW s \in Nat \ {0}, NEW u \in Nat, NEW x \in Nat
    PROVE  s * (u + x) = s * u + s * x /\ s * x \in Nat /\ s * (x + 1) >= s /\ s * (x + 1) = s * x + s
           /\ s * u \in Nat
  OBVIOUS

\* Quotient and remainder.
LEMMA DivMod ==
    ASSUME NEW m \in Nat, NEW s \in Nat \ {0}
    PROVE  m \div s \in Nat /\ m % s \in 0..(s - 1) /\ m = s * (m \div s) + (m % s)
  OBVIOUS

\* The quotient is below a bound on the number.
LEMMA DivBelow ==
    ASSUME NEW s \in Nat \ {0}, NEW q \in Nat, NEW u \in Nat, NEW r \in Nat, s * q + r < s * u
    PROVE  q < u
  <1> SUFFICES ASSUME q >= u PROVE FALSE
    OBVIOUS
  <1> DEFINE x == q - u
  <1>1. x \in Nat /\ q = u + x
    OBVIOUS
  <1> HIDE DEF x
  <1>2. s * q = s * u + s * x /\ s * x \in Nat /\ s * u \in Nat
    BY <1>1, Products
  <1> QED  BY <1>2

\* There is one quotient and one remainder.
LEMMA DivUnique ==
    ASSUME NEW s \in Nat \ {0}, NEW q \in Nat, NEW u \in Nat, NEW r \in 0..(s - 1), NEW v \in 0..(s - 1),
           s * q + r = s * u + v
    PROVE  q = u /\ r = v
  <1>1. ASSUME NEW p \in Nat, NEW w \in Nat, NEW y \in 0..(s - 1), NEW z \in 0..(s - 1), s * p + y = s * w + z, p < w
        PROVE  FALSE
    <2> DEFINE x == w - p - 1
    <2>1. x \in Nat /\ x + 1 \in Nat /\ w = p + (x + 1)
      BY <1>1
    <2> HIDE DEF x
    <2>2. s * w = s * p + s * (x + 1) /\ s * (x + 1) >= s /\ s * p \in Nat /\ s * (x + 1) \in Nat
      BY <2>1, Products
    <2> QED  BY <1>1, <2>2
  <1>2. q = u
    BY <1>1
  <1> QED  BY <1>2

SlotOf(n) == <<(n - 1) \div Slots, ((n - 1) % Slots) + 1>>
Total == SectorCount * Slots

\* The scan visits slots of the partition.
LEMMA SlotFacts ==
    ASSUME NEW n \in 1..Total
    PROVE  SlotOf(n) \in Addresses
  <1>0. Slots \in Nat \ {0} /\ SectorCount \in Nat
    BY KvsAssumption
  <1> DEFINE m == n - 1
             q == m \div Slots
             r == m % Slots
  <1>1. Total \in Nat /\ Total = Slots * SectorCount
    BY <1>0 DEF Total
  <1>2. m \in Nat /\ m < Total
    BY <1>1
  <1> HIDE DEF m
  <1>3. q \in Nat /\ r \in 0..(Slots - 1) /\ m = Slots * q + r
    BY <1>0, <1>2, DivMod
  <1> HIDE DEF q, r
  <1>4. q < SectorCount
    BY <1>0, <1>1, <1>2, <1>3, DivBelow
  <1>5. q \in 0..(SectorCount - 1) /\ r + 1 \in 1..Slots
    BY <1>0, <1>3, <1>4
  <1> QED  BY <1>5 DEF SlotOf, Addresses, Sectors, q, r, m

\* The scan visits every slot of the partition.
LEMMA SlotsCovered ==
    ASSUME NEW a \in Addresses
    PROVE  \E n \in 1..Total : SlotOf(n) = a
  <1>0. Slots \in Nat \ {0} /\ SectorCount \in Nat
    BY KvsAssumption
  <1>1. a[1] \in 0..(SectorCount - 1) /\ a[2] \in 1..Slots /\ a = <<a[1], a[2]>>
    BY DEF Addresses, Sectors
  <1> DEFINE u == a[1]
             v == a[2] - 1
             m == Slots * u + v
             n == m + 1
             q == m \div Slots
             r == m % Slots
             x == SectorCount - u - 1
  <1>2. u \in Nat /\ v \in 0..(Slots - 1) /\ x \in Nat /\ SectorCount = u + (x + 1) /\ x + 1 \in Nat
    BY <1>0, <1>1
  <1>3. Total = Slots * SectorCount
    BY <1>0 DEF Total
  <1> HIDE DEF u, x
  <1>4. Slots * SectorCount = Slots * u + Slots * (x + 1) /\ Slots * (x + 1) >= Slots /\ Slots * u \in Nat
        /\ Slots * (x + 1) \in Nat
    BY <1>0, <1>2, Products
  <1> HIDE DEF v
  <1>5. m \in Nat /\ m < Total
    BY <1>0, <1>2, <1>3, <1>4
  <1>6. n \in 1..Total /\ n - 1 = m
    <2>1. Total \in Nat
      BY <1>0 DEF Total
    <2> HIDE DEF m
    <2> QED  BY <1>5, <2>1
  <1>7. m = Slots * u + v
    OBVIOUS
  <1> HIDE DEF m, n
  <1>8. q \in Nat /\ r \in 0..(Slots - 1) /\ m = Slots * q + r
    BY <1>0, <1>5, DivMod
  <1> HIDE DEF q, r
  <1>9. q = u /\ r = v
    BY <1>0, <1>2, <1>7, <1>8, DivUnique
  <1>10. SlotOf(n) = <<q, r + 1>>
    BY <1>6 DEF SlotOf, q, r
  <1>11. r + 1 = a[2]
    BY <1>0, <1>1, <1>9 DEF v
  <1>12. SlotOf(n) = a
    BY <1>1, <1>9, <1>10, <1>11 DEF u
  <1> QED  BY <1>6, <1>12

Start == [cache |-> NothingCached, bad |-> {}]
\* f is the pass over the first m slots.
Pass(f, m) == f = [n \in 0..m |-> IF n = 0 THEN Start ELSE Visit(f[n - 1], SlotOf(n))]

\* The model's Scan is the pass over all slots.
LEMMA ScanIsAPass == Scan = (CHOOSE f : Pass(f, Total))[Total]
  BY DEF Scan, Pass, SlotOf, Start, Total

\* One slot more.
LEMMA PassGrows ==
    ASSUME NEW m \in Nat, NEW g, Pass(g, m)
    PROVE  \E f : Pass(f, m + 1)
  <1> DEFINE last == Visit(g[m], SlotOf(m + 1))
             f == [n \in 0..(m + 1) |-> IF n = m + 1 THEN last ELSE g[n]]
             h == [n \in 0..(m + 1) |-> IF n = 0 THEN Start ELSE Visit(f[n - 1], SlotOf(n))]
  <1>1. ASSUME NEW n \in 0..m PROVE g[n] = (IF n = 0 THEN Start ELSE Visit(g[n - 1], SlotOf(n)))
    BY <1>1 DEF Pass
  <1>2. ASSUME NEW n \in 0..(m + 1) PROVE f[n] = h[n]
    <2>1. CASE n = m + 1
      <3>1. n # 0 /\ n - 1 = m /\ m \in 0..(m + 1) /\ m # m + 1
        BY <2>1
      <3>2. f[n] = last /\ f[n - 1] = g[m]
        BY <2>1, <3>1
      <3>3. h[n] = Visit(f[n - 1], SlotOf(n))
        <4> HIDE DEF f
        <4> QED  BY <3>1
      <3> HIDE DEF f, h
      <3> QED  BY <2>1, <3>2, <3>3
    <2>2. CASE n # m + 1 /\ n = 0
      <3>1. n \in 0..m
        BY <2>2
      <3>2. f[n] = g[n] /\ g[n] = Start
        BY <1>1, <2>2, <3>1
      <3>3. h[n] = Start
        <4> HIDE DEF f
        <4> QED  BY <2>2
      <3> QED  BY <3>2, <3>3
    <2>3. CASE n # m + 1 /\ n # 0
      <3>1. n \in 0..m /\ n - 1 \in 0..(m + 1) /\ n - 1 # m + 1
        BY <2>3
      <3>2. f[n] = g[n] /\ f[n - 1] = g[n - 1]
        BY <2>3, <3>1
      <3>3. g[n] = Visit(g[n - 1], SlotOf(n))
        BY <1>1, <2>3, <3>1
      <3>4. h[n] = Visit(f[n - 1], SlotOf(n))
        <4> HIDE DEF f
        <4> QED  BY <2>3
      <3> HIDE DEF f, h
      <3> QED  BY <3>2, <3>3, <3>4
    <2> QED  BY <2>1, <2>2, <2>3
  <1>3. f = h
    <2>1. DOMAIN f = 0..(m + 1) /\ DOMAIN h = 0..(m + 1) /\ f = [n \in 0..(m + 1) |-> f[n]] /\ h = [n \in 0..(m + 1) |-> h[n]]
      OBVIOUS
    <2> HIDE DEF f, h
    <2> QED  BY <1>2, <2>1
  <1>4. Pass(f, m + 1)
    <2> HIDE DEF f
    <2> QED  BY <1>3 DEF Pass
  <1> QED  BY <1>4

\* The pass over any number of slots is defined, by induction on the number.
LEMMA PassExists ==
    ASSUME NEW m \in Nat
    PROVE  \E f : Pass(f, m)
  <1> DEFINE S == {n \in Nat : ~ \E f : Pass(f, n)}
  <1> SUFFICES ASSUME S # {} PROVE FALSE
    OBVIOUS
  <1> DEFINE n == Min(S)
  <1>1. n \in S /\ \A y \in S : n <= y
    <2>1. S \in SUBSET Nat
      OBVIOUS
    <2> HIDE DEF S
    <2> QED  BY <2>1, NatMin
  <1> HIDE DEF n
  <1>2. n \in Nat /\ ~ \E f : Pass(f, n)
    BY <1>1
  <1>3. CASE n = 0
    <2> DEFINE f == [i \in 0..0 |-> Start]
    <2>1. f = [i \in 0..0 |-> IF i = 0 THEN Start ELSE Visit(f[i - 1], SlotOf(i))]
      OBVIOUS
    <2>2. Pass(f, 0)
      <3> HIDE DEF f
      <3> QED  BY <2>1 DEF Pass
    <2> QED  BY <1>2, <1>3, <2>2
  <1>4. CASE n # 0
    <2>1. n - 1 \in Nat /\ n - 1 \notin S /\ (n - 1) + 1 = n
      BY <1>1, <1>2, <1>4
    <2>2. \E g : Pass(g, n - 1)
      BY <2>1
    <2> DEFINE p == n - 1
    <2>3. p \in Nat /\ p + 1 = n /\ \E g : Pass(g, p)
      BY <2>1, <2>2
    <2> HIDE DEF p
    <2>4. \E f : Pass(f, p + 1)
      BY <2>3, PassGrows
    <2> QED  BY <1>2, <2>3, <2>4
  <1> QED  BY <1>3, <1>4

\* The addresses of the first n slots that hold an entry.
SeenLive(n) == {SlotOf(i) : i \in 1..n} \cap Live(flash)

\* What the pass knows after n slots, by induction on n.
LEMMA PassKnows ==
    ASSUME FlashInv(flash), red \in Nat \ {0}, NEW f, Pass(f, Total), NEW m \in 0..Total
    PROVE  Scanned(f[m], SeenLive(m))
  <1>0. Total \in Nat
    <2>1. Slots \in Nat \ {0} /\ SectorCount \in Nat
      BY KvsAssumption
    <2> QED  BY <2>1 DEF Total
  <1> DEFINE S == {n \in Nat : n \in 0..Total /\ ~Scanned(f[n], SeenLive(n))}
  <1> SUFFICES ASSUME S # {} PROVE FALSE
    OBVIOUS
  <1> DEFINE n == Min(S)
  <1>1. n \in S /\ \A y \in S : n <= y
    <2>1. S \in SUBSET Nat
      OBVIOUS
    <2> HIDE DEF S
    <2> QED  BY <2>1, NatMin
  <1> HIDE DEF n
  <1>2. n \in Nat /\ n \in 0..Total /\ ~Scanned(f[n], SeenLive(n))
    BY <1>1
  <1>3. ASSUME NEW i \in 0..Total PROVE f[i] = (IF i = 0 THEN Start ELSE Visit(f[i - 1], SlotOf(i)))
    BY <1>3 DEF Pass
  <1>4. CASE n = 0
    <2>1. f[n] = Start
      BY <1>2, <1>3, <1>4
    <2>2. SeenLive(n) = {}
      BY <1>4 DEF SeenLive
    <2>3. Start.cache = NothingCached /\ DOMAIN Start = {"cache", "bad"}
      BY DEF Start
    <2>4. NothingCached \in [Keys -> Descriptors \cup {NoEntry}] /\ \A k \in Keys : NothingCached[k] = NoEntry
      BY DEF NothingCached
    <2>5. Scanned(f[n], SeenLive(n))
      BY <2>1, <2>2, <2>3, <2>4 DEF Scanned
    <2> QED  BY <1>2, <2>5
  <1>5. CASE n # 0
    <2> DEFINE p == n - 1
               a == SlotOf(n)
    <2>1. p \in Nat /\ p \in 0..Total /\ p \notin S /\ n \in 1..Total
      BY <1>0, <1>1, <1>2, <1>5
    <2>2. Scanned(f[p], SeenLive(p))
      BY <2>1
    <2>3. f[n] = Visit(f[p], a)
      BY <1>2, <1>3, <1>5
    <2>4. a \in Addresses
      BY <2>1, SlotFacts
    <2>5. SeenLive(n) = SeenLive(p) \cup ({a} \cap Live(flash))
      <3>1. 1..n = 1..p \cup {n}
        BY <1>2, <1>5
      <3>2. {SlotOf(i) : i \in 1..n} = {SlotOf(i) : i \in 1..p} \cup {a}
        BY <3>1
      <3> QED  BY <3>2 DEF SeenLive
    <2>6. SeenLive(p) \subseteq Live(flash)
      BY DEF SeenLive
    <2> HIDE DEF p, a
    <2>7. Scanned(Visit(f[p], a), SeenLive(p) \cup ({a} \cap Live(flash)))
      BY <2>2, <2>4, <2>6, VisitKeeps
    <2> QED  BY <1>2, <2>3, <2>5, <2>7
  <1> QED  BY <1>4, <1>5

\* The cache that a scan builds lists the newest entry of every key in flash.
LEMMA ScanFacts ==
    ASSUME FlashInv(flash), red \in Nat \ {0}
    PROVE  CacheInv(flash, Scan.cache, red) /\ UpToDate(flash, Scan.cache)
  <1>0. Total \in Nat /\ Total \in 0..Total
    <2>1. Slots \in Nat \ {0} /\ SectorCount \in Nat
      BY KvsAssumption
    <2>2. Total \in Nat
      BY <2>1 DEF Total
    <2> QED  BY <2>2
  <1> DEFINE f == CHOOSE g : Pass(g, Total)
  <1>1. Pass(f, Total)
    BY <1>0, PassExists
  <1>2. Scan = f[Total]
    BY ScanIsAPass
  <1> HIDE DEF f
  <1>3. Scanned(Scan, SeenLive(Total))
    BY <1>0, <1>1, <1>2, PassKnows
  <1>4. Live(flash) \subseteq SeenLive(Total)
    <2> SUFFICES ASSUME NEW a \in Live(flash) PROVE a \in {SlotOf(i) : i \in 1..Total}
      BY DEF SeenLive
    <2>1. a \in Addresses
      BY DEF Live
    <2>2. PICK n \in 1..Total : SlotOf(n) = a
      BY <2>1, SlotsCovered
    <2> QED  BY <2>2
  <1> QED  BY <1>3, <1>4 DEF Scanned, CacheInv, UpToDate

-----------------------------------------------------------------------------
(* Init() and maintenance                                                  *)

\* InitializeMetadata: the RAM is rebuilt from the flash.
LEMMA InitializeMetadataKeeps ==
    ASSUME FlashInv(flash), red \in Nat \ {0}, NEW txn \in Nat, NEW hadError, InitializeMetadata(txn, hadError)
    PROVE  /\ DataInv(flash, cache', sectors', lastTxn', red) /\ lastNew' \in Sectors
  <1> DEFINE C == Scan.cache
             found == {k \in Keys : C[k] # NoEntry}
             copies(s) == {k \in found : s \in SectorsOf(C[k].addresses)}
             newer == {k \in found : C[k].txn > txn}
             bad == Scan.bad
  <1>1. CacheInv(flash, C, red) /\ UpToDate(flash, C) /\ flash \in Flash
    BY ScanFacts DEF FlashInv
  <1>2. /\ cache' = C
        /\ sectors' = [s \in Sectors |-> [writable |-> IF s \in bad THEN -1 ELSE Slots - Len(flash[s]),
                                          valid |-> Cardinality(copies(s))]]
    BY DEF InitializeMetadata, kCorruptSector
  <1>3. \/ newer = {} /\ lastTxn' = txn /\ lastNew' = 0
        \/ \E k \in newer : /\ \A n \in newer : C[n].txn <= C[k].txn
                            /\ lastTxn' = C[k].txn
                            /\ lastNew' = Last(C[k].addresses)[1]
    BY DEF InitializeMetadata
  <1> HIDE DEF C, bad
  <1>4. SectorInv(flash, C, sectors')
    <2>0. Slots \in Nat \ {0} /\ IsFiniteSet(Keys)
      BY KvsAssumption
    <2>1. ASSUME NEW s \in Sectors PROVE copies(s) = Copies(C, s)
      BY NoEntryFacts DEF Copies
    <2>2. ASSUME NEW s \in Sectors PROVE Cardinality(Copies(C, s)) \in Nat /\ Len(flash[s]) \in 0..Slots
      <3>1. Copies(C, s) \subseteq Keys
        BY DEF Copies
      <3>2. Cardinality(Copies(C, s)) \in Nat
        BY <2>0, <3>1, FS_Subset, FS_CardinalityType
      <3>3. flash[s] \in Seq(Stored \cup {Corrupt}) /\ Len(flash[s]) <= Slots
        BY <1>1, <2>2 DEF Flash
      <3> QED  BY <2>0, <3>2, <3>3
    <2> DEFINE sd(s) == [writable |-> IF s \in bad THEN -1 ELSE Slots - Len(flash[s]),
                         valid |-> Cardinality(copies(s))]
    <2>3. ASSUME NEW s \in Sectors
          PROVE  /\ sd(s) \in [writable : -1..Slots, valid : Nat]
                 /\ sd(s).valid = Cardinality(Copies(C, s))
                 /\ sd(s).writable # -1 => sd(s).writable = Slots - Len(flash[s])
      <3> DEFINE w == IF s \in bad THEN -1 ELSE Slots - Len(flash[s])
      <3>1. w \in -1..Slots /\ (w # -1 => w = Slots - Len(flash[s]))
        BY <2>0, <2>2
      <3>2. Cardinality(copies(s)) = Cardinality(Copies(C, s)) /\ Cardinality(Copies(C, s)) \in Nat
        BY <2>1, <2>2
      <3> HIDE DEF copies, w
      <3>3. sd(s) = [writable |-> w, valid |-> Cardinality(copies(s))]
        BY DEF w
      <3> QED  BY <3>1, <3>2, <3>3
    <2>4. sectors' = [s \in Sectors |-> sd(s)]
      BY <1>2
    <2> HIDE DEF sd
    <2> QED  BY <2>3, <2>4 DEF SectorInv
  <1>5. ASSUME NEW k \in found
        PROVE  /\ C[k].txn \in Nat /\ C[k].addresses \in Seq(Addresses) /\ Len(C[k].addresses) \in Nat \ {0}
    BY <1>1, <1>5, DescriptorFacts
  <1>6. ASSUME NEW t \in Nat, \A k \in found : C[k].txn <= t PROVE TxnInv(flash, t)
    <2> SUFFICES ASSUME NEW a \in Live(flash) PROVE Entry(flash, a).txn <= t
      BY DEF TxnInv
    <2>1. Entry(flash, a) \in Stored
      BY <1>1, LiveFacts
    <2> DEFINE k == Entry(flash, a).key
    <2>2. k \in Keys /\ Entry(flash, a).txn \in Nat
      BY <2>1, StoredFacts
    <2>3. C[k] # NoEntry /\ Entry(flash, a).txn <= C[k].txn
      BY <1>1 DEF UpToDate
    <2> HIDE DEF k
    <2>4. k \in found
      BY <2>2, <2>3
    <2>5. C[k].txn \in Nat /\ C[k].txn <= t
      BY <1>5, <1>6, <2>4
    <2> QED  BY <2>2, <2>3, <2>5
  <1>7. TxnInv(flash, lastTxn') /\ lastNew' \in Sectors
    <2>1. CASE newer = {} /\ lastTxn' = txn /\ lastNew' = 0
      <3>1. 0 \in Sectors
        <4>1. SectorCount \in Nat /\ SectorCount >= 2
          BY KvsAssumption
        <4> QED  BY <4>1 DEF Sectors
      <3>2. \A k \in found : C[k].txn <= txn
        <4> SUFFICES ASSUME NEW k \in found PROVE C[k].txn <= txn
          OBVIOUS
        <4>1. C[k].txn \in Nat /\ ~(C[k].txn > txn)
          BY <1>5, <2>1
        <4> QED  BY <4>1
      <3>3. TxnInv(flash, txn)
        BY <1>6, <3>2
      <3> QED  BY <2>1, <3>1, <3>3
    <2>2. CASE \E k \in newer : /\ \A n \in newer : C[n].txn <= C[k].txn
                                /\ lastTxn' = C[k].txn
                                /\ lastNew' = Last(C[k].addresses)[1]
      <3>1. PICK k \in newer : /\ \A n \in newer : C[n].txn <= C[k].txn
                               /\ lastTxn' = C[k].txn
                               /\ lastNew' = Last(C[k].addresses)[1]
        BY <2>2
      <3> DEFINE t == C[k].txn
                 A == C[k].addresses
      <3>2. k \in found /\ t > txn
        BY <3>1
      <3>3. t \in Nat /\ A \in Seq(Addresses) /\ Len(A) \in Nat \ {0}
        BY <1>5, <3>2
      <3>4. \A n \in found : C[n].txn <= t
        <4> SUFFICES ASSUME NEW n \in found PROVE C[n].txn <= t
          OBVIOUS
        <4>1. C[n].txn \in Nat
          BY <1>5
        <4>2. CASE C[n].txn > txn
          BY <3>1, <4>2
        <4>3. CASE ~(C[n].txn > txn)
          <5> HIDE DEF t
          <5> QED  BY <3>2, <3>3, <4>1, <4>3
        <4> QED  BY <4>2, <4>3
      <3>5. TxnInv(flash, t)
        BY <1>6, <3>3, <3>4
      <3>6. Last(A) \in Addresses
        <4> HIDE DEF A
        <4> QED  BY <3>3 DEF Last
      <3>7. Last(A)[1] \in Sectors
        <4> HIDE DEF A
        <4> QED  BY <3>6 DEF Addresses
      <3> QED  BY <3>1, <3>5, <3>7
    <2> QED  BY <1>3, <2>1, <2>2
  <1> QED  BY <1>1, <1>2, <1>4, <1>7 DEF DataInv

\* A call that starts a repair has nothing in hand.
LEMMA FixErrorsFacts ==
    ASSUME NEW task
    PROVE  /\ DOMAIN FixErrors(task) = Fields /\ FixErrors(task).pc = "repair" /\ FixErrors(task).task = task
           /\ FixErrors(task).then = "none" /\ FixErrors(task).reserved = <<>> /\ FixErrors(task).written = 0
           /\ FixErrors(task).todo = {}
  BY IdleFacts DEF FixErrors, Fields

\* Init().
LEMMA BootKeeps ==
    ASSUME KvsInv, Boot
    PROVE  KvsInv'
  <1>0. op.pc = "off" /\ InitializeMetadata(0, FALSE) /\ options' = options /\ flash' = flash
    BY DEF Boot
  <1>1. /\ FlashInv(flash) /\ red \in Nat \ {0} /\ primary \in Formats
        /\ options.redundancy \in Redundancies /\ options.verify \in VerifyModes
    BY RedundancyFacts DEF KvsInv
  <1>2. DataInv(flash, cache', sectors', lastTxn', red) /\ lastNew' \in Sectors
    <2> DEFINE txn == 0
               had == FALSE
    <2>1. txn \in Nat /\ InitializeMetadata(txn, had)
      BY <1>0
    <2> HIDE DEF txn, had
    <2> QED  BY <1>1, <2>1, InitializeMetadataKeeps
  <1>3. primary' \in Formats
    BY <1>1 DEF Boot, Formats
  <1>4. init' # "none"
    BY DEF Boot
  <1> DEFINE o == [Idle EXCEPT !.pc = "return", !.task = "Init"]
             p == [Idle EXCEPT !.pc = "return", !.task = "Init", !.status = "DATA_LOSS"]
             q == FixErrors("Init")
  <1>5. op' = o \/ op' = p \/ op' = q
    BY DEF Boot
  <1>6. /\ DOMAIN o = Fields /\ o.pc = "return" /\ o.task = "Init"
        /\ o.then = "none" /\ o.reserved = <<>> /\ o.written = 0 /\ o.todo = {}
        /\ DOMAIN p = Fields /\ p.pc = "return" /\ p.task = "Init"
        /\ p.then = "none" /\ p.reserved = <<>> /\ p.written = 0 /\ p.todo = {}
    BY IdleFacts DEF Fields
  <1>7. /\ DOMAIN q = Fields /\ q.pc = "repair" /\ q.task = "Init"
        /\ q.then = "none" /\ q.reserved = <<>> /\ q.written = 0 /\ q.todo = {}
    BY FixErrorsFacts
  <1> HIDE DEF o, p, q
  <1>8. /\ DOMAIN op' = Fields /\ op'.pc \in {"return", "repair"} /\ op'.task # "Write"
        /\ op'.then = "none" /\ op'.reserved = <<>> /\ op'.written = 0 /\ op'.todo = {}
    BY <1>5, <1>6, <1>7
  <1>9. OpInv(op', flash, cache', sectors', lastTxn', red)
    <2> DEFINE x == op'
    <2>1. /\ DOMAIN x = Fields /\ x.pc \in {"return", "repair"} /\ x.task # "Write"
          /\ x.then = "none" /\ x.reserved = <<>> /\ x.written = 0 /\ x.todo = {}
      BY <1>8
    <2> HIDE DEF x
    <2>2. OpShape(x, cache')
      BY <2>1 DEF OpShape, Pcs
    <2>3. OpInv(x, flash, cache', sectors', lastTxn', red)
      BY <2>1, <2>2, Resting DEF Pcs
    <2> QED  BY <2>3 DEF x
  <1>10. op'.pc # "off"
    BY <1>8
  <1> QED  BY <1>0, <1>1, <1>2, <1>3, <1>4, <1>9, <1>10 DEF KvsInv, red

\* FullMaintenance, HeavyMaintenance and PartialMaintenance.
LEMMA MaintenanceKeeps ==
    ASSUME KvsInv, NEW task \in {"FullMaintenance", "PartialMaintenance"}, NEW repairs, NEW heavy,
           Maintenance(task, repairs, heavy)
    PROVE  KvsInv'
  <1>0. op.pc = "idle" /\ op.pc # "off" /\ UNCHANGED <<options, flash, init, primary>>
    BY DEF Maintenance
  <1>1. FlashInv(flash) /\ red \in Nat \ {0} /\ init # "none" /\ lastNew \in Sectors
        /\ DataInv(flash, cache, sectors, lastTxn, red) /\ TxnInv(flash, lastTxn)
    BY <1>0, RedundancyFacts, InvFacts
  <1>2. lastTxn \in Nat
    BY <1>1 DEF TxnInv
  <1> DEFINE todo == IF task = "FullMaintenance" THEN Cached ELSE {}
             pc == IF task = "FullMaintenance" THEN "update" ELSE "partial"
             f == FixErrors(task)
             o == [f EXCEPT !.heavy = heavy]
             p == [Idle EXCEPT !.pc = pc, !.task = task, !.heavy = heavy, !.todo = todo]
  <1>3. \/ InitializeMetadata(lastTxn, TRUE) /\ op' = o
        \/ op' = p /\ UNCHANGED <<cache, sectors, lastNew, lastTxn>>
    BY DEF Maintenance
  <1>4. todo \subseteq CachedIn(cache) /\ pc \in {"update", "partial"} /\ task # "Write"
    BY CachedSame
  <1> HIDE DEF todo, pc
  <1>5. CASE InitializeMetadata(lastTxn, TRUE) /\ op' = o
    <2>1. DataInv(flash, cache', sectors', lastTxn', red) /\ lastNew' \in Sectors
      <3> DEFINE had == TRUE
      <3>1. InitializeMetadata(lastTxn, had)
        BY <1>5
      <3> HIDE DEF had
      <3> QED  BY <1>1, <1>2, <3>1, InitializeMetadataKeeps
    <2>2. /\ DOMAIN f = Fields /\ f.pc = "repair" /\ f.task = task
          /\ f.then = "none" /\ f.reserved = <<>> /\ f.written = 0 /\ f.todo = {}
      BY FixErrorsFacts
    <2> HIDE DEF f
    <2>3. /\ DOMAIN o = Fields /\ o.pc = "repair" /\ o.task = task
          /\ o.then = "none" /\ o.reserved = <<>> /\ o.written = 0 /\ o.todo = {}
      BY <2>2 DEF Fields
    <2> HIDE DEF o
    <2>4. OpShape(o, cache')
      BY <2>3 DEF OpShape, Pcs
    <2>5. OpInv(o, flash, cache', sectors', lastTxn', red)
      BY <1>4, <2>3, <2>4, Resting DEF Pcs
    <2>6. DataInv(flash', cache', sectors', lastTxn', red) /\ OpInv(op', flash', cache', sectors', lastTxn', red)
      BY <1>0, <1>5, <2>1, <2>5
    <2> QED  BY <1>0, <1>1, <2>1, <2>6, StepInv
  <1>6. CASE op' = p /\ UNCHANGED <<cache, sectors, lastNew, lastTxn>>
    <2>1. /\ DOMAIN p = Fields /\ p.pc = pc /\ p.task = task
          /\ p.then = "none" /\ p.reserved = <<>> /\ p.written = 0 /\ p.todo = todo
      BY IdleFacts DEF Fields
    <2> HIDE DEF p
    <2>2. OpShape(p, cache)
      BY <1>4, <2>1 DEF OpShape, Pcs
    <2>3. OpInv(p, flash, cache, sectors, lastTxn, red)
      BY <1>4, <2>1, <2>2, Resting DEF Pcs
    <2>4. OpInv(op', flash, cache, sectors, lastTxn, red)
      BY <1>6, <2>3
    <2> QED  BY <1>0, <1>1, <1>6, <2>4, QuietStep
  <1> QED  BY <1>3, <1>5, <1>6

-----------------------------------------------------------------------------
(* The invariant is inductive                                              *)

\* Entries are converted only by stores that verify what they write.
ConversionsVerified == Upgrade => VerifyModes \subseteq {TRUE}
\* A program operation that reports an error has not left a complete entry.
WritesAreChecked == "written" \notin Faults /\ ConversionsVerified

\* A partition that has been erased as a whole holds no entries.
LEMMA ErasedFlash ==
    ASSUME RoomForKeys, NEW F, F = [s \in Sectors |-> <<>>]
    PROVE  FlashInv(F)
  <1>1. Slots \in Nat /\ MaxEntries \in Nat
    BY KvsAssumption
  <1>2. F \in Flash
    BY <1>1 DEF Flash
  <1>3. Live(F) = {}
    <2> SUFFICES ASSUME NEW a \in Live(F) PROVE FALSE
      OBVIOUS
    <2>1. a[1] \in Sectors /\ a[2] \in 1..Len(F[a[1]])
      BY <1>2, LiveFacts
    <2>2. F[a[1]] = <<>> /\ Len(<<>>) = 0
      BY <2>1
    <2>3. a[2] \in 1..0
      BY <2>1, <2>2
    <2> QED  BY <2>3
  <1>4. KeysOf(F) = {}
    BY <1>3 DEF KeysOf
  <1>5. Cardinality(KeysOf(F)) <= MaxEntries
    BY <1>1, <1>4, FS_EmptySet
  <1> QED  BY <1>2, <1>3, <1>5 DEF FlashInv, Unique

\* The invariant holds before the first Init().
LEMMA InitKeeps ==
    ASSUME RoomForKeys, Init
    PROVE  KvsInv /\ Progress(op)
  <1>1. options.redundancy \in Redundancies /\ options.verify \in VerifyModes
    BY DEF Init
  <1>2. primary \in Formats
    BY DEF Init, Formats
  <1>3. lastNew \in Sectors
    <2>1. SectorCount \in Nat /\ SectorCount >= 2
      BY KvsAssumption
    <2> QED  BY <2>1 DEF Init, Sectors
  <1>4. FlashInv(flash)
    BY ErasedFlash DEF Init
  <1>5. op = Off /\ init = "none" /\ cache = NothingCached
    BY DEF Init
  <1>6. op.pc = "off"
    BY <1>5, IdleFacts DEF Off, Fields
  <1> QED  BY <1>1, <1>2, <1>3, <1>4, <1>5, <1>6, IdleProgress DEF KvsInv

\* A loss of power leaves the flash.
LEMMA PowerLossKeeps ==
    ASSUME KvsInv, PowerLoss
    PROVE  KvsInv'
  <1>1. /\ options' = options /\ primary' = primary /\ flash' = flash
        /\ lastNew' = 0 /\ op' = Off /\ init' = "none" /\ cache' = NothingCached
    BY DEF PowerLoss
  <1>2. 0 \in Sectors
    <2>1. SectorCount \in Nat /\ SectorCount >= 2
      BY KvsAssumption
    <2> QED  BY <2>1 DEF Sectors
  <1>3. Off.pc = "off"
    BY IdleFacts DEF Off, Fields
  <1>4. /\ options'.redundancy \in Redundancies /\ options'.verify \in VerifyModes
        /\ primary' \in Formats /\ FlashInv(flash')
    BY <1>1 DEF KvsInv
  <1> QED  BY <1>1, <1>2, <1>3, <1>4 DEF KvsInv

\* A step of a call.
LEMMA StepKeeps ==
    ASSUME KvsInv, Progress(op), ConversionsVerified, Step
    PROVE  KvsInv'
  <1> USE DEF ConversionsVerified
  <1>1. CASE FindExisting \/ GetSectorForWrite \/ WriteEntry \/ WriteCopy
    BY <1>1, FindExistingKeeps, GetSectorForWriteKeeps, WriteEntryKeeps, WriteCopyStepKeeps
  <1>2. CASE (\E k \in Keys : RelocateEntry(k)) \/ Relocated \/ EraseSector
    BY <1>2, RelocateEntryKeeps, RelocatedKeeps, EraseSectorKeeps
  <1>3. CASE RepairCorruptSectors \/ EnsureFreeSectorExists \/ AddRedundantEntry \/ ErrorsFixed
    BY <1>3, RepairCorruptSectorsKeeps, EnsureFreeSectorExistsKeeps, AddRedundantEntryKeeps, ErrorsFixedKeeps
  <1>4. CASE (\E k \in Keys : EnsureEntryRedundancy(k)) \/ \E k \in Keys : UpdateEntry(k)
    BY <1>4, EnsureEntryRedundancyKeeps, UpdateEntryKeeps
  <1>5. CASE ConvertEntry \/ UpdateDone \/ Sweep \/ GarbageCollect \/ Return
    BY <1>5, ConvertEntryKeeps, UpdateDoneKeeps, SweepKeeps, GarbageCollectKeeps, ReturnKeeps
  <1> QED  BY <1>1, <1>2, <1>3, <1>4, <1>5 DEF Step

\* The invariant is inductive.
LEMMA NextKeeps ==
    ASSUME KvsInv, Progress(op), ConversionsVerified, [Next]_vars
    PROVE  KvsInv' /\ Progress(op')
  <1>1. Progress(op')
    BY ProgressKeeps
  <1>2. CASE Step
    BY <1>1, <1>2, StepKeeps
  <1>3. CASE (\E k \in Keys, v \in Values : PutBytes(k, v)) \/ \E k \in Keys : Delete(k)
    <2>1. PICK k \in Keys, v \in Contents : CallWrite(k, v)
      BY <1>3 DEF PutBytes, Delete, Contents
    <2> QED  BY <1>1, <2>1, CallWriteKeeps
  <1>4. CASE FullMaintenance \/ HeavyMaintenance \/ PartialMaintenance
    <2>1. \E task \in {"FullMaintenance", "PartialMaintenance"} :
            \E repairs, heavy : Maintenance(task, repairs, heavy)
      BY <1>4 DEF FullMaintenance, HeavyMaintenance, PartialMaintenance
    <2> QED  BY <1>1, <2>1, MaintenanceKeeps
  <1>5. CASE Boot
    BY <1>1, <1>5, BootKeeps
  <1>6. CASE PowerLoss
    BY <1>1, <1>6, PowerLossKeeps
  <1>7. CASE UNCHANGED vars
    BY <1>1, <1>7 DEF KvsInv, vars, ram
  <1> QED  BY <1>2, <1>3, <1>4, <1>5, <1>6, <1>7 DEF Next

-----------------------------------------------------------------------------
(* The invariants of the store                                             *)

\* The names that the model and the invariant have for what is in flash.
LEMMA SameNames ==
    /\ ReadableAddresses = Live(flash)
    /\ \A a : SlotAt(a) = Entry(flash, a)
    /\ \A a \in Addresses : Readable(a) <=> a \in Live(flash)
  BY DEF ReadableAddresses, Readable, Live, SlotAt, Entry

\* Addresses in sectors of their own are as many as their sectors.
LEMMA ApartCount ==
    ASSUME NEW A \in Seq(Addresses), Apart(A)
    PROVE  Cardinality(SectorsOf(A)) = Len(A)
  <1> DEFINE n == Len(A)
             f == [i \in 1..n |-> A[i][1]]
  <1>1. n \in Nat /\ DOMAIN A = 1..n
    OBVIOUS
  <1>2. \A s : s \in SectorsOf(A) <=> \E i \in 1..n : A[i][1] = s
    BY <1>1, SectorsOfMember
  <1>3. f \in Bijection(1..n, SectorsOf(A))
    <2>1. f \in [1..n -> SectorsOf(A)]
      BY <1>2
    <2>2. \A i, j \in 1..n : f[i] = f[j] => i = j
      BY <1>1 DEF Apart
    <2>3. \A s \in SectorsOf(A) : \E i \in 1..n : f[i] = s
      BY <1>2
    <2> HIDE DEF f
    <2> QED  BY <2>1, <2>2, <2>3 DEF Bijection, Injection, Surjection, IsInjective
  <1>4. ExistsBijection(1..n, SectorsOf(A))
    BY <1>3 DEF ExistsBijection
  <1>5. IsFiniteSet(1..n) /\ Cardinality(1..n) = n
    BY <1>1, FS_Interval
  <1> HIDE DEF n
  <1>6. Cardinality(SectorsOf(A)) = n
    BY <1>4, <1>5, FS_Bijection
  <1> QED  BY <1>6 DEF n

\* The addresses of a descriptor are in sectors of their own.
LEMMA DistinctSectors ==
    ASSUME KvsInv
    PROVE  CopiesInDistinctSectors
  <1>1. CASE op.pc = "off"
    <2>1. cache = NothingCached
      BY <1>1 DEF KvsInv
    <2>2. Cached = {}
      BY <2>1 DEF Cached, NothingCached
    <2> QED  BY <2>2 DEF CopiesInDistinctSectors
  <1>2. CASE op.pc # "off"
    <2> SUFFICES ASSUME NEW k \in Cached
                 PROVE  /\ Cardinality(SectorsOf(cache[k].addresses)) = Len(cache[k].addresses)
                        /\ Len(cache[k].addresses) <= options.redundancy
      BY DEF CopiesInDistinctSectors
    <2>1. k \in Keys /\ cache[k] # NoEntry /\ CacheInv(flash, cache, red)
      BY <1>2, InvFacts DEF Cached
    <2>2. Lists(flash, k, cache[k], red) /\ cache[k].addresses \in Seq(Addresses)
      BY <2>1, DescriptorFacts
    <2>3. Apart(cache[k].addresses) /\ Len(cache[k].addresses) <= red
      BY <2>2 DEF Lists
    <2> QED  BY <2>2, <2>3, ApartCount DEF red
  <1> QED  BY <1>1, <1>2

\* The descriptors of the sectors are right with the power on.
LEMMA Accounting ==
    ASSUME KvsInv
    PROVE  AccountingMatchesFlash
  <1> SUFFICES ASSUME init # "none", NEW s \in Sectors
               PROVE  /\ sectors[s].valid = Cardinality({k \in Keys : s \in SectorsOf(cache[k].addresses)})
                      /\ ~IsCorrupt(s) => Writable(s) = Slots - Len(flash[s])
    BY DEF AccountingMatchesFlash
  <1>1. op.pc # "off"
    BY DEF KvsInv
  <1>2. SectorInv(flash, cache, sectors)
    BY <1>1, InvFacts
  <1>3. /\ sectors[s].valid = Cardinality(Copies(cache, s))
        /\ sectors[s].writable # -1 => sectors[s].writable = Slots - Len(flash[s])
    BY <1>2 DEF SectorInv
  <1>4. sectors[s].valid = Cardinality({k \in Keys : s \in SectorsOf(cache[k].addresses)})
    BY <1>3 DEF Copies
  <1>5. ~IsCorrupt(s) => Writable(s) = Slots - Len(flash[s])
    BY <1>3 DEF IsCorrupt, Writable, kCorruptSector
  <1> QED  BY <1>4, <1>5

\* The entries that share an id are copies.
LEMMA UniqueIds ==
    ASSUME KvsInv
    PROVE  TransactionIdsAreUnique
  <1>1. Unique(flash)
    BY DEF KvsInv, FlashInv
  <1> DEFINE entries == {Entry(flash, a) : a \in Live(flash)}
  <1>2. {SlotAt(a) : a \in ReadableAddresses} = entries
    BY SameNames
  <1>3. \A e, f \in entries : e.txn = f.txn => e.key = f.key /\ e.value = f.value
    BY <1>1 DEF Unique
  <1> HIDE DEF entries
  <1> QED  BY <1>2, <1>3 DEF TransactionIdsAreUnique

\* A Get through the cache reads what the next Init() will find.
LEMMA RecoveredFacts ==
    ASSUME KvsInv, op.pc # "off", NEW k \in Keys, "written" \notin Faults
    PROVE  Recovered(k) = Content(cache[k].value)
  <1> DEFINE entries == {SlotAt(a) : a \in {b \in ReadableAddresses : SlotAt(b).key = k}}
             newest == {e \in entries : \A other \in entries : other.txn <= e.txn}
             value == (CHOOSE e \in newest : TRUE).value
  <1>1. Recovered(k) = IF newest = {} \/ value = Tombstone THEN "absent" ELSE value
    BY DEF Recovered
  <1>2. entries = {Entry(flash, a) : a \in {b \in Live(flash) : Entry(flash, b).key = k}}
    BY SameNames
  <1>3. flash \in Flash /\ Unique(flash) /\ CacheInv(flash, cache, red) /\ UpToDate(flash, cache)
    BY InvFacts DEF FlashInv, CacheInv
  <1>4. ASSUME NEW e \in entries PROVE e.txn \in Nat /\ e.value \in Contents
    <2>1. PICK a \in Live(flash) : e = Entry(flash, a)
      BY <1>2, <1>4
    <2> QED  BY <1>3, <2>1, LiveFacts, StoredFacts
  <1>5. "absent" \in {"absent"} /\ NoValue \notin Contents
    <2>1. {"tombstone", "no value"} \cap Values = {}
      BY KvsAssumption
    <2> QED  BY <2>1 DEF Contents, NoValue, Tombstone
  <1>6. CASE cache[k] = NoEntry
    <2>1. entries = {}
      BY <1>2, <1>3, <1>6 DEF UpToDate
    <2>2. newest = {}
      BY <2>1
    <2>3. Content(cache[k].value) = "absent"
      BY <1>6, NoEntryFacts DEF Content
    <2> QED  BY <1>1, <2>2, <2>3
  <1>7. CASE cache[k] # NoEntry
    <2> DEFINE d == cache[k]
               b == d.addresses[1]
    <2>1. /\ Lists(flash, k, d, red) /\ d.value \in Contents /\ d.txn \in Nat \ {0}
          /\ Len(d.addresses) \in Nat \ {0} /\ DOMAIN d.addresses = 1..Len(d.addresses)
      <3>1. Lists(flash, k, d, red)
        BY <1>3, <1>7, DescriptorFacts
      <3>2. d.value \in Contents
        BY <1>3, <1>7, DescriptorFacts
      <3>3. d.txn \in Nat \ {0}
        BY <1>3, <1>7, DescriptorFacts
      <3>4. Len(d.addresses) \in Nat \ {0}
        BY <1>3, <1>7, DescriptorFacts
      <3>5. DOMAIN d.addresses = 1..Len(d.addresses)
        BY <1>3, <1>7, DescriptorFacts
      <3> QED  BY <3>1, <3>2, <3>3, <3>4, <3>5
    <2>2. /\ b \in Live(flash) /\ Entry(flash, b).key = k
          /\ Entry(flash, b).txn = d.txn /\ Entry(flash, b).value = d.value
      <3>1. 1 \in DOMAIN d.addresses
        BY <2>1
      <3> QED  BY <2>1, <3>1 DEF Lists
    <2> DEFINE first == Entry(flash, b)
    <2>3. first \in entries /\ first.txn = d.txn /\ first.value = d.value /\ first.key = k
      BY <1>2, <2>2
    <2>4. ASSUME NEW e \in entries PROVE e.txn <= d.txn /\ (e.txn = d.txn => e.value = d.value)
      <3>1. PICK a \in Live(flash) : e = Entry(flash, a) /\ Entry(flash, a).key = k
        BY <1>2, <2>4
      <3>2. e.txn <= d.txn
        BY <1>3, <3>1 DEF UpToDate
      <3>3. e.txn = d.txn => e.value = d.value
        BY <1>3, <2>2, <3>1 DEF Unique
      <3> QED  BY <3>2, <3>3
    <2> HIDE DEF entries, d, first
    <2>5. first \in newest
      BY <2>3, <2>4
    <2>6. ASSUME NEW e \in newest PROVE e.value = d.value
      <3>1. e \in entries /\ first.txn <= e.txn
        BY <2>3, <2>6
      <3>2. e.txn \in Nat /\ d.txn \in Nat /\ e.txn <= d.txn /\ d.txn <= e.txn
        BY <1>4, <2>1, <2>3, <2>4, <3>1
      <3>3. e.txn = d.txn
        BY <3>2
      <3> QED  BY <2>4, <3>1, <3>3
    <2> HIDE DEF newest
    <2>7. value = d.value /\ newest # {}
      BY <2>5, <2>6
    <2>8. Content(d.value) = IF d.value = Tombstone THEN "absent" ELSE d.value
      BY <1>5, <2>1 DEF Content
    <2>9. Recovered(k) = Content(d.value)
      BY <1>1, <2>7, <2>8
    <2> QED  BY <2>9 DEF d
  <1> QED  BY <1>6, <1>7

\* The copies that the cache lists are readable ones of the entry.
LEMMA CacheMatches ==
    ASSUME KvsInv, "written" \notin Faults
    PROVE  CacheMatchesFlash
  <1> SUFFICES ASSUME init # "none", NEW k \in Keys
               PROVE  /\ Content(cache[k].value) = Recovered(k)
                      /\ \A i \in DOMAIN cache[k].addresses :
                           LET a == cache[k].addresses[i]
                           IN  Readable(a) /\ SlotAt(a).key = k /\ SlotAt(a).txn = cache[k].txn
    BY DEF CacheMatchesFlash
  <1>1. op.pc # "off"
    BY DEF KvsInv
  <1>2. Content(cache[k].value) = Recovered(k)
    BY <1>1, RecoveredFacts
  <1>3. ASSUME NEW i \in DOMAIN cache[k].addresses, NEW a, a = cache[k].addresses[i]
        PROVE  Readable(a) /\ SlotAt(a).key = k /\ SlotAt(a).txn = cache[k].txn
    <2>1. cache[k] # NoEntry
      <3>1. NoEntry.addresses = <<>> /\ DOMAIN <<>> = {}
        BY NoEntryFacts
      <3> QED  BY <1>3, <3>1
    <2>2. CacheInv(flash, cache, red) /\ flash \in Flash
      BY <1>1, InvFacts
    <2>3. Lists(flash, k, cache[k], red)
      BY <2>1, <2>2 DEF CacheInv
    <2>4. a \in Live(flash) /\ Entry(flash, a).key = k /\ Entry(flash, a).txn = cache[k].txn
      BY <1>3, <2>3 DEF Lists
    <2>5. a \in Addresses
      BY <2>4 DEF Live
    <2> QED  BY <2>4, <2>5, SameNames
  <1> QED  BY <1>2, <1>3

\* Always.
LEMMA Invariant ==
    ASSUME RoomForKeys, ConversionsVerified
    PROVE  Spec => [](KvsInv /\ Progress(op))
  <1>1. Init => KvsInv /\ Progress(op)
    BY InitKeeps
  <1>2. KvsInv /\ Progress(op) /\ [Next]_vars => KvsInv' /\ Progress(op)'
    BY NextKeeps
  <1> QED  BY <1>1, <1>2, PTL DEF Spec

\* No two different entries in flash share a transaction id, whatever was torn,
\* interrupted or lost with the power, and also if an entry is in flash whose
\* write was reported as failed: CreateEntry (key_value_store.cc) takes a new id
\* for every write, also for one that fails, and InitializeMetadata finds the
\* largest one again, provided that the entry cache has room for every key.
THEOREM TransactionIdsUnique ==
    ASSUME RoomForKeys, ConversionsVerified
    PROVE  Spec => []TransactionIdsAreUnique
  <1>1. KvsInv => TransactionIdsAreUnique
    BY UniqueIds
  <1> QED  BY <1>1, Invariant, PTL

\* The copies of an entry are in sectors of their own and no more than the
\* redundancy: GetAddressesForWrite avoids the sectors it has reserved, garbage
\* collection those of the other copies, and the scan of Init() rejects a second
\* copy in a sector.
THEOREM CopiesDistinct ==
    ASSUME RoomForKeys, ConversionsVerified
    PROVE  Spec => []CopiesInDistinctSectors
  <1>1. KvsInv => CopiesInDistinctSectors
    BY DistinctSectors
  <1> QED  BY <1>1, Invariant, PTL

\* The valid bytes of a sector are those of the cached copies in it, and what a
\* SectorDescriptor says is writable is erased flash, at every step of every
\* operation and after every failure: MarkSectorCorruptIfNotOk takes a sector
\* out of use whose state is not known.
THEOREM SectorsAccounted ==
    ASSUME RoomForKeys, ConversionsVerified
    PROVE  Spec => []AccountingMatchesFlash
  <1>1. KvsInv => AccountingMatchesFlash
    BY Accounting
  <1> QED  BY <1>1, Invariant, PTL

\* Get() reads through the entry cache what the next Init() will find in flash,
\* and every address that a descriptor lists holds a readable copy of the newest
\* entry of its key: garbage collection and repair never leave the cache behind
\* the flash, and the scan of Init() rebuilds it from any flash.
THEOREM CacheCorrect ==
    ASSUME WritesAreChecked
    PROVE  Spec => []CacheMatchesFlash
  <1>1. KvsInv => CacheMatchesFlash
    BY CacheMatches DEF WritesAreChecked
  <1>2. RoomForKeys /\ ConversionsVerified
    BY DEF WritesAreChecked, RoomForKeys
  <1> QED  BY <1>1, <1>2, Invariant, PTL

-----------------------------------------------------------------------------
(* The store implements the atomic map                                     *)

\* What a Get would find does not change, for any key.
SameStore == \A k \in Keys : Recovered(k)' = Recovered(k)
\* The cache names the same values, whatever their addresses are.
SameValues == \A k \in Keys : cache'[k].value = cache[k].value

\* What the next Init() finds in flash F.
FoundIn(F, k) ==
    LET entries == {Entry(F, a) : a \in {b \in Live(F) : Entry(F, b).key = k}}
        newest == {e \in entries : \A other \in entries : other.txn <= e.txn}
        value == (CHOOSE e \in newest : TRUE).value
    IN  IF newest = {} \/ value = Tombstone THEN "absent" ELSE value

\* What Init() finds depends on the flash only.
LEMMA RecoveredIsFound ==
    \A k \in Keys : Recovered(k) = FoundIn(flash, k)
  BY DEF Recovered, FoundIn, Live, Entry, SlotAt, Readable, ReadableAddresses

\* What Init() finds is what the cache says, as a formula that holds at every state.
LEMMA RecoveredIsCached ==
    "written" \notin Faults /\ KvsInv /\ op.pc # "off" =>
        \A k \in Keys : Recovered(k) = Content(cache[k].value)
  BY RecoveredFacts

\* A step that leaves the flash alone.
LEMMA SameFlash ==
    ASSUME flash' = flash
    PROVE  SameStore
  <1>1. (\A k \in Keys : Recovered(k) = FoundIn(flash, k))'
    BY RecoveredIsFound, PTL
  <1>2. ASSUME NEW k \in Keys PROVE Recovered(k)' = FoundIn(flash', k)
    BY <1>1
  <1>3. ASSUME NEW k \in Keys PROVE Recovered(k) = FoundIn(flash, k)
    BY RecoveredIsFound
  <1> QED  BY <1>2, <1>3 DEF SameStore

\* A step that changes the flash but no value.
LEMMA SameCache ==
    ASSUME "written" \notin Faults, KvsInv, KvsInv', op.pc # "off", init' = init, SameValues
    PROVE  SameStore
  <1>1. ("written" \notin Faults /\ KvsInv /\ op.pc # "off" =>
            \A k \in Keys : Recovered(k) = Content(cache[k].value))'
    BY RecoveredIsCached, PTL
  <1>2. op'.pc # "off"
    <2>1. init # "none"
      BY InvFacts
    <2> QED  BY <2>1 DEF KvsInv
  <1>3. ASSUME NEW k \in Keys PROVE Recovered(k)' = Content(cache'[k].value)
    BY <1>1, <1>2 DEF Content
  <1>4. ASSUME NEW k \in Keys PROVE Recovered(k) = Content(cache[k].value)
    BY RecoveredIsCached
  <1> QED  BY <1>3, <1>4 DEF SameStore, SameValues

\* The addresses of one descriptor change.
LEMMA OnlyAddresses ==
    ASSUME cache \in [Keys -> Descriptors \cup {NoEntry}], NEW k \in Keys, NEW A,
           Readdressed(cache', cache, k, A)
    PROVE  SameValues
  <1> DEFINE d == cache[k]
  <1>1. /\ d \in Descriptors \cup {NoEntry}
    OBVIOUS
  <1>2. d = [value |-> d.value, txn |-> d.txn, addresses |-> d.addresses]
    <2> HIDE DEF d
    <2> QED  BY <1>1 DEF Descriptors, NoEntry
  <1>3. [d EXCEPT !.addresses = A].value = d.value
    <2> HIDE DEF d
    <2> QED  BY <1>2
  <1>4. cache' = [cache EXCEPT ![k] = [d EXCEPT !.addresses = A]]
    BY DEF Readdressed
  <1> DEFINE x == [d EXCEPT !.addresses = A]
  <1>5. cache' = [cache EXCEPT ![k] = x] /\ x.value = cache[k].value
    BY <1>3, <1>4
  <1> HIDE DEF x
  <1> QED  BY <1>5 DEF SameValues

\* The descriptor of one key gets the value v.
Renewed(k, v) ==
  cache'[k].value = v /\ \A l \in Keys : l # k => cache'[l].value = cache[l].value

\* A descriptor that is replaced.
LEMMA OneRenewed ==
    ASSUME cache \in [Keys -> Descriptors \cup {NoEntry}], NEW k \in Keys, NEW v, NEW t, NEW A,
           cache' = [cache EXCEPT ![k] = [value |-> v, txn |-> t, addresses |-> A]]
    PROVE  Renewed(k, v)
  <1> DEFINE x == [value |-> v, txn |-> t, addresses |-> A]
  <1>1. cache' = [cache EXCEPT ![k] = x] /\ x.value = v
    OBVIOUS
  <1> HIDE DEF x
  <1> QED  BY <1>1 DEF Renewed

\* A program operation that fails leaves the cache.
LEMMA FailsQuietly ==
    ASSUME NEW a, NEW e, ProgramFails(a, e)
    PROVE  SameValues /\ init' = init
  BY DEF ProgramFails, SameValues

\* The first copy of a new entry is in flash: the write takes effect.
Took ==
  /\ op.pc = "write" /\ init' = init /\ Renewed(op.key, op.value)
  /\ op' = Returning("OK") \/ op' = [op EXCEPT !.written = 1]

\* Writing the first copy takes effect, or the cache says what it said before.
LEMMA WriteEntryTakes ==
    ASSUME KvsInv, WriteEntry
    PROVE  Took \/ (op' = Returning("DATA_LOSS") /\ init' = init /\ SameValues)
  <1>0. op.pc = "write" /\ op.pc # "off" /\ op.key \in Keys
    <2>1. op.pc = "write"
      BY DEF WriteEntry
    <2> QED  BY <2>1, WritingFacts
  <1>1. cache \in [Keys -> Descriptors \cup {NoEntry}]
    BY <1>0, InvFacts DEF CacheInv
  <1> DEFINE a == op.reserved[1]
             t == NewTransactionId
             A == <<a>>
             e == [key |-> op.key, value |-> op.value, txn |-> t, format |-> primary]
  <1>2. \/ /\ ProgramSucceeds(a, e, SectorsOf(cache[op.key].addresses))
           /\ cache' = [cache EXCEPT ![op.key] = [value |-> op.value, txn |-> t, addresses |-> A]]
           /\ op' = IF options.redundancy = 1 THEN Returning("OK") ELSE [op EXCEPT !.written = 1]
        \/ ProgramFails(a, e) /\ op' = Returning("DATA_LOSS")
    BY DEF WriteEntry
  <1> HIDE DEF a, t, A, e
  <1>3. CASE ProgramFails(a, e) /\ op' = Returning("DATA_LOSS")
    BY <1>3, FailsQuietly
  <1>4. CASE /\ ProgramSucceeds(a, e, SectorsOf(cache[op.key].addresses))
             /\ cache' = [cache EXCEPT ![op.key] = [value |-> op.value, txn |-> t, addresses |-> A]]
             /\ op' = IF options.redundancy = 1 THEN Returning("OK") ELSE [op EXCEPT !.written = 1]
    <2>1. init' = init
      BY <1>4 DEF ProgramSucceeds
    <2>2. Renewed(op.key, op.value)
      BY <1>0, <1>1, <1>4, OneRenewed
    <2> QED  BY <1>0, <1>4, <2>1, <2>2 DEF Took
  <1> QED  BY <1>2, <1>3, <1>4

\* What a step of a call does to what is stored.
LEMMA StepStore ==
    ASSUME KvsInv, Step
    PROVE  flash' = flash \/ (op.pc # "off" /\ init' = init /\ SameValues) \/ Took
  <1>0. op.pc # "off" => cache \in [Keys -> Descriptors \cup {NoEntry}]
    BY InvFacts DEF CacheInv
  <1>1. CASE \/ FindExisting \/ GetSectorForWrite \/ Relocated \/ RepairCorruptSectors \/ EnsureFreeSectorExists
             \/ (\E k \in Keys : EnsureEntryRedundancy(k)) \/ ErrorsFixed \/ (\E k \in Keys : UpdateEntry(k))
             \/ UpdateDone \/ Sweep \/ GarbageCollect \/ Return
    BY <1>1 DEF FindExisting, GetSectorForWrite, Relocated, RepairCorruptSectors, EnsureFreeSectorExists,
                EnsureEntryRedundancy, ErrorsFixed, UpdateEntry, UpdateDone, Sweep, GarbageCollect, Return
  <1>2. CASE WriteEntry
    <2>1. op.pc # "off"
      BY <1>2 DEF WriteEntry
    <2> QED  BY <1>2, <2>1, WriteEntryTakes
  <1>3. CASE WriteCopy
    <2>0. op.pc # "off" /\ op.key \in Keys
      <3>1. op.pc = "write"
        BY <1>3 DEF WriteCopy
      <3> QED  BY <3>1, WritingFacts
    <2> DEFINE a == op.reserved[op.written + 1]
               A == Append(cache[op.key].addresses, a)
               e == [key |-> op.key, value |-> op.value, txn |-> lastTxn, format |-> primary]
    <2>1. \/ ProgramSucceeds(a, e, {}) /\ Readdressed(cache', cache, op.key, A)
          \/ ProgramFails(a, e)
      BY <1>3 DEF WriteCopy, Readdressed
    <2> HIDE DEF a, A, e
    <2>2. ProgramSucceeds(a, e, {}) => init' = init
      BY DEF ProgramSucceeds
    <2> QED  BY <1>0, <2>0, <2>1, <2>2, OnlyAddresses, FailsQuietly
  <1>4. CASE \E k \in Keys : RelocateEntry(k)
    <2>1. PICK k \in Keys : RelocateEntry(k)
      BY <1>4
    <2>2. op.pc # "off"
      BY <2>1 DEF RelocateEntry
    <2> DEFINE i == CHOOSE j \in InCollected(k) : TRUE
               a == NextWritableAddress(Find("gc", SectorsOf(cache[k].addresses) \cup ReservedSectors).sector)
               A == [cache[k].addresses EXCEPT ![i] = a]
               e == SlotAt(cache[k].addresses[1])
    <2>3. \/ flash' = flash
          \/ ProgramSucceeds(a, e, {op.gc}) /\ Readdressed(cache', cache, k, A)
          \/ ProgramFails(a, e)
      BY <2>1 DEF RelocateEntry, Readdressed
    <2> HIDE DEF a, A, e
    <2>4. ProgramSucceeds(a, e, {op.gc}) => init' = init
      BY DEF ProgramSucceeds
    <2> QED  BY <1>0, <2>2, <2>3, <2>4, OnlyAddresses, FailsQuietly
  <1>5. CASE EraseSector
    BY <1>5 DEF EraseSector, SameValues
  <1>6. CASE AddRedundantEntry
    <2>0. op.pc # "off" /\ op.key \in Keys
      <3>1. op.pc = "fill" /\ op.pc # "off"
        BY <1>6 DEF AddRedundantEntry
      <3>2. OpHand(op, flash, cache, sectors, lastTxn, red)
        BY <3>1, InvFacts
      <3> QED  BY <3>1, <3>2 DEF OpHand, InHand, Places
    <2> DEFINE a == Last(op.reserved)
               A == Append(cache[op.key].addresses, a)
               e == SlotAt(op.reserved[1])
    <2>1. \/ ProgramSucceeds(a, e, {}) /\ Readdressed(cache', cache, op.key, A)
          \/ ProgramFails(a, e)
      BY <1>6 DEF AddRedundantEntry, Readdressed
    <2> HIDE DEF a, A, e
    <2>2. ProgramSucceeds(a, e, {}) => init' = init
      BY DEF ProgramSucceeds
    <2> QED  BY <1>0, <2>0, <2>1, <2>2, OnlyAddresses, FailsQuietly
  <1>7. CASE ConvertEntry
    <2>0. op.pc # "off" /\ op.key \in Keys
      <3>1. op.pc = "convert"
        BY <1>7 DEF ConvertEntry
      <3> QED  BY <3>1, WritingFacts
    <2> DEFINE a == op.reserved[op.written + 1]
               d == cache[op.key]
               v == d.value
               intact == /\ Readable(op.source)
                         /\ SlotAt(op.source).key = op.key /\ SlotAt(op.source).value = v
               e == IF intact THEN [key |-> op.key, value |-> v, txn |-> lastTxn, format |-> primary] ELSE Corrupt
               A == IF op.written = 0 THEN <<a>> ELSE Append(d.addresses, a)
               stale == IF op.written = 0 THEN SectorsOf(d.addresses) ELSE {}
    <2>1. \/ /\ ProgramSucceeds(a, e, stale)
             /\ cache' = [cache EXCEPT ![op.key] = [value |-> v, txn |-> lastTxn, addresses |-> A]]
          \/ UNCHANGED <<cache, init>>
          \/ ProgramFails(a, e)
      BY <1>7 DEF ConvertEntry
    <2>2. v = cache[op.key].value
      OBVIOUS
    <2> HIDE DEF a, e, A, v, stale
    <2>3. CASE /\ ProgramSucceeds(a, e, stale)
               /\ cache' = [cache EXCEPT ![op.key] = [value |-> v, txn |-> lastTxn, addresses |-> A]]
      <3>1. init' = init
        BY <2>3 DEF ProgramSucceeds
      <3>2. Renewed(op.key, v)
        BY <1>0, <2>0, <2>3, OneRenewed
      <3>3. SameValues
        BY <2>2, <3>2 DEF Renewed, SameValues
      <3> QED  BY <2>0, <3>1, <3>3
    <2>4. CASE UNCHANGED <<cache, init>>
      BY <2>0, <2>4 DEF SameValues
    <2> QED  BY <2>0, <2>1, <2>3, <2>4, FailsQuietly
  <1> QED  BY <1>1, <1>2, <1>3, <1>4, <1>5, <1>6, <1>7 DEF Step

\* What becomes of the write in progress.
SameCall(o) == o.task = op.task /\ o.key = op.key /\ o.value = op.value
Stays(o) == SameCall(o) /\ op.pc # "return" /\ o.pc # "return"
Reports(o) ==
  /\ op.task = "Write" /\ op.pc # "return" /\ SameCall(o) /\ o.pc = "return"
  /\ o.status = "OK" => Recovered(op.key) = Content(op.value)

\* A call that returns keeps its task, key and value.
LEMMA ReturningFacts ==
    ASSUME NEW status
    PROVE  LET o == Returning(status)
           IN  o.pc = "return" /\ o.task = op.task /\ o.key = op.key /\ o.value = op.value /\ o.status = status
  BY IdleFacts DEF Returning, Fields

\* A write that has returned reports an error, or OK once it has taken effect.
LEMMA ReturningReports ==
    ASSUME op.task = "Write", op.pc # "return", NEW status,
           status = "OK" => Recovered(op.key) = Content(op.value)
    PROVE  Reports(Returning(status))
  <1> DEFINE o == Returning(status)
  <1>1. o.pc = "return" /\ o.task = op.task /\ o.key = op.key /\ o.value = op.value /\ o.status = status
    BY ReturningFacts
  <1> HIDE DEF o
  <1>2. Reports(o)
    BY <1>1 DEF Reports, SameCall
  <1> QED  BY <1>2 DEF o

\* Where a write can be.
LEMMA WriteFacts ==
    ASSUME KvsInv, op.pc # "off", op.task = "Write"
    PROVE  /\ op.key \in Keys /\ op.value \in Contents /\ DOMAIN op = Fields
           /\ op.pc \in {"find", "return"} \/ (op.then = "write" /\ op.pc \in {"reserve", "write", "relocate", "erase"})
           /\ op.pc \in {"relocate", "erase"} => op.caller = "reserve"
           /\ "written" \notin Faults => Recovered(op.key) = Content(cache[op.key].value)
  <1>1. OpWrites(op) /\ OpHand(op, flash, cache, sectors, lastTxn, red) /\ OpCollects(op, cache) /\ DOMAIN op = Fields
    BY InvFacts
  <1>2. op.key \in Keys /\ op.value \in Contents /\ (op.pc \in {"find", "return"} \/ op.then = "write")
    BY <1>1 DEF OpWrites
  <1>3. op.then = "write" => op.pc \in {"reserve", "write", "relocate", "erase"}
    BY <1>1 DEF OpHand
  <1>4. op.pc \in {"relocate", "erase"} => op.caller = "reserve"
    BY <1>1, <1>2 DEF OpCollects
  <1>5. "written" \notin Faults => Recovered(op.key) = Content(cache[op.key].value)
    BY <1>2, RecoveredFacts
  <1> QED  BY <1>1, <1>2, <1>3, <1>4, <1>5

\* The checks before a write report an error, or OK if the value is there.
LEMMA FindReports ==
    ASSUME "written" \notin Faults, KvsInv, op.task = "Write", FindExisting
    PROVE  Stays(op') \/ Reports(op')
  <1>1. op.pc = "find" /\ op.pc # "off" /\ op.pc # "return"
    BY DEF FindExisting
  <1>2. DOMAIN op = Fields /\ Recovered(op.key) = Content(cache[op.key].value)
    BY <1>1, WriteFacts
  <1>3. \/ op' = Returning("NOT_FOUND") \/ op' = Returning("RESOURCE_EXHAUSTED")
        \/ cache[op.key].value = op.value /\ op' = Returning("OK")
        \/ op' = [op EXCEPT !.pc = "reserve", !.then = "write"]
    BY DEF FindExisting
  <1>4. Stays([op EXCEPT !.pc = "reserve", !.then = "write"])
    BY <1>1, <1>2 DEF Stays, SameCall, Fields
  <1>5. Reports(Returning("NOT_FOUND")) /\ Reports(Returning("RESOURCE_EXHAUSTED"))
    <2> DEFINE x == "NOT_FOUND"
               y == "RESOURCE_EXHAUSTED"
    <2>1. x # "OK" /\ y # "OK"
      OBVIOUS
    <2> HIDE DEF x, y
    <2>2. Reports(Returning(x)) /\ Reports(Returning(y))
      BY <1>1, <2>1, ReturningReports
    <2> QED  BY <2>2 DEF x, y
  <1>6. cache[op.key].value = op.value => Reports(Returning("OK"))
    <2> DEFINE x == "OK"
    <2> SUFFICES ASSUME cache[op.key].value = op.value PROVE Reports(Returning(x))
      OBVIOUS
    <2>1. Recovered(op.key) = Content(op.value)
      BY <1>2
    <2> HIDE DEF x
    <2> QED  BY <1>1, <2>1, ReturningReports
  <1> QED  BY <1>3, <1>4, <1>5, <1>6

\* A step that failed reports its error.
LEMMA FailedReports ==
    ASSUME op.task = "Write", op.then = "write", op.pc # "return", NEW status, status # "OK"
    PROVE  Reports(Failed(status))
  <1>1. Failed(status) = Returning(status)
    BY DEF Failed
  <1> QED  BY <1>1, ReturningReports

\* The search for space goes on, or reports an error.
LEMMA ReserveReports ==
    ASSUME KvsInv, op.task = "Write", GetSectorForWrite
    PROVE  Stays(op') \/ Reports(op')
  <1>1. op.pc = "reserve" /\ op.pc # "off" /\ op.pc # "return"
    BY DEF GetSectorForWrite
  <1>2. DOMAIN op = Fields /\ op.then = "write"
    BY <1>1, WriteFacts
  <1> DEFINE garbage == FindSectorToGarbageCollect(ReservedSectors)
             reserved == Append(op.reserved, NextWritableAddress(Find("append", ReservedSectors).sector))
             pc == IF Len(reserved) < CopiesNeeded THEN "reserve" ELSE op.then
             placed == [op EXCEPT !.reserved = reserved, !.gcCount = 0, !.pc = pc]
             collecting == CollectSector(garbage, "reserve")
  <1>3. op' = Failed("RESOURCE_EXHAUSTED") \/ op' = placed \/ op' = collecting
    BY DEF GetSectorForWrite
  <1>4. pc # "return"
    BY <1>2
  <1> HIDE DEF garbage, reserved, pc
  <1>5. Stays(placed)
    BY <1>1, <1>2, <1>4 DEF Stays, SameCall, Fields
  <1>6. Stays(collecting)
    <2> DEFINE q == IF sectors[garbage].valid = 0 THEN "erase" ELSE "relocate"
    <2>1. collecting = [op EXCEPT !.gc = garbage, !.caller = "reserve", !.pc = q]
      BY DEF CollectSector
    <2>2. q # "return"
      OBVIOUS
    <2> HIDE DEF q
    <2> QED  BY <1>1, <1>2, <2>1, <2>2 DEF Stays, SameCall, Fields
  <1>7. Reports(Failed("RESOURCE_EXHAUSTED"))
    <2> DEFINE x == "RESOURCE_EXHAUSTED"
    <2>1. x # "OK"
      OBVIOUS
    <2> HIDE DEF x
    <2>2. Reports(Failed(x))
      BY <1>1, <1>2, <2>1, FailedReports
    <2> QED  BY <2>2 DEF x
  <1> HIDE DEF placed, collecting
  <1> QED  BY <1>3, <1>5, <1>6, <1>7

\* The last copy reports OK for what the first one wrote.
LEMMA WriteCopyReports ==
    ASSUME "written" \notin Faults, KvsInv, op.task = "Write", WriteCopy
    PROVE  Stays(op') \/ Reports(op')
  <1>1. op.pc = "write" /\ op.written > 0 /\ op.pc # "off" /\ op.pc # "return"
    BY DEF WriteCopy
  <1>2. /\ DOMAIN op = Fields /\ op.then = "write" /\ Recovered(op.key) = Content(cache[op.key].value)
        /\ Version(op, flash, cache, lastTxn) /\ op.written \in Nat
    BY <1>1, WriteFacts, WritingFacts
  <1>3. Recovered(op.key) = Content(op.value)
    BY <1>1, <1>2 DEF Version
  <1> DEFINE n == op.written + 1
             x == "OK"
             y == "DATA_LOSS"
  <1>4. op' = Returning(x) \/ op' = Returning(y) \/ op' = [op EXCEPT !.written = n]
    BY <1>2 DEF WriteCopy, Fields
  <1>5. y # "OK"
    OBVIOUS
  <1> HIDE DEF n, x, y
  <1>6. Reports(Returning(x)) /\ Reports(Returning(y))
    BY <1>1, <1>3, <1>5, ReturningReports
  <1>7. Stays([op EXCEPT !.written = n])
    BY <1>1, <1>2 DEF Stays, SameCall, Fields
  <1> QED  BY <1>4, <1>6, <1>7

\* The first copy takes effect, or reports an error.
LEMMA WriteEntryReports ==
    ASSUME KvsInv, op.task = "Write", WriteEntry
    PROVE  Took \/ Reports(op')
  <1>1. op.pc = "write" /\ op.pc # "return"
    BY DEF WriteEntry
  <1> DEFINE y == "DATA_LOSS"
  <1>2. Took \/ op' = Returning(y)
    BY WriteEntryTakes
  <1>3. y # "OK"
    OBVIOUS
  <1> HIDE DEF y
  <1>4. Reports(Returning(y))
    BY <1>1, <1>3, ReturningReports
  <1> QED  BY <1>2, <1>4

\* The garbage collection of a write goes on, or reports an error.
LEMMA CollectReports ==
    ASSUME KvsInv, op.task = "Write", (\E k \in Keys : RelocateEntry(k)) \/ Relocated \/ EraseSector
    PROVE  Stays(op') \/ Reports(op')
  <1>1. op.pc \in {"relocate", "erase"} /\ op.pc # "off" /\ op.pc # "return"
    BY DEF RelocateEntry, Relocated, EraseSector
  <1>2. DOMAIN op = Fields /\ op.then = "write" /\ op.caller = "reserve"
    BY <1>1, WriteFacts
  <1>3. (\E x : op' = Collected(x)) \/ op' = op \/ op' = [op EXCEPT !.pc = "erase"]
    <2>1. CASE \E k \in Keys : RelocateEntry(k)
      <3>1. PICK k \in Keys : RelocateEntry(k)
        BY <2>1
      <3> QED  BY <3>1 DEF RelocateEntry
    <2>2. CASE Relocated
      BY <2>2 DEF Relocated
    <2>3. CASE EraseSector
      BY <2>3 DEF EraseSector
    <2> QED  BY <2>1, <2>2, <2>3
  <1>4. Stays(op) /\ Stays([op EXCEPT !.pc = "erase"])
    BY <1>1, <1>2 DEF Stays, SameCall, Fields
  <1>5. ASSUME NEW x PROVE Stays(Collected(x)) \/ Reports(Collected(x))
    <2>1. CASE x = "OK"
      <3> DEFINE done == [op EXCEPT !.gc = NoSector, !.caller = "none"]
                 n == IF done.gcCount > SectorCount + 2 THEN done.gcCount ELSE done.gcCount + 1
      <3>1. Collected(x) = [done EXCEPT !.pc = "reserve", !.gcCount = n]
        BY <1>2, <2>1 DEF Collected
      <3>2. DOMAIN done = Fields /\ done.task = op.task /\ done.key = op.key /\ done.value = op.value
        BY <1>2 DEF Fields
      <3> HIDE DEF n, done
      <3>3. Stays([done EXCEPT !.pc = "reserve", !.gcCount = n])
        BY <1>1, <3>2 DEF Stays, SameCall, Fields
      <3> QED  BY <3>1, <3>3
    <2>2. CASE x # "OK"
      <3>1. Collected(x) = Failed(x)
        BY <1>2, <2>2 DEF Collected
      <3> QED  BY <1>1, <1>2, <2>2, <3>1, FailedReports
    <2> QED  BY <2>1, <2>2
  <1> QED  BY <1>3, <1>4, <1>5

\* What a step of a call does to the write in progress.
LEMMA StepCall ==
    ASSUME "written" \notin Faults, KvsInv, Progress(op), Step
    PROVE  op'.task # "Write" \/ Stays(op') \/ Reports(op') \/ (Took /\ op.task = "Write")
  <1>1. CASE Return
    BY <1>1, IdleFacts DEF Return
  <1>2. CASE FindExisting \/ GetSectorForWrite \/ WriteEntry \/ WriteCopy
    BY <1>2, WritesProgress, FindReports, ReserveReports, WriteEntryReports, WriteCopyReports
  <1>3. CASE (\E k \in Keys : RelocateEntry(k)) \/ Relocated \/ EraseSector
    BY <1>3, CollectsProgress, CollectReports
  <1>4. CASE \/ RepairCorruptSectors \/ EnsureFreeSectorExists \/ (\E k \in Keys : EnsureEntryRedundancy(k))
             \/ AddRedundantEntry \/ ErrorsFixed
    <2>1. op'.task = op.task
      BY <1>4, RepairsProgress
    <2>2. op.pc \in {"repair", "free", "redundancy", "fill"} /\ op.pc # "off"
      BY <1>4 DEF RepairCorruptSectors, EnsureFreeSectorExists, EnsureEntryRedundancy, AddRedundantEntry, ErrorsFixed
    <2> QED  BY <2>1, <2>2, WriteFacts
  <1>5. CASE (\E k \in Keys : UpdateEntry(k)) \/ ConvertEntry \/ UpdateDone \/ Sweep \/ GarbageCollect
    <2>1. op'.task = op.task
      BY <1>5, MaintainsProgress
    <2>2. op.pc \in {"update", "convert", "sweep", "partial"} /\ op.pc # "off"
      BY <1>5 DEF UpdateEntry, ConvertEntry, UpdateDone, Sweep, GarbageCollect
    <2> QED  BY <2>1, <2>2, WriteFacts
  <1> QED  BY <1>1, <1>2, <1>3, <1>4, <1>5 DEF Step

\* The state of the atomic map: what it stores, and the request that a call
\* in progress stands for.
StoreNow == [k \in Keys |-> Recovered(k)]
NoCall == [key |-> "none", content |-> "none", status |-> "none"]
StatusOf(o) == IF o.pc # "return" THEN "pending" ELSE IF o.status = "OK" THEN "OK" ELSE "error"
RequestOf(o) ==
  IF o.task # "Write" THEN NoCall
  ELSE [key |-> o.key, content |-> Content(o.value), status |-> StatusOf(o)]

\* The steps of the atomic map, from store s and request r to t and q.
Invokes(s, r, t, q) ==
  /\ r = NoCall /\ t = s
  /\ \E k \in Keys, c \in Values \cup {"absent"} : q = [key |-> k, content |-> c, status |-> "pending"]
TakesEffect(s, r, t, q) ==
  /\ r # NoCall /\ r.status = "pending" /\ t = [s EXCEPT ![r.key] = r.content]
  /\ q \in {r, [r EXCEPT !.status = "OK"], [r EXCEPT !.status = "error"]}
Finishes(s, r, t, q) ==
  /\ r # NoCall /\ r.status = "pending" /\ t = s
  /\ \/ s[r.key] = r.content /\ q = [r EXCEPT !.status = "OK"]
     \/ q = [r EXCEPT !.status = "error"]
Forgets(s, r, t, q) == r # NoCall /\ q = NoCall /\ t = s
AtomicStep(s, r, t, q) ==
  \/ t = s /\ q = r
  \/ Invokes(s, r, t, q) \/ TakesEffect(s, r, t, q) \/ Finishes(s, r, t, q) \/ Forgets(s, r, t, q)

\* They are the steps of AtomicMap.
LEMMA AtomicSteps ==
    ASSUME AtomicStep(StoreNow, RequestOf(op), StoreNow', RequestOf(op)')
    PROVE  [Abstract!Next]_(Abstract!vars)
  <1>1. CASE StoreNow' = StoreNow /\ RequestOf(op)' = RequestOf(op)
    BY <1>1 DEF Abstract!vars, StoreNow, RequestOf, NoCall, StatusOf
  <1>2. CASE Invokes(StoreNow, RequestOf(op), StoreNow', RequestOf(op)')
    BY <1>2 DEF Invokes, Abstract!Next, Abstract!Invoke, Abstract!NoRequest, StoreNow, RequestOf, NoCall, StatusOf
  <1>3. CASE TakesEffect(StoreNow, RequestOf(op), StoreNow', RequestOf(op)')
    BY <1>3 DEF TakesEffect, Abstract!Next, Abstract!TakeEffect, Abstract!Pending, Abstract!NoRequest, StoreNow, RequestOf, NoCall, StatusOf
  <1>4. CASE Finishes(StoreNow, RequestOf(op), StoreNow', RequestOf(op)')
    BY <1>4 DEF Finishes, Abstract!Next, Abstract!Finish, Abstract!Pending, Abstract!NoRequest, StoreNow, RequestOf, NoCall, StatusOf
  <1>5. CASE Forgets(StoreNow, RequestOf(op), StoreNow', RequestOf(op)')
    BY <1>5 DEF Forgets, Abstract!Next, Abstract!Forget, Abstract!NoRequest, StoreNow, RequestOf, NoCall, StatusOf
  <1> QED  BY <1>1, <1>2, <1>3, <1>4, <1>5 DEF AtomicStep

\* What a caller writes is a content of the map.
LEMMA ContentFacts ==
    ASSUME NEW v \in Contents
    PROVE  Content(v) \in Values \cup {"absent"}
  BY DEF Content, Contents

\* What a step does to the write in progress is a step of its request.
LEMMA RequestSteps ==
    ASSUME NEW o, NEW S
    PROVE  /\ o.task # "Write" => AtomicStep(S, RequestOf(op), S, RequestOf(o))
           /\ Stays(o) => AtomicStep(S, RequestOf(op), S, RequestOf(o))
           /\ Reports(o) /\ S[op.key] = Recovered(op.key) => AtomicStep(S, RequestOf(op), S, RequestOf(o))
  <1>0. ASSUME NEW x PROVE x.task # "Write" => RequestOf(x) = NoCall
    BY DEF RequestOf
  <1>1. ASSUME NEW x, x.task = "Write"
        PROVE  /\ RequestOf(x) = [key |-> x.key, content |-> Content(x.value), status |-> StatusOf(x)]
               /\ RequestOf(x) # NoCall
    <2>1. RequestOf(x) = [key |-> x.key, content |-> Content(x.value), status |-> StatusOf(x)]
      BY <1>1 DEF RequestOf
    <2>2. StatusOf(x) # "none"
      BY DEF StatusOf
    <2>3. NoCall.status = "none"
      BY DEF NoCall
    <2> QED  BY <2>1, <2>2, <2>3
  <1>2. o.task # "Write" => AtomicStep(S, RequestOf(op), S, RequestOf(o))
    <2>1. CASE op.task # "Write"
      BY <1>0, <2>1 DEF AtomicStep
    <2>2. CASE op.task = "Write"
      BY <1>0, <1>1, <2>2 DEF AtomicStep, Forgets
    <2> QED  BY <2>1, <2>2
  <1>3. Stays(o) => AtomicStep(S, RequestOf(op), S, RequestOf(o))
    <2> SUFFICES ASSUME Stays(o) PROVE RequestOf(op) = RequestOf(o)
      BY DEF AtomicStep
    <2>1. StatusOf(o) = StatusOf(op)
      BY DEF Stays, StatusOf
    <2>2. o.task = op.task /\ o.key = op.key /\ o.value = op.value
      BY DEF Stays, SameCall
    <2> QED  BY <2>1, <2>2 DEF RequestOf
  <1>4. ASSUME Reports(o), S[op.key] = Recovered(op.key)
        PROVE  AtomicStep(S, RequestOf(op), S, RequestOf(o))
    <2> DEFINE r == RequestOf(op)
               q == RequestOf(o)
               c == Content(op.value)
    <2>1. /\ op.task = "Write" /\ o.task = "Write" /\ o.key = op.key /\ o.value = op.value
          /\ op.pc # "return" /\ o.pc = "return"
          /\ o.status = "OK" => Recovered(op.key) = c
      BY <1>4 DEF Reports, SameCall
    <2>2. r = [key |-> op.key, content |-> c, status |-> "pending"] /\ r # NoCall
      <3>1. StatusOf(op) = "pending"
        BY <2>1 DEF StatusOf
      <3> QED  BY <1>1, <2>1, <3>1
    <2>3. q = [key |-> op.key, content |-> c, status |-> StatusOf(o)]
      BY <1>1, <2>1
    <2> HIDE DEF r, q, c
    <2>4. CASE o.status = "OK"
      <3>1. StatusOf(o) = "OK"
        BY <2>1, <2>4 DEF StatusOf
      <3>2. q = [r EXCEPT !.status = "OK"] /\ S[r.key] = r.content /\ r.status = "pending"
        BY <1>4, <2>1, <2>2, <2>3, <2>4, <3>1
      <3>3. Finishes(S, r, S, q)
        BY <2>2, <3>2 DEF Finishes
      <3>4. AtomicStep(S, r, S, q)
        BY <3>3 DEF AtomicStep
      <3> QED  BY <3>4 DEF r, q
    <2>5. CASE o.status # "OK"
      <3>1. StatusOf(o) = "error"
        BY <2>1, <2>5 DEF StatusOf
      <3>2. q = [r EXCEPT !.status = "error"] /\ r.status = "pending"
        BY <2>2, <2>3, <3>1
      <3>3. Finishes(S, r, S, q)
        BY <2>2, <3>2 DEF Finishes
      <3>4. AtomicStep(S, r, S, q)
        BY <3>3 DEF AtomicStep
      <3> QED  BY <3>4 DEF r, q
    <2> QED  BY <2>4, <2>5
  <1> QED  BY <1>2, <1>3, <1>4

\* The store as a function, before and after a step.
LEMMA StoreKept ==
    ASSUME SameStore
    PROVE  StoreNow' = StoreNow
  BY DEF SameStore, StoreNow

\* The store at a key.
LEMMA StoreFacts ==
    \A k \in Keys : StoreNow[k] = Recovered(k)
  BY DEF StoreNow

\* The step in which a write takes effect.
LEMMA TookIsAtomic ==
    ASSUME "written" \notin Faults, KvsInv, KvsInv', Took, op.task = "Write"
    PROVE  AtomicStep(StoreNow, RequestOf(op), StoreNow', RequestOf(op'))
  <1>1. op.pc = "write" /\ op.pc # "off" /\ init' = init /\ Renewed(op.key, op.value)
    BY DEF Took
  <1>2. op.key \in Keys /\ op.value \in Contents /\ DOMAIN op = Fields
    BY <1>1, WriteFacts
  <1>3. op'.pc # "off"
    <2>1. init # "none"
      BY <1>1, InvFacts
    <2> QED  BY <1>1, <2>1 DEF KvsInv
  <1>4. ("written" \notin Faults /\ KvsInv /\ op.pc # "off" =>
            \A k \in Keys : Recovered(k) = Content(cache[k].value))'
    BY RecoveredIsCached, PTL
  <1>5. ASSUME NEW k \in Keys PROVE Recovered(k)' = Content(cache'[k].value)
    BY <1>3, <1>4 DEF Content
  <1>6. ASSUME NEW k \in Keys PROVE Recovered(k) = Content(cache[k].value)
    BY <1>1, RecoveredIsCached
  <1> DEFINE c == Content(op.value)
             r == RequestOf(op)
             q == RequestOf(op')
  <1>7. StoreNow' = [StoreNow EXCEPT ![op.key] = c]
    <2>1. ASSUME NEW k \in Keys, k = op.key PROVE Recovered(k)' = c
      BY <1>1, <1>2, <1>5, <2>1 DEF Renewed
    <2>2. ASSUME NEW k \in Keys, k # op.key PROVE Recovered(k)' = Recovered(k)
      BY <1>1, <1>5, <1>6, <2>2 DEF Renewed
    <2>3. StoreNow' = [k \in Keys |-> Recovered(k)']
      BY DEF StoreNow
    <2>4. StoreNow = [k \in Keys |-> Recovered(k)]
      BY DEF StoreNow
    <2> HIDE DEF c
    <2>5. DOMAIN StoreNow' = Keys /\ DOMAIN StoreNow = Keys
          /\ \A k \in Keys : StoreNow'[k] = [StoreNow EXCEPT ![op.key] = c][k]
      BY <1>2, <2>1, <2>2, <2>3, <2>4
    <2> QED  BY <2>3, <2>4, <2>5
  <1>8. r = [key |-> op.key, content |-> c, status |-> "pending"] /\ r # NoCall
    <2>1. StatusOf(op) = "pending"
      BY <1>1 DEF StatusOf
    <2>2. r = [key |-> op.key, content |-> c, status |-> "pending"]
      BY <2>1 DEF RequestOf
    <2>3. NoCall.status = "none"
      BY DEF NoCall
    <2> QED  BY <2>2, <2>3
  <1>9. q \in {r, [r EXCEPT !.status = "OK"], [r EXCEPT !.status = "error"]}
    <2>1. CASE op' = Returning("OK")
      <3> DEFINE x == "OK"
      <3>1. op' = Returning(x)
        BY <2>1
      <3> HIDE DEF x
      <3>2. op'.pc = "return" /\ op'.task = op.task /\ op'.key = op.key /\ op'.value = op.value /\ op'.status = x
        BY <3>1, ReturningFacts
      <3>3. StatusOf(op') = "OK"
        BY <3>2 DEF StatusOf, x
      <3>4. q = [key |-> op.key, content |-> c, status |-> "OK"]
        BY <3>2, <3>3 DEF RequestOf
      <3> HIDE DEF q, r, c
      <3> QED  BY <1>8, <3>4
    <2>2. CASE op' = [op EXCEPT !.written = 1]
      <3>1. op'.pc = op.pc /\ op'.task = op.task /\ op'.key = op.key /\ op'.value = op.value
        BY <1>2, <2>2 DEF Fields
      <3>2. StatusOf(op') = "pending"
        BY <1>1, <3>1 DEF StatusOf
      <3>3. q = [key |-> op.key, content |-> c, status |-> "pending"]
        BY <3>1, <3>2 DEF RequestOf
      <3> HIDE DEF q, r, c
      <3> QED  BY <1>8, <3>3
    <2> QED  BY <2>1, <2>2 DEF Took
  <1> HIDE DEF q, r, c
  <1>10. TakesEffect(StoreNow, r, StoreNow', q)
    BY <1>7, <1>8, <1>9 DEF TakesEffect
  <1>11. AtomicStep(StoreNow, r, StoreNow', q)
    BY <1>10 DEF AtomicStep
  <1> QED  BY <1>11 DEF r, q

\* A Put or a Delete is called.
LEMMA CallIsAtomic ==
    ASSUME KvsInv, NEW k \in Keys, NEW v \in Contents, CallWrite(k, v)
    PROVE  AtomicStep(StoreNow, RequestOf(op), StoreNow', RequestOf(op'))
  <1>1. op.pc = "idle" /\ op.pc # "off" /\ op' = [Idle EXCEPT !.pc = "find", !.task = "Write", !.key = k, !.value = v]
        /\ flash' = flash
    BY DEF CallWrite
  <1>2. op.task # "Write"
    BY <1>1, WriteFacts
  <1>3. StoreNow' = StoreNow
    BY <1>1, SameFlash, StoreKept
  <1>4. op'.pc = "find" /\ op'.task = "Write" /\ op'.key = k /\ op'.value = v
    BY <1>1, IdleFacts DEF Fields
  <1>5. RequestOf(op) = NoCall
    BY <1>2 DEF RequestOf
  <1>6. RequestOf(op') = [key |-> k, content |-> Content(v), status |-> "pending"]
    BY <1>4 DEF RequestOf, StatusOf
  <1>7. Content(v) \in Values \cup {"absent"}
    BY ContentFacts
  <1> QED  BY <1>3, <1>5, <1>6, <1>7 DEF AtomicStep, Invokes

\* Every step is a step of the atomic map, or leaves it alone.
LEMMA NextIsAtomic ==
    ASSUME "written" \notin Faults, KvsInv, KvsInv', Progress(op), [Next]_vars
    PROVE  AtomicStep(StoreNow, RequestOf(op), StoreNow', RequestOf(op'))
  <1> DEFINE Goal == AtomicStep(StoreNow, RequestOf(op), StoreNow', RequestOf(op'))
  <1>1. ASSUME SameStore, op'.task # "Write" \/ Stays(op') \/ Reports(op')
        PROVE  Goal
    <2> DEFINE o == op'
               S == StoreNow
    <2>1. StoreNow' = S
      BY <1>1, StoreKept
    <2>2. Reports(o) => S[op.key] = Recovered(op.key)
      <3> SUFFICES ASSUME Reports(o) PROVE S[op.key] = Recovered(op.key)
        OBVIOUS
      <3>1. op.task = "Write"
        BY DEF Reports
      <3>2. op.pc # "off"
        <4>1. Off.task = "none"
          BY IdleFacts DEF Off, Fields
        <4> QED  BY <3>1, <4>1 DEF KvsInv
      <3>3. op.key \in Keys
        BY <3>1, <3>2, WriteFacts
      <3> QED  BY <3>3, StoreFacts
    <2>3. o.task # "Write" \/ Stays(o) \/ Reports(o)
      BY <1>1
    <2> HIDE DEF o, S
    <2>4. AtomicStep(S, RequestOf(op), S, RequestOf(o))
      BY <2>2, <2>3, RequestSteps
    <2> QED  BY <2>1, <2>4 DEF o, S
  <1>2. CASE Step
    <2>1. CASE Took /\ op.task = "Write"
      BY <2>1, TookIsAtomic
    <2>2. CASE op'.task # "Write" \/ Stays(op') \/ Reports(op')
      <3>1. flash' = flash \/ (op.pc # "off" /\ init' = init /\ SameValues) \/ Took
        BY <1>2, StepStore
      <3>2. CASE flash' = flash \/ (op.pc # "off" /\ init' = init /\ SameValues)
        BY <1>1, <2>2, <3>2, SameFlash, SameCache
      <3>3. CASE Took
        <4>1. op.pc = "write" /\ op.pc # "off"
          BY <3>3 DEF Took
        <4>2. op.task = "Write"
          <5>1. op.then = "write"
            BY <4>1, WritingFacts
          <5>2. OpWrites(op)
            BY <4>1, InvFacts
          <5> QED  BY <5>1, <5>2 DEF OpWrites
        <4> QED  BY <3>3, <4>2, TookIsAtomic
      <3> QED  BY <3>1, <3>2, <3>3
    <2> QED  BY <1>2, <2>1, <2>2, StepCall
  <1>3. CASE (\E k \in Keys, v \in Values : PutBytes(k, v)) \/ \E k \in Keys : Delete(k)
    <2>1. PICK k \in Keys, v \in Contents : CallWrite(k, v)
      BY <1>3 DEF PutBytes, Delete, Contents
    <2> QED  BY <2>1, CallIsAtomic
  <1>4. CASE FullMaintenance \/ HeavyMaintenance \/ PartialMaintenance
    <2>1. PICK task \in {"FullMaintenance", "PartialMaintenance"} : \E repairs, heavy : Maintenance(task, repairs, heavy)
      BY <1>4 DEF FullMaintenance, HeavyMaintenance, PartialMaintenance
    <2>2. PICK repairs, heavy : Maintenance(task, repairs, heavy)
      BY <2>1
    <2>3. flash' = flash
      BY <2>2 DEF Maintenance
    <2>4. op'.task = task
      <3> DEFINE f == FixErrors(task)
                 todo == IF task = "FullMaintenance" THEN Cached ELSE {}
                 pc == IF task = "FullMaintenance" THEN "update" ELSE "partial"
      <3>1. \/ op' = [f EXCEPT !.heavy = heavy]
            \/ op' = [Idle EXCEPT !.pc = pc, !.task = task, !.heavy = heavy, !.todo = todo]
        BY <2>2 DEF Maintenance
      <3>2. DOMAIN f = Fields /\ f.task = task
        BY FixErrorsFacts
      <3> HIDE DEF f, todo, pc
      <3> QED  BY <3>1, <3>2, IdleFacts DEF Fields
    <2> QED  BY <1>1, <2>3, <2>4, SameFlash
  <1>5. CASE Boot
    <2>1. flash' = flash
      BY <1>5 DEF Boot
    <2>2. op'.task = "Init"
      <3> DEFINE f == FixErrors("Init")
      <3>1. \/ op' = [Idle EXCEPT !.pc = "return", !.task = "Init"]
            \/ op' = [Idle EXCEPT !.pc = "return", !.task = "Init", !.status = "DATA_LOSS"]
            \/ op' = f
        BY <1>5 DEF Boot
      <3>2. f.task = "Init"
        BY FixErrorsFacts
      <3> HIDE DEF f
      <3> QED  BY <3>1, <3>2, IdleFacts DEF Fields
    <2> QED  BY <1>1, <2>1, <2>2, SameFlash
  <1>6. CASE PowerLoss
    <2>1. flash' = flash /\ op' = Off
      BY <1>6 DEF PowerLoss
    <2>2. Off.task = "none"
      BY IdleFacts DEF Off, Fields
    <2> QED  BY <1>1, <2>1, <2>2, SameFlash
  <1>7. CASE UNCHANGED vars
    <2>1. flash' = flash /\ op' = op
      BY <1>7 DEF vars
    <2>2. StoreNow' = StoreNow
      BY <2>1, SameFlash, StoreKept
    <2> QED  BY <2>1, <2>2 DEF AtomicStep
  <1> QED  BY <1>2, <1>3, <1>4, <1>5, <1>6, <1>7 DEF Next

\* The erased partition is an empty map.
LEMMA InitIsAtomic ==
    ASSUME Init
    PROVE  Abstract!Init
  <1>1. op = Off
    BY DEF Init
  <1>2. Off.task = "none"
    BY IdleFacts DEF Off, Fields
  <1>3. ASSUME NEW k \in Keys PROVE Recovered(k) = "absent"
    <2>1. Live(flash) = {}
      <3> SUFFICES ASSUME NEW a \in Live(flash) PROVE FALSE
        OBVIOUS
      <3>1. a[1] \in Sectors /\ a[2] \in DOMAIN flash[a[1]]
        BY DEF Live, Addresses
      <3>2. flash[a[1]] = <<>> /\ DOMAIN <<>> = {}
        BY <3>1 DEF Init
      <3> QED  BY <3>1, <3>2
    <2>2. Recovered(k) = FoundIn(flash, k)
      BY RecoveredIsFound
    <2>3. FoundIn(flash, k) = "absent"
      BY <2>1 DEF FoundIn
    <2> QED  BY <2>2, <2>3
  <1>4. [k \in Keys |-> Recovered(k)] \in [Keys -> Values \cup {"absent"}]
    BY <1>3
  <1> QED  BY <1>1, <1>2, <1>4 DEF Abstract!Init, Abstract!NoRequest

\* The store implements the atomic map: what Init() will find changes only in
\* the step in which WriteEntry has programmed the first copy of the entry, and
\* a Put or Delete that reports OK has taken effect.  Garbage collection, repair,
\* maintenance, format conversion, a loss of power at any step, and the next
\* Init() change nothing.
THEOREM StoreIsAtomicMap ==
    ASSUME WritesAreChecked
    PROVE  Spec => IsAtomicMap
  <1>1. Init => Abstract!Init
    BY InitIsAtomic
  <1>2. KvsInv /\ KvsInv' /\ Progress(op) /\ [Next]_vars => [Abstract!Next]_(Abstract!vars)
    BY NextIsAtomic, AtomicSteps DEF WritesAreChecked
  <1>3. RoomForKeys /\ ConversionsVerified
    BY DEF WritesAreChecked, RoomForKeys
  <1> QED  BY <1>1, <1>2, <1>3, Invariant, PTL DEF Spec, IsAtomicMap, Abstract!Spec

-----------------------------------------------------------------------------
(* A sector is kept free                                                   *)

\* No sector is out of use, and a repair under way has got past
\* EnsureFreeSectorExists without an error.
Fixing(o) == o.status = "OK" /\ (o.pc = "redundancy" \/ o.then = "fill")
Sound(S, o, err) == (\A s \in Sectors : S[s].writable # -1) /\ (err => Fixing(o))

\* A sector y has room for all that is left in the one being collected.
Takes(S, C, o, y) ==
  /\ y \in Sectors /\ y # o.gc /\ y \notin SectorsOf(o.reserved)
  /\ S[y].writable >= Cardinality(Copies(C, o.gc))
  /\ \A k \in Copies(C, o.gc) : y \notin SectorsOf(C[k].addresses)

\* There is an empty sector that is not reserved, or there will be one when the
\* garbage collection is over.
Collects(o) == o.pc \in {"relocate", "erase"}
Unused(S, o, y) == y \in Sectors /\ S[y].writable = Slots /\ y \notin SectorsOf(o.reserved)
Spare(S, C, o) ==
  /\ ~Collects(o) => \E y : Unused(S, o, y)
  /\ o.pc = "relocate" => \E y : Takes(S, C, o, y)

\* Repair runs only on a store with an error, until it is fixed.
Repairs(o) == o.pc \in {"repair", "free"} \/ (Collects(o) /\ o.caller \in {"repair", "free"})

FreeInv(S, C, o, err) == (Sound(S, o, err) => Spare(S, C, o)) /\ (Repairs(o) => err)
FreeSectorInv == op.pc # "off" => FreeInv(sectors, cache, op, error)

\* Steps behind last_new_ and sectors are the same.
LEMMA AtOnto ==
    ASSUME lastNew \in Sectors
    PROVE  /\ \A y \in Sectors : \E j \in Steps : At(j) = y
           /\ \A i, j \in Steps : At(i) = At(j) => i = j
  <1> DEFINE n == SectorCount
             l == lastNew
  <1>1. n \in Nat \ {0} /\ l \in Nat /\ l < n /\ Sectors = 0..(n - 1) /\ Steps = 1..n
    <2>1. SectorCount \in Nat /\ SectorCount >= 2
      BY KvsAssumption
    <2>2. lastNew \in 0..(SectorCount - 1)
      BY DEF Sectors
    <2> QED  BY <2>1, <2>2 DEF Sectors, Steps
  <1>2. \A j : At(j) = (l + j) % n
    BY DEF At
  <1> HIDE DEF n, l
  <1>3. ASSUME NEW x \in Nat, x < 2 * n PROVE x % n = IF x < n THEN x ELSE x - n
    <2> DEFINE v == IF x < n THEN x ELSE x - n
               u == IF x < n THEN 0 ELSE 1
    <2>1. u \in Nat /\ v \in 0..(n - 1) /\ x = n * u + v
      BY <1>1, <1>3
    <2>2. x \div n \in Nat /\ x % n \in 0..(n - 1) /\ x = n * (x \div n) + (x % n)
      BY <1>1, <1>3, DivMod
    <2> HIDE DEF u, v
    <2>3. n * (x \div n) + (x % n) = n * u + v
      BY <2>1, <2>2
    <2>4. x % n = v
      BY <1>1, <2>1, <2>2, <2>3, DivUnique
    <2> QED  BY <2>4 DEF v
  <1>4. ASSUME NEW j \in 1..n PROVE At(j) = IF l + j < n THEN l + j ELSE l + j - n
    <2> DEFINE x == l + j
    <2>1. x \in Nat /\ x < 2 * n
      BY <1>1, <1>4
    <2>2. At(j) = x % n
      BY <1>2
    <2> HIDE DEF x
    <2>3. x % n = IF x < n THEN x ELSE x - n
      BY <1>3, <2>1
    <2>4. At(j) = IF x < n THEN x ELSE x - n
      BY <2>2, <2>3, Zenon
    <2> QED  BY <1>1, <2>1, <2>4 DEF x
  <1>5. ASSUME NEW y \in Sectors PROVE \E j \in Steps : At(j) = y
    <2> DEFINE j == IF y > l THEN y - l ELSE y - l + n
    <2>1. j \in 1..n /\ (IF l + j < n THEN l + j ELSE l + j - n) = y
      BY <1>1, <1>5
    <2> HIDE DEF j
    <2> QED  BY <1>1, <1>4, <2>1
  <1>6. ASSUME NEW i \in Steps, NEW j \in Steps, At(i) = At(j) PROVE i = j
    <2>1. /\ At(i) = IF l + i < n THEN l + i ELSE l + i - n
          /\ At(j) = IF l + j < n THEN l + j ELSE l + j - n
      BY <1>1, <1>4
    <2>2. i \in 1..n /\ j \in 1..n
      BY <1>1, <1>6
    <2>3. (IF l + i < n THEN l + i ELSE l + i - n) = (IF l + j < n THEN l + j ELSE l + j - n)
      BY <1>6, <2>1
    <2> HIDE DEF At
    <2> QED  BY <1>1, <2>2, <2>3
  <1> QED  BY <1>5, <1>6

\* An empty sector has no copies of anything.
LEMMA EmptyHasNone ==
    ASSUME NEW F \in Flash, NEW C, NEW r, CacheInv(F, C, r), NEW S, SectorInv(F, C, S),
           NEW y \in Sectors, S[y].writable = Slots
    PROVE  Copies(C, y) = {}
  <1>0. Slots \in Nat \ {0} /\ Slots # -1
    <2>1. Slots \in Nat \ {0}
      BY KvsAssumption
    <2> QED  BY <2>1
  <1>1. F[y] \in Seq(Stored \cup {Corrupt})
    BY DEF Flash
  <1>2. Len(F[y]) \in Nat /\ DOMAIN F[y] = 1..Len(F[y])
    BY <1>1
  <1>3. Slots = Slots - Len(F[y])
    BY <1>0 DEF SectorInv
  <1>4. DOMAIN F[y] = {}
    BY <1>0, <1>2, <1>3
  <1>5. ASSUME NEW k \in Keys, y \in SectorsOf(C[k].addresses) PROVE FALSE
    <2>1. CASE C[k] = NoEntry
      BY <1>5, <2>1, NoEntryFacts
    <2>2. CASE C[k] # NoEntry
      <3>1. Lists(F, k, C[k], r)
        BY <2>2 DEF CacheInv
      <3>2. PICK i \in DOMAIN C[k].addresses : C[k].addresses[i][1] = y
        BY <1>5 DEF SectorsOf, Range
      <3>3. C[k].addresses[i] \in Live(F)
        BY <3>1, <3>2 DEF Lists
      <3>4. C[k].addresses[i][2] \in DOMAIN F[y]
        BY <3>2, <3>3 DEF Live
      <3> QED  BY <1>4, <3>4
    <2> QED  BY <2>1, <2>2
  <1> QED  BY <1>5 DEF Copies

\* A sector has no more copies than slots.
LEMMA CopiesFit ==
    ASSUME NEW F \in Flash, NEW C, NEW r, CacheInv(F, C, r), NEW s \in Sectors
    PROVE  Cardinality(Copies(C, s)) <= Slots
  <1>0. Slots \in Nat
    BY KvsAssumption
  <1> DEFINE In(k) == {i \in DOMAIN C[k].addresses : C[k].addresses[i][1] = s}
             f == [k \in Copies(C, s) |-> C[k].addresses[CHOOSE i \in In(k) : TRUE][2]]
  <1>1. ASSUME NEW k \in Copies(C, s)
        PROVE  /\ <<s, f[k]>> \in Live(F) /\ Entry(F, <<s, f[k]>>).key = k
               /\ f[k] \in 1..Slots
    <2>1. k \in Keys /\ s \in SectorsOf(C[k].addresses)
      BY <1>1 DEF Copies
    <2>2. In(k) # {}
      BY <2>1 DEF SectorsOf, Range
    <2> DEFINE i == CHOOSE j \in In(k) : TRUE
               a == C[k].addresses[i]
    <2>3. i \in DOMAIN C[k].addresses /\ a[1] = s
      BY <2>2
    <2>4. C[k] # NoEntry
      <3> HIDE DEF i
      <3> QED  BY <2>3, NoEntryFacts
    <2>5. Lists(F, k, C[k], r)
      BY <2>1, <2>4 DEF CacheInv
    <2>6. f[k] = a[2]
      BY <1>1
    <2> HIDE DEF f, i
    <2>7. a \in Live(F) /\ Entry(F, a).key = k
      BY <2>3, <2>5 DEF Lists
    <2> HIDE DEF a
    <2>8. a \in Sectors \X (1..Slots)
      BY <2>7 DEF Live, Addresses
    <2>9. a = <<s, f[k]>> /\ f[k] \in 1..Slots
      BY <2>3, <2>6, <2>8
    <2> QED  BY <2>7, <2>9
  <1>2. f \in [Copies(C, s) -> 1..Slots]
    BY <1>1
  <1> HIDE DEF f
  <1>3. \A k, l \in Copies(C, s) : f[k] = f[l] => k = l
    <2> SUFFICES ASSUME NEW k \in Copies(C, s), NEW l \in Copies(C, s), f[k] = f[l] PROVE k = l
      OBVIOUS
    <2>1. Entry(F, <<s, f[k]>>).key = k /\ Entry(F, <<s, f[l]>>).key = l
      BY <1>1
    <2> QED  BY <2>1
  <1>4. IsFiniteSet(1..Slots) /\ Cardinality(1..Slots) = Slots
    BY <1>0, FS_Interval
  <1>5. f \in Injection(Copies(C, s), 1..Slots)
    BY <1>2, <1>3 DEF Injection, IsInjective
  <1>6. Cardinality(Copies(C, s)) <= Cardinality(1..Slots)
    BY <1>4, <1>5, FS_Injection
  <1> QED  BY <1>4, <1>6

-----------------------------------------------------------------------------
(* How Find() and the choice of garbage treat empty sectors                *)

\* Recoverable bytes.
LEMMA RecoverableFacts ==
    ASSUME NEW r, flash \in Flash, CacheInv(flash, cache, r), SectorInv(flash, cache, sectors), NEW s \in Sectors
    PROVE  /\ Recoverable(s) \in Int /\ Slots - Recoverable(s) \in Nat
           /\ Recoverable(s) > 0 => sectors[s].writable # Slots
           /\ ValidBytes(s) > 0 => sectors[s].writable # Slots
           /\ Empty(s) <=> sectors[s].writable = Slots
           /\ sectors[s].writable # -1 => Writable(s) = sectors[s].writable
  <1> DEFINE w == sectors[s].writable
             v == sectors[s].valid
             x == Writable(s)
  <1>1. /\ w \in -1..Slots /\ v \in Nat /\ Slots \in Nat \ {0} /\ x \in 0..Slots
        /\ w >= 1 => x = w
        /\ v = Cardinality(Copies(cache, s))
    BY SectorFacts
  <1>2. x = IF w = -1 THEN 0 ELSE w
    BY DEF Writable, IsCorrupt, kCorruptSector
  <1>3. Recoverable(s) = Slots - v - x /\ (Empty(s) <=> x = Slots) /\ ValidBytes(s) = v
    BY DEF Recoverable, Empty, ValidBytes
  <1>4. w = Slots => v = 0
    <2> SUFFICES ASSUME w = Slots PROVE v = 0
      OBVIOUS
    <2>1. Copies(cache, s) = {}
      BY EmptyHasNone
    <2> QED  BY <1>1, <2>1, FS_EmptySet
  <1> HIDE DEF w, v, x
  <1>5. /\ Recoverable(s) \in Int /\ Slots - Recoverable(s) \in Nat
        /\ Recoverable(s) > 0 => w # Slots
        /\ ValidBytes(s) > 0 => w # Slots
        /\ Empty(s) <=> w = Slots
        /\ w # -1 => x = w
    BY <1>1, <1>2, <1>3, <1>4
  <1> QED  BY <1>5 DEF w, v, x

\* Among some sectors there is one with the most recoverable bytes.
LEMMA MostExists ==
    ASSUME NEW r, flash \in Flash, CacheInv(flash, cache, r), SectorInv(flash, cache, sectors), lastNew \in Sectors,
           NEW P \in SUBSET Steps, P # {}
    PROVE  Most(P, Recoverable) # 0
  <1> DEFINE T == {i \in P : \A l \in P : Recoverable(At(l)) <= Recoverable(At(i))}
             N == {Slots - Recoverable(At(i)) : i \in P}
  <1>0. Slots \in Nat
    BY KvsAssumption
  <1>1. \A i \in P : At(i) \in Sectors /\ Recoverable(At(i)) \in Int /\ Slots - Recoverable(At(i)) \in Nat
    <2> SUFFICES ASSUME NEW i \in P PROVE At(i) \in Sectors /\ Recoverable(At(i)) \in Int /\ Slots - Recoverable(At(i)) \in Nat
      OBVIOUS
    <2>1. At(i) \in Sectors
      BY AtFacts
    <2> QED  BY <2>1, RecoverableFacts
  <1>2. N \subseteq Nat /\ N # {}
    BY <1>1
  <1>3. PICK m \in N : \A x \in N : m <= x
    <2> HIDE DEF N
    <2> QED  BY <1>2, NatMin
  <1>4. PICK i \in P : m = Slots - Recoverable(At(i))
    BY <1>3
  <1>5. \A l \in P : Recoverable(At(l)) <= Recoverable(At(i))
    <2> SUFFICES ASSUME NEW l \in P PROVE Recoverable(At(l)) <= Recoverable(At(i))
      OBVIOUS
    <2>1. Slots - Recoverable(At(l)) \in N
      OBVIOUS
    <2>2. Slots - Recoverable(At(i)) <= Slots - Recoverable(At(l))
      BY <1>3, <1>4, <2>1
    <2>3. Recoverable(At(l)) \in Int /\ Recoverable(At(i)) \in Int
      BY <1>1
    <2> HIDE DEF N
    <2> QED  BY <1>0, <2>2, <2>3
  <1>6. i \in T /\ T \in SUBSET Steps
    BY <1>5
  <1>7. Most(P, Recoverable) = First(T)
    BY DEF Most
  <1>8. Steps \subseteq Nat /\ 0 \notin Steps
    <2>1. SectorCount \in Nat
      BY KvsAssumption
    <2> QED  BY <2>1 DEF Steps
  <1> HIDE DEF T
  <1>9. First(T) \in T
    BY <1>6, <1>8, FirstFacts
  <1> QED  BY <1>6, <1>7, <1>8, <1>9

\* Garbage collection finds space wherever there is any.
LEMMA FindForGc ==
    ASSUME NEW r, flash \in Flash, CacheInv(flash, cache, r), SectorInv(flash, cache, sectors), lastNew \in Sectors,
           NEW skip, NEW y \in Sectors, y \notin skip, sectors[y].writable >= 1
    PROVE  Find("gc", skip).sector # NoSector
  <1> DEFINE mode == "gc"
             partial == FindPartial(mode, skip)
             empty == FindEmpty(mode, skip)
             P == PartlyFilled(skip)
             E == {i \in Steps : At(i) \notin skip /\ Empty(At(i))}
             most == Most(P, Recoverable)
             j == IF partial # 0 THEN partial ELSE IF empty # 0 THEN empty ELSE most
  <1>0. Steps \subseteq Nat /\ 0 \notin Steps
    <2>1. SectorCount \in Nat
      BY KvsAssumption
    <2> QED  BY <2>1 DEF Steps
  <1>1. PICK n \in Steps : At(n) = y
    BY AtOnto
  <1>2. Writable(y) >= 1
    BY SectorFacts
  <1>3. partial = 0 \/ partial \in Steps
    <2> DEFINE T == {i \in P : mode = "append" \/ Recoverable(At(i)) = 0}
    <2>1. partial = First(T) /\ T \in SUBSET Steps
      BY DEF FindPartial, PartlyFilled
    <2> HIDE DEF T, partial
    <2> QED  BY <2>1, FirstOf
  <1>4. empty = 0 \/ empty \in Steps
    <2>1. empty = First(E) /\ E \in SUBSET Steps
      BY DEF FindEmpty
    <2> HIDE DEF E, empty
    <2> QED  BY <2>1, FirstOf
  <1>5. ASSUME Empty(y) PROVE empty # 0
    <2>1. n \in E /\ E \in SUBSET Nat /\ empty = First(E)
      BY <1>0, <1>1, <1>5 DEF FindEmpty
    <2>2. First(E) \in E
      <3> HIDE DEF E
      <3> QED  BY <2>1, FirstFacts
    <2> QED  BY <1>0, <2>1, <2>2
  <1>6. ASSUME ~Empty(y) PROVE most # 0 /\ most \in Steps
    <2>1. n \in P /\ P \in SUBSET Steps
      BY <1>1, <1>2, <1>6 DEF PartlyFilled
    <2> HIDE DEF P
    <2>2. most # 0
      BY <2>1, MostExists
    <2>3. most = 0 \/ most \in Steps
      <3> DEFINE T == {i \in P : \A l \in P : Recoverable(At(l)) <= Recoverable(At(i))}
      <3>1. most = First(T) /\ T \in SUBSET Steps
        BY <2>1 DEF Most
      <3> HIDE DEF T, most
      <3> QED  BY <3>1, FirstOf
    <2> QED  BY <2>2, <2>3
  <1>7. j \in Steps
    BY <1>3, <1>4, <1>5, <1>6
  <1>8. Find(mode, skip).sector = IF j = 0 THEN NoSector ELSE At(j)
    BY DEF Find
  <1> HIDE DEF j, mode
  <1>9. Find(mode, skip).sector # NoSector
    BY <1>0, <1>7, <1>8, AtFacts
  <1> QED  BY <1>9 DEF mode

\* An append takes an empty sector only if there is another one.
LEMMA FindLeavesOne ==
    ASSUME NEW r, flash \in Flash, CacheInv(flash, cache, r), SectorInv(flash, cache, sectors), lastNew \in Sectors,
           NEW skip, NEW y \in Sectors, y \notin skip, sectors[y].writable = Slots,
           NEW mode, mode = "append", NEW f, f = Find(mode, skip), f.sector # NoSector
    PROVE  \E z \in Sectors : z \notin skip /\ z # f.sector /\ sectors[z].writable = Slots
  <1> DEFINE partial == FindPartial(mode, skip)
             empty == FindEmpty(mode, skip)
             P == PartlyFilled(skip)
             E == {i \in Steps : At(i) \notin skip /\ Empty(At(i))}
             most == Most(P, Recoverable)
             j == IF partial # 0 THEN partial ELSE IF empty # 0 THEN empty ELSE most
  <1>0. Steps \subseteq Nat /\ 0 \notin Steps /\ IsFiniteSet(Steps)
    <2>1. SectorCount \in Nat
      BY KvsAssumption
    <2> QED  BY <2>1, FS_Interval DEF Steps
  <1>1. P \subseteq Steps /\ \A i \in P : ~Empty(At(i))
    BY DEF PartlyFilled
  <1>2. partial = 0 \/ partial \in P
    <2> DEFINE T == {i \in P : mode = "append" \/ Recoverable(At(i)) = 0}
    <2>1. partial = First(T) /\ T \in SUBSET Steps /\ T \subseteq P
      BY <1>1 DEF FindPartial
    <2> HIDE DEF T, partial, P
    <2> QED  BY <2>1, FirstOf
  <1>3. most = 0 \/ most \in P
    <2> DEFINE T == {i \in P : \A l \in P : Recoverable(At(l)) <= Recoverable(At(i))}
    <2>1. most = First(T) /\ T \in SUBSET Steps /\ T \subseteq P
      BY <1>1 DEF Most
    <2> HIDE DEF T, most, P
    <2> QED  BY <2>1, FirstOf
  <1>4. empty = (IF Cardinality(E) >= 2 THEN First(E) ELSE 0) /\ E \in SUBSET Steps
    BY DEF FindEmpty
  <1>5. f.sector = IF j = 0 THEN NoSector ELSE At(j)
    BY DEF Find
  <1>6. Empty(y)
    BY RecoverableFacts
  <1>7. CASE j \in P
    <2>1. f.sector = At(j) /\ ~Empty(f.sector)
      BY <1>0, <1>1, <1>5, <1>7
    <2>2. y # f.sector
      BY <1>6, <2>1
    <2> QED  BY <2>2
  <1>8. CASE j = empty /\ empty # 0
    <2>1. Cardinality(E) >= 2 /\ empty = First(E) /\ f.sector = At(empty)
      BY <1>4, <1>5, <1>8
    <2> HIDE DEF E, empty, j
    <2>2. empty \in E /\ IsFiniteSet(E)
      BY <1>0, <1>4, <1>8, <2>1, FirstOf, FS_Subset
    <2>3. \E i \in E : i # empty
      <3> SUFFICES ASSUME E \subseteq {empty} PROVE FALSE
        OBVIOUS
      <3>1. E = {empty}
        BY <2>2
      <3>2. Cardinality(E) = 1
        BY <3>1, FS_Singleton
      <3> QED  BY <2>1, <3>2
    <2>4. PICK i \in E : i # empty
      BY <2>3
    <2>5. i \in Steps /\ empty \in Steps /\ At(i) \notin skip /\ Empty(At(i))
      BY <2>2, <2>4 DEF E
    <2>6. At(i) \in Sectors /\ At(i) # At(empty)
      BY <2>4, <2>5, AtOnto, AtFacts
    <2>7. sectors[At(i)].writable = Slots
      BY <2>5, <2>6, RecoverableFacts
    <2> QED  BY <2>1, <2>5, <2>6, <2>7
  <1>9. j # 0
    BY <1>5
  <1> QED  BY <1>2, <1>3, <1>7, <1>8, <1>9

\* The sector to collect is not empty.
LEMMA GarbageInUse ==
    ASSUME NEW r, flash \in Flash, CacheInv(flash, cache, r), SectorInv(flash, cache, sectors), lastNew \in Sectors,
           NEW skip, NEW g, g = FindSectorToGarbageCollect(skip), g # NoSector
    PROVE  g \in Sectors /\ sectors[g].writable # Slots
  <1> DEFINE all == {j \in Steps : At(j) \notin skip}
             stale == {j \in all : ValidBytes(At(j)) = 0 /\ Recoverable(At(j)) > 0}
             reclaimable == {j \in all : Recoverable(At(j)) > 0}
             inUse == {j \in all : ValidBytes(At(j)) > 0}
             R == {i \in reclaimable : \A l \in reclaimable : Recoverable(At(l)) <= Recoverable(At(i))}
             V == {i \in inUse : \A l \in inUse : ValidBytes(At(l)) <= ValidBytes(At(i))}
             j == IF stale # {} THEN First(stale)
                  ELSE IF reclaimable # {} THEN First(R) ELSE First(V)
             Used == {i \in Steps : Recoverable(At(i)) > 0 \/ ValidBytes(At(i)) > 0}
  <1>1. Most(reclaimable, Recoverable) = First(R) /\ Most(inUse, ValidBytes) = First(V)
    BY DEF Most
  <1>2. g = IF j = 0 THEN NoSector ELSE At(j)
    BY <1>1 DEF FindSectorToGarbageCollect
  <1>3. stale \in SUBSET Steps /\ R \in SUBSET Steps /\ V \in SUBSET Steps
        /\ stale \subseteq Used /\ R \subseteq Used /\ V \subseteq Used
    OBVIOUS
  <1>4. \A i \in Used : i \in Steps /\ (Recoverable(At(i)) > 0 \/ ValidBytes(At(i)) > 0)
    OBVIOUS
  <1> HIDE DEF stale, R, V, all, reclaimable, inUse, Used
  <1>5. /\ First(stale) = 0 \/ First(stale) \in stale
        /\ First(R) = 0 \/ First(R) \in R
        /\ First(V) = 0 \/ First(V) \in V
    BY <1>3, FirstOf
  <1>6. j = 0 \/ j \in Used
    BY <1>3, <1>5
  <1> HIDE DEF j
  <1>7. g = At(j) /\ j \in Steps /\ (Recoverable(g) > 0 \/ ValidBytes(g) > 0)
    BY <1>2, <1>4, <1>6
  <1>8. g \in Sectors
    BY <1>7, AtFacts
  <1> QED  BY <1>7, <1>8, RecoverableFacts

\* A call that goes on outside of garbage collection, on the same sectors.
LEMMA SpareStays ==
    ASSUME NEW S, NEW C, NEW D, NEW o, NEW p, NEW e, NEW f, FreeInv(S, C, o, e), ~Collects(o), ~Collects(p),
           SectorsOf(p.reserved) \subseteq SectorsOf(o.reserved), Sound(S, p, f) => Sound(S, o, e),
           p.pc \in {"repair", "free"} => f
    PROVE  FreeInv(S, D, p, f)
  <1>1. ASSUME Sound(S, p, f) PROVE Spare(S, D, p)
    <2>1. \E y : Unused(S, o, y)
      BY <1>1 DEF FreeInv, Spare
    <2>2. \E y : Unused(S, p, y)
      BY <2>1 DEF Unused
    <2> QED  BY <2>2 DEF Spare, Collects
  <1> QED  BY <1>1 DEF FreeInv, Repairs

\* The garbage collection of a sector in use begins.
LEMMA SpareTakes ==
    ASSUME NEW r, flash \in Flash, CacheInv(flash, cache, r), SectorInv(flash, cache, sectors),
           NEW o, NEW p, NEW e, FreeInv(sectors, cache, o, e), ~Collects(o), Collects(p),
           p.reserved = o.reserved, p.gc \in Sectors, sectors[p.gc].writable # Slots,
           Sound(sectors, p, e) => Sound(sectors, o, e), p.caller \notin {"repair", "free"}
    PROVE  FreeInv(sectors, cache, p, e)
  <1>1. ASSUME Sound(sectors, p, e) PROVE \E y : Takes(sectors, cache, p, y)
    <2>1. PICK y : Unused(sectors, o, y)
      BY <1>1 DEF FreeInv, Spare
    <2>2. y \in Sectors /\ sectors[y].writable = Slots /\ y \notin SectorsOf(p.reserved) /\ y # p.gc
      BY <2>1 DEF Unused
    <2>3. Copies(cache, y) = {}
      BY <2>2, EmptyHasNone
    <2>4. \A k \in Copies(cache, p.gc) : y \notin SectorsOf(cache[k].addresses)
      BY <2>3 DEF Copies
    <2>5. Cardinality(Copies(cache, p.gc)) <= Slots
      BY CopiesFit
    <2>6. Cardinality(Copies(cache, p.gc)) \in Nat /\ Slots \in Nat
      BY SectorFacts
    <2> QED  BY <2>2, <2>4, <2>5, <2>6 DEF Takes
  <1> QED  BY <1>1 DEF FreeInv, Spare, Repairs, Collects

\* Accounting for a copy takes room in its sector only.
LEMMA AccountedRoom ==
    ASSUME NEW C, flash \in Flash, SectorInv(flash, C, sectors), NEW s \in Sectors, sectors[s].writable >= 1, NEW stale,
           NEW u \in Sectors
    PROVE  Accounted(s, stale)[u].writable = IF u = s THEN sectors[u].writable - 1 ELSE sectors[u].writable
  <1> DEFINE w == sectors[u].writable
             v == sectors[u].valid
             sd == sectors[u]
  <1>1. sd = [writable |-> w, valid |-> v] /\ w \in -1..Slots /\ v \in Nat /\ Slots \in Nat
    BY SectorFacts
  <1>2. Accounted(s, stale)[u] = IF u \in stale THEN RemoveValid(IF u = s THEN Filled(sd) ELSE sd)
                                 ELSE (IF u = s THEN Filled(sd) ELSE sd)
    BY DEF Accounted
  <1>3. u = s => w >= 1
    OBVIOUS
  <1> HIDE DEF w, v, sd
  <1>4. /\ Filled(sd) = [writable |-> IF w <= 0 THEN 0 ELSE w - 1, valid |-> v + 1]
        /\ RemoveValid(sd) = [writable |-> w, valid |-> IF v = 0 THEN 0 ELSE v - 1]
        /\ RemoveValid(Filled(sd)) = [writable |-> IF w <= 0 THEN 0 ELSE w - 1, valid |-> v]
    BY <1>1, FilledFacts
  <1>5. Filled(sd).writable = (IF w <= 0 THEN 0 ELSE w - 1) /\ RemoveValid(sd).writable = w
        /\ RemoveValid(Filled(sd)).writable = (IF w <= 0 THEN 0 ELSE w - 1) /\ sd.writable = w
    BY <1>1, <1>4
  <1>6. u = s => (IF w <= 0 THEN 0 ELSE w - 1) = w - 1
    BY <1>1, <1>3
  <1> QED  BY <1>2, <1>5, <1>6 DEF w

-----------------------------------------------------------------------------
(* The free sector, step by step                                           *)

\* A call that holds no entry in hand reserves nothing and is not fixing anything.
AtRest(o) == ~Collects(o) /\ SectorsOf(o.reserved) = {} /\ o.then = "none"

\* A call that returns is at rest.
LEMMA ReturningRests ==
    ASSUME NEW status
    PROVE  AtRest(Returning(status)) /\ Returning(status).pc = "return" /\ ~Fixing(Returning(status))
  <1> DEFINE o == Returning(status)
  <1>1. o.pc = "return" /\ o.then = "none" /\ o.reserved = <<>>
    BY IdleFacts DEF Returning, Fields
  <1> HIDE DEF o
  <1>2. AtRest(o) /\ ~Fixing(o)
    BY <1>1, NoEntryFacts DEF AtRest, Collects, Fixing
  <1> QED  BY <1>1, <1>2 DEF o

\* So is a loop that goes on; what status it has it keeps.
LEMMA SettledRests ==
    ASSUME DOMAIN op = Fields, NEW pc \in {"redundancy", "update"}
    PROVE  /\ AtRest(Settled(pc)) /\ Settled(pc).pc = pc /\ Settled(pc).status = op.status
           /\ DOMAIN Settled(pc) = Fields /\ Settled(pc).then = "none" /\ Settled(pc).reserved = <<>>
  <1> DEFINE o == Settled(pc)
  <1>1. DOMAIN o = Fields /\ o.pc = pc /\ o.then = "none" /\ o.reserved = <<>> /\ o.status = op.status
    BY DEF Settled, Fields
  <1> HIDE DEF o
  <1>2. AtRest(o)
    BY <1>1, NoEntryFacts DEF AtRest, Collects
  <1> QED  BY <1>1, <1>2 DEF o

\* A step that failed leaves its call at rest and with an error to report.
LEMMA FailedRests ==
    ASSUME DOMAIN op = Fields, op.then \in {"write", "fill", "convert"}, NEW status, status # "OK"
    PROVE  AtRest(Failed(status)) /\ Failed(status).pc \notin {"repair", "free"} /\ ~Fixing(Failed(status))
  <1>1. CASE op.then = "write"
    BY <1>1, ReturningRests DEF Failed
  <1>2. CASE op.then = "fill"
    <2> DEFINE x == FirstError(status)
               pc == "redundancy"
               p == Settled(pc)
               o == [p EXCEPT !.status = x]
    <2>1. x # "OK"
      BY DEF FirstError
    <2>2. Failed(status) = o
      BY <1>2 DEF Failed
    <2> HIDE DEF x
    <2>3. pc \in {"redundancy", "update"} /\ pc = "redundancy"
      OBVIOUS
    <2> HIDE DEF pc
    <2>4. DOMAIN p = Fields /\ p.pc = pc /\ p.then = "none" /\ p.reserved = <<>>
      BY <2>3, SettledRests
    <2> HIDE DEF p
    <2>5. o.pc = "redundancy" /\ o.then = "none" /\ o.reserved = <<>> /\ o.status = x
      BY <2>3, <2>4 DEF Fields
    <2> HIDE DEF o
    <2>6. AtRest(o) /\ o.pc \notin {"repair", "free"} /\ ~Fixing(o)
      BY <2>1, <2>5, NoEntryFacts DEF AtRest, Collects, Fixing
    <2> QED  BY <2>2, <2>6
  <1>3. CASE op.then = "convert"
    <2> DEFINE x == FirstError(status)
               pc == "update"
               p == Settled(pc)
               o == [p EXCEPT !.todo = {}, !.converted = FALSE, !.status = x]
    <2>2. Failed(status) = o
      BY <1>3 DEF Failed
    <2> HIDE DEF x
    <2>3. pc \in {"redundancy", "update"} /\ pc = "update"
      OBVIOUS
    <2> HIDE DEF pc
    <2>4. DOMAIN p = Fields /\ p.pc = pc /\ p.then = "none" /\ p.reserved = <<>>
      BY <2>3, SettledRests
    <2> HIDE DEF p
    <2>5. o.pc = "update" /\ o.then = "none" /\ o.reserved = <<>>
      BY <2>3, <2>4 DEF Fields
    <2> HIDE DEF o
    <2>6. AtRest(o) /\ o.pc \notin {"repair", "free"} /\ ~Fixing(o)
      BY <2>5, NoEntryFacts DEF AtRest, Collects, Fixing
    <2> QED  BY <2>2, <2>6
  <1> QED  BY <1>1, <1>2, <1>3

\* The garbage collection of a sector is over, and an error is not forgotten.
LEMMA CollectedGoesOn ==
    ASSUME KvsInv, Collects(op), NEW status
    PROVE  /\ ~Collects(Collected(status)) /\ SectorsOf(Collected(status).reserved) \subseteq SectorsOf(op.reserved)
           /\ status # "OK" => ~Fixing(Collected(status))
           /\ Collected(status).pc \in {"repair", "free"} => op.caller = "repair"
  <1>0. op.pc # "off" /\ op.pc \in {"relocate", "erase"}
    BY DEF Collects
  <1>1. /\ DOMAIN op = Fields /\ op.caller \in Callers /\ (op.caller = "reserve" <=> op.then # "none")
        /\ op.then # "none" => op.then \in {"write", "fill", "convert"}
    BY <1>0, InvFacts DEF OpCollects, OpHand
  <1> DEFINE done == [op EXCEPT !.gc = NoSector, !.caller = "none"]
             keep == IF op.status \in {"OK", "RESOURCE_EXHAUSTED"} /\ status # "OK" THEN status ELSE op.status
  <1>2. DOMAIN done = Fields /\ done.reserved = op.reserved /\ done.then = op.then
    BY <1>1 DEF Fields
  <1>3. CASE op.caller = "reserve" /\ status = "OK"
    <2> DEFINE n == IF done.gcCount > SectorCount + 2 THEN done.gcCount ELSE done.gcCount + 1
               o == [done EXCEPT !.pc = "reserve", !.gcCount = n]
    <2>1. Collected(status) = o
      BY <1>3 DEF Collected
    <2> HIDE DEF n, done
    <2>2. o.pc = "reserve" /\ o.reserved = op.reserved
      BY <1>2 DEF Fields
    <2> QED  BY <1>3, <2>1, <2>2 DEF Collects
  <1>4. CASE op.caller = "reserve" /\ status # "OK"
    <2>1. Collected(status) = Failed(status)
      BY <1>4 DEF Collected
    <2>2. AtRest(Failed(status)) /\ Failed(status).pc \notin {"repair", "free"} /\ ~Fixing(Failed(status))
      BY <1>1, <1>4, FailedRests
    <2> QED  BY <2>1, <2>2 DEF AtRest
  <1>5. CASE op.caller = "repair"
    <2> DEFINE o == [done EXCEPT !.pc = "repair", !.status = keep]
    <2>1. Collected(status) = o
      BY <1>5 DEF Collected
    <2> HIDE DEF done, keep
    <2>2. o.pc = "repair" /\ o.reserved = op.reserved /\ o.then = op.then
      BY <1>2 DEF Fields
    <2>3. op.then = "none"
      BY <1>1, <1>5
    <2> HIDE DEF o
    <2> QED  BY <1>5, <2>1, <2>2, <2>3 DEF Collects, Fixing
  <1>6. CASE op.caller = "free"
    <2> DEFINE x == FirstError(status)
               o == [done EXCEPT !.pc = "redundancy", !.todo = Cached, !.status = x]
    <2>1. Collected(status) = o
      BY <1>6 DEF Collected
    <2>2. status # "OK" => x # "OK"
      BY DEF FirstError
    <2> HIDE DEF done, x
    <2>3. o.pc = "redundancy" /\ o.reserved = op.reserved /\ o.status = x /\ o.then = op.then
      BY <1>2 DEF Fields
    <2>4. op.then = "none"
      BY <1>1, <1>6
    <2> HIDE DEF o
    <2> QED  BY <2>1, <2>2, <2>3, <2>4 DEF Collects, Fixing
  <1>7. CASE op.caller = "sweep" /\ status = "OK"
    <2> DEFINE o == [done EXCEPT !.pc = "sweep"]
    <2>1. Collected(status) = o
      BY <1>7 DEF Collected
    <2> HIDE DEF done
    <2>2. o.pc = "sweep" /\ o.reserved = op.reserved
      BY <1>2 DEF Fields
    <2> QED  BY <1>7, <2>1, <2>2 DEF Collects
  <1>8. CASE op.caller = "partial" \/ (op.caller = "sweep" /\ status # "OK")
    <2>1. \E x : Collected(status) = Returning(x)
      BY <1>8 DEF Collected
    <2>2. PICK x : Collected(status) = Returning(x)
      BY <2>1
    <2> QED  BY <2>2, ReturningRests DEF AtRest
  <1> QED  BY <1>1, <1>3, <1>4, <1>5, <1>6, <1>7, <1>8 DEF Callers

\* A call that comes to rest, or stays where it is, on the same sectors.
LEMMA FreeStays ==
    ASSUME KvsInv, FreeSectorInv, op.pc # "off", ~Collects(op), ~Collects(op'), sectors' = sectors,
           SectorsOf(op'.reserved) \subseteq SectorsOf(op.reserved),
           error' = error, Fixing(op') => Fixing(op), op'.pc \notin {"repair", "free"}
    PROVE  FreeSectorInv'
  <1>1. FreeInv(sectors, cache, op, error)
    BY DEF FreeSectorInv
  <1>2. Sound(sectors, op', error') => Sound(sectors, op, error)
    BY DEF Sound
  <1>3. FreeInv(sectors, cache', op', error')
    BY <1>1, <1>2, SpareStays
  <1> QED  BY <1>3 DEF FreeSectorInv

\* A sector goes out of use.
LEMMA CorruptFree ==
    ASSUME KvsInv, op.pc # "off", NEW s \in Sectors, sectors' = [sectors EXCEPT ![s] = MarkCorrupt(@)],
           Repairs(op') => error'
    PROVE  FreeSectorInv'
  <1>1. flash \in Flash /\ SectorInv(flash, cache, sectors)
    BY InvFacts
  <1>2. /\ sectors[s] = [writable |-> sectors[s].writable, valid |-> sectors[s].valid]
        /\ sectors \in [Sectors -> [writable : -1..Slots, valid : Nat]]
    BY <1>1, SectorFacts DEF SectorInv
  <1>3. sectors'[s].writable = -1
    BY <1>2 DEF MarkCorrupt, kCorruptSector
  <1>4. ~Sound(sectors', op', error')
    BY <1>3 DEF Sound
  <1> QED  BY <1>4 DEF FreeSectorInv, FreeInv

\* A copy is written where there is a place for it.
LEMMA ProgramFree ==
    ASSUME KvsInv, FreeSectorInv, op.pc # "off", ~Collects(op), ~Collects(op'),
           NEW a, Room(flash, sectors, a), a[1] \in SectorsOf(op.reserved), NEW e, NEW stale, ProgramSucceeds(a, e, stale),
           SectorsOf(op'.reserved) \subseteq SectorsOf(op.reserved),
           Fixing(op') => Fixing(op), op'.pc \notin {"repair", "free"}
    PROVE  FreeSectorInv'
  <1>1. FreeInv(sectors, cache, op, error)
    BY DEF FreeSectorInv
  <1>2. sectors' = Accounted(a[1], stale) /\ error' = error
    BY DEF ProgramSucceeds
  <1>3. a[1] \in Sectors /\ sectors[a[1]].writable >= 1
    BY DEF Room, Addresses
  <1>4. flash \in Flash /\ SectorInv(flash, cache, sectors)
    BY InvFacts
  <1>5. \A u \in Sectors : sectors'[u].writable = IF u = a[1] THEN sectors[u].writable - 1 ELSE sectors[u].writable
    BY <1>2, <1>3, <1>4, AccountedRoom
  <1>6. ASSUME Sound(sectors', op', error') PROVE \E y : Unused(sectors', op', y)
    <2>1. \A u \in Sectors : sectors[u].writable # -1
      <3> SUFFICES ASSUME NEW u \in Sectors PROVE sectors[u].writable # -1
        OBVIOUS
      <3>1. sectors[u].writable >= 1 => sectors[u].writable # -1
        OBVIOUS
      <3> QED  BY <1>3, <1>5, <1>6, <3>1 DEF Sound
    <2>2. Sound(sectors, op, error)
      BY <1>2, <1>6, <2>1 DEF Sound
    <2>3. PICK y : Unused(sectors, op, y)
      BY <1>1, <2>2 DEF FreeInv, Spare
    <2>4. y # a[1]
      BY <2>3 DEF Unused
    <2>5. Unused(sectors', op', y)
      BY <1>5, <2>3, <2>4 DEF Unused
    <2> QED  BY <2>5
  <1>7. FreeInv(sectors', cache', op', error')
    BY <1>6 DEF FreeInv, Spare, Repairs, Collects
  <1> QED  BY <1>7 DEF FreeSectorInv

\* Or it is not.
LEMMA ProgramFailsFree ==
    ASSUME KvsInv, op.pc # "off", NEW a, a[1] \in Sectors, NEW e, ProgramFails(a, e)
    PROVE  FreeSectorInv'
  <1>1. error' /\ sectors' = [sectors EXCEPT ![a[1]] = MarkCorrupt(@)]
    BY DEF ProgramFails
  <1> QED  BY <1>1, CorruptFree

\* A call begins to collect a sector in use.
LEMMA CollectFree ==
    ASSUME KvsInv, FreeSectorInv, op.pc # "off", ~Collects(op), UNCHANGED <<flash, cache, sectors, error>>,
           op'.gc \in Sectors, sectors[op'.gc].writable # Slots, Collects(op'), op'.reserved = op.reserved,
           op'.caller \notin {"repair", "free"}, op'.then = op.then, op'.status = op.status
    PROVE  FreeSectorInv'
  <1> DEFINE p == op'
  <1>1. FreeInv(sectors, cache, op, error)
    BY DEF FreeSectorInv
  <1>2. flash \in Flash /\ CacheInv(flash, cache, red) /\ SectorInv(flash, cache, sectors)
    BY InvFacts
  <1>3. Fixing(p) => Fixing(op)
    BY DEF Fixing, Collects
  <1>4. Sound(sectors, p, error) => Sound(sectors, op, error)
    BY <1>3 DEF Sound
  <1>5. /\ p.gc \in Sectors /\ sectors[p.gc].writable # Slots /\ Collects(p) /\ p.reserved = op.reserved
        /\ p.caller \notin {"repair", "free"}
    OBVIOUS
  <1> HIDE DEF p
  <1>6. FreeInv(sectors, cache, p, error)
    BY <1>1, <1>2, <1>4, <1>5, SpareTakes
  <1> QED  BY <1>6 DEF FreeSectorInv, p

\* Return.
LEMMA ReturnFree ==
    ASSUME KvsInv, FreeSectorInv, Return
    PROVE  FreeSectorInv'
  <1>1. op.pc = "return" /\ op' = Idle /\ sectors' = sectors /\ error' = error
    BY DEF Return, ram
  <1>2. op'.pc = "idle" /\ op'.then = "none" /\ op'.reserved = <<>>
    BY <1>1, IdleFacts
  <1> QED  BY <1>1, <1>2, NoEntryFacts, FreeStays DEF Collects, Fixing

\* PutBytes and Delete.
LEMMA CallWriteFree ==
    ASSUME KvsInv, FreeSectorInv, NEW k, NEW v, CallWrite(k, v)
    PROVE  FreeSectorInv'
  <1>1. op.pc = "idle" /\ op' = [Idle EXCEPT !.pc = "find", !.task = "Write", !.key = k, !.value = v]
        /\ sectors' = sectors /\ error' = error
    BY DEF CallWrite, ram
  <1>2. op'.pc = "find" /\ op'.then = "none" /\ op'.reserved = <<>>
    BY <1>1, IdleFacts DEF Fields
  <1> QED  BY <1>1, <1>2, NoEntryFacts, FreeStays DEF Collects, Fixing

\* A call returns.
LEMMA ReturningFree ==
    ASSUME KvsInv, FreeSectorInv, op.pc # "off", ~Collects(op), sectors' = sectors, error' = error,
           NEW status, op' = Returning(status)
    PROVE  FreeSectorInv'
  <1>1. ~Collects(op') /\ SectorsOf(op'.reserved) = {} /\ op'.pc = "return" /\ ~Fixing(op')
    BY ReturningRests DEF AtRest
  <1> QED  BY <1>1, FreeStays

\* The checks before a write.
LEMMA FindExistingFree ==
    ASSUME KvsInv, FreeSectorInv, FindExisting
    PROVE  FreeSectorInv'
  <1>1. op.pc = "find" /\ op.pc # "off" /\ sectors' = sectors /\ error' = error
    BY DEF FindExisting, ram
  <1>2. DOMAIN op = Fields
    BY <1>1, InvFacts
  <1> DEFINE o == [op EXCEPT !.pc = "reserve", !.then = "write"]
  <1>3. (\E x : op' = Returning(x)) \/ op' = o
    BY DEF FindExisting
  <1>4. o.pc = "reserve" /\ o.then = "write" /\ o.reserved = op.reserved
    BY <1>2 DEF Fields
  <1> HIDE DEF o
  <1>5. CASE \E x : op' = Returning(x)
    BY <1>1, <1>5, ReturningFree DEF Collects
  <1>6. CASE op' = o
    BY <1>1, <1>4, <1>6, FreeStays DEF Collects, Fixing
  <1> QED  BY <1>3, <1>5, <1>6

\* UpdateEntriesToPrimaryFormat.
LEMMA UpdateEntryFree ==
    ASSUME KvsInv, FreeSectorInv, NEW k, UpdateEntry(k)
    PROVE  FreeSectorInv'
  <1>1. op.pc = "update" /\ op.pc # "off" /\ sectors' = sectors /\ error' = error
    BY DEF UpdateEntry
  <1>2. DOMAIN op = Fields
    BY <1>1, InvFacts
  <1>3. op' = [op EXCEPT !.pc = "reserve", !.then = "convert", !.key = k, !.todo = @ \ {k},
                        !.source = cache[k].addresses[1], !.converted = TRUE]
    BY DEF UpdateEntry
  <1>4. op'.pc = "reserve" /\ op'.then = "convert" /\ op'.reserved = op.reserved
    BY <1>2, <1>3 DEF Fields
  <1> QED  BY <1>1, <1>4, FreeStays DEF Collects, Fixing

\* Its end.
LEMMA UpdateDoneFree ==
    ASSUME KvsInv, FreeSectorInv, UpdateDone
    PROVE  FreeSectorInv'
  <1>1. op.pc = "update" /\ op.pc # "off" /\ op.pc \in Loops /\ sectors' = sectors /\ error' = error
    BY DEF UpdateDone, ram, Loops
  <1>2. DOMAIN op = Fields /\ op.then = "none"
    BY <1>1, LoopFacts
  <1> DEFINE h == op.heavy \/ OverUsageThreshold \/ op.converted
             o == [op EXCEPT !.pc = "sweep", !.todo = {}, !.cursor = lastNew, !.pass = 0, !.heavy = h]
  <1>3. op' = o
    BY <1>2 DEF UpdateDone, Fields
  <1> HIDE DEF h
  <1>4. o.pc = "sweep" /\ o.then = "none" /\ o.reserved = op.reserved
    BY <1>2 DEF Fields
  <1> HIDE DEF o
  <1> QED  BY <1>1, <1>3, <1>4, FreeStays DEF Collects, Fixing

\* The sweep of a full maintenance.
LEMMA SweepFree ==
    ASSUME KvsInv, Progress(op), FreeSectorInv, Sweep
    PROVE  FreeSectorInv'
  <1>0. /\ op.pc = "sweep" /\ op.pc # "off" /\ ~Collects(op) /\ DOMAIN op = Fields
        /\ UNCHANGED <<flash, cache, sectors, error>>
    BY InvFacts DEF Sweep, ram, Collects
  <1> DEFINE j == First(SweepSteps)
             s == SweepAt(j)
             p == CollectSector(s, "sweep")
             o == [p EXCEPT !.pass = j]
  <1>1. op' = Returning(op.status) \/ (j # 0 /\ op' = o)
    BY SweepStep
  <1>2. CASE op' = Returning(op.status)
    <2> DEFINE x == op.status
    <2>1. op' = Returning(x)
      BY <1>2
    <2> HIDE DEF x
    <2> QED  BY <1>0, <2>1, ReturningFree
  <1>3. CASE j # 0 /\ op' = o
    <2>1. s \in Sectors
      BY <1>3, SweepFacts
    <2>2. Recoverable(s) > 0
      <3>1. SweepSteps \in SUBSET Nat
        <4>1. op.pass \in Nat /\ SectorCount \in Nat
          BY KvsAssumption DEF Progress
        <4> QED  BY <4>1 DEF SweepSteps
      <3>2. SweepSteps # {}
        BY <1>3 DEF First
      <3>3. First(SweepSteps) \in SweepSteps
        BY <3>1, <3>2, FirstFacts
      <3> QED  BY <3>3 DEF SweepSteps
    <2>3. flash \in Flash /\ CacheInv(flash, cache, red) /\ SectorInv(flash, cache, sectors)
      BY <1>0, InvFacts
    <2> HIDE DEF j, s
    <2>4. sectors[s].writable # Slots
      BY <2>1, <2>2, <2>3, RecoverableFacts
    <2>5. /\ DOMAIN p = Fields /\ p.gc = s /\ p.caller = "sweep" /\ p.pc \in {"relocate", "erase"}
          /\ p.reserved = op.reserved /\ p.then = op.then /\ p.status = op.status
      BY <1>0 DEF CollectSector, Fields
    <2> HIDE DEF p
    <2>6. /\ o.gc = s /\ o.caller = "sweep" /\ o.pc \in {"relocate", "erase"}
          /\ o.reserved = op.reserved /\ o.then = op.then /\ o.status = op.status
      BY <2>5 DEF Fields
    <2> HIDE DEF o
    <2> QED  BY <1>0, <1>3, <2>1, <2>4, <2>6, CollectFree DEF Collects
  <1> QED  BY <1>1, <1>2, <1>3

\* A call begins to collect a sector that FindSectorToGarbageCollect chose.
LEMMA CollectSectorFree ==
    ASSUME KvsInv, FreeSectorInv, op.pc # "off", ~Collects(op), UNCHANGED <<flash, cache, sectors, error>>,
           NEW skip, NEW g, g = FindSectorToGarbageCollect(skip), g # NoSector,
           NEW caller, caller \notin {"repair", "free"}, op' = CollectSector(g, caller)
    PROVE  FreeSectorInv'
  <1>1. /\ flash \in Flash /\ CacheInv(flash, cache, red) /\ SectorInv(flash, cache, sectors)
        /\ lastNew \in Sectors /\ DOMAIN op = Fields
    BY InvFacts
  <1>2. g \in Sectors /\ sectors[g].writable # Slots
    BY <1>1, GarbageInUse
  <1> DEFINE p == CollectSector(g, caller)
  <1>3. /\ p.gc = g /\ p.caller = caller /\ p.pc \in {"relocate", "erase"}
        /\ p.reserved = op.reserved /\ p.then = op.then /\ p.status = op.status
    BY <1>1 DEF CollectSector, Fields
  <1>4. op' = p
    OBVIOUS
  <1> HIDE DEF p
  <1> QED  BY <1>2, <1>3, <1>4, CollectFree DEF Collects

\* The garbage collection of a partial maintenance.
LEMMA GarbageCollectFree ==
    ASSUME KvsInv, FreeSectorInv, GarbageCollect
    PROVE  FreeSectorInv'
  <1>0. /\ op.pc = "partial" /\ op.pc # "off" /\ ~Collects(op)
        /\ UNCHANGED <<flash, cache, sectors, error>>
    BY DEF GarbageCollect, ram, Collects
  <1> DEFINE skip == {}
             g == FindSectorToGarbageCollect(skip)
             caller == "partial"
  <1>1. op' = Returning("NOT_FOUND") \/ (g # NoSector /\ op' = CollectSector(g, caller))
    BY DEF GarbageCollect
  <1>2. g = FindSectorToGarbageCollect(skip) /\ caller \notin {"repair", "free"}
    OBVIOUS
  <1> HIDE DEF skip, g, caller
  <1> QED  BY <1>0, <1>1, <1>2, ReturningFree, CollectSectorFree

\* GetSectorForWrite leaves an empty sector that it has not reserved.
LEMMA GetSectorForWriteFree ==
    ASSUME KvsInv, FreeSectorInv, GetSectorForWrite
    PROVE  FreeSectorInv'
  <1>0. /\ op.pc = "reserve" /\ op.pc # "off" /\ op.pc \in Seeking /\ ~Collects(op)
        /\ UNCHANGED <<flash, cache, sectors, error>>
    BY DEF GetSectorForWrite, Seeking, Collects
  <1>1. /\ flash \in Flash /\ SectorInv(flash, cache, sectors) /\ CacheInv(flash, cache, red)
        /\ DOMAIN op = Fields /\ lastNew \in Sectors
        /\ OpHand(op, flash, cache, sectors, lastTxn, red)
    BY <1>0, InvFacts
  <1>2. op.then # "none"
    BY <1>0, <1>1 DEF OpHand
  <1>3. op.then \in {"write", "fill", "convert"} /\ op.reserved \in Seq(Addresses)
    BY <1>0, <1>2, SeekFacts
  <1> DEFINE skip == ReservedSectors
             mode == "append"
             caller == "reserve"
             status == "RESOURCE_EXHAUSTED"
             found == Find(mode, skip)
             garbage == FindSectorToGarbageCollect(skip)
             a == NextWritableAddress(found.sector)
             reserved == Append(op.reserved, a)
             pc == IF Len(reserved) < CopiesNeeded THEN "reserve" ELSE op.then
             placed == [op EXCEPT !.reserved = reserved, !.gcCount = 0, !.pc = pc]
  <1>4. \/ op' = Failed(status)
        \/ found.sector # NoSector /\ op' = placed
        \/ garbage # NoSector /\ op' = CollectSector(garbage, caller)
    BY DEF GetSectorForWrite
  <1>5. /\ skip = SectorsOf(op.reserved) /\ mode = "append" /\ found = Find(mode, skip)
        /\ caller \notin {"repair", "free"} /\ garbage = FindSectorToGarbageCollect(skip)
        /\ status # "OK" /\ a[1] = found.sector
    BY DEF ReservedSectors, NextWritableAddress
  <1> HIDE DEF skip, mode, caller, status, found, garbage, a
  <1>6. CASE op' = Failed(status)
    <2>1. AtRest(op') /\ op'.pc \notin {"repair", "free"} /\ ~Fixing(op')
      BY <1>1, <1>3, <1>5, <1>6, FailedRests
    <2> QED  BY <1>0, <2>1, FreeStays DEF AtRest
  <1>7. CASE garbage # NoSector /\ op' = CollectSector(garbage, caller)
    BY <1>0, <1>5, <1>7, CollectSectorFree
  <1>8. CASE found.sector # NoSector /\ op' = placed
    <2>1. pc \in {"reserve", "write", "fill", "convert"}
      BY <1>3
    <2> HIDE DEF pc, reserved
    <2>2. /\ placed.reserved = reserved /\ placed.pc = pc /\ placed.then = op.then /\ placed.status = op.status
      BY <1>1 DEF Fields
    <2> HIDE DEF placed
    <2>3. a \in Addresses
      <3>1. Room(flash, sectors, a)
        BY <1>1, <1>5, <1>8, FindFacts DEF a
      <3> QED  BY <3>1 DEF Room
    <2>4. SectorsOf(reserved) = SectorsOf(op.reserved) \cup {a[1]}
      BY <1>3, <2>3, SectorsOfAppend DEF reserved
    <2>5. ASSUME Sound(sectors, placed, error) PROVE \E y : Unused(sectors, placed, y)
      <3>1. Fixing(placed) => Fixing(op)
        BY <2>1, <2>2 DEF Fixing
      <3>2. Sound(sectors, op, error)
        BY <2>5, <3>1 DEF Sound
      <3>3. PICK y : Unused(sectors, op, y)
        BY <1>0, <3>2 DEF FreeSectorInv, FreeInv, Spare
      <3>4. y \in Sectors /\ y \notin skip /\ sectors[y].writable = Slots
        BY <1>5, <3>3 DEF Unused
      <3>5. PICK z \in Sectors : z \notin skip /\ z # found.sector /\ sectors[z].writable = Slots
        BY <1>1, <1>5, <1>8, <3>4, FindLeavesOne
      <3> QED  BY <1>5, <2>2, <2>4, <3>5 DEF Unused
    <2>6. FreeInv(sectors, cache, placed, error)
      BY <2>1, <2>2, <2>5 DEF FreeInv, Spare, Repairs, Collects
    <2> QED  BY <1>0, <1>8, <2>6 DEF FreeSectorInv
  <1> QED  BY <1>4, <1>6, <1>7, <1>8

\* The place of the next copy is one of those reserved for it.
LEMMA WritingPlace ==
    ASSUME KvsInv, op.pc \in {"write", "convert"}, NEW a, a = op.reserved[op.written + 1]
    PROVE  /\ op.pc # "off" /\ ~Collects(op) /\ op.then = op.pc /\ DOMAIN op = Fields
           /\ Room(flash, sectors, a) /\ a[1] \in SectorsOf(op.reserved) /\ a[1] \in Sectors
  <1>1. /\ op.pc # "off" /\ op.then = op.pc /\ op.written + 1 \in 1..red
        /\ op.reserved \in Seq(Addresses) /\ Len(op.reserved) = red
        /\ Room(flash, sectors, op.reserved[op.written + 1])
    BY WritingFacts
  <1>2. DOMAIN op.reserved = 1..red
    BY <1>1
  <1>3. a[1] \in SectorsOf(op.reserved)
    BY <1>1, <1>2, SectorsOfMember
  <1>4. a[1] \in Sectors
    BY <1>1 DEF Room, Addresses
  <1>5. DOMAIN op = Fields
    BY <1>1, InvFacts
  <1> QED  BY <1>1, <1>3, <1>4, <1>5 DEF Collects

\* A copy is written and the write returns, or goes on with the next one.
LEMMA WritesOn ==
    ASSUME KvsInv, FreeSectorInv, op.pc \in {"write", "convert"},
           NEW a, a = op.reserved[op.written + 1], NEW e, NEW stale, ProgramSucceeds(a, e, stale), NEW n,
           \/ op' = Returning("OK")
           \/ op' = Settled("update")
           \/ op' = [op EXCEPT !.written = n]
    PROVE  FreeSectorInv'
  <1>1. /\ op.pc # "off" /\ ~Collects(op) /\ op.then = op.pc /\ DOMAIN op = Fields
        /\ Room(flash, sectors, a) /\ a[1] \in SectorsOf(op.reserved)
    BY WritingPlace
  <1>2. CASE op' = Returning("OK")
    <2>1. AtRest(op') /\ op'.pc = "return" /\ ~Fixing(op')
      BY <1>2, ReturningRests
    <2> QED  BY <1>1, <2>1, ProgramFree DEF AtRest
  <1>3. CASE op' = Settled("update")
    <2> DEFINE pc == "update"
    <2>0. pc \in {"redundancy", "update"} /\ pc = "update" /\ op' = Settled(pc)
      BY <1>3
    <2> HIDE DEF pc
    <2>1. AtRest(op') /\ op'.pc = "update"
      BY <1>1, <2>0, SettledRests
    <2> QED  BY <1>1, <2>1, ProgramFree DEF AtRest, Fixing
  <1>4. CASE op' = [op EXCEPT !.written = n]
    <2>1. op'.pc = op.pc /\ op'.reserved = op.reserved /\ op'.then = op.then
      BY <1>1, <1>4 DEF Fields
    <2> QED  BY <1>1, <2>1, ProgramFree DEF Collects, Fixing
  <1> QED  BY <1>2, <1>3, <1>4

\* WriteEntry.
LEMMA WriteEntryFree ==
    ASSUME KvsInv, FreeSectorInv, WriteEntry
    PROVE  FreeSectorInv'
  <1>0. op.pc = "write" /\ op.written = 0
    BY DEF WriteEntry
  <1> DEFINE a == op.reserved[1]
             t == NewTransactionId
             e == [key |-> op.key, value |-> op.value, txn |-> t, format |-> primary]
             stale == SectorsOf(cache[op.key].addresses)
             n == 1
  <1>1. \/ ProgramSucceeds(a, e, stale) /\ (op' = Returning("OK") \/ op' = [op EXCEPT !.written = n])
        \/ ProgramFails(a, e)
    BY DEF WriteEntry
  <1>2. a = op.reserved[op.written + 1]
    BY <1>0
  <1> HIDE DEF a, e, stale, n
  <1>3. a[1] \in Sectors /\ op.pc # "off"
    BY <1>0, <1>2, WritingPlace
  <1> QED  BY <1>0, <1>1, <1>2, <1>3, WritesOn, ProgramFailsFree

\* The other copies.
LEMMA WriteCopyFree ==
    ASSUME KvsInv, FreeSectorInv, WriteCopy
    PROVE  FreeSectorInv'
  <1>0. op.pc = "write"
    BY DEF WriteCopy
  <1> DEFINE a == op.reserved[op.written + 1]
             e == [key |-> op.key, value |-> op.value, txn |-> lastTxn, format |-> primary]
             stale == {}
             n == op.written + 1
  <1>1. \/ ProgramSucceeds(a, e, stale) /\ (op' = Returning("OK") \/ op' = [op EXCEPT !.written = n])
        \/ ProgramFails(a, e)
    BY DEF WriteCopy
  <1>2. a = op.reserved[op.written + 1]
    OBVIOUS
  <1> HIDE DEF a, e, stale, n
  <1>3. a[1] \in Sectors /\ op.pc # "off"
    BY <1>0, <1>2, WritingPlace
  <1> QED  BY <1>0, <1>1, <1>2, <1>3, WritesOn, ProgramFailsFree

\* The copies of an entry in the new format.
LEMMA ConvertEntryFree ==
    ASSUME KvsInv, FreeSectorInv, ConvertEntry
    PROVE  FreeSectorInv'
  <1>0. op.pc = "convert"
    BY DEF ConvertEntry
  <1> DEFINE a == op.reserved[op.written + 1]
             d == cache[op.key]
             intact == /\ Readable(op.source)
                       /\ SlotAt(op.source).key = op.key /\ SlotAt(op.source).value = d.value
             e == IF intact THEN [key |-> op.key, value |-> d.value, txn |-> lastTxn, format |-> primary] ELSE Corrupt
             stale == IF op.written = 0 THEN SectorsOf(d.addresses) ELSE {}
             n == op.written + 1
  <1>1. \/ ProgramSucceeds(a, e, stale) /\ (op' = Settled("update") \/ op' = [op EXCEPT !.written = n])
        \/ error' /\ sectors' = [sectors EXCEPT ![a[1]] = MarkCorrupt(@)]
        \/ ProgramFails(a, e)
    BY DEF ConvertEntry
  <1>2. a = op.reserved[op.written + 1]
    OBVIOUS
  <1> HIDE DEF a, e, stale, n
  <1>3. a[1] \in Sectors /\ op.pc # "off"
    BY <1>0, <1>2, WritingPlace
  <1> QED  BY <1>0, <1>1, <1>2, <1>3, WritesOn, ProgramFailsFree, CorruptFree

\* AddRedundantEntries.
LEMMA AddRedundantEntryFree ==
    ASSUME KvsInv, FreeSectorInv, AddRedundantEntry
    PROVE  FreeSectorInv'
  <1>0. op.pc = "fill" /\ ~Collects(op)
    BY DEF AddRedundantEntry, Collects
  <1> DEFINE a == Last(op.reserved)
             e == SlotAt(op.reserved[1])
             stale == {}
             pc == "redundancy"
             o == [op EXCEPT !.pc = "reserve"]
  <1>1. \/ ProgramSucceeds(a, e, stale) /\ (op' = o \/ op' = Settled(pc))
        \/ ProgramFails(a, e)
    BY DEF AddRedundantEntry
  <1>2. /\ op.pc # "off" /\ op.then = "fill" /\ op.reserved \in Seq(Addresses)
        /\ Len(op.reserved) = Len(cache[op.key].addresses) + 1 /\ Len(cache[op.key].addresses) \in Nat
        /\ Room(flash, sectors, a) /\ a = op.reserved[Len(op.reserved)] /\ DOMAIN op = Fields
    BY <1>0, FillingFacts
  <1>3. Len(op.reserved) \in DOMAIN op.reserved
    BY <1>2
  <1>4. pc \in {"redundancy", "update"} /\ pc = "redundancy"
    OBVIOUS
  <1> HIDE DEF a, e, stale, pc
  <1>5. a[1] \in SectorsOf(op.reserved) /\ a[1] \in Sectors
    BY <1>2, <1>3, SectorsOfMember DEF Room, Addresses
  <1>6. CASE ProgramSucceeds(a, e, stale) /\ op' = o
    <2>1. o.pc = "reserve" /\ o.reserved = op.reserved /\ o.then = op.then /\ o.status = op.status
      BY <1>2 DEF Fields
    <2> HIDE DEF o
    <2> QED  BY <1>0, <1>2, <1>5, <1>6, <2>1, ProgramFree DEF Collects, Fixing
  <1>7. CASE ProgramSucceeds(a, e, stale) /\ op' = Settled(pc)
    <2>1. AtRest(op') /\ op'.pc = "redundancy" /\ op'.status = op.status
      BY <1>2, <1>4, <1>7, SettledRests
    <2> QED  BY <1>0, <1>2, <1>5, <1>7, <2>1, ProgramFree DEF AtRest, Fixing
  <1>8. CASE ProgramFails(a, e)
    BY <1>2, <1>5, <1>8, ProgramFailsFree
  <1> QED  BY <1>1, <1>6, <1>7, <1>8

\* RelocateEntry, with its choice of a sector.
LEMMA RelocateCases ==
    ASSUME KvsInv, NEW k \in Keys, RelocateEntry(k)
    PROVE  \E i, a, e :
             /\ cache[k] # NoEntry /\ i \in DOMAIN cache[k].addresses /\ cache[k].addresses[i][1] = op.gc
             /\ \/ /\ Find("gc", SectorsOf(cache[k].addresses) \cup SectorsOf(op.reserved)).sector = NoSector
                   /\ op' = Collected("RESOURCE_EXHAUSTED")
                   /\ UNCHANGED <<cache, sectors, error>>
                \/ /\ Room(flash, sectors, a) /\ a[1] \notin SectorsOf(cache[k].addresses)
                   /\ ProgramSucceeds(a, e, {op.gc})
                   /\ cache' = [cache EXCEPT ![k].addresses[i] = a] /\ op' = op
                \/ Room(flash, sectors, a) /\ ProgramFails(a, e)
  <1>0. op.pc = "relocate" /\ op.pc # "off" /\ InCollected(k) # {}
    BY DEF RelocateEntry
  <1>1. flash \in Flash /\ lastNew \in Sectors /\ SectorInv(flash, cache, sectors)
    BY <1>0, InvFacts
  <1> DEFINE A == cache[k].addresses
             i == CHOOSE j \in InCollected(k) : TRUE
             skip == SectorsOf(A) \cup SectorsOf(op.reserved)
             mode == "gc"
             found == Find(mode, skip)
             a == NextWritableAddress(found.sector)
             e == SlotAt(A[1])
  <1>2. i \in InCollected(k)
    BY <1>0
  <1>3. i \in DOMAIN A /\ A[i][1] = op.gc
    BY <1>2 DEF InCollected
  <1>4. cache[k] # NoEntry
    <2>1. DOMAIN <<>> = {}
      OBVIOUS
    <2> HIDE DEF i
    <2> QED  BY <1>3, <2>1, NoEntryFacts
  <1>5. found.sector # NoSector => Room(flash, sectors, a) /\ a[1] \notin skip
    <2>1. found = Find(mode, skip)
      OBVIOUS
    <2> HIDE DEF found, mode, skip
    <2> QED  BY <1>1, <2>1, FindFacts
  <1>6. \/ /\ found.sector = NoSector
           /\ op' = Collected("RESOURCE_EXHAUSTED")
           /\ UNCHANGED <<cache, sectors, error>>
        \/ /\ found.sector # NoSector
           /\ ProgramSucceeds(a, e, {op.gc})
           /\ cache' = [cache EXCEPT ![k].addresses[i] = a] /\ op' = op
        \/ found.sector # NoSector /\ ProgramFails(a, e)
    BY DEF RelocateEntry, ReservedSectors
  <1>7. found.sector = NoSector =>
          Find("gc", SectorsOf(cache[k].addresses) \cup SectorsOf(op.reserved)).sector = NoSector
    OBVIOUS
  <1>8. a[1] \notin skip => a[1] \notin SectorsOf(cache[k].addresses)
    OBVIOUS
  <1> HIDE DEF i, found, e, skip, mode, a
  <1> WITNESS i, a, e
  <1> QED  BY <1>3, <1>4, <1>5, <1>6, <1>7, <1>8

\* One entry less is left in the sector collected, and the room another sector
\* had for all of them is enough for the others.
LEMMA TakesOn ==
    ASSUME flash \in Flash, CacheInv(flash, cache, red), SectorInv(flash, cache, sectors), op.gc \in Sectors,
           NEW k \in Keys, NEW i, cache[k] # NoEntry, i \in DOMAIN cache[k].addresses, cache[k].addresses[i][1] = op.gc,
           NEW a, Room(flash, sectors, a), a[1] \notin SectorsOf(cache[k].addresses),
           NEW e, ProgramSucceeds(a, e, {op.gc}), cache' = [cache EXCEPT ![k].addresses[i] = a],
           NEW y, Takes(sectors, cache, op, y)
    PROVE  Takes(sectors', cache', op, y)
  <1> DEFINE g == op.gc
             A == cache[k].addresses
             B == [A EXCEPT ![i] = a]
             c == Cardinality(Copies(cache, g))
             n == Cardinality(Copies(cache', g))
  <1>1. A \in Seq(Addresses) /\ Apart(A)
    <2>1. A \in Seq(Addresses) /\ Lists(flash, k, cache[k], red)
      BY DescriptorFacts
    <2> QED  BY <2>1 DEF Lists
  <1>2. a \in Addresses /\ a[1] \in Sectors /\ sectors[a[1]].writable >= 1
    BY DEF Room, Addresses
  <1>3. SectorsOf(B) = (SectorsOf(A) \ {g}) \cup {a[1]} /\ g \in SectorsOf(A)
    <2> HIDE DEF A
    <2>1. SectorsOf(B) = (SectorsOf(A) \ {A[i][1]}) \cup {a[1]} /\ A[i][1] \in SectorsOf(A)
      BY <1>1, <1>2, SectorsOfMove DEF A
    <2> QED  BY <2>1 DEF A
  <1>4. a[1] # g
    BY <1>3
  <1>5. cache'[k].addresses = B /\ \A l \in Keys : l # k => cache'[l] = cache[l]
    <2> DEFINE d == [value |-> cache[k].value, txn |-> cache[k].txn, addresses |-> B]
    <2>1. Readdressed(cache', cache, k, B)
      BY DEF Readdressed
    <2>2. cache' = [cache EXCEPT ![k] = d]
      <3> HIDE DEF B, A
      <3> QED  BY <2>1, NewAddresses
    <2>3. d.addresses = B
      OBVIOUS
    <2> HIDE DEF d, B
    <2>4. cache'[k] = d /\ \A l \in Keys : l # k => cache'[l] = cache[l]
      BY <2>2, OneChanged
    <2> QED  BY <2>3, <2>4
  <1> HIDE DEF B
  <1>6. k \in Copies(cache, g) /\ Copies(cache', g) = Copies(cache, g) \ {k}
    <2>1. k \in Copies(cache, g)
      BY <1>3 DEF Copies
    <2>2. k \notin Copies(cache', g)
      BY <1>3, <1>4, <1>5 DEF Copies
    <2>3. \A l \in Keys : l # k => (l \in Copies(cache', g) <=> l \in Copies(cache, g))
      BY <1>5 DEF Copies
    <2>4. Copies(cache', g) \subseteq Keys /\ Copies(cache, g) \subseteq Keys
      BY DEF Copies
    <2> QED  BY <2>1, <2>2, <2>3, <2>4
  <1>7. c \in Nat /\ n = c - 1
    <2>1. IsFiniteSet(Copies(cache, g))
      BY SectorFacts
    <2> QED  BY <1>6, <2>1, FS_RemoveElement, FS_CardinalityType
  <1>8. y \in Sectors /\ y # g /\ y \notin SectorsOf(op.reserved) /\ sectors[y].writable >= c
        /\ \A l \in Copies(cache, g) : y \notin SectorsOf(cache[l].addresses)
    BY DEF Takes
  <1>9. sectors'[y].writable = IF y = a[1] THEN sectors[y].writable - 1 ELSE sectors[y].writable
    <2> DEFINE stale == {op.gc}
    <2>1. sectors' = Accounted(a[1], stale)
      BY DEF ProgramSucceeds
    <2> HIDE DEF stale
    <2> QED  BY <1>2, <1>8, <2>1, AccountedRoom
  <1>10. sectors[y].writable \in Int
    <2>1. sectors[y].writable \in -1..Slots /\ Slots \in Nat
      BY <1>8, SectorFacts
    <2> QED  BY <2>1
  <1>11. sectors'[y].writable >= n
    <2> HIDE DEF n, c
    <2> QED  BY <1>7, <1>8, <1>9, <1>10
  <1>12. \A l \in Copies(cache', g) : y \notin SectorsOf(cache'[l].addresses)
    <2> SUFFICES ASSUME NEW l \in Copies(cache', g) PROVE y \notin SectorsOf(cache'[l].addresses)
      OBVIOUS
    <2>1. l \in Copies(cache, g) /\ l # k /\ l \in Keys
      BY <1>6 DEF Copies
    <2> QED  BY <1>5, <1>8, <2>1
  <1> QED  BY <1>8, <1>11, <1>12 DEF Takes

\* RelocateEntry.
LEMMA RelocateEntryFree ==
    ASSUME KvsInv, FreeSectorInv, NEW k \in Keys, RelocateEntry(k)
    PROVE  FreeSectorInv'
  <1>0. op.pc = "relocate" /\ op.pc # "off" /\ Collects(op)
    BY DEF RelocateEntry, Collects
  <1>1. PICK i, a, e :
             /\ cache[k] # NoEntry /\ i \in DOMAIN cache[k].addresses /\ cache[k].addresses[i][1] = op.gc
             /\ \/ /\ Find("gc", SectorsOf(cache[k].addresses) \cup SectorsOf(op.reserved)).sector = NoSector
                   /\ op' = Collected("RESOURCE_EXHAUSTED")
                   /\ UNCHANGED <<cache, sectors, error>>
                \/ /\ Room(flash, sectors, a) /\ a[1] \notin SectorsOf(cache[k].addresses)
                   /\ ProgramSucceeds(a, e, {op.gc})
                   /\ cache' = [cache EXCEPT ![k].addresses[i] = a] /\ op' = op
                \/ Room(flash, sectors, a) /\ ProgramFails(a, e)
    BY RelocateCases
  <1>2. /\ flash \in Flash /\ CacheInv(flash, cache, red) /\ SectorInv(flash, cache, sectors) /\ lastNew \in Sectors
        /\ op.gc \in Sectors /\ FreeInv(sectors, cache, op, error)
    BY <1>0, InvFacts, CollectingFacts DEF FreeSectorInv
  <1>3. CASE /\ Find("gc", SectorsOf(cache[k].addresses) \cup SectorsOf(op.reserved)).sector = NoSector
             /\ op' = Collected("RESOURCE_EXHAUSTED")
             /\ UNCHANGED <<cache, sectors, error>>
    <2> DEFINE status == "RESOURCE_EXHAUSTED"
               skip == SectorsOf(cache[k].addresses) \cup SectorsOf(op.reserved)
    <2>1. status # "OK" /\ op' = Collected(status)
      BY <1>3
    <2> HIDE DEF status
    <2>2. ~Collects(op') /\ ~Fixing(op') /\ (op'.pc \in {"repair", "free"} => op.caller = "repair")
      BY <1>0, <2>1, CollectedGoesOn
    <2>3. ASSUME Sound(sectors, op', error) PROVE FALSE
      <3>1. Sound(sectors, op, error)
        BY <2>2, <2>3 DEF Sound
      <3>2. PICK y : Takes(sectors, cache, op, y)
        BY <1>0, <1>2, <3>1 DEF FreeInv, Spare
      <3>3. k \in Copies(cache, op.gc)
        <4>1. cache[k].addresses \in Seq(Addresses)
          BY <1>1, <1>2, DescriptorFacts
        <4> QED  BY <1>1, <4>1, SectorsOfMember DEF Copies
      <3>4. Cardinality(Copies(cache, op.gc)) >= 1
        <4>1. IsFiniteSet(Copies(cache, op.gc))
          BY <1>2, SectorFacts
        <4>2. Cardinality(Copies(cache, op.gc)) \in Nat /\ Cardinality(Copies(cache, op.gc)) # 0
          BY <3>3, <4>1, FS_EmptySet, FS_CardinalityType
        <4> QED  BY <4>2
      <3>5. /\ y \in Sectors /\ sectors[y].writable >= Cardinality(Copies(cache, op.gc))
            /\ y \notin skip
        BY <3>2, <3>3 DEF Takes
      <3>6. sectors[y].writable \in Int /\ Cardinality(Copies(cache, op.gc)) \in Nat
        <4>1. sectors[y].writable \in -1..Slots /\ Slots \in Nat
          BY <1>2, <3>5, SectorFacts
        <4>2. IsFiniteSet(Copies(cache, op.gc))
          BY <1>2, SectorFacts
        <4> QED  BY <4>1, <4>2, FS_CardinalityType
      <3>7. sectors[y].writable >= 1
        BY <3>4, <3>5, <3>6
      <3>8. Find("gc", skip).sector = NoSector
        BY <1>3
      <3> HIDE DEF skip
      <3> QED  BY <1>2, <3>5, <3>7, <3>8, FindForGc
    <2>4. Repairs(op') => error
      BY <1>0, <1>2, <2>2 DEF FreeInv, Repairs
    <2>5. FreeInv(sectors, cache, op', error)
      BY <2>3, <2>4 DEF FreeInv
    <2> QED  BY <1>3, <2>5 DEF FreeSectorInv
  <1>4. CASE /\ Room(flash, sectors, a) /\ a[1] \notin SectorsOf(cache[k].addresses)
             /\ ProgramSucceeds(a, e, {op.gc})
             /\ cache' = [cache EXCEPT ![k].addresses[i] = a] /\ op' = op
    <2> DEFINE stale == {op.gc}
    <2>1. sectors' = Accounted(a[1], stale) /\ error' = error
      BY <1>4 DEF ProgramSucceeds
    <2>2. a[1] \in Sectors /\ sectors[a[1]].writable >= 1
      BY <1>4 DEF Room, Addresses
    <2>3. \A u \in Sectors : sectors'[u].writable = IF u = a[1] THEN sectors[u].writable - 1 ELSE sectors[u].writable
      <3> HIDE DEF stale
      <3> QED  BY <1>2, <2>1, <2>2, AccountedRoom
    <2>4. ASSUME Sound(sectors', op, error) PROVE \E y : Takes(sectors', cache', op, y)
      <3>1. \A u \in Sectors : sectors[u].writable # -1
        <4> SUFFICES ASSUME NEW u \in Sectors PROVE sectors[u].writable # -1
          OBVIOUS
        <4>1. sectors[u].writable >= 1 => sectors[u].writable # -1
          OBVIOUS
        <4> QED  BY <2>2, <2>3, <2>4, <4>1 DEF Sound
      <3>2. Sound(sectors, op, error)
        BY <2>4, <3>1 DEF Sound
      <3>3. PICK y : Takes(sectors, cache, op, y)
        BY <1>0, <1>2, <3>2 DEF FreeInv, Spare
      <3>4. Takes(sectors', cache', op, y)
        BY <1>1, <1>2, <1>4, <3>3, TakesOn
      <3> QED  BY <3>4
    <2>5. FreeInv(sectors', cache', op, error)
      BY <1>0, <1>2, <2>4 DEF FreeInv, Spare
    <2> QED  BY <1>4, <2>1, <2>5 DEF FreeSectorInv
  <1>5. CASE Room(flash, sectors, a) /\ ProgramFails(a, e)
    <2>1. a[1] \in Sectors
      BY <1>5 DEF Room, Addresses
    <2> QED  BY <1>0, <1>5, <2>1, ProgramFailsFree
  <1> QED  BY <1>1, <1>3, <1>4, <1>5

\* Relocated: nothing is left in the sector.
LEMMA RelocatedFree ==
    ASSUME KvsInv, FreeSectorInv, Relocated
    PROVE  FreeSectorInv'
  <1>0. op.pc = "relocate" /\ op.pc # "off" /\ Collects(op) /\ UNCHANGED <<flash, cache, sectors, error>>
    BY DEF Relocated, ram, Collects
  <1>1. /\ flash \in Flash /\ CacheInv(flash, cache, red) /\ SectorInv(flash, cache, sectors)
        /\ op.gc \in Sectors /\ FreeInv(sectors, cache, op, error) /\ DOMAIN op = Fields
    BY <1>0, InvFacts, CollectingFacts DEF FreeSectorInv
  <1>2. Copies(cache, op.gc) = {}
    <2> SUFFICES ASSUME NEW k \in Copies(cache, op.gc) PROVE FALSE
      OBVIOUS
    <2>1. k \in Keys /\ op.gc \in SectorsOf(cache[k].addresses)
      BY DEF Copies
    <2>2. InCollected(k) # {}
      BY <2>1 DEF SectorsOf, Range, InCollected
    <2> QED  BY <2>1, <2>2 DEF Relocated
  <1>3. sectors[op.gc].valid = 0
    <2>1. sectors[op.gc].valid = Cardinality(Copies(cache, op.gc))
      BY <1>1, SectorFacts
    <2> QED  BY <1>2, <2>1, FS_EmptySet
  <1> DEFINE o == [op EXCEPT !.pc = "erase"]
  <1>4. op' = o
    BY <1>3 DEF Relocated
  <1>5. o.pc = "erase" /\ o.caller = op.caller
    BY <1>1 DEF Fields
  <1> HIDE DEF o
  <1>6. FreeInv(sectors, cache, o, error)
    BY <1>0, <1>1, <1>5 DEF FreeInv, Spare, Repairs, Collects
  <1> QED  BY <1>0, <1>4, <1>6 DEF FreeSectorInv

\* The sector collected is the empty one once it is erased.
LEMMA EraseSectorFree ==
    ASSUME KvsInv, FreeSectorInv, EraseSector
    PROVE  FreeSectorInv'
  <1>0. op.pc = "erase" /\ op.pc # "off" /\ Collects(op) /\ cache' = cache /\ error' = error
    BY DEF EraseSector, Collects
  <1> DEFINE s == op.gc
  <1>1. /\ flash \in Flash /\ CacheInv(flash, cache, red) /\ SectorInv(flash, cache, sectors)
        /\ s \in Sectors /\ s \notin SectorsOf(op.reserved) /\ FreeInv(sectors, cache, op, error)
    BY <1>0, InvFacts, CollectingFacts DEF FreeSectorInv
  <1>2. \/ /\ op' = Collected("OK") /\ Empty(s) /\ sectors' = sectors
        \/ /\ op' = Collected("OK") /\ sectors' = [sectors EXCEPT ![s].writable = Slots]
        \/ /\ op' = Collected("INTERNAL") /\ sectors' = [sectors EXCEPT ![s] = MarkCorrupt(@)]
    BY DEF EraseSector
  <1> HIDE DEF s
  <1>3. \E status : op' = Collected(status)
    BY <1>2
  <1>4. /\ ~Collects(op') /\ SectorsOf(op'.reserved) \subseteq SectorsOf(op.reserved)
        /\ op'.pc \in {"repair", "free"} => op.caller = "repair"
    BY <1>0, <1>3, CollectedGoesOn
  <1>5. Repairs(op') => error'
    BY <1>0, <1>1, <1>4 DEF FreeInv, Repairs
  <1>6. CASE sectors' = [sectors EXCEPT ![s] = MarkCorrupt(@)]
    BY <1>0, <1>1, <1>5, <1>6, CorruptFree
  <1>7. CASE (Empty(s) /\ sectors' = sectors) \/ sectors' = [sectors EXCEPT ![s].writable = Slots]
    <2>1. sectors'[s].writable = Slots
      <3>1. CASE Empty(s) /\ sectors' = sectors
        BY <1>1, <3>1, RecoverableFacts
      <3>2. CASE sectors' = [sectors EXCEPT ![s].writable = Slots]
        <4>1. sectors \in [Sectors -> [writable : -1..Slots, valid : Nat]]
          BY <1>1 DEF SectorInv
        <4> QED  BY <1>1, <3>2, <4>1
      <3> QED  BY <1>7, <3>1, <3>2
    <2>2. Unused(sectors', op', s)
      BY <1>1, <1>4, <2>1 DEF Unused
    <2>3. Spare(sectors', cache', op')
      BY <1>4, <2>2 DEF Spare, Collects
    <2> QED  BY <1>5, <2>3 DEF FreeSectorInv, FreeInv
  <1> QED  BY <1>2, <1>6, <1>7

\* A step of a repair that has not got past EnsureFreeSectorExists.
LEMMA RepairsOn ==
    ASSUME FreeSectorInv, op.pc \in {"repair", "free"}, error' = error, ~Fixing(op')
    PROVE  FreeSectorInv'
  <1>1. error
    BY DEF FreeSectorInv, FreeInv, Repairs
  <1>2. ~Sound(sectors', op', error')
    BY <1>1 DEF Sound
  <1> QED  BY <1>1, <1>2 DEF FreeSectorInv, FreeInv

\* RepairCorruptSectors.
LEMMA RepairCorruptSectorsFree ==
    ASSUME KvsInv, FreeSectorInv, RepairCorruptSectors
    PROVE  FreeSectorInv'
  <1>0. op.pc = "repair" /\ op.pc \in Loops /\ error' = error
    BY DEF RepairCorruptSectors, ram, Loops
  <1>1. DOMAIN op = Fields /\ op.then = "none"
    BY <1>0, LoopFacts
  <1> DEFINE corrupt == {s \in Sectors : s >= op.cursor /\ IsCorrupt(s)}
             s == CHOOSE t \in corrupt : \A u \in corrupt : t <= u
             c == s + 1
             x == IF op.status = "RESOURCE_EXHAUSTED" THEN "OK" ELSE op.status
             p == CollectSector(s, "repair")
             collecting == [p EXCEPT !.cursor = c]
             again == [op EXCEPT !.cursor = 0, !.pass = 2, !.status = x]
             onward == [op EXCEPT !.pc = "free", !.cursor = 0, !.pass = 0]
  <1>2. op' = collecting \/ op' = again \/ op' = onward
    BY <1>1 DEF RepairCorruptSectors, Fields
  <1> HIDE DEF s, c, x
  <1>3. p.pc \in {"relocate", "erase"} /\ p.then = op.then /\ DOMAIN p = Fields
    BY <1>1 DEF CollectSector, Fields
  <1> HIDE DEF p
  <1>4. /\ collecting.pc \in {"relocate", "erase"} /\ collecting.then = op.then
        /\ again.pc = op.pc /\ again.then = op.then
        /\ onward.pc = "free" /\ onward.then = op.then
    BY <1>1, <1>3 DEF Fields
  <1> HIDE DEF collecting, again, onward
  <1>5. ~Fixing(op')
    BY <1>0, <1>1, <1>2, <1>4 DEF Fixing
  <1> QED  BY <1>0, <1>5, RepairsOn

\* EnsureFreeSectorExists: there is one, or a sector is collected, or it fails.
LEMMA EnsureFreeSectorExistsFree ==
    ASSUME KvsInv, FreeSectorInv, EnsureFreeSectorExists
    PROVE  FreeSectorInv'
  <1>0. op.pc = "free" /\ op.pc \in Loops /\ UNCHANGED <<flash, cache, sectors, error>>
    BY DEF EnsureFreeSectorExists, ram, Loops
  <1>1. DOMAIN op = Fields /\ op.then = "none" /\ op.reserved = <<>> /\ op.pc # "off"
    BY <1>0, LoopFacts
  <1> DEFINE garbage == FindSectorToGarbageCollect({})
             C == Cached
             x == FirstError("NOT_FOUND")
             onward == [op EXCEPT !.pc = "redundancy", !.todo = C]
             failed == [onward EXCEPT !.status = x]
             collecting == CollectSector(garbage, "free")
  <1>2. \/ (\E s \in Sectors : Empty(s)) /\ op' = onward
        \/ op' = failed
        \/ op' = collecting
    BY DEF EnsureFreeSectorExists
  <1>3. x # "OK"
    BY DEF FirstError
  <1> HIDE DEF garbage, x, C
  <1>4. /\ DOMAIN onward = Fields /\ onward.pc = "redundancy" /\ onward.then = op.then /\ onward.reserved = op.reserved
        /\ collecting.pc \in {"relocate", "erase"} /\ collecting.then = op.then
    BY <1>1 DEF CollectSector, Fields
  <1> HIDE DEF onward, collecting
  <1>5. failed.status = x /\ failed.then = op.then
    BY <1>4 DEF Fields
  <1> HIDE DEF failed
  <1>6. CASE op' = failed \/ op' = collecting
    <2>1. ~Fixing(op')
      BY <1>1, <1>3, <1>4, <1>5, <1>6 DEF Fixing
    <2> QED  BY <1>0, <2>1, RepairsOn
  <1>7. CASE (\E s \in Sectors : Empty(s)) /\ op' = onward
    <2>1. PICK s \in Sectors : Empty(s)
      BY <1>7
    <2>2. flash \in Flash /\ CacheInv(flash, cache, red) /\ SectorInv(flash, cache, sectors)
      BY <1>1, InvFacts
    <2>3. sectors[s].writable = Slots
      BY <2>1, <2>2, RecoverableFacts
    <2>4. Unused(sectors, onward, s)
      BY <1>1, <1>4, <2>3, NoEntryFacts DEF Unused
    <2>5. FreeInv(sectors, cache, onward, error)
      BY <1>4, <2>4 DEF FreeInv, Spare, Repairs, Collects
    <2> QED  BY <1>0, <1>7, <2>5 DEF FreeSectorInv
  <1> QED  BY <1>2, <1>6, <1>7

\* EnsureEntryRedundancy: the sectors of the copies there are are not empty.
LEMMA EnsureEntryRedundancyFree ==
    ASSUME KvsInv, FreeSectorInv, NEW k \in Keys, EnsureEntryRedundancy(k)
    PROVE  FreeSectorInv'
  <1>0. op.pc = "redundancy" /\ op.pc \in Loops /\ UNCHANGED <<flash, cache, sectors, error>>
    BY DEF EnsureEntryRedundancy, ram, Loops
  <1>1. op.pc # "off" /\ op.then = "none" /\ DOMAIN op = Fields
    BY <1>0, LoopFacts
  <1>2. flash \in Flash /\ CacheInv(flash, cache, red) /\ SectorInv(flash, cache, sectors)
    BY <1>1, InvFacts
  <1> DEFINE A == cache[k].addresses
             todo == op.todo \ {k}
             o == [op EXCEPT !.pc = "reserve", !.then = "fill", !.key = k, !.todo = todo, !.reserved = A]
  <1>3. op' = o
    BY <1>1 DEF EnsureEntryRedundancy, Fields
  <1> HIDE DEF A, todo
  <1>4. o.pc = "reserve" /\ o.then = "fill" /\ o.reserved = A /\ o.status = op.status
    BY <1>1 DEF Fields
  <1> HIDE DEF o
  <1>5. ASSUME Sound(sectors, o, error) PROVE \E y : Unused(sectors, o, y)
    <2>1. Sound(sectors, op, error)
      BY <1>0, <1>4, <1>5 DEF Sound, Fixing
    <2>2. PICK y : Unused(sectors, op, y)
      BY <1>0, <1>1, <2>1 DEF FreeSectorInv, FreeInv, Spare, Collects
    <2>3. y \in Sectors /\ sectors[y].writable = Slots
      BY <2>2 DEF Unused
    <2>4. Copies(cache, y) = {}
      BY <1>2, <2>3, EmptyHasNone
    <2>5. y \notin SectorsOf(A)
      BY <2>4 DEF Copies, A
    <2> QED  BY <1>4, <2>3, <2>5 DEF Unused
  <1>6. FreeInv(sectors, cache, o, error)
    BY <1>4, <1>5 DEF FreeInv, Spare, Repairs, Collects
  <1> QED  BY <1>0, <1>3, <1>6 DEF FreeSectorInv

\* The end of FixErrors.
LEMMA ErrorsFixedFree ==
    ASSUME KvsInv, Progress(op), FreeSectorInv, ErrorsFixed
    PROVE  FreeSectorInv'
  <1>0. op.pc = "redundancy" /\ op.pc \in Loops /\ UNCHANGED <<flash, cache, sectors>> /\ ~Collects(op)
    BY DEF ErrorsFixed, Loops, Collects
  <1>1. DOMAIN op = Fields /\ op.pc # "off" /\ op.task # "Write" /\ op.reserved = <<>>
    BY <1>0, LoopFacts
  <1>2. op.task \in {"Init", "FullMaintenance", "PartialMaintenance"}
    BY <1>0, <1>1 DEF Progress
  <1>3. CASE op.status # "OK"
    <2>1. error' = error /\ \E x : op' = Returning(x)
      BY <1>3 DEF ErrorsFixed
    <2> QED  BY <1>0, <1>1, <2>1, ReturningFree
  <1>4. CASE op.status = "OK"
    <2> DEFINE C == Cached
               o == [op EXCEPT !.pc = "update", !.todo = C]
               p == [op EXCEPT !.pc = "partial", !.todo = {}]
    <2>1. ~error' /\ ((\E x : op' = Returning(x)) \/ op' = o \/ op' = p)
      BY <1>2, <1>4 DEF ErrorsFixed
    <2> HIDE DEF C
    <2>2. o.pc = "update" /\ o.reserved = op.reserved /\ p.pc = "partial" /\ p.reserved = op.reserved
      BY <1>1 DEF Fields
    <2> HIDE DEF o, p
    <2>3. SectorsOf(op.reserved) = {}
      BY <1>1, NoEntryFacts
    <2>4. ~Collects(op') /\ SectorsOf(op'.reserved) = {} /\ op'.pc \notin {"repair", "free"}
      <3>1. CASE \E x : op' = Returning(x)
        BY <3>1, ReturningRests DEF AtRest
      <3>2. CASE op' = o \/ op' = p
        BY <2>2, <2>3, <3>2 DEF Collects
      <3> QED  BY <2>1, <3>1, <3>2
    <2>5. Sound(sectors, op', error') => Sound(sectors, op, error)
      BY <1>0, <1>4 DEF Sound, Fixing
    <2>6. FreeInv(sectors, cache, op, error)
      BY <1>1 DEF FreeSectorInv
    <2>7. FreeInv(sectors, cache', op', error')
      BY <1>0, <2>4, <2>5, <2>6, SpareStays
    <2> QED  BY <1>0, <2>7 DEF FreeSectorInv
  <1> QED  BY <1>3, <1>4

\* Init(): without an error there is an empty sector.
LEMMA BootFree ==
    ASSUME KvsInv, Boot
    PROVE  FreeSectorInv'
  <1>0. InitializeMetadata(0, FALSE)
    BY DEF Boot
  <1> DEFINE o == [Idle EXCEPT !.pc = "return", !.task = "Init"]
             p == [Idle EXCEPT !.pc = "return", !.task = "Init", !.status = "DATA_LOSS"]
             q == FixErrors("Init")
  <1>1. (~error' /\ op' = o) \/ (error' /\ (op' = p \/ op' = q))
    BY DEF Boot
  <1>2. /\ o.pc = "return" /\ o.then = "none" /\ o.reserved = <<>>
        /\ p.pc = "return" /\ p.then = "none"
    BY IdleFacts DEF Fields
  <1>3. q.pc = "repair" /\ q.then = "none"
    BY FixErrorsFacts
  <1> HIDE DEF o, p, q
  <1>4. CASE error' /\ (op' = p \/ op' = q)
    <2>1. ~Fixing(op')
      BY <1>2, <1>3, <1>4 DEF Fixing
    <2>2. ~Sound(sectors', op', error')
      BY <1>4, <2>1 DEF Sound
    <2> QED  BY <1>4, <2>2 DEF FreeSectorInv, FreeInv
  <1>5. CASE ~error' /\ op' = o
    <2>1. Scan.bad = {} /\ \E s \in Sectors : flash[s] = <<>>
      BY <1>0, <1>5 DEF InitializeMetadata
    <2>2. PICK s \in Sectors : flash[s] = <<>>
      BY <2>1
    <2>3. sectors'[s].writable = (IF s \in Scan.bad THEN kCorruptSector ELSE Slots - Len(flash[s]))
      BY <1>0 DEF InitializeMetadata
    <2>4. Slots \in Nat /\ Len(flash[s]) = 0
      BY <2>2, KvsAssumption
    <2>5. Slots - Len(flash[s]) = Slots
      BY <2>4
    <2>6. sectors'[s].writable = Slots
      BY <2>1, <2>3, <2>5
    <2>7. Unused(sectors', op', s)
      BY <1>2, <1>5, <2>6, NoEntryFacts DEF Unused
    <2>8. FreeInv(sectors', cache', op', error')
      BY <1>2, <1>5, <2>7 DEF FreeInv, Spare, Repairs, Collects
    <2> QED  BY <2>8 DEF FreeSectorInv
  <1> QED  BY <1>1, <1>4, <1>5

\* FullMaintenance, HeavyMaintenance and PartialMaintenance.
LEMMA MaintenanceFree ==
    ASSUME KvsInv, FreeSectorInv, NEW task \in {"FullMaintenance", "PartialMaintenance"}, NEW repairs, NEW heavy,
           Maintenance(task, repairs, heavy)
    PROVE  FreeSectorInv'
  <1>0. op.pc = "idle" /\ op.pc # "off" /\ ~Collects(op)
    BY DEF Maintenance, Collects
  <1>1. FreeInv(sectors, cache, op, error)
    BY <1>0 DEF FreeSectorInv
  <1> DEFINE todo == IF task = "FullMaintenance" THEN Cached ELSE {}
             pc == IF task = "FullMaintenance" THEN "update" ELSE "partial"
             f == FixErrors(task)
             o == [f EXCEPT !.heavy = heavy]
             p == [Idle EXCEPT !.pc = pc, !.task = task, !.heavy = heavy, !.todo = todo]
  <1>2. \/ error' /\ op' = o
        \/ op' = p /\ sectors' = sectors /\ error' = ErrorsFound
    BY DEF Maintenance, InitializeMetadata
  <1>3. pc \in {"update", "partial"}
    OBVIOUS
  <1> HIDE DEF todo, pc
  <1>4. CASE error' /\ op' = o
    <2>1. DOMAIN f = Fields /\ f.pc = "repair" /\ f.then = "none"
      BY FixErrorsFacts
    <2> HIDE DEF f
    <2>2. o.pc = "repair" /\ o.then = "none"
      BY <2>1 DEF Fields
    <2> HIDE DEF o
    <2>3. ~Sound(sectors', op', error')
      BY <1>4, <2>2 DEF Sound, Fixing
    <2> QED  BY <1>4, <2>3 DEF FreeSectorInv, FreeInv
  <1>5. CASE op' = p /\ sectors' = sectors /\ error' = ErrorsFound
    <2>1. p.pc = pc /\ p.then = "none" /\ p.reserved = <<>>
      BY IdleFacts DEF Fields
    <2> HIDE DEF p
    <2>2. ~Collects(p) /\ ~Fixing(p) /\ p.pc \notin {"repair", "free"}
      BY <1>3, <2>1 DEF Collects, Fixing
    <2>3. error => error'
      BY <1>5 DEF ErrorsFound
    <2>4. Sound(sectors, p, error') => Sound(sectors, op, error)
      BY <2>2, <2>3 DEF Sound
    <2>5. SectorsOf(p.reserved) \subseteq SectorsOf(op.reserved)
      BY <2>1, NoEntryFacts
    <2>6. FreeInv(sectors, cache', p, error')
      BY <1>0, <1>1, <2>2, <2>4, <2>5, SpareStays
    <2> QED  BY <1>5, <2>6 DEF FreeSectorInv
  <1> QED  BY <1>2, <1>4, <1>5

\* A step of a call.
LEMMA StepFree ==
    ASSUME KvsInv, Progress(op), FreeSectorInv, Step
    PROVE  FreeSectorInv'
  <1>1. CASE FindExisting \/ GetSectorForWrite \/ WriteEntry \/ WriteCopy
    BY <1>1, FindExistingFree, GetSectorForWriteFree, WriteEntryFree, WriteCopyFree
  <1>2. CASE (\E k \in Keys : RelocateEntry(k)) \/ Relocated \/ EraseSector
    BY <1>2, RelocateEntryFree, RelocatedFree, EraseSectorFree
  <1>3. CASE RepairCorruptSectors \/ EnsureFreeSectorExists \/ AddRedundantEntry \/ ErrorsFixed
    BY <1>3, RepairCorruptSectorsFree, EnsureFreeSectorExistsFree, AddRedundantEntryFree, ErrorsFixedFree
  <1>4. CASE (\E k \in Keys : EnsureEntryRedundancy(k)) \/ \E k \in Keys : UpdateEntry(k)
    BY <1>4, EnsureEntryRedundancyFree, UpdateEntryFree
  <1>5. CASE ConvertEntry \/ UpdateDone \/ Sweep \/ GarbageCollect \/ Return
    BY <1>5, ConvertEntryFree, UpdateDoneFree, SweepFree, GarbageCollectFree, ReturnFree
  <1> QED  BY <1>1, <1>2, <1>3, <1>4, <1>5 DEF Step

\* The free sector is kept by every step.
LEMMA NextFree ==
    ASSUME KvsInv, Progress(op), FreeSectorInv, [Next]_vars
    PROVE  FreeSectorInv'
  <1>1. CASE Step
    BY <1>1, StepFree
  <1>2. CASE (\E k \in Keys, v \in Values : PutBytes(k, v)) \/ \E k \in Keys : Delete(k)
    <2>1. PICK k, v : CallWrite(k, v)
      BY <1>2 DEF PutBytes, Delete
    <2> QED  BY <2>1, CallWriteFree
  <1>3. CASE FullMaintenance \/ HeavyMaintenance \/ PartialMaintenance
    <2>1. \E task \in {"FullMaintenance", "PartialMaintenance"} :
            \E repairs, heavy : Maintenance(task, repairs, heavy)
      BY <1>3 DEF FullMaintenance, HeavyMaintenance, PartialMaintenance
    <2> QED  BY <2>1, MaintenanceFree
  <1>4. CASE Boot
    BY <1>4, BootFree
  <1>5. CASE PowerLoss
    <2>1. op'.pc = "off"
      BY <1>5, IdleFacts DEF PowerLoss, Off, Fields
    <2> QED  BY <2>1 DEF FreeSectorInv
  <1>6. CASE UNCHANGED vars
    <2>1. UNCHANGED <<sectors, cache, op, error>>
      BY <1>6 DEF vars, ram
    <2> QED  BY <2>1 DEF FreeSectorInv
  <1> QED  BY <1>1, <1>2, <1>3, <1>4, <1>5, <1>6 DEF Next

\* A store at rest without an error has an empty sector.
LEMMA FreeSector ==
    ASSUME KvsInv, FreeSectorInv
    PROVE  FreeSectorKept
  <1> SUFFICES ASSUME op.pc = "idle", ~error, \A s \in Sectors : ~IsCorrupt(s)
               PROVE  \E s \in Sectors : Empty(s)
    BY DEF FreeSectorKept
  <1>1. flash \in Flash /\ CacheInv(flash, cache, red) /\ SectorInv(flash, cache, sectors) /\ op.pc # "off"
    BY InvFacts
  <1>2. Sound(sectors, op, error)
    BY <1>1, SectorFacts DEF Sound
  <1>3. PICK y : Unused(sectors, op, y)
    BY <1>1, <1>2 DEF FreeSectorInv, FreeInv, Spare, Collects
  <1>4. y \in Sectors /\ sectors[y].writable = Slots
    BY <1>3 DEF Unused
  <1> QED  BY <1>1, <1>4, RecoverableFacts

\* sectors.h: "Maintains the invariant that there is always at least 1 empty
\* sector".  Sectors::Find gives an append an empty sector only if there is
\* another one, and a garbage collection that takes the last one to relocate
\* into (GarbageCollectSector) gives one back by its erase: no write, failed
\* garbage collection, repair or maintenance leaves a store that has found no
\* error without a sector to collect into.
THEOREM FreeSectorStays ==
    ASSUME RoomForKeys, ConversionsVerified
    PROVE  Spec => []FreeSectorKept
  <1>1. Init => FreeSectorInv
    BY IdleFacts DEF Init, Off, Fields, FreeSectorInv
  <1>2. KvsInv /\ Progress(op) /\ FreeSectorInv /\ [Next]_vars => FreeSectorInv'
    BY NextFree
  <1>3. KvsInv /\ FreeSectorInv => FreeSectorKept
    BY FreeSector
  <1> QED  BY <1>1, <1>2, <1>3, Invariant, PTL DEF Spec

=============================================================================
