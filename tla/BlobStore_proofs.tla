-------------------------- MODULE BlobStore_proofs --------------------------
(***************************************************************************)
(* Proofs about the blob store.                                            *)
(*                                                                         *)
(* First the operations one by one, bottom up: the record updates, the     *)
(* flash and the key value store, CommitToFlash, Erase, Write, Flush, the  *)
(* steps of CloseWrite and LoadMetadata. Each lemma says what a call       *)
(* leaves of the store, whichever of its steps fails. Then BlobInv, that   *)
(* every action preserves it, and the properties that follow from it.      *)
(***************************************************************************)
EXTENDS BlobStore, SequenceTheorems, TLAPS

\* Data, cells and entries, for any size of the partition.
Byte == Bytes \X Nat
Cell == Byte \cup {Erased, Garbage}
Entries == [size : Nat, sum : Seq(Cell), name : {0, 1}]

\* The members of the store, the flash and the stored entry.
Stores ==
  [init : BOOLEAN, valid : BOOLEAN, erased : BOOLEAN, addr : Nat, buf : Seq(Byte),
   sum : Seq(Cell), name : {0, 1}, algo : BOOLEAN, flash : [Cells -> Cell],
   kvs : Entries, faults : Nat]

\* What an operation on the flash or on the data leaves alone.
SameEntry(st, t) == t.kvs = st.kvs /\ t.algo = st.algo /\ t.init = st.init /\ t.name = st.name

\* A store without a checksum is run on a flash that never fails.
NoFaults(st) == ~st.algo => st.faults >= MaxFaults

\* A byte of data is a cell, and is told from an erased one.
LEMMA ByteIsNotErased ==
    ASSUME NEW x \in Byte
    PROVE  x # Erased /\ x \in Cell
  BY DEF Byte, Cell, Erased

\* What the key value store answers when it has no metadata.
LEMMA NoMetadataType == NoMetadata \in Entries
  BY DEF NoMetadata, Entries

\* The record updates of the model, field by field. The later proofs use these
\* facts and never expand a record again.
LEMMA WithKvsFacts ==
    ASSUME NEW st \in Stores, NEW m \in Entries, NEW t, t = WithKvs(st, m)
    PROVE  /\ t \in Stores /\ t.kvs = m
           /\ t.init = st.init /\ t.valid = st.valid /\ t.erased = st.erased /\ t.addr = st.addr
           /\ t.buf = st.buf /\ t.sum = st.sum /\ t.name = st.name /\ t.algo = st.algo
           /\ t.flash = st.flash /\ t.faults = st.faults
  BY DEF Stores, WithKvs

\* Other cells.
LEMMA WithFlashFacts ==
    ASSUME NEW st \in Stores, NEW f \in [Cells -> Cell], NEW t, t = WithFlash(st, f)
    PROVE  /\ t \in Stores /\ t.flash = f /\ SameEntry(st, t)
           /\ t.valid = st.valid /\ t.erased = st.erased /\ t.addr = st.addr
           /\ t.buf = st.buf /\ t.sum = st.sum /\ t.faults = st.faults
  BY DEF Stores, WithFlash, SameEntry

\* Another write buffer.
LEMMA WithBufferFacts ==
    ASSUME NEW st \in Stores, NEW b \in Seq(Byte), NEW t, t = WithBuffer(st, b)
    PROVE  /\ t \in Stores /\ t.buf = b /\ SameEntry(st, t)
           /\ t.valid = st.valid /\ t.erased = st.erased /\ t.addr = st.addr
           /\ t.sum = st.sum /\ t.flash = st.flash /\ t.faults = st.faults
  BY DEF Stores, WithBuffer, SameEntry

\* valid_data_ is cleared.
LEMMA SpoiltFacts ==
    ASSUME NEW st \in Stores, NEW t, t = Spoilt(st)
    PROVE  /\ t \in Stores /\ ~t.valid /\ SameEntry(st, t)
           /\ t.erased = st.erased /\ t.addr = st.addr /\ t.buf = st.buf
           /\ t.sum = st.sum /\ t.flash = st.flash /\ t.faults = st.faults
  BY DEF Stores, Spoilt, SameEntry

\* A fault is counted.
LEMMA FailedFacts ==
    ASSUME NEW st \in Stores, NEW t, t = Failed(st)
    PROVE  /\ t \in Stores /\ t.faults = st.faults + 1 /\ SameEntry(st, t)
           /\ t.valid = st.valid /\ t.erased = st.erased /\ t.addr = st.addr /\ t.buf = st.buf
           /\ t.sum = st.sum /\ t.flash = st.flash
  BY DEF Stores, Failed, SameEntry

\* The members Invalidate resets.
LEMMA ClearedFacts ==
    ASSUME NEW st \in Stores, NEW t, t = Cleared(st)
    PROVE  /\ t \in Stores /\ t.valid = st.erased /\ t.addr = 0 /\ t.buf = <<>> /\ t.sum = <<>>
           /\ t.name = 0
           /\ t.init = st.init /\ t.erased = st.erased /\ t.algo = st.algo
           /\ t.flash = st.flash /\ t.kvs = st.kvs /\ t.faults = st.faults
  <1>1. /\ t.valid = st.erased /\ t.addr = 0 /\ t.buf = <<>> /\ t.sum = <<>>
        /\ t.name = 0
        /\ t.init = st.init /\ t.erased = st.erased /\ t.algo = st.algo
        /\ t.flash = st.flash /\ t.kvs = st.kvs /\ t.faults = st.faults
    BY DEF Stores, Cleared
  <1>2. <<>> \in Seq(Byte) /\ <<>> \in Seq(Cell) /\ 0 \in Nat
    OBVIOUS
  <1>3. t \in Stores
    BY <1>2, Zenon DEF Stores, Cleared
  <1> QED  BY <1>1, <1>3

\* The members Erase sets.
LEMMA BlankFacts ==
    ASSUME NEW st \in Stores, NEW t, t = Blank(st)
    PROVE  /\ t \in Stores /\ t.valid /\ t.erased /\ SameEntry(st, t)
           /\ t.addr = st.addr /\ t.buf = st.buf
           /\ t.sum = st.sum /\ t.flash = st.flash /\ t.faults = st.faults
  BY DEF Stores, Blank, SameEntry

\* The members after a restart.
LEMMA BootedFacts ==
    ASSUME NEW st \in Stores, NEW t, t = Booted(st)
    PROVE  /\ t \in Stores /\ ~t.init /\ ~t.valid /\ ~t.erased /\ t.addr = 0
           /\ t.algo = st.algo /\ t.flash = st.flash /\ t.kvs = st.kvs /\ t.faults = st.faults
  BY DEF Stores, Booted

\* The members LoadMetadata resets before it looks for the entry.
LEMMA ResetMetadataFacts ==
    ASSUME NEW st \in Stores, NEW t, t = ResetMetadata(st)
    PROVE  /\ t \in Stores /\ ~t.valid /\ t.addr = 0
           /\ t.init = st.init /\ t.erased = st.erased /\ t.algo = st.algo
           /\ t.flash = st.flash /\ t.kvs = st.kvs /\ t.faults = st.faults
  <1>1. <<>> \in Seq(Byte)
    OBVIOUS
  <1>2. t \in Stores
    BY <1>1, Zenon DEF Stores, ResetMetadata
  <1> QED  BY <1>2 DEF Stores, ResetMetadata

\* The members LoadMetadata takes from the entry.
LEMMA LoadedFacts ==
    ASSUME NEW st \in Stores, NEW t, t = Loaded(st)
    PROVE  /\ t \in Stores /\ t.valid /\ t.addr = st.kvs.size /\ t.name = st.kvs.name
           /\ t.init = st.init /\ t.erased = st.erased /\ t.algo = st.algo
           /\ t.flash = st.flash /\ t.kvs = st.kvs /\ t.faults = st.faults
  <1>1. st.kvs.size \in Nat /\ st.kvs.name \in {0, 1}
    BY DEF Stores, Entries
  <1> QED  BY <1>1 DEF Stores, Loaded

\* What Committed leaves.
Advances(st, t, data, size) ==
  /\ t \in Stores /\ ~t.erased /\ t.addr = st.addr + size
  /\ t.sum = st.sum \o data /\ SameEntry(st, t)
  /\ t.valid = st.valid /\ t.buf = st.buf /\ t.flash = st.flash /\ t.faults = st.faults

\* The members a commit updates.
LEMMA CommittedFacts ==
    ASSUME NEW st \in Stores, NEW source, NEW size \in Nat, First(source, size) \in Seq(Cell)
    PROVE  Advances(st, Committed(st, source, size), First(source, size), size)
  <1> DEFINE t == Committed(st, source, size)
  <1>1. st.sum \o First(source, size) \in Seq(Cell) /\ st.addr + size \in Nat
    BY DEF Stores
  <1>2. /\ t \in Stores /\ ~t.erased /\ t.addr = st.addr + size
        /\ t.sum = st.sum \o First(source, size) /\ SameEntry(st, t)
        /\ t.valid = st.valid /\ t.buf = st.buf /\ t.flash = st.flash /\ t.faults = st.faults
    BY <1>1 DEF Stores, Committed, SameEntry
  <1> HIDE DEF t
  <1>3. Advances(st, t, First(source, size), size)
    BY <1>2 DEF Advances
  <1> QED  BY <1>3 DEF t

\* What Summed leaves.
Sums(st, t) ==
  /\ t \in Stores /\ SameEntry(st, t)
  /\ t.valid = st.valid /\ t.erased = st.erased /\ t.addr = st.addr /\ t.buf = st.buf
  /\ t.flash = st.flash /\ t.faults = st.faults

\* Recomputing the checksum changes nothing else.
LEMMA SummedFacts ==
    ASSUME NEW st \in Stores, NEW n, Contents(st, n) \in Seq(Cell)
    PROVE  Sums(st, Summed(st, n))
  <1> DEFINE t == Summed(st, n)
  <1>1. /\ t \in Stores /\ SameEntry(st, t)
        /\ t.valid = st.valid /\ t.erased = st.erased /\ t.addr = st.addr /\ t.buf = st.buf
        /\ t.flash = st.flash /\ t.faults = st.faults
    BY DEF Stores, Summed, SameEntry
  <1> HIDE DEF t
  <1>2. Sums(st, t)
    BY <1>1 DEF Sums
  <1> QED  BY <1>2 DEF t

\* Cells past the flash address can still be written.
Ahead(st) == \A c \in Cells : c > st.addr => st.flash[c] = Erased

\* The running checksum is of the bytes before the flash address.
Sound(st) == Len(st.sum) = st.addr /\ (~st.algo => Contents(st, st.addr) = st.sum)
Ready(st) == st.valid /\ Sound(st) /\ Ahead(st)

\* KeyValueStore::Delete: the entry is gone, or after a failure may still be there.
LEMMA KvsDeleteFacts ==
    ASSUME NEW st \in Stores, NoFaults(st), NEW r \in KvsDelete(st), NEW t, t = r.st
    PROVE  /\ t \in Stores /\ NoFaults(t)
           /\ t.init = st.init /\ t.valid = st.valid /\ t.erased = st.erased /\ t.addr = st.addr
           /\ t.buf = st.buf /\ t.sum = st.sum /\ t.name = st.name /\ t.algo = st.algo
           /\ t.flash = st.flash /\ t.faults >= st.faults
           /\ t.kvs = NoMetadata \/ (t.kvs = st.kvs /\ st.algo)
           /\ r.ok => t.kvs = NoMetadata
  <1>0. st.faults \in Nat
    BY DEF Stores
  <1>1. CASE r = Ok(WithKvs(st, NoMetadata))
    <2>1. t = WithKvs(st, NoMetadata) /\ r.ok
      BY <1>1 DEF Ok
    <2>2. /\ t \in Stores /\ t.kvs = NoMetadata
          /\ t.init = st.init /\ t.valid = st.valid /\ t.erased = st.erased /\ t.addr = st.addr
          /\ t.buf = st.buf /\ t.sum = st.sum /\ t.name = st.name /\ t.algo = st.algo
          /\ t.flash = st.flash /\ t.faults = st.faults
      BY <2>1, WithKvsFacts, NoMetadataType
    <2>3. NoFaults(t)
      BY <2>2 DEF NoFaults
    <2> QED  BY <1>0, <2>1, <2>2, <2>3
  <1>2. ASSUME st.faults < MaxFaults PROVE st.algo
    BY <1>2, BlobAssumption DEF NoFaults, Stores
  <1> DEFINE f == Failed(st)
  <1>3. f \in Stores /\ f.faults = st.faults + 1 /\ SameEntry(st, f) /\ f.valid = st.valid
        /\ f.erased = st.erased /\ f.addr = st.addr
        /\ f.buf = st.buf /\ f.sum = st.sum /\ f.flash = st.flash
    BY FailedFacts
  <1> HIDE DEF f
  <1>4. CASE r = Fail(f) /\ st.faults < MaxFaults
    <2>1. t = f /\ ~r.ok
      BY <1>4 DEF Fail
    <2> QED  BY <1>0, <1>2, <1>3, <1>4, <2>1 DEF NoFaults, SameEntry
  <1>5. CASE r = Fail(WithKvs(f, NoMetadata)) /\ st.faults < MaxFaults
    <2>1. t = WithKvs(f, NoMetadata) /\ ~r.ok
      BY <1>5 DEF Fail
    <2>2. /\ t \in Stores /\ t.kvs = NoMetadata
          /\ t.init = f.init /\ t.valid = f.valid /\ t.erased = f.erased /\ t.addr = f.addr
          /\ t.buf = f.buf /\ t.sum = f.sum /\ t.name = f.name /\ t.algo = f.algo
          /\ t.flash = f.flash /\ t.faults = f.faults
      BY <1>3, <2>1, WithKvsFacts, NoMetadataType
    <2> QED  BY <1>0, <1>2, <1>3, <1>5, <2>1, <2>2 DEF NoFaults, SameEntry
  <1> QED  BY <1>1, <1>4, <1>5 DEF KvsDelete, OnFault, f

\* BlobStore::Invalidate, whether or not the key value store deletes the entry.
LEMMA InvalidateFacts ==
    ASSUME NEW st \in Stores, NoFaults(st), NEW r \in Invalidate(st), NEW t, t = r.st
    PROVE  /\ t \in Stores /\ NoFaults(t)
           /\ t.init = st.init /\ t.valid = st.erased /\ t.erased = st.erased /\ t.addr = 0
           /\ t.buf = <<>> /\ t.sum = <<>> /\ t.name = 0 /\ t.algo = st.algo
           /\ t.flash = st.flash /\ t.faults >= st.faults
           /\ t.kvs = NoMetadata \/ (t.kvs = st.kvs /\ st.algo)
           /\ r.ok => t.kvs = NoMetadata
  <1> DEFINE c == Cleared(st)
  <1>1. /\ c \in Stores /\ c.valid = st.erased /\ c.addr = 0 /\ c.buf = <<>> /\ c.sum = <<>>
        /\ c.name = 0
        /\ c.init = st.init /\ c.erased = st.erased /\ c.algo = st.algo
        /\ c.flash = st.flash /\ c.kvs = st.kvs /\ c.faults = st.faults
    BY ClearedFacts
  <1>2. r \in KvsDelete(c)
    BY DEF Invalidate
  <1> HIDE DEF c
  <1>3. NoFaults(c)
    BY <1>1 DEF NoFaults
  <1> QED  BY <1>1, <1>2, <1>3, KvsDeleteFacts

\* KeyValueStore::Put: after a failure either entry may be the stored one.
LEMMA KvsPutFacts ==
    ASSUME NEW st \in Stores, NoFaults(st), NEW m \in Entries, NEW r \in KvsPut(st, m), NEW t, t = r.st
    PROVE  /\ t \in Stores /\ NoFaults(t)
           /\ t.init = st.init /\ t.valid = st.valid /\ t.erased = st.erased /\ t.addr = st.addr
           /\ t.buf = st.buf /\ t.sum = st.sum /\ t.name = st.name /\ t.algo = st.algo
           /\ t.flash = st.flash
           /\ t.kvs = m \/ t.kvs = st.kvs
           /\ r.ok => t.kvs = m
  <1>0. CASE r = Ok(WithKvs(st, m))
    <2>1. t = WithKvs(st, m) /\ r.ok
      BY <1>0 DEF Ok
    <2> QED  BY <2>1, WithKvsFacts DEF NoFaults
  <1> DEFINE f == Failed(st)
  <1>1. f \in Stores /\ SameEntry(st, f) /\ f.valid = st.valid /\ f.erased = st.erased /\ f.addr = st.addr
        /\ f.buf = st.buf /\ f.sum = st.sum /\ f.flash = st.flash
    BY FailedFacts
  <1>2. ASSUME st.faults < MaxFaults PROVE NoFaults(f)
    <2>1. st.algo
      BY <1>2, BlobAssumption DEF NoFaults, Stores
    <2> QED  BY <1>1, <2>1 DEF NoFaults, SameEntry
  <1>3. CASE r = Fail(f) /\ st.faults < MaxFaults
    <2>1. t = f /\ ~r.ok
      BY <1>3 DEF Fail
    <2> HIDE DEF f
    <2> QED  BY <1>1, <1>2, <1>3, <2>1 DEF SameEntry
  <1>4. CASE r = Fail(WithKvs(f, m)) /\ st.faults < MaxFaults
    <2>1. t = WithKvs(f, m) /\ ~r.ok
      BY <1>4 DEF Fail
    <2> HIDE DEF f
    <2>2. /\ t \in Stores /\ t.kvs = m
          /\ t.init = f.init /\ t.valid = f.valid /\ t.erased = f.erased /\ t.addr = f.addr
          /\ t.buf = f.buf /\ t.sum = f.sum /\ t.name = f.name /\ t.algo = f.algo
          /\ t.flash = f.flash /\ t.faults = f.faults
      BY <1>1, <2>1, WithKvsFacts
    <2>3. NoFaults(f)
      BY <1>2, <1>4
    <2>4. NoFaults(t)
      BY <2>2, <2>3 DEF NoFaults
    <2> QED  BY <1>1, <2>1, <2>2, <2>4 DEF SameEntry
  <1> QED  BY <1>0, <1>3, <1>4 DEF KvsPut, OnFault

\* What erasing and writing the partition leave.
Flashed(st, t) ==
  /\ t \in Stores /\ SameEntry(st, t) /\ NoFaults(t)
  /\ t.valid = st.valid /\ t.erased = st.erased /\ t.addr = st.addr
  /\ t.buf = st.buf /\ t.sum = st.sum

\* Writing cells changes nothing but the flash; a fault needs a checksum.
LEMMA FlashedAll ==
    ASSUME NEW st \in Stores, NoFaults(st), NEW f \in [Cells -> Cell]
    PROVE  /\ Flashed(st, WithFlash(st, f)) /\ WithFlash(st, f).flash = f
           /\ st.faults < MaxFaults =>
                st.algo /\ Flashed(st, WithFlash(Failed(st), f)) /\ WithFlash(Failed(st), f).flash = f
  <1>1. Flashed(st, WithFlash(st, f)) /\ WithFlash(st, f).flash = f
    <2> DEFINE t == WithFlash(st, f)
    <2>1. /\ t \in Stores /\ t.flash = f /\ SameEntry(st, t)
          /\ t.valid = st.valid /\ t.erased = st.erased /\ t.addr = st.addr
          /\ t.buf = st.buf /\ t.sum = st.sum /\ t.faults = st.faults
      BY WithFlashFacts
    <2> HIDE DEF t
    <2>2. Flashed(st, t) /\ t.flash = f
      BY <2>1 DEF Flashed, NoFaults, SameEntry
    <2> QED  BY <2>2 DEF t
  <1>2. ASSUME st.faults < MaxFaults
        PROVE  st.algo /\ Flashed(st, WithFlash(Failed(st), f)) /\ WithFlash(Failed(st), f).flash = f
    <2> DEFINE s == Failed(st)
               t == WithFlash(s, f)
    <2>0. st.algo
      BY <1>2, BlobAssumption DEF NoFaults, Stores
    <2>1. s \in Stores /\ SameEntry(st, s) /\ s.valid = st.valid /\ s.erased = st.erased
          /\ s.addr = st.addr /\ s.buf = st.buf /\ s.sum = st.sum /\ s.flash = st.flash
      BY FailedFacts
    <2> HIDE DEF s
    <2>2. /\ t \in Stores /\ t.flash = f /\ SameEntry(s, t)
          /\ t.valid = s.valid /\ t.erased = s.erased /\ t.addr = s.addr
          /\ t.buf = s.buf /\ t.sum = s.sum /\ t.faults = s.faults
      BY <2>1, WithFlashFacts
    <2> HIDE DEF t
    <2>3. Flashed(st, t) /\ t.flash = f
      BY <2>0, <2>1, <2>2 DEF Flashed, NoFaults, SameEntry
    <2> QED  BY <2>0, <2>3 DEF s, t
  <1> QED  BY <1>1, <1>2

\* FlashPartition::Erase: when it succeeds every cell is erased.
LEMMA PartitionEraseFacts ==
    ASSUME NEW st \in Stores, NoFaults(st), NEW r \in PartitionErase(st)
    PROVE  /\ Flashed(st, r.st) /\ r.ok \in BOOLEAN
           /\ r.ok => \A c \in Cells : r.st.flash[c] = Erased
  <1>0. ASSUME NEW n \in 0..PartitionSize PROVE Wiped(st, n) \in [Cells -> Cell]
    BY DEF Wiped, Stores, Cell
  <1>1. CASE r = Ok(WithFlash(st, Wiped(st, PartitionSize)))
    <2>1. r.st = WithFlash(st, Wiped(st, PartitionSize)) /\ r.ok = TRUE
      BY <1>1 DEF Ok
    <2>2. PartitionSize \in 0..PartitionSize
      BY BlobAssumption
    <2>3. Flashed(st, r.st) /\ r.st.flash = Wiped(st, PartitionSize)
      BY <1>0, <2>1, <2>2, FlashedAll
    <2>4. \A c \in Cells : Wiped(st, PartitionSize)[c] = Erased
      BY BlobAssumption DEF Wiped, Cells
    <2> QED  BY <2>1, <2>3, <2>4
  <1>2. ASSUME st.faults < MaxFaults, NEW n \in 0..PartitionSize,
               r = Fail(WithFlash(Failed(st), Wiped(st, n)))
        PROVE  Flashed(st, r.st) /\ r.ok = FALSE
    <2>1. r.st = WithFlash(Failed(st), Wiped(st, n)) /\ r.ok = FALSE
      BY <1>2 DEF Fail
    <2> QED  BY <1>0, <1>2, <2>1, FlashedAll
  <1>3. \/ r = Ok(WithFlash(st, Wiped(st, PartitionSize)))
        \/ /\ st.faults < MaxFaults
           /\ \E n \in 0..PartitionSize : r = Fail(WithFlash(Failed(st), Wiped(st, n)))
    BY DEF PartitionErase, OnFault
  <1> QED  BY <1>1, <1>2, <1>3

\* FlashPartition::Write touches no cell outside of the data; on a flash that
\* never fails the cells are exactly the programmed ones.
LEMMA PartitionWriteFacts ==
    ASSUME NEW st \in Stores, NoFaults(st), NEW data \in Seq(Cell), NEW r \in PartitionWrite(st, data)
    PROVE  /\ Flashed(st, r.st) /\ r.ok \in BOOLEAN
           /\ ~st.algo => r.ok /\ r.st.flash = Programmed(st, data, Len(data))
           /\ \A c \in Cells : c - st.addr \notin 1..Len(data) => r.st.flash[c] = st.flash[c]
  <1> DEFINE P(n) == Programmed(st, data, n)
             all == P(Len(data))
  <1>a. st.addr \in Nat /\ Len(data) \in Nat /\ st.flash \in [Cells -> Cell] /\ Garbage \in Cell
        /\ PartitionSize \in Nat
    BY BlobAssumption DEF Stores, Cell
  <1>0. ASSUME NEW n \in 0..Len(data)
        PROVE  /\ P(n) \in [Cells -> Cell]
               /\ \A c \in Cells : c - st.addr \notin 1..Len(data) => P(n)[c] = st.flash[c]
    <2>1. ASSUME NEW c \in Cells
          PROVE  P(n)[c] \in Cell /\ (c - st.addr \notin 1..Len(data) => P(n)[c] = st.flash[c])
      <3>1. P(n)[c] = IF c - st.addr \notin 1..n \/ data[c - st.addr] = Erased THEN st.flash[c]
                      ELSE IF st.flash[c] = Erased THEN data[c - st.addr] ELSE Garbage
        BY DEF Programmed
      <3>2. c - st.addr \in 1..n => c - st.addr \in 1..Len(data) /\ data[c - st.addr] \in Cell
        BY <1>a
      <3>3. st.flash[c] \in Cell
        BY <1>a
      <3> QED  BY <1>a, <3>1, <3>2, <3>3
    <2>2. P(n) = [c \in Cells |-> P(n)[c]]
      BY DEF Programmed
    <2> HIDE DEF P
    <2> QED  BY <2>1, <2>2
  <1>b. all \in [Cells -> Cell] /\ \A c \in Cells : c - st.addr \notin 1..Len(data) => all[c] = st.flash[c]
    BY <1>0, <1>a
  <1>1. CASE r = Ok(WithFlash(st, all))
    <2> HIDE DEF P
    <2>1. r.st = WithFlash(st, all) /\ r.ok = TRUE
      BY <1>1 DEF Ok
    <2> QED  BY <1>b, <2>1, FlashedAll DEF P
  <1>2. ASSUME st.faults < MaxFaults, NEW n \in 0..Len(data),
               r = Fail(WithFlash(Failed(st), P(n)))
        PROVE  /\ Flashed(st, r.st) /\ r.ok = FALSE /\ st.algo
               /\ \A c \in Cells : c - st.addr \notin 1..Len(data) => r.st.flash[c] = st.flash[c]
    <2>1. r.st = WithFlash(Failed(st), P(n)) /\ r.ok = FALSE
      BY <1>2 DEF Fail
    <2> HIDE DEF P
    <2> QED  BY <1>0, <1>2, <2>1, FlashedAll
  <1>3. ASSUME st.faults < MaxFaults, NEW i \in 1..Len(data),
               r = Ok(WithFlash(Failed(st), [all EXCEPT ![st.addr + i] = Garbage]))
        PROVE  /\ Flashed(st, r.st) /\ r.ok = TRUE /\ st.algo
               /\ \A c \in Cells : c - st.addr \notin 1..Len(data) => r.st.flash[c] = st.flash[c]
    <2> DEFINE g == [all EXCEPT ![st.addr + i] = Garbage]
    <2> HIDE DEF all
    <2>1. r.st = WithFlash(Failed(st), g) /\ r.ok = TRUE
      BY <1>3 DEF Ok
    <2>2. g \in [Cells -> Cell]
      BY <1>a, <1>b
    <2>3. ASSUME NEW c \in Cells, c - st.addr \notin 1..Len(data) PROVE g[c] = all[c]
      <3>1. c # st.addr + i
        BY <1>a, <2>3 DEF Cells
      <3> QED  BY <1>b, <3>1
    <2> HIDE DEF g
    <2>4. st.algo /\ Flashed(st, r.st) /\ r.st.flash = g
      BY <1>3, <2>1, <2>2, FlashedAll
    <2> QED  BY <1>b, <2>1, <2>3, <2>4
  <1>4. \/ r = Ok(WithFlash(st, all))
        \/ /\ st.faults < MaxFaults
           /\ \E n \in 0..Len(data) : r = Fail(WithFlash(Failed(st), P(n)))
        \/ /\ st.faults < MaxFaults
           /\ \E i \in 1..Len(data) : r = Ok(WithFlash(Failed(st), [all EXCEPT ![st.addr + i] = Garbage]))
    BY Zenon DEF PartitionWrite, OnFault
  <1> QED  BY <1>1, <1>2, <1>3, <1>4

\* What the proofs need of the whole flash writes in n bytes.
LEMMA Remainder ==
    ASSUME NEW n \in Nat, NEW k \in Nat \ {0}
    PROVE  /\ n % k \in Nat /\ n % k < k /\ n % k <= n
           /\ n - (n % k) \in 0..n /\ n - (n - (n % k)) = n % k
           /\ n - (n % k) = 0 => n < k
  <1>1. n % k \in 0..(k - 1)
    OBVIOUS
  <1>2. n = k * (n \div k) + (n % k)
    OBVIOUS
  <1>3. n \div k \in Int
    OBVIOUS
  <1>4. n \div k >= 0
    OBVIOUS
  <1>5. k * (n \div k) \in Nat
    BY <1>3, <1>4
  <1> DEFINE m == n % k
             p == k * (n \div k)
  <1> HIDE DEF m, p
  <1>6. m \in 0..(k - 1) /\ p \in Nat /\ n = p + m
    BY <1>1, <1>2, <1>5 DEF m, p
  <1>7. m <= n /\ m < k /\ m \in Nat /\ n - m \in 0..n /\ n - (n - m) = m /\ (n - m = 0 => n < k)
    BY <1>6
  <1> QED  BY <1>7 DEF m

\* A sequence is its first n elements and the ones after them.
LEMMA Split ==
    ASSUME NEW S, NEW s \in Seq(S), NEW n \in 0..Len(s)
    PROVE  /\ First(s, n) \in Seq(S) /\ Len(First(s, n)) = n
           /\ \A i \in 1..n : First(s, n)[i] = s[i]
           /\ After(s, n) \in Seq(S) /\ Len(After(s, n)) = Len(s) - n
           /\ First(s, n) \o After(s, n) = s
  <1>0. Len(s) \in Nat /\ n \in Int /\ \A i \in 1..Len(s) : s[i] \in S
    OBVIOUS
  <1>1. First(s, n) \in Seq(S) /\ Len(First(s, n)) = n /\ \A i \in 1..n : First(s, n)[i] = s[i]
    BY <1>0 DEF First
  <1>2. After(s, n) \in Seq(S) /\ Len(After(s, n)) = Len(s) - n
    <2>1. \A i \in n + 1 .. Len(s) : s[i] \in S
      BY <1>0
    <2>2. /\ SubSeq(s, n + 1, Len(s)) \in Seq(S)
          /\ Len(SubSeq(s, n + 1, Len(s))) = IF n + 1 <= Len(s) THEN Len(s) - (n + 1) + 1 ELSE 0
      BY <1>0, <2>1, SubSeqProperties
    <2>3. (IF n + 1 <= Len(s) THEN Len(s) - (n + 1) + 1 ELSE 0) = Len(s) - n
      BY <1>0
    <2> QED  BY <2>2, <2>3 DEF After
  <1>3. First(s, n) \o After(s, n) = s
    <2>1. 1 \in 1..Len(s) + 1 /\ n \in 1 - 1 .. Len(s) /\ Len(s) \in n .. Len(s)
      BY <1>0
    <2>2. SubSeq(s, 1, n) \o SubSeq(s, n + 1, Len(s)) = SubSeq(s, 1, Len(s))
      BY <2>1, ConcatAdjacentSubSeq
    <2>3. SubSeq(s, 1, Len(s)) = s
      BY SubSeqFull
    <2> QED  BY <2>2, <2>3 DEF First, After
  <1> QED  BY <1>1, <1>2, <1>3

\* Data are cells.
LEMMA BytesAreCells ==
    ASSUME NEW s \in Seq(Byte)
    PROVE  s \in Seq(Cell)
  BY SeqMonotonic, ByteIsNotErased, Zenon DEF Cell

\* The cells a checksum is computed over.
LEMMA ContentsFacts ==
    ASSUME NEW st \in Stores, NEW n \in 0..PartitionSize
    PROVE  /\ Contents(st, n) \in Seq(Cell) /\ Len(Contents(st, n)) = n
           /\ \A i \in 1..n : i \in Cells /\ Contents(st, n)[i] = st.flash[i]
  <1>1. \A i \in 1..n : i \in Cells /\ st.flash[i] \in Cell
    BY BlobAssumption DEF Cells, Stores
  <1>2. n \in Nat
    BY BlobAssumption
  <1> QED  BY <1>1, <1>2 DEF Contents

\* The bytes of source that are data.
Holds(source, size) == \A i \in 1..size : source[i] \in Byte

\* What a commit of the first bytes of source leaves.
Commits(st, t, ok, source, size) ==
  /\ t \in Stores /\ NoFaults(t) /\ SameEntry(st, t) /\ ~t.erased
  /\ t.addr = st.addr + size /\ t.sum = st.sum \o First(source, size) /\ t.buf = st.buf
  /\ ok \in BOOLEAN
  /\ ok => t.valid = st.valid
  /\ ~ok => ~t.valid
  /\ ok /\ Sound(st) /\ Ahead(st) => Sound(t)
  /\ Ahead(st) /\ size = Len(source) => Ahead(t)

\* BlobStore::CommitToFlash, over a flash that may fail in any way.
LEMMA CommitFacts ==
    ASSUME NEW st \in Stores, NoFaults(st), NEW source \in Seq(Cell), NEW size \in 0..Len(source),
           Holds(source, size), st.addr + size <= PartitionSize,
           NEW r \in CommitToFlash(st, source, size)
    PROVE  Commits(st, r.st, r.ok, source, size)
  <1> DEFINE t == r.st
  <1>0. /\ First(source, size) \in Seq(Cell) /\ Len(First(source, size)) = size
        /\ \A i \in 1..size : First(source, size)[i] = source[i]
    BY Split
  <1>a. size \in Nat /\ Len(source) \in Nat /\ st.addr \in Nat /\ PartitionSize \in Nat
        /\ st.flash \in [Cells -> Cell] /\ st.sum \in Seq(Cell)
    BY BlobAssumption DEF Stores
  <1>1. PICK q \in PartitionWrite(st, source) :
          r = IF q.ok THEN Ok(Committed(q.st, source, size))
              ELSE Fail(Spoilt(Committed(q.st, source, size)))
    BY DEF CommitToFlash
  <1>2. /\ Flashed(st, q.st) /\ q.ok \in BOOLEAN
        /\ ~st.algo => q.ok /\ q.st.flash = Programmed(st, source, Len(source))
        /\ \A c \in Cells : c - st.addr \notin 1..Len(source) => q.st.flash[c] = st.flash[c]
    BY PartitionWriteFacts
  <1> DEFINE u == q.st
             v == Committed(u, source, size)
  <1>3. u \in Stores /\ SameEntry(st, u) /\ NoFaults(u) /\ u.valid = st.valid
        /\ u.addr = st.addr /\ u.buf = st.buf /\ u.sum = st.sum
    BY <1>2 DEF Flashed
  <1> HIDE DEF u
  <1>4. /\ v \in Stores /\ ~v.erased /\ v.addr = u.addr + size
        /\ v.sum = u.sum \o First(source, size) /\ SameEntry(u, v)
        /\ v.valid = u.valid /\ v.buf = u.buf /\ v.flash = u.flash /\ v.faults = u.faults
    <2>1. u \in Stores /\ size \in Nat /\ First(source, size) \in Seq(Cell)
      BY <1>0, <1>3, <1>a
    <2>2. Advances(u, v, First(source, size), size)
      BY <2>1, CommittedFacts
    <2> HIDE DEF v
    <2> QED  BY <2>2 DEF Advances
  <1>5. NoFaults(v) /\ SameEntry(st, v)
    BY <1>3, <1>4 DEF NoFaults, SameEntry
  <1>6. CASE q.ok
    <2>1. r.ok = TRUE /\ t = v
      BY <1>1, <1>6 DEF Ok, u
    <2> QED
      <3> HIDE DEF t, v
      <3>1. /\ t \in Stores /\ NoFaults(t) /\ SameEntry(st, t) /\ ~t.erased
            /\ t.addr = st.addr + size /\ t.sum = st.sum \o First(source, size) /\ t.buf = st.buf
            /\ t.valid = st.valid /\ t.flash = u.flash
        BY <1>3, <1>4, <1>5, <2>1
      <3>2. ASSUME Sound(st), Ahead(st) PROVE Sound(t)
        <4>1. Len(t.sum) = t.addr /\ t.sum \in Seq(Cell)
              /\ \A i \in 1..(st.addr + size) : t.sum[i] =
                    IF i <= st.addr THEN st.sum[i] ELSE First(source, size)[i - st.addr]
          <5> DEFINE f == First(source, size)
          <5> HIDE DEF f
          <5>1. f \in Seq(Cell) /\ Len(f) = size /\ st.sum \in Seq(Cell) /\ Len(st.sum) = st.addr
                /\ t.sum = st.sum \o f
            BY <1>0, <1>a, <3>1, <3>2 DEF Sound, f
          <5>2. /\ t.sum \in Seq(Cell) /\ Len(t.sum) = st.addr + size
                /\ \A i \in 1..(st.addr + size) : t.sum[i] =
                     IF i <= st.addr THEN st.sum[i] ELSE f[i - st.addr]
            <6>1. /\ st.sum \o f \in Seq(Cell) /\ Len(st.sum \o f) = Len(st.sum) + Len(f)
                  /\ \A i \in 1..(Len(st.sum) + Len(f)) : (st.sum \o f)[i] =
                       IF i <= Len(st.sum) THEN st.sum[i] ELSE f[i - Len(st.sum)]
              BY <5>1, ConcatProperties, Zenon
            <6> QED  BY <5>1, <6>1
          <5> QED  BY <3>1, <5>2 DEF f
        <4>2. ASSUME ~t.algo PROVE Contents(t, t.addr) = t.sum
          <5>0. ~st.algo
            BY <3>1, <4>2 DEF SameEntry
          <5>1. t.flash = Programmed(st, source, Len(source)) /\ Contents(st, st.addr) = st.sum
            BY <1>2, <3>1, <3>2, <5>0 DEF u, Sound
          <5>2. t.addr \in 0..PartitionSize /\ st.addr \in 0..PartitionSize
            BY <1>a, <3>1
          <5>3. /\ Contents(t, t.addr) \in Seq(Cell) /\ Len(Contents(t, t.addr)) = t.addr
                /\ \A i \in 1..t.addr : i \in Cells /\ Contents(t, t.addr)[i] = t.flash[i]
            BY <3>1, <5>2, ContentsFacts
          <5>4. \A i \in 1..st.addr : st.sum[i] = st.flash[i]
            BY <5>1, <5>2, ContentsFacts
          <5>5. ASSUME NEW i \in 1..t.addr PROVE Contents(t, t.addr)[i] = t.sum[i]
            <6>0. i \in Cells /\ Contents(t, t.addr)[i] = t.flash[i] /\ i \in 1..(st.addr + size)
              BY <3>1, <5>3
            <6>1. t.flash[i] = IF i - st.addr \notin 1..Len(source) \/ source[i - st.addr] = Erased
                               THEN st.flash[i]
                               ELSE IF st.flash[i] = Erased THEN source[i - st.addr] ELSE Garbage
              BY <5>1, <6>0 DEF Programmed
            <6>2. CASE i <= st.addr
              <7>1. i - st.addr \notin 1..Len(source) /\ i \in 1..st.addr
                BY <1>a, <6>2
              <7> QED  BY <4>1, <5>4, <6>0, <6>1, <6>2, <7>1
            <6>3. CASE i > st.addr
              <7>1. i - st.addr \in 1..size /\ i - st.addr \in 1..Len(source)
                BY <1>a, <6>0, <6>3
              <7>2. source[i - st.addr] # Erased /\ First(source, size)[i - st.addr] = source[i - st.addr]
                BY <1>0, <7>1, ByteIsNotErased DEF Holds
              <7>3. st.flash[i] = Erased
                BY <3>2, <6>0, <6>3 DEF Ahead
              <7>4. ~(i <= st.addr)
                BY <1>a, <6>3
              <7> QED  BY <4>1, <6>0, <6>1, <7>1, <7>2, <7>3, <7>4
            <6> QED  BY <1>a, <6>2, <6>3
          <5> QED  BY <4>1, <5>3, <5>5, SeqEqual
        <4> QED  BY <4>1, <4>2 DEF Sound
      <3>3. ASSUME Ahead(st), size = Len(source) PROVE Ahead(t)
        <4> SUFFICES ASSUME NEW c \in Cells, c > t.addr PROVE t.flash[c] = Erased
          BY DEF Ahead
        <4>1. c > st.addr /\ c - st.addr \notin 1..Len(source)
          BY <1>a, <3>1, <3>3 DEF Cells
        <4> QED  BY <1>2, <3>1, <3>3, <4>1 DEF Ahead, u
      <3>4. Commits(st, t, r.ok, source, size)
        BY <2>1, <3>1, <3>2, <3>3 DEF Commits
      <3> QED  BY <3>4 DEF t
  <1>7. CASE ~q.ok
    <2>1. r.ok = FALSE /\ t = Spoilt(v)
      BY <1>1, <1>7 DEF Fail, u
    <2> HIDE DEF t, v
    <2>2. /\ t \in Stores /\ ~t.valid /\ SameEntry(v, t)
          /\ t.erased = v.erased /\ t.addr = v.addr /\ t.buf = v.buf
          /\ t.sum = v.sum /\ t.flash = v.flash /\ t.faults = v.faults
      BY <1>4, <2>1, SpoiltFacts
    <2>3. NoFaults(t) /\ SameEntry(st, t)
      BY <1>5, <2>2 DEF NoFaults, SameEntry
    <2>4. ASSUME Ahead(st), size = Len(source) PROVE Ahead(t)
        <4> SUFFICES ASSUME NEW c \in Cells, c > t.addr PROVE t.flash[c] = Erased
          BY DEF Ahead
        <4>1. c > st.addr /\ c - st.addr \notin 1..Len(source)
          BY <1>a, <1>3, <1>4, <2>2, <2>4 DEF Cells
        <4> QED  BY <1>2, <1>4, <2>2, <2>4, <4>1 DEF Ahead, u
    <2>5. Commits(st, t, r.ok, source, size)
      BY <1>3, <1>4, <2>1, <2>2, <2>3, <2>4 DEF Commits
    <2> QED  BY <2>5 DEF t
  <1> QED  BY <1>2, <1>6, <1>7

\* flash_erased_ is true of the flash.
Clean(st) == st.erased => st.valid /\ st.addr = 0 /\ \A c \in Cells : st.flash[c] = Erased

\* BlobStore::Erase: a success leaves a clean store; bytes that were only in the
\* buffer stay.
LEMMA EraseFacts ==
    ASSUME NEW st \in Stores, NoFaults(st), Clean(st), NEW r \in Erase(st), NEW t, t = r.st
    PROVE  /\ t \in Stores /\ NoFaults(t) /\ Clean(t) /\ r.ok \in BOOLEAN
           /\ t.init = st.init /\ t.algo = st.algo /\ t.addr = 0
           /\ t.kvs = NoMetadata \/ t.kvs = st.kvs
           /\ st.addr = 0 => SameEntry(st, t) /\ t.buf = st.buf /\ t.sum = st.sum
           /\ st.addr # 0 => t.buf = <<>> /\ t.sum = <<>>
           /\ (r.ok <=> t.erased)
  <1>1. CASE st.erased
    <2>0. r = Ok(st)
      BY <1>1, Zenon DEF Erase
    <2>1. t = st /\ r.ok = TRUE
      BY <2>0 DEF Ok
    <2> QED  BY <1>1, <2>1 DEF SameEntry, Clean
  <1>2. CASE ~st.erased
    <2>0. PICK x \in Reset(st) : r \in Then(PartitionErase(x), LAMBDA e : {Ok(Blank(e))})
      BY <1>2 DEF Erase
    <2>1. PICK q \in PartitionErase(x) :
            (~q.ok /\ r = q) \/ (q.ok /\ r = Ok(Blank(q.st)))
      BY <2>0 DEF Then
    <2>2. /\ x \in Stores /\ NoFaults(x) /\ ~x.erased /\ x.addr = 0
          /\ x.init = st.init /\ x.algo = st.algo
          /\ x.kvs = NoMetadata \/ x.kvs = st.kvs
          /\ st.addr = 0 => SameEntry(st, x) /\ x.buf = st.buf /\ x.sum = st.sum
          /\ st.addr # 0 => x.buf = <<>> /\ x.sum = <<>>
      <3>1. CASE st.addr = 0
        <4>1. x = st
          BY <3>1 DEF Reset
        <4> QED  BY <1>2, <3>1, <4>1 DEF SameEntry
      <3>2. CASE st.addr # 0
        <4>1. PICK i \in Invalidate(st) : x = i.st
          BY <3>2 DEF Reset
        <4>2. /\ x \in Stores /\ NoFaults(x)
              /\ x.init = st.init /\ x.erased = st.erased /\ x.addr = 0
              /\ x.buf = <<>> /\ x.sum = <<>> /\ x.algo = st.algo
              /\ x.kvs = NoMetadata \/ x.kvs = st.kvs
          BY <4>1, InvalidateFacts
        <4> QED  BY <1>2, <3>2, <4>2
      <3> QED  BY <3>1, <3>2
    <2>3. /\ Flashed(x, q.st) /\ q.ok \in BOOLEAN
          /\ q.ok => \A c \in Cells : q.st.flash[c] = Erased
      BY <2>2, PartitionEraseFacts
    <2> DEFINE y == q.st
    <2>4. /\ y \in Stores /\ SameEntry(x, y) /\ NoFaults(y)
          /\ y.valid = x.valid /\ y.erased = x.erased /\ y.addr = x.addr
          /\ y.buf = x.buf /\ y.sum = x.sum
      BY <2>3 DEF Flashed
    <2>5. CASE ~q.ok
      <3>1. t = y /\ r.ok = FALSE
        BY <2>1, <2>3, <2>5 DEF Ok
      <3> HIDE DEF y
      <3> QED  BY <2>2, <2>4, <3>1 DEF SameEntry, Clean
    <2>6. CASE q.ok
      <3>1. t = Blank(y) /\ r.ok = TRUE
        BY <2>1, <2>3, <2>6 DEF Ok
      <3>2. \A c \in Cells : y.flash[c] = Erased
        BY <2>3, <2>6
      <3> HIDE DEF y
      <3>3. /\ t \in Stores /\ t.valid /\ t.erased /\ SameEntry(y, t)
            /\ t.addr = y.addr /\ t.buf = y.buf
            /\ t.sum = y.sum /\ t.flash = y.flash /\ t.faults = y.faults
        BY <2>4, <3>1, BlankFacts
      <3>4. Clean(t)
        BY <2>2, <2>4, <3>2, <3>3 DEF Clean
      <3>5. NoFaults(t)
        BY <2>4, <3>3 DEF NoFaults, SameEntry
      <3> QED  BY <2>2, <2>4, <3>1, <3>3, <3>4, <3>5 DEF SameEntry
    <2> QED  BY <2>3, <2>5, <2>6
  <1> QED  BY <1>1, <1>2

\* The store of an open writer whose calls have accepted the bytes w.
InHand(st, w) ==
  ValidToWrite(st) =>
    /\ w = st.sum \o st.buf /\ Len(st.sum) = st.addr
    /\ st.addr + Len(st.buf) <= PartitionSize
Open(st, w) ==
  /\ st \in Stores /\ NoFaults(st) /\ Clean(st)
  /\ InHand(st, w)
  /\ HasData(st) => Ready(st)

\* Before the first commit nothing is summed.
LEMMA EmptySum ==
    ASSUME NEW S, NEW s \in Seq(S), Len(s) = 0
    PROVE  s = <<>>
  OBVIOUS

\* BlobStore::EraseIfNeeded makes a store ready for its first commit and keeps
\* one that is past it.
LEMMA EraseIfNeededFacts ==
    ASSUME NEW st, NEW w, Open(st, w), ValidToWrite(st),
           NEW r \in EraseIfNeeded(st), NEW t, t = r.st
    PROVE  /\ t \in Stores /\ NoFaults(t) /\ Clean(t) /\ r.ok \in BOOLEAN
           /\ SameEntry(st, t) /\ t.addr = st.addr /\ t.buf = st.buf /\ t.sum = st.sum
           /\ r.ok => Ready(t)
           /\ ~r.ok => t.addr = 0 /\ ~t.erased
  <1>0. st \in Stores /\ NoFaults(st) /\ Clean(st) /\ Len(st.sum) = st.addr /\ (HasData(st) => Ready(st))
        /\ st.addr \in Nat /\ st.sum \in Seq(Cell)
    BY DEF Open, InHand, Stores
  <1>1. CASE st.addr = 0
    <2>1. /\ t \in Stores /\ NoFaults(t) /\ Clean(t) /\ r.ok \in BOOLEAN
          /\ t.addr = 0 /\ SameEntry(st, t) /\ t.buf = st.buf /\ t.sum = st.sum
          /\ (r.ok <=> t.erased)
      BY <1>0, <1>1, EraseFacts DEF EraseIfNeeded
    <2>2. ASSUME r.ok PROVE Ready(t)
      <3>1. t.valid /\ \A c \in Cells : t.flash[c] = Erased
        BY <2>1, <2>2 DEF Clean
      <3>2. t.sum = <<>>
        BY <1>0, <1>1, <2>1, EmptySum
      <3>3. Contents(t, 0) = <<>>
        BY DEF Contents
      <3> QED  BY <1>1, <2>1, <3>1, <3>2, <3>3 DEF Ready, Sound, Ahead
    <2> QED  BY <1>1, <2>1, <2>2
  <1>2. CASE st.addr # 0
    <2>1. t = st /\ r.ok = TRUE
      BY <1>2 DEF EraseIfNeeded, Ok
    <2>2. Ready(st)
      BY <1>0, <1>2 DEF HasData, ValidToWrite
    <2> QED  BY <1>0, <2>1, <2>2 DEF SameEntry
  <1> QED  BY <1>1, <1>2

\* Concatenation, for sequences of cells.
LEMMA CellAssociative == \A a, b, c \in Seq(Cell) : (a \o b) \o c = a \o (b \o c)
  BY ConcatAssociative

\* Committing all of source continues a store that is ready.
LEMMA CommitReady ==
    ASSUME NEW st \in Stores, NoFaults(st), Ready(st), NEW source \in Seq(Byte),
           st.addr + Len(source) <= PartitionSize,
           NEW r \in CommitToFlash(st, source, Len(source)), NEW t, t = r.st
    PROVE  /\ t \in Stores /\ NoFaults(t) /\ SameEntry(st, t) /\ ~t.erased /\ r.ok \in BOOLEAN
           /\ t.addr = st.addr + Len(source) /\ t.sum = st.sum \o source /\ t.buf = st.buf
           /\ r.ok => Ready(t)
           /\ ~r.ok => ~t.valid
  <1>1. source \in Seq(Cell) /\ Len(source) \in 0..Len(source)
        /\ \A i \in 1..Len(source) : source[i] \in Byte
    BY BytesAreCells
  <1>2. First(source, Len(source)) = source
    BY SubSeqFull DEF First
  <1> DEFINE n == Len(source)
  <1>3. source \in Seq(Cell) /\ n \in 0..Len(source) /\ st.addr + n <= PartitionSize
        /\ r \in CommitToFlash(st, source, n) /\ First(source, n) = source
        /\ Holds(source, n)
    BY <1>1, <1>2 DEF Holds
  <1>a. n = Len(source)
    OBVIOUS
  <1> HIDE DEF n
  <1>4. Commits(st, t, r.ok, source, n)
    BY <1>3, CommitFacts
  <1> QED  BY <1>3, <1>4, <1>a DEF Ready, Commits

\* A call of Write that went through has taken its data over: `all` are the
\* bytes accepted so far.
Took(st, t, all) ==
  /\ t \in Stores /\ NoFaults(t) /\ SameEntry(st, t)
  /\ Ready(t) /\ Clean(t) /\ t.sum \o t.buf = all
  /\ t.addr + Len(t.buf) <= PartitionSize /\ Len(t.buf) < FlashWriteSize

\* One that failed in the flash has spoilt the blob.
Broke(st, t) ==
  /\ t \in Stores /\ NoFaults(t) /\ SameEntry(st, t)
  /\ ~t.erased /\ ~t.valid /\ t.addr > 0 /\ Len(t.buf) < FlashWriteSize

\* The write buffer does not matter to what is in the flash.
LEMMA ReadyAfterBuffer ==
    ASSUME NEW st \in Stores, NoFaults(st), NEW b \in Seq(Byte), NEW t, t = WithBuffer(st, b)
    PROVE  /\ t \in Stores /\ NoFaults(t) /\ SameEntry(st, t)
           /\ t.buf = b /\ t.addr = st.addr /\ t.sum = st.sum /\ t.valid = st.valid
           /\ t.erased = st.erased /\ t.flash = st.flash
           /\ Ready(st) => Ready(t)
           /\ Clean(st) => Clean(t)
           /\ HasData(t) <=> HasData(st)
           /\ ValidToWrite(t) <=> ValidToWrite(st)
  <1>1. /\ t \in Stores /\ t.buf = b /\ SameEntry(st, t)
        /\ t.valid = st.valid /\ t.erased = st.erased /\ t.addr = st.addr
        /\ t.sum = st.sum /\ t.flash = st.flash /\ t.faults = st.faults
    BY WithBufferFacts
  <1>2. NoFaults(t)
    BY <1>1 DEF NoFaults, SameEntry
  <1>3. Contents(t, t.addr) = Contents(st, st.addr)
    BY <1>1 DEF Contents
  <1>4. Ready(st) => Ready(t)
    BY <1>1, <1>3 DEF Ready, Sound, Ahead, SameEntry
  <1>5. Clean(st) => Clean(t)
    BY <1>1 DEF Clean
  <1> QED  BY <1>1, <1>2, <1>4, <1>5 DEF HasData, ValidToWrite

\* The second and third step of BlobStore::Write: whole flash writes, then the
\* rest into the buffer. No byte is lost or written twice.
LEMMA WriteChunksFacts ==
    ASSUME NEW st \in Stores, NoFaults(st), Ready(st), Clean(st),
           NEW data \in Seq(Byte), st.buf = <<>>, st.addr + Len(data) <= PartitionSize,
           NEW r \in WriteChunks(st, data), NEW t, t = r.st
    PROVE  /\ r.ok \in BOOLEAN
           /\ r.ok => Took(st, t, st.sum \o data)
           /\ ~r.ok => Broke(st, t)
  <1> DEFINE n == Len(data) - (Len(data) % FlashWriteSize)
             F == First(data, n)
             rest == After(data, n)
             C == IF n = 0 THEN {Ok(st)} ELSE CommitToFlash(st, F, n)
  <1>0. FlashWriteSize \in Nat \ {0} /\ PartitionSize \in Nat /\ Len(data) \in Nat /\ st.addr \in Nat
        /\ st.sum \in Seq(Cell)
    BY BlobAssumption DEF Stores
  <1>1. n \in 0..Len(data) /\ Len(data) - n < FlashWriteSize
    BY <1>0, Remainder
  <1>2. r \in Then(C, LAMBDA x : {Ok(WithBuffer(x, rest))})
    BY DEF WriteChunks
  <1> HIDE DEF n
  <1>3. /\ F \in Seq(Byte) /\ Len(F) = n /\ rest \in Seq(Byte) /\ Len(rest) = Len(data) - n
        /\ F \o rest = data
    BY <1>1, Split
  <1> HIDE DEF F, rest, C
  <1>4. PICK q \in C : (~q.ok /\ r = q) \/ (q.ok /\ r = Ok(WithBuffer(q.st, rest)))
    BY <1>2 DEF Then
  <1> DEFINE x == q.st
  <1>5. /\ x \in Stores /\ NoFaults(x) /\ SameEntry(st, x) /\ q.ok \in BOOLEAN
        /\ x.buf = <<>> /\ x.sum = st.sum \o F /\ x.addr = st.addr + n
        /\ q.ok => Ready(x) /\ Clean(x)
        /\ ~q.ok => ~x.valid /\ ~x.erased /\ n # 0
    <2>1. CASE n = 0
      <3>1. q = Ok(st)
        BY <1>4, <2>1 DEF C
      <3>2. x = st /\ q.ok = TRUE
        BY <3>1 DEF Ok
      <3>3. F = <<>>
        BY <1>3, <2>1, EmptySum
      <3>4. st.sum \o F = st.sum
        BY <1>0, <3>3, ConcatEmptySeq
      <3> HIDE DEF x
      <3>5. st.addr = st.addr + n
        BY <1>0, <2>1
      <3>6. SameEntry(st, st)
        BY DEF SameEntry
      <3> QED  BY <3>2, <3>4, <3>5, <3>6
    <2>2. CASE n # 0
      <3>1. q \in CommitToFlash(st, F, Len(F))
        BY <1>3, <1>4, <2>2 DEF C
      <3>2. st.addr + Len(F) <= PartitionSize
        BY <1>0, <1>1, <1>3
      <3>3. /\ x \in Stores /\ NoFaults(x) /\ SameEntry(st, x) /\ ~x.erased /\ q.ok \in BOOLEAN
            /\ x.addr = st.addr + Len(F) /\ x.sum = st.sum \o F /\ x.buf = st.buf
            /\ q.ok => Ready(x)
            /\ ~q.ok => ~x.valid
        BY <1>3, <3>1, <3>2, CommitReady
      <3>4. Clean(x)
        BY <3>3 DEF Clean
      <3> HIDE DEF x
      <3> QED  BY <1>3, <2>2, <3>3, <3>4
    <2> QED  BY <2>1, <2>2
  <1>6. CASE ~q.ok
    <2>1. t = x /\ r.ok = FALSE
      BY <1>4, <1>5, <1>6
    <2> HIDE DEF x
    <2>2. x.addr > 0 /\ Len(x.buf) < FlashWriteSize
      BY <1>0, <1>1, <1>5, <1>6
    <2> QED  BY <1>5, <1>6, <2>1, <2>2 DEF Broke
  <1>7. CASE q.ok
    <2>1. t = WithBuffer(x, rest) /\ r.ok = TRUE
      BY <1>4, <1>7 DEF Ok
    <2> HIDE DEF x
    <2>a. x \in Stores /\ NoFaults(x) /\ Ready(x) /\ Clean(x) /\ rest \in Seq(Byte)
      BY <1>3, <1>5, <1>7
    <2>2. /\ t \in Stores /\ NoFaults(t) /\ SameEntry(x, t)
          /\ t.buf = rest /\ t.addr = x.addr /\ t.sum = x.sum
          /\ Ready(t) /\ Clean(t)
      BY <2>1, <2>a, ReadyAfterBuffer
    <2>3. t.sum \o t.buf = st.sum \o data
      <3>1. F \in Seq(Cell) /\ rest \in Seq(Cell)
        BY <1>3, BytesAreCells
      <3>2. (st.sum \o F) \o rest = st.sum \o (F \o rest)
        BY <1>0, <3>1, CellAssociative
      <3> QED  BY <1>3, <1>5, <2>2, <3>2
    <2>4. t.addr + Len(t.buf) <= PartitionSize /\ Len(t.buf) < FlashWriteSize
      BY <1>0, <1>1, <1>3, <1>5, <2>2, SMTT(30)
    <2>5. SameEntry(st, t)
      BY <1>5, <2>2 DEF SameEntry
    <2> QED  BY <2>1, <2>2, <2>3, <2>4, <2>5 DEF Took
  <1> QED  BY <1>5, <1>6, <1>7

\* All three steps of BlobStore::Write, with bytes in the buffer or without.
LEMMA WriteStepsFacts ==
    ASSUME NEW st \in Stores, NoFaults(st), Ready(st), Clean(st), NEW data \in Seq(Byte),
           Len(st.buf) < FlashWriteSize, st.addr + Len(st.buf) + Len(data) <= PartitionSize,
           NEW r \in WriteSteps(st, data), NEW t, t = r.st
    PROVE  /\ r.ok \in BOOLEAN
           /\ r.ok => Took(st, t, (st.sum \o st.buf) \o data)
           /\ ~r.ok => Broke(st, t)
  <1> DEFINE room == FlashWriteSize - Len(st.buf)
             F == First(data, room)
             full == st.buf \o F
             rest == After(data, room)
             b == WithBuffer(st, <<>>)
  <1>0. /\ FlashWriteSize \in Nat \ {0} /\ PartitionSize \in Nat /\ Len(data) \in Nat /\ st.addr \in Nat
        /\ st.sum \in Seq(Cell) /\ st.buf \in Seq(Byte) /\ Len(st.buf) \in Nat
    BY BlobAssumption DEF Stores
  <1>1. CASE st.buf = <<>>
    <2>1. r \in WriteChunks(st, data)
      BY <1>1, Zenon DEF WriteSteps
    <2>2. st.sum \o st.buf = st.sum
      BY <1>0, <1>1, ConcatEmptySeq
    <2>3. st.addr + Len(data) <= PartitionSize
      BY <1>0, <1>1
    <2> QED  BY <1>1, <2>1, <2>2, <2>3, WriteChunksFacts
  <1>2. CASE st.buf # <<>> /\ Len(data) < room
    <2>1. r = Ok(WithBuffer(st, st.buf \o data))
      BY <1>2, Zenon DEF WriteSteps
    <2>2. t = WithBuffer(st, st.buf \o data) /\ r.ok = TRUE
      BY <2>1 DEF Ok
    <2> DEFINE new == st.buf \o data
    <2>3. new \in Seq(Byte) /\ Len(new) = Len(st.buf) + Len(data)
      BY <1>0
    <2>4. st.sum \o new = (st.sum \o st.buf) \o data
      <3>1. st.buf \in Seq(Cell) /\ data \in Seq(Cell)
        BY <1>0, BytesAreCells
      <3> QED  BY <1>0, <3>1, CellAssociative
    <2>5. t = WithBuffer(st, new)
      BY <2>2
    <2> HIDE DEF new
    <2>6. /\ t \in Stores /\ NoFaults(t) /\ SameEntry(st, t)
          /\ t.buf = new /\ t.addr = st.addr /\ t.sum = st.sum /\ Ready(t) /\ Clean(t)
      BY <2>3, <2>5, ReadyAfterBuffer
    <2>7. t.addr + Len(t.buf) <= PartitionSize /\ Len(t.buf) < FlashWriteSize
      BY <1>0, <1>2, <2>3, <2>6
    <2> QED  BY <2>2, <2>4, <2>6, <2>7 DEF Took
  <1>3. CASE st.buf # <<>> /\ ~(Len(data) < room)
    <2>1. r \in Then(CommitToFlash(b, full, FlashWriteSize), LAMBDA x : WriteChunks(x, rest))
      BY <1>3, Zenon DEF WriteSteps
    <2>2. room \in 0..Len(data) /\ room \in Nat
      BY <1>0, <1>3
    <2>a. Len(st.buf) + room = FlashWriteSize
      BY <1>0
    <2> HIDE DEF room
    <2>3. /\ F \in Seq(Byte) /\ Len(F) = room /\ rest \in Seq(Byte) /\ Len(rest) = Len(data) - room
          /\ F \o rest = data
      BY <2>2, Split
    <2> HIDE DEF F, rest
    <2>4. full \in Seq(Byte) /\ Len(full) = FlashWriteSize
      <3>1. full \in Seq(Byte) /\ Len(full) = Len(st.buf) + Len(F)
        BY <1>0, <2>3, ConcatProperties, Zenon
      <3> QED  BY <2>3, <2>a, <3>1
    <2> HIDE DEF full
    <2>b. <<>> \in Seq(Byte) /\ Len(<<>>) = 0
      OBVIOUS
    <2>5. /\ b \in Stores /\ NoFaults(b) /\ SameEntry(st, b)
          /\ b.buf = <<>> /\ b.addr = st.addr /\ b.sum = st.sum /\ Ready(b) /\ Clean(b)
      BY <2>b, ReadyAfterBuffer, ZenonT(60)
    <2> HIDE DEF b
    <2>6. PICK q \in CommitToFlash(b, full, FlashWriteSize) :
            (~q.ok /\ r = q) \/ (q.ok /\ r \in WriteChunks(q.st, rest))
      BY <2>1 DEF Then
    <2> DEFINE x == q.st
    <2>7. /\ x \in Stores /\ NoFaults(x) /\ SameEntry(b, x) /\ ~x.erased /\ q.ok \in BOOLEAN
          /\ x.addr = b.addr + Len(full) /\ x.sum = b.sum \o full /\ x.buf = b.buf
          /\ q.ok => Ready(x)
          /\ ~q.ok => ~x.valid
      <3>1. b.addr + Len(full) <= PartitionSize
        BY <1>0, <2>2, <2>4, <2>5, <2>a
      <3>2. q \in CommitToFlash(b, full, Len(full))
        BY <2>4, <2>6
      <3> QED  BY <2>4, <2>5, <3>1, <3>2, CommitReady
    <2>8. Clean(x) /\ SameEntry(st, x)
      BY <2>5, <2>7 DEF Clean, SameEntry
    <2>9. CASE ~q.ok
      <3>1. t = x /\ r.ok = FALSE
        BY <2>6, <2>7, <2>9
      <3> HIDE DEF x
      <3>2. x.addr > 0 /\ Len(x.buf) < FlashWriteSize
        BY <1>0, <2>4, <2>5, <2>7, <2>b
      <3> QED  BY <2>7, <2>8, <2>9, <3>1, <3>2 DEF Broke
    <2>10. CASE q.ok
      <3>1. r \in WriteChunks(x, rest)
        BY <2>6, <2>10
      <3> HIDE DEF x
      <3>2. x.addr + Len(rest) <= PartitionSize
        BY <1>0, <2>2, <2>3, <2>4, <2>5, <2>7, <2>a
      <3>3. /\ r.ok \in BOOLEAN
            /\ r.ok => Took(x, t, x.sum \o rest)
            /\ ~r.ok => Broke(x, t)
        BY <2>3, <2>5, <2>7, <2>8, <2>10, <3>1, <3>2, WriteChunksFacts
      <3>4. x.sum \o rest = (st.sum \o st.buf) \o data
        <4>1. st.buf \in Seq(Cell) /\ F \in Seq(Cell) /\ rest \in Seq(Cell) /\ st.buf \o F \in Seq(Cell)
              /\ st.sum \o st.buf \in Seq(Cell) /\ F \o rest \in Seq(Cell)
          BY <1>0, <2>3, BytesAreCells, ConcatProperties
        <4>2. x.sum \o rest = (st.sum \o (st.buf \o F)) \o rest
          BY <2>5, <2>7 DEF full
        <4>3. st.sum \o (st.buf \o F) = (st.sum \o st.buf) \o F
          BY <1>0, <4>1, CellAssociative
        <4>4. ((st.sum \o st.buf) \o F) \o rest = (st.sum \o st.buf) \o (F \o rest)
          BY <4>1, CellAssociative
        <4> QED  BY <2>3, <4>2, <4>3, <4>4
      <3>5. Took(x, t, x.sum \o rest) => Took(st, t, (st.sum \o st.buf) \o data)
        BY <2>8, <3>4 DEF Took, SameEntry
      <3>6. Broke(x, t) => Broke(st, t)
        BY <2>8 DEF Broke, SameEntry
      <3> QED  BY <3>3, <3>5, <3>6
    <2> QED  BY <2>7, <2>9, <2>10
  <1> QED  BY <1>1, <1>2, <1>3

\* What a call leaves of the store of an open writer.
StillOpen(st, t, w) == Open(t, w) /\ SameEntry(st, t)

\* An open writer depends on these members only.
LEMMA OpenSame ==
    ASSUME NEW st, NEW w, Open(st, w)
    PROVE  StillOpen(st, st, w)
  BY DEF StillOpen, SameEntry

\* BlobStore::Write, with its early returns: the writer has accepted the data
\* exactly when OK is returned, or the blob is spoilt.
LEMMA WriteFacts ==
    ASSUME NEW st, NEW w \in Seq(Byte), Open(st, w), NEW data \in Seq(Byte),
           Len(st.buf) < FlashWriteSize, NEW r \in Write(st, data), NEW t, t = r.st
    PROVE  /\ r.ok \in BOOLEAN
           /\ r.ok => StillOpen(st, t, w \o data)
           /\ ~r.ok => StillOpen(st, t, w)
           /\ Len(t.buf) < FlashWriteSize
  <1>0. /\ st \in Stores /\ NoFaults(st) /\ Clean(st) /\ st.addr \in Nat /\ st.buf \in Seq(Byte)
        /\ Len(data) \in Nat /\ Len(st.buf) \in Nat /\ PartitionSize \in Nat
    BY BlobAssumption DEF Open, Stores
  <1>1. CASE r = Fail(st)
    <2>1. t = st /\ r.ok = FALSE
      BY <1>1 DEF Fail
    <2> QED  BY <2>1, OpenSame
  <1>2. CASE r = Ok(st) /\ data = <<>>
    <2>1. t = st /\ r.ok = TRUE
      BY <1>2 DEF Ok
    <2>2. w \o data = w
      BY <1>2, ConcatEmptySeq
    <2> QED  BY <2>1, <2>2, OpenSame
  <1>3. CASE /\ ValidToWrite(st) /\ ~(WriteBytesRemaining(st) < Len(data))
             /\ r \in Then(EraseIfNeeded(st), LAMBDA x : WriteSteps(x, data))
    <2>1. PICK q \in EraseIfNeeded(st) : (~q.ok /\ r = q) \/ (q.ok /\ r \in WriteSteps(q.st, data))
      BY <1>3 DEF Then
    <2> DEFINE x == q.st
    <2>2. /\ x \in Stores /\ NoFaults(x) /\ Clean(x) /\ q.ok \in BOOLEAN
          /\ SameEntry(st, x) /\ x.addr = st.addr /\ x.buf = st.buf /\ x.sum = st.sum
          /\ q.ok => Ready(x)
          /\ ~q.ok => x.addr = 0 /\ ~x.erased
      BY <1>3, EraseIfNeededFacts
    <2>3. w = st.sum \o st.buf /\ Len(st.sum) = st.addr /\ st.addr + Len(st.buf) <= PartitionSize
      BY <1>3 DEF Open, InHand
    <2>4. CASE ~q.ok
      <3>1. t = x /\ r.ok = FALSE
        BY <2>1, <2>2, <2>4
      <3> HIDE DEF x
      <3>2. ~HasData(x)
        BY <2>2, <2>4 DEF HasData
      <3>3. InHand(x, w)
        BY <2>2, <2>3 DEF InHand
      <3>4. Open(x, w)
        BY <2>2, <3>2, <3>3 DEF Open
      <3> QED  BY <2>2, <3>1, <3>4 DEF StillOpen
    <2>5. CASE q.ok
      <3>1. r \in WriteSteps(x, data)
        BY <2>1, <2>5
      <3> HIDE DEF x
      <3>2. Len(x.buf) < FlashWriteSize /\ x.addr + Len(x.buf) + Len(data) <= PartitionSize
        BY <1>0, <1>3, <2>2 DEF WriteBytesRemaining, WriteAddress
      <3>3. /\ r.ok \in BOOLEAN
            /\ r.ok => Took(x, t, (x.sum \o x.buf) \o data)
            /\ ~r.ok => Broke(x, t)
        BY <2>2, <2>5, <3>1, <3>2, WriteStepsFacts
      <3>4. (x.sum \o x.buf) \o data = w \o data
        BY <2>2, <2>3
      <3>5. ASSUME Took(x, t, w \o data)
            PROVE  StillOpen(st, t, w \o data) /\ Len(t.buf) < FlashWriteSize
        <4>1. Ready(t) /\ t \in Stores /\ NoFaults(t) /\ Clean(t) /\ SameEntry(x, t)
              /\ Len(t.buf) < FlashWriteSize
          BY <3>5 DEF Took
        <4>2. InHand(t, w \o data)
          BY <3>5 DEF Took, InHand, Ready, Sound
        <4>3. SameEntry(st, t)
          BY <2>2, <4>1 DEF SameEntry
        <4> QED  BY <4>1, <4>2, <4>3 DEF Open, StillOpen
      <3>6. ASSUME Broke(x, t)
            PROVE  StillOpen(st, t, w) /\ Len(t.buf) < FlashWriteSize
        <4>1. t \in Stores /\ NoFaults(t) /\ SameEntry(x, t) /\ ~t.erased /\ ~t.valid /\ t.addr > 0
              /\ Len(t.buf) < FlashWriteSize
          BY <3>6 DEF Broke
        <4>2. InHand(t, w) /\ ~HasData(t) /\ Clean(t)
          <5>1. t.addr # 0
            BY <4>1 DEF Stores
          <5> QED  BY <4>1, <5>1 DEF InHand, ValidToWrite, HasData, Clean
        <4>3. SameEntry(st, t)
          BY <2>2, <4>1 DEF SameEntry
        <4> QED  BY <4>1, <4>2, <4>3 DEF Open, StillOpen
      <3> QED  BY <3>3, <3>4, <3>5, <3>6
    <2> QED  BY <2>2, <2>4, <2>5
  <1>4. \/ r = Fail(st)
        \/ r = Ok(st) /\ data = <<>>
        \/ /\ ValidToWrite(st) /\ ~(WriteBytesRemaining(st) < Len(data))
           /\ r \in Then(EraseIfNeeded(st), LAMBDA x : WriteSteps(x, data))
    BY Zenon DEF Write
  <1> QED  BY <1>1, <1>2, <1>3, <1>4

\* BlobStore::AddToWriteBuffer.
LEMMA AddToWriteBufferFacts ==
    ASSUME NEW st, NEW w \in Seq(Byte), Open(st, w), NEW data \in Seq(Byte),
           NEW r \in AddToWriteBuffer(st, data), NEW t, t = r.st
    PROVE  /\ r.ok \in BOOLEAN
           /\ r.ok => StillOpen(st, t, w \o data)
           /\ ~r.ok => StillOpen(st, t, w)
  <1>0. /\ st \in Stores /\ NoFaults(st) /\ Clean(st) /\ st.addr \in Nat /\ st.buf \in Seq(Byte)
        /\ Len(data) \in Nat /\ Len(st.buf) \in Nat /\ PartitionSize \in Nat /\ WriteBufferSize \in Nat
        /\ st.sum \in Seq(Cell)
    BY BlobAssumption DEF Open, Stores
  <1>1. CASE r = Fail(st)
    <2>1. t = st /\ r.ok = FALSE
      BY <1>1 DEF Fail
    <2> QED  BY <2>1, OpenSame
  <1>2. CASE /\ ValidToWrite(st) /\ ~(WriteBufferBytesFree(st) < Len(data))
             /\ r = Ok(WithBuffer(st, st.buf \o data))
    <2> DEFINE new == st.buf \o data
    <2>1. new \in Seq(Byte) /\ Len(new) = Len(st.buf) + Len(data)
      BY <1>0
    <2>2. t = WithBuffer(st, new) /\ r.ok = TRUE
      BY <1>2 DEF Ok
    <2>3. st.addr + Len(new) <= PartitionSize
      BY <1>0, <1>2, <2>1 DEF WriteBufferBytesFree, WriteBytesRemaining, WriteAddress
    <2>4. w = st.sum \o st.buf /\ Len(st.sum) = st.addr
      BY <1>2 DEF Open, InHand
    <2>5. st.sum \o new = w \o data
      <3>1. st.buf \in Seq(Cell) /\ data \in Seq(Cell)
        BY <1>0, BytesAreCells
      <3> QED  BY <1>0, <2>4, <3>1, CellAssociative
    <2> HIDE DEF new
    <2>6. /\ t \in Stores /\ NoFaults(t) /\ SameEntry(st, t)
          /\ t.buf = new /\ t.addr = st.addr /\ t.sum = st.sum
          /\ Ready(st) => Ready(t)
          /\ Clean(st) => Clean(t)
          /\ HasData(t) <=> HasData(st)
      <3>1. st \in Stores /\ NoFaults(st) /\ new \in Seq(Byte) /\ t = WithBuffer(st, new)
        BY <1>0, <2>1, <2>2
      <3> QED  BY <3>1, ReadyAfterBuffer
    <2>7. InHand(t, w \o data)
      BY <2>3, <2>4, <2>5, <2>6 DEF InHand
    <2>8. HasData(t) => Ready(t)
      BY <2>6 DEF Open
    <2> QED  BY <1>0, <2>2, <2>6, <2>7, <2>8 DEF Open, StillOpen
  <1>3. \/ r = Fail(st)
        \/ /\ ValidToWrite(st) /\ ~(WriteBufferBytesFree(st) < Len(data))
           /\ r = Ok(WithBuffer(st, st.buf \o data))
    BY Zenon DEF AddToWriteBuffer
  <1> QED  BY <1>1, <1>2, <1>3

\* BlobStore::Flush: the bytes move from the buffer to the flash, none is lost.
LEMMA FlushFacts ==
    ASSUME NEW st, NEW w \in Seq(Byte), Open(st, w), NEW r \in Flush(st), NEW t, t = r.st
    PROVE  /\ r.ok \in BOOLEAN /\ StillOpen(st, t, w)
           /\ WriteAddress(st) # 0 => ~t.erased
           /\ WriteAddress(st) # 0 /\ r.ok => Ready(t) /\ Len(t.buf) < FlashWriteSize
  <1>0. /\ st \in Stores /\ NoFaults(st) /\ Clean(st) /\ st.addr \in Nat /\ st.buf \in Seq(Byte)
        /\ Len(st.buf) \in Nat /\ PartitionSize \in Nat /\ FlashWriteSize \in Nat \ {0}
        /\ st.sum \in Seq(Cell) /\ (HasData(st) => Ready(st))
    BY BlobAssumption DEF Open, Stores
  <1>1. CASE r = Fail(st) /\ ~ValidToWrite(st)
    <2>1. t = st /\ r.ok = FALSE
      BY <1>1 DEF Fail
    <2>2. ~st.erased
      BY <1>0, <1>1 DEF ValidToWrite, Clean
    <2> QED  BY <1>0, <2>1, <2>2, OpenSame
  <1>2. CASE r = Ok(st) /\ st.buf = <<>> /\ ValidToWrite(st)
    <2>1. t = st /\ r.ok = TRUE
      BY <1>2 DEF Ok
    <2>2. Len(st.buf) = 0 /\ Len(st.buf) < FlashWriteSize
      BY <1>0, <1>2
    <2>3. WriteAddress(st) # 0 => ~st.erased /\ Ready(st)
      BY <1>0, <1>2, <2>2 DEF WriteAddress, HasData, ValidToWrite, Clean
    <2> QED  BY <1>2, <2>1, <2>2, <2>3, OpenSame
  <1> DEFINE size == Len(st.buf) - (Len(st.buf) % FlashWriteSize)
  <1>3. CASE /\ ValidToWrite(st)
             /\ r \in Then(EraseIfNeeded(st),
                           LAMBDA x : CommitToFlash(WithBuffer(x, After(x.buf, size)),
                                                    First(x.buf, size), size))
    <2>0. size \in 0..Len(st.buf) /\ Len(st.buf) - size < FlashWriteSize
      BY <1>0, Remainder
    <2> HIDE DEF size
    <2>1. PICK q \in EraseIfNeeded(st) :
            \/ ~q.ok /\ r = q
            \/ /\ q.ok
               /\ r \in CommitToFlash(WithBuffer(q.st, After(q.st.buf, size)), First(q.st.buf, size), size)
      BY <1>3 DEF Then
    <2> DEFINE x == q.st
    <2>2. /\ x \in Stores /\ NoFaults(x) /\ Clean(x) /\ q.ok \in BOOLEAN
          /\ SameEntry(st, x) /\ x.addr = st.addr /\ x.buf = st.buf /\ x.sum = st.sum
          /\ q.ok => Ready(x)
          /\ ~q.ok => x.addr = 0 /\ ~x.erased
      BY <1>3, EraseIfNeededFacts
    <2>3. w = st.sum \o st.buf /\ Len(st.sum) = st.addr /\ st.addr + Len(st.buf) <= PartitionSize
      BY <1>3 DEF Open, InHand
    <2>4. CASE ~q.ok
      <3>1. t = x /\ r.ok = FALSE
        BY <2>1, <2>2, <2>4
      <3> HIDE DEF x
      <3>2. ~HasData(x)
        BY <2>2, <2>4 DEF HasData
      <3>3. InHand(x, w)
        BY <2>2, <2>3 DEF InHand
      <3>4. Open(x, w)
        BY <2>2, <3>2, <3>3 DEF Open
      <3> QED  BY <1>0, <2>2, <2>4, <3>1, <3>4 DEF StillOpen
    <2>5. CASE q.ok
      <3> DEFINE F == First(st.buf, size)
                 rest == After(st.buf, size)
                 y == WithBuffer(x, rest)
      <3>1. r \in CommitToFlash(y, F, size)
        BY <2>1, <2>2, <2>5
      <3>2. /\ F \in Seq(Byte) /\ Len(F) = size /\ rest \in Seq(Byte) /\ Len(rest) = Len(st.buf) - size
            /\ F \o rest = st.buf
        BY <1>0, <2>0, Split
      <3> HIDE DEF F, rest, x
      <3>3. x \in Stores /\ NoFaults(x) /\ Ready(x)
        BY <2>2, <2>5
      <3>4. /\ y \in Stores /\ NoFaults(y) /\ SameEntry(x, y)
            /\ y.buf = rest /\ y.addr = x.addr /\ y.sum = x.sum /\ Ready(y)
        BY <3>2, <3>3, ReadyAfterBuffer
      <3> HIDE DEF y
      <3>5. r \in CommitToFlash(y, F, Len(F)) /\ y.addr + Len(F) <= PartitionSize
        BY <1>0, <2>0, <2>2, <2>3, <3>1, <3>2, <3>4
      <3>6. /\ t \in Stores /\ NoFaults(t) /\ SameEntry(y, t) /\ ~t.erased /\ r.ok \in BOOLEAN
            /\ t.addr = y.addr + Len(F) /\ t.sum = y.sum \o F /\ t.buf = y.buf
            /\ r.ok => Ready(t)
            /\ ~r.ok => ~t.valid
        <4>1. y \in Stores /\ NoFaults(y) /\ Ready(y) /\ F \in Seq(Byte)
          BY <3>2, <3>4
        <4> QED  BY <3>5, <4>1, CommitReady
      <3>7. t.sum \o t.buf = w
        <4>1. F \in Seq(Cell) /\ rest \in Seq(Cell)
          BY <3>2, BytesAreCells
        <4>2. (st.sum \o F) \o rest = st.sum \o (F \o rest)
          BY <1>0, <4>1, CellAssociative
        <4> QED  BY <2>2, <2>3, <3>2, <3>4, <3>6, <4>2
      <3>8. Len(t.sum) = t.addr
        <4>1. F \in Seq(Cell)
          BY <3>2, BytesAreCells
        <4>2. Len(st.sum \o F) = Len(st.sum) + Len(F)
          BY <1>0, <4>1, ConcatProperties, Zenon
        <4> QED  BY <2>2, <2>3, <3>4, <3>6, <4>2
      <3>9. t.addr + Len(t.buf) <= PartitionSize /\ Len(t.buf) < FlashWriteSize
        <4>1. t.addr = st.addr + size /\ Len(t.buf) = Len(st.buf) - size
          BY <2>2, <3>2, <3>4, <3>6
        <4> QED  BY <1>0, <2>0, <2>3, <4>1
      <3>10. InHand(t, w) /\ Clean(t) /\ (HasData(t) => Ready(t))
        BY <3>6, <3>7, <3>8, <3>9 DEF InHand, Clean, HasData
      <3>11. SameEntry(st, t)
        BY <2>2, <3>4, <3>6 DEF SameEntry
      <3> QED  BY <3>6, <3>9, <3>10, <3>11 DEF Open, StillOpen
    <2> QED  BY <2>2, <2>4, <2>5
  <1>4. \/ r = Fail(st) /\ ~ValidToWrite(st)
        \/ r = Ok(st) /\ st.buf = <<>> /\ ValidToWrite(st)
        \/ /\ ValidToWrite(st)
           /\ r \in Then(EraseIfNeeded(st),
                         LAMBDA x : CommitToFlash(WithBuffer(x, After(x.buf, size)),
                                                  First(x.buf, size), size))
    BY Zenon DEF Flush
  <1> HIDE DEF size
  <1> QED  BY <1>1, <1>2, <1>3, <1>4

\* BlobStore::FlushFinalPartialChunk: the padding is not part of the blob.
LEMMA FlushFinalFacts ==
    ASSUME NEW st \in Stores, NoFaults(st), Ready(st), Len(st.buf) < FlashWriteSize,
           st.addr + Len(st.buf) <= PartitionSize,
           NEW r \in FlushFinalPartialChunk(st), NEW t, t = r.st
    PROVE  /\ t \in Stores /\ NoFaults(t) /\ SameEntry(st, t) /\ ~t.erased /\ r.ok \in BOOLEAN
           /\ t.addr = st.addr + Len(st.buf) /\ t.sum = st.sum \o st.buf
           /\ r.ok => t.valid /\ Sound(t)
  <1> DEFINE n == Len(st.buf)
             padded == [i \in 1..FlashWriteSize |-> IF i <= Len(st.buf) THEN st.buf[i] ELSE Erased]
             b == WithBuffer(st, <<>>)
  <1>0. FlashWriteSize \in Nat \ {0} /\ st.buf \in Seq(Byte) /\ Len(st.buf) \in Nat
    BY BlobAssumption DEF Stores
  <1>1. r \in CommitToFlash(b, padded, n)
    BY DEF FlushFinalPartialChunk
  <1>2. padded \in Seq(Cell) /\ Len(padded) = FlashWriteSize
    <2>1. ASSUME NEW i \in 1..FlashWriteSize
          PROVE  (IF i <= Len(st.buf) THEN st.buf[i] ELSE Erased) \in Cell
      <3>1. CASE i <= Len(st.buf)
        <4>1. st.buf[i] \in Byte
          BY <1>0, <3>1
        <4> QED  BY <3>1, <4>1, ByteIsNotErased
      <3>2. CASE ~(i <= Len(st.buf))
        BY <3>2 DEF Cell
      <3> QED  BY <3>1, <3>2
    <2> QED  BY <1>0, <2>1
  <1>3. \A i \in 1..n : i \in 1..FlashWriteSize /\ padded[i] = st.buf[i] /\ padded[i] \in Byte
    BY <1>0
  <1> HIDE DEF padded
  <1>4. n \in 0..Len(padded) /\ Holds(padded, n)
    BY <1>0, <1>2, <1>3 DEF Holds
  <1>5. First(padded, n) = st.buf
    <2>1. /\ First(padded, n) \in Seq(Cell) /\ Len(First(padded, n)) = n
          /\ \A i \in 1..n : First(padded, n)[i] = padded[i]
      BY <1>2, <1>4, Split
    <2>2. st.buf \in Seq(Cell)
      BY <1>0, BytesAreCells
    <2> QED  BY <1>3, <2>1, <2>2, SeqEqual
  <1>a. <<>> \in Seq(Byte)
    OBVIOUS
  <1>6. /\ b \in Stores /\ NoFaults(b) /\ SameEntry(st, b)
        /\ b.addr = st.addr /\ b.sum = st.sum /\ Ready(b)
    BY <1>a, ReadyAfterBuffer, ZenonT(60)
  <1> HIDE DEF b
  <1>b. b.addr + n <= PartitionSize
    BY <1>6
  <1> HIDE DEF n
  <1>7. Commits(b, r.st, r.ok, padded, n)
    BY <1>1, <1>2, <1>4, <1>6, <1>b, CommitFacts
  <1>8. /\ t \in Stores /\ NoFaults(t) /\ SameEntry(b, t) /\ ~t.erased
        /\ t.addr = b.addr + n /\ t.sum = b.sum \o First(padded, n)
        /\ r.ok \in BOOLEAN /\ (r.ok => t.valid = b.valid)
        /\ (r.ok /\ Sound(b) /\ Ahead(b) => Sound(t))
    BY <1>7 DEF Commits
  <1>9. SameEntry(st, t)
    BY <1>6, <1>8 DEF SameEntry
  <1>10. b.valid /\ Sound(b) /\ Ahead(b)
    BY <1>6 DEF Ready
  <1> QED  BY <1>5, <1>6, <1>8, <1>9, <1>10 DEF n

\* The metadata of a blob.
Entry(st, w) == Metadata(Len(w), IF st.algo THEN w ELSE <<>>, st.name)

\* What WriteMetadata leaves.
Records(st, t, ok) ==
  /\ t \in Stores /\ NoFaults(t) /\ ~t.erased /\ t.algo = st.algo /\ ok \in BOOLEAN
  /\ \/ t.kvs = NoMetadata
     \/ t.kvs = st.kvs
     \/ t.kvs = Entry(st, st.sum) /\ Contents(t, st.addr) = st.sum
  /\ ok => /\ t.init = st.init /\ t.valid /\ t.addr = st.addr /\ t.name = st.name
           /\ t.kvs = Entry(st, st.sum) /\ Contents(t, st.addr) = st.sum

\* What ValidateChecksum of n bytes leaves.
Checks(st, c, ok, n, sum) ==
  /\ c \in Stores /\ NoFaults(c) /\ SameEntry(st, c)
  /\ c.valid = st.valid /\ c.erased = st.erased /\ c.addr = st.addr /\ c.flash = st.flash
  /\ ok \in BOOLEAN
  /\ ok => (st.algo => Contents(st, n) = sum)
  /\ ~ok => c.faults = st.faults + 1 \/ (st.algo /\ Contents(st, n) # sum)
  /\ c.faults = st.faults \/ c.faults = st.faults + 1

\* BlobStore::ValidateChecksum: without a failing read it is OK exactly when the
\* flash holds the bytes of the checksum.
LEMMA ValidateChecksumFacts ==
    ASSUME NEW st \in Stores, NoFaults(st), NEW n \in 1..PartitionSize, NEW sum,
           NEW check \in ValidateChecksum(st, n, sum), NEW c, c = check.st
    PROVE  Checks(st, c, check.ok, n, sum)
  <1>0. n # 0 /\ n \in Nat /\ n \in 0..PartitionSize /\ \A k \in 0..n - 1 : k \in 0..PartitionSize
    BY BlobAssumption
  <1>1. CASE ~st.algo
    <2>1. check = Ok(st)
      BY <1>0, <1>1, Zenon DEF ValidateChecksum
    <2>2. c = st /\ check.ok = TRUE
      BY <2>1 DEF Ok
    <2> QED  BY <1>1, <2>2 DEF Checks, SameEntry
  <1>2. CASE st.algo
    <2>1. \/ check = IF Contents(st, n) = sum THEN Ok(Summed(st, n)) ELSE Fail(Summed(st, n))
          \/ \E k \in 0..n - 1 : check = Fail(Summed(Failed(st), k))
      <3>1. check \in {IF Contents(st, n) = sum THEN Ok(Summed(st, n)) ELSE Fail(Summed(st, n))}
                      \cup OnFault(st, {Fail(Summed(Failed(st), k)) : k \in 0..n - 1})
        BY <1>0, <1>2, Zenon DEF ValidateChecksum
      <3> QED  BY <3>1, Zenon DEF OnFault
    <2>2. CASE check = IF Contents(st, n) = sum THEN Ok(Summed(st, n)) ELSE Fail(Summed(st, n))
      <3>1. c = Summed(st, n) /\ check.ok \in BOOLEAN /\ (check.ok <=> Contents(st, n) = sum)
        <4>1. CASE Contents(st, n) = sum
          <5>1. check = Ok(Summed(st, n))
            BY <2>2, <4>1
          <5> QED  BY <4>1, <5>1 DEF Ok
        <4>2. CASE Contents(st, n) # sum
          <5>1. check = Fail(Summed(st, n))
            BY <2>2, <4>2
          <5> QED  BY <4>2, <5>1 DEF Fail
        <4> QED  BY <4>1, <4>2
      <3>2. Sums(st, c)
        BY <1>0, <3>1, ContentsFacts, SummedFacts
      <3> QED  BY <1>2, <3>1, <3>2 DEF Checks, Sums, NoFaults, SameEntry
    <2>3. CASE \E k \in 0..n - 1 : check = Fail(Summed(Failed(st), k))
      <3>1. PICK k \in 0..n - 1 : check = Fail(Summed(Failed(st), k))
        BY <2>3
      <3> DEFINE f == Failed(st)
      <3>2. f \in Stores /\ f.faults = st.faults + 1 /\ SameEntry(st, f)
            /\ f.valid = st.valid /\ f.erased = st.erased /\ f.addr = st.addr /\ f.flash = st.flash
        BY FailedFacts
      <3>3. c = Summed(f, k) /\ check.ok = FALSE
        BY <3>1 DEF Fail
      <3> HIDE DEF f
      <3>4. Sums(f, c)
        BY <1>0, <3>2, <3>3, ContentsFacts, SummedFacts
      <3> QED  BY <1>2, <3>2, <3>3, <3>4 DEF Checks, Sums, NoFaults, SameEntry
    <2> QED  BY <2>1, <2>2, <2>3
  <1> QED  BY <1>1, <1>2

\* BlobStore::WriteMetadata stores an entry only for bytes read back from the
\* flash, or deletes it, or crashes.
LEMMA WriteMetadataFacts ==
    ASSUME NEW st \in Stores, NoFaults(st), ~st.erased, st.valid, Sound(st),
           st.addr \in 1..PartitionSize, NEW r \in WriteMetadata(st)
    PROVE  Records(st, r.st, r.ok)
  <1> DEFINE t == r.st
             sum == IF st.algo THEN st.sum ELSE <<>>
             m == Metadata(st.addr, sum, st.name)
  <1>0. st.sum \in Seq(Cell) /\ st.name \in {0, 1} /\ st.addr \in Nat /\ <<>> \in Seq(Cell)
        /\ Len(st.sum) = st.addr /\ (~st.algo => Contents(st, st.addr) = st.sum) /\ st.addr # 0
    BY DEF Stores, Sound
  <1>1. sum \in Seq(Cell)
    BY <1>0
  <1>2. m = Entry(st, st.sum) /\ m \in Entries
    <2>1. m = Entry(st, st.sum)
      BY <1>0 DEF Entry
    <2> HIDE DEF sum
    <2>2. m \in Entries
      BY <1>0, <1>1 DEF Metadata, Entries
    <2> QED  BY <2>1, <2>2
  <1>3. PICK check \in ValidateChecksum(st, st.addr, sum) :
          r \in IF check.ok THEN KvsPut(check.st, m) ELSE InvalidateOrCrash(check.st)
    BY Zenon DEF WriteMetadata
  <1> DEFINE c == check.st
  <1>4. /\ c \in Stores /\ NoFaults(c) /\ SameEntry(st, c)
        /\ c.valid = st.valid /\ c.erased = st.erased /\ c.addr = st.addr /\ c.flash = st.flash
        /\ check.ok \in BOOLEAN
        /\ check.ok => (st.algo => Contents(st, st.addr) = sum)
    <2>1. check \in ValidateChecksum(st, st.addr, sum)
      BY <1>3
    <2>2. c = check.st
      OBVIOUS
    <2> HIDE DEF sum, c
    <2>3. Checks(st, c, check.ok, st.addr, sum)
      BY <2>1, <2>2, ValidateChecksumFacts
    <2> QED  BY <2>3 DEF Checks
  <1>5. /\ c \in Stores /\ SameEntry(st, c) /\ c.valid = st.valid /\ c.erased = st.erased
        /\ c.addr = st.addr /\ c.flash = st.flash
        /\ check.ok = TRUE => Contents(st, st.addr) = st.sum
    BY <1>0, <1>4
  <1> HIDE DEF c, m, sum
  <1>6. NoFaults(c)
    BY <1>4
  <1>a. \/ check.ok = TRUE /\ r \in KvsPut(c, m)
        \/ check.ok = FALSE /\ r \in InvalidateOrCrash(c)
    BY <1>3, <1>4 DEF c
  <1>7. CASE check.ok = TRUE /\ r \in KvsPut(c, m)
    <2>1. /\ t \in Stores /\ NoFaults(t)
          /\ t.init = c.init /\ t.valid = c.valid /\ t.erased = c.erased /\ t.addr = c.addr
          /\ t.name = c.name /\ t.algo = c.algo
          /\ t.flash = c.flash
          /\ t.kvs = m \/ t.kvs = c.kvs
          /\ r.ok => t.kvs = m
      <3>1. c \in Stores /\ m \in Entries /\ r \in KvsPut(c, m)
        BY <1>2, <1>5, <1>7
      <3> QED  BY <1>6, <3>1, KvsPutFacts
    <2>2. r.ok \in BOOLEAN
      <3>1. PICK x : r = Ok(x) \/ r = Fail(x)
        BY <1>7, Zenon DEF KvsPut, OnFault
      <3>2. r.ok = TRUE \/ r.ok = FALSE
        BY <3>1 DEF Ok, Fail
      <3> QED  BY <3>2
    <2> HIDE DEF t
    <2>3. Contents(t, st.addr) = st.sum
      <3>1. Contents(t, st.addr) = Contents(st, st.addr)
        BY <1>5, <2>1 DEF Contents
      <3> QED  BY <1>5, <1>7, <3>1
    <2>4. Records(st, t, r.ok)
      BY <1>2, <1>5, <2>1, <2>2, <2>3 DEF Records, SameEntry
    <2> QED  BY <2>4 DEF t
  <1>8. CASE check.ok = FALSE /\ r \in InvalidateOrCrash(c)
    <2>1. PICK i \in Invalidate(c) : r = Fail(IF i.ok THEN i.st ELSE Booted(i.st))
      BY <1>8 DEF InvalidateOrCrash
    <2>2. t = (IF i.ok THEN i.st ELSE Booted(i.st)) /\ r.ok = FALSE
      BY <2>1 DEF Fail
    <2> DEFINE x == i.st
    <2>3. /\ x \in Stores /\ NoFaults(x) /\ x.erased = c.erased /\ x.algo = c.algo
          /\ x.kvs = NoMetadata \/ (x.kvs = c.kvs /\ c.algo)
      BY <1>5, <1>6, InvalidateFacts
    <2>4. /\ t \in Stores /\ NoFaults(t) /\ ~t.erased /\ t.algo = x.algo /\ t.kvs = x.kvs
      <3>1. CASE t = x
        <4> HIDE DEF t, x
        <4> QED  BY <1>5, <2>3, <3>1
      <3>2. CASE t = Booted(x)
        <4> HIDE DEF t, x
        <4>1. /\ t \in Stores /\ ~t.erased
              /\ t.algo = x.algo /\ t.kvs = x.kvs /\ t.faults = x.faults
          BY <2>3, <3>2, BootedFacts
        <4> QED  BY <2>3, <4>1 DEF NoFaults
      <3> QED  BY <2>2, <3>1, <3>2
    <2> HIDE DEF t, x
    <2>5. Records(st, t, r.ok)
      BY <1>5, <2>2, <2>3, <2>4 DEF Records, SameEntry
    <2> QED  BY <2>5 DEF t
  <1> QED  BY <1>a, <1>7, <1>8

\* Close's flush of everything: what is in the flash and in the checksum.
Drained(st, t, ok, w) ==
  /\ t \in Stores /\ NoFaults(t) /\ SameEntry(st, t) /\ ~t.erased /\ ok \in BOOLEAN
  /\ ok => t.valid /\ Sound(t) /\ t.sum = w /\ t.addr = Len(w) /\ t.addr \in 1..PartitionSize

\* The flushes of Close.
Drain(st) ==
  Then(Flush(st), LAMBDA x : IF x.buf = <<>> THEN {Ok(x)} ELSE FlushFinalPartialChunk(x))

\* After the flushes of Close all accepted bytes are in the flash, or it failed.
LEMMA DrainFacts ==
    ASSUME NEW st, NEW w \in Seq(Byte), Open(st, w), ValidToWrite(st), WriteAddress(st) # 0,
           NEW r \in Drain(st)
    PROVE  Drained(st, r.st, r.ok, w)
  <1>0. PartitionSize \in Nat /\ Len(w) \in Nat
    BY BlobAssumption
  <1>1. PICK q \in Flush(st) :
          \/ ~q.ok /\ r = q
          \/ q.ok /\ r \in (IF q.st.buf = <<>> THEN {Ok(q.st)} ELSE FlushFinalPartialChunk(q.st))
    BY DEF Drain, Then
  <1> DEFINE x == q.st
             t == r.st
  <1>2. /\ q.ok \in BOOLEAN /\ StillOpen(st, x, w) /\ ~x.erased
        /\ q.ok => Ready(x) /\ Len(x.buf) < FlashWriteSize
    BY FlushFacts
  <1>3. x \in Stores /\ NoFaults(x) /\ SameEntry(st, x) /\ InHand(x, w)
    BY <1>2 DEF StillOpen, Open
  <1>4. x.sum \in Seq(Cell) /\ x.buf \in Seq(Byte) /\ x.buf \in Seq(Cell) /\ x.addr \in Nat
        /\ Len(x.buf) \in Nat
    <2>1. x.sum \in Seq(Cell) /\ x.buf \in Seq(Byte) /\ x.addr \in Nat
      BY <1>3 DEF Stores
    <2> QED  BY <2>1, BytesAreCells
  <1>5. Len(w) # 0
    <2>1. st.sum \in Seq(Cell) /\ st.buf \in Seq(Byte) /\ st.addr \in Nat /\ w = st.sum \o st.buf
          /\ Len(st.sum) = st.addr
      BY DEF Open, InHand, Stores
    <2>2. st.buf \in Seq(Cell)
      BY <2>1, BytesAreCells
    <2>3. Len(st.sum \o st.buf) = Len(st.sum) + Len(st.buf)
      BY <2>1, <2>2, ConcatProperties, Zenon
    <2> QED  BY <2>1, <2>3 DEF WriteAddress
  <1>6. CASE ~q.ok
    <2>1. t = x /\ r.ok = FALSE
      BY <1>1, <1>2, <1>6
    <2> HIDE DEF t, x
    <2>2. Drained(st, t, r.ok, w)
      BY <1>2, <1>3, <2>1 DEF Drained
    <2> QED  BY <2>2 DEF t
  <1>7. CASE q.ok
    <2>1. IF x.buf = <<>> THEN r = Ok(x) ELSE r \in FlushFinalPartialChunk(x)
      BY <1>1, <1>7, Zenon
    <2> HIDE DEF x
    <2>2. x.valid /\ Sound(x) /\ Ready(x) /\ Len(x.buf) < FlashWriteSize
      BY <1>2, <1>7 DEF Ready
    <2>3. w = x.sum \o x.buf /\ Len(x.sum) = x.addr /\ x.addr + Len(x.buf) <= PartitionSize
      BY <1>3, <2>2 DEF InHand, ValidToWrite
    <2>4. Len(w) = x.addr + Len(x.buf)
      <3>1. Len(x.sum \o x.buf) = Len(x.sum) + Len(x.buf)
        BY <1>4, ConcatProperties, Zenon
      <3> QED  BY <2>3, <3>1
    <2>5. CASE x.buf = <<>>
      <3>1. t = x /\ r.ok = TRUE
        BY <2>1, <2>5 DEF Ok
      <3>2. x.sum = w
        BY <1>4, <2>3, <2>5, ConcatEmptySeq
      <3>3. x.addr = Len(w) /\ x.addr \in 1..PartitionSize
        BY <1>0, <1>4, <1>5, <2>3, <2>4, <2>5
      <3> HIDE DEF t
      <3>4. Drained(st, t, r.ok, w)
        BY <1>2, <1>3, <2>2, <3>1, <3>2, <3>3 DEF Drained
      <3> QED  BY <3>4 DEF t
    <2>6. CASE x.buf # <<>>
      <3>0. r \in FlushFinalPartialChunk(x)
        BY <2>1, <2>6
      <3>1. /\ t \in Stores /\ NoFaults(t) /\ SameEntry(x, t) /\ ~t.erased /\ r.ok \in BOOLEAN
            /\ t.addr = x.addr + Len(x.buf) /\ t.sum = x.sum \o x.buf
            /\ r.ok => t.valid /\ Sound(t)
        BY <1>3, <2>2, <2>3, <3>0, FlushFinalFacts
      <3> HIDE DEF t
      <3>2. SameEntry(st, t)
        BY <1>3, <3>1 DEF SameEntry
      <3>3. t.addr = Len(w) /\ t.addr \in 1..PartitionSize
        BY <1>0, <1>4, <1>5, <2>3, <2>4, <3>1
      <3>4. Drained(st, t, r.ok, w)
        BY <2>3, <3>1, <3>2, <3>3 DEF Drained
      <3> QED  BY <3>4 DEF t
    <2> QED  BY <2>5, <2>6
  <1> QED  BY <1>2, <1>6, <1>7

\* What closing a writer that accepted the bytes w leaves.
Closes(st, t, ok, w) ==
  /\ t \in Stores /\ NoFaults(t) /\ Clean(t) /\ t.algo = st.algo /\ ok \in BOOLEAN
  /\ ~ok => ~t.valid /\ ~t.erased
  /\ \/ t.kvs = NoMetadata
     \/ t.kvs = st.kvs
     \/ t.kvs = Entry(st, w) /\ Contents(t, Len(w)) = w /\ Len(w) \in 1..PartitionSize
  /\ ok => /\ t.init = st.init
           /\ \/ w = <<>> /\ t.addr = 0
              \/ /\ t.valid /\ t.addr = Len(w) /\ Len(w) \in 1..PartitionSize /\ t.name = st.name
                 /\ t.kvs = Entry(st, w) /\ Contents(t, Len(w)) = w

\* BlobStore::CloseWrite.
LEMMA CloseWriteFacts ==
    ASSUME NEW st, NEW w \in Seq(Byte), Open(st, w), NEW r \in CloseWrite(st)
    PROVE  Closes(st, r.st, r.ok, w)
  <1> DEFINE results == IF ~ValidToWrite(st) THEN {Fail(st)}
                        ELSE IF WriteAddress(st) = 0 THEN {Ok(st)}
                        ELSE Then(Drain(st), WriteMetadata)
             t == r.st
  <1>0. st \in Stores /\ NoFaults(st) /\ Clean(st) /\ st.addr \in Nat /\ st.buf \in Seq(Byte)
        /\ st.sum \in Seq(Cell) /\ Len(st.buf) \in Nat
    BY DEF Open, Stores
  <1>1. PICK s \in results : r = IF s.ok THEN s ELSE Fail(Spoilt(s.st))
    BY Zenon DEF CloseWrite, Drain
  <1> HIDE DEF results
  (* The result before valid_data_ is updated. *)
  <1> DEFINE y == s.st
  <1>2. ASSUME NEW z, z = s.st, s.ok = FALSE, z \in Stores, NoFaults(z), ~z.erased, z.algo = st.algo,
               \/ z.kvs = NoMetadata
               \/ z.kvs = st.kvs
               \/ z.kvs = Entry(st, w) /\ Contents(z, Len(w)) = w /\ Len(w) \in 1..PartitionSize
        PROVE  Closes(st, t, r.ok, w)
    <2>1. t = Spoilt(z) /\ r.ok = FALSE
      BY <1>1, <1>2 DEF Fail
    <2> HIDE DEF t
    <2>2. /\ t \in Stores /\ ~t.valid /\ SameEntry(z, t)
          /\ t.erased = z.erased /\ t.flash = z.flash /\ t.faults = z.faults
      BY <1>2, <2>1, SpoiltFacts
    <2>3. Contents(t, Len(w)) = Contents(z, Len(w))
      BY <2>2 DEF Contents
    <2>4. NoFaults(t) /\ Clean(t)
      BY <1>2, <2>2 DEF NoFaults, Clean, SameEntry
    <2>5. \/ t.kvs = NoMetadata
          \/ t.kvs = st.kvs
          \/ t.kvs = Entry(st, w) /\ Contents(t, Len(w)) = w /\ Len(w) \in 1..PartitionSize
      BY <1>2, <2>2, <2>3 DEF SameEntry
    <2> QED  BY <1>2, <2>1, <2>2, <2>4, <2>5 DEF Closes, SameEntry
  <1>3. CASE ~ValidToWrite(st)
    <2>1. s = Fail(st)
      BY <1>1, <1>3 DEF results
    <2>2. s.st = st /\ s.ok = FALSE
      BY <2>1 DEF Fail
    <2>3. ~st.erased
      BY <1>3 DEF Open, ValidToWrite, Clean
    <2> QED  BY <1>0, <1>2, <2>2, <2>3
  <1>4. CASE ValidToWrite(st) /\ WriteAddress(st) = 0
    <2>1. s = Ok(st)
      BY <1>1, <1>4 DEF results
    <2>2. s.st = st /\ s.ok = TRUE
      BY <2>1 DEF Ok
    <2>3. t = st /\ r.ok = TRUE
      BY <1>1, <2>2
    <2>4. w = st.sum \o st.buf /\ Len(st.sum) = st.addr
      BY <1>4 DEF Open, InHand
    <2>5. st.addr = 0 /\ Len(st.buf) = 0
      BY <1>0, <1>4 DEF WriteAddress
    <2>6. st.sum = <<>> /\ st.buf = <<>>
      BY <1>0, <2>4, <2>5, EmptySum
    <2>7. w = <<>>
      BY <2>4, <2>6
    <2> HIDE DEF t
    <2>8. Closes(st, t, r.ok, w)
      BY <1>0, <2>3, <2>5, <2>7 DEF Closes
    <2> QED  BY <2>8 DEF t
  <1>5. CASE ValidToWrite(st) /\ WriteAddress(st) # 0
    <2>1. s \in Then(Drain(st), WriteMetadata)
      BY <1>1, <1>5 DEF results
    <2>2. PICK d \in Drain(st) : (~d.ok /\ s = d) \/ (d.ok /\ s \in WriteMetadata(d.st))
      BY <2>1 DEF Then
    <2> DEFINE e == d.st
    <2>3. Drained(st, e, d.ok, w)
      BY <1>5, DrainFacts
    <2>4. CASE ~d.ok
      <3>1. s.st = e /\ s.ok = FALSE /\ SameEntry(st, e)
        BY <2>2, <2>3, <2>4 DEF Drained
      <3>2. e \in Stores /\ NoFaults(e) /\ ~e.erased /\ e.algo = st.algo /\ e.kvs = st.kvs
        BY <2>3 DEF Drained, SameEntry
      <3> HIDE DEF e
      <3> QED  BY <1>2, <3>1, <3>2
    <2>5. CASE d.ok
      <3>1. s \in WriteMetadata(e)
        BY <2>2, <2>5
      <3> HIDE DEF e
      <3>2. e \in Stores /\ NoFaults(e) /\ ~e.erased /\ SameEntry(st, e)
            /\ e.valid /\ Sound(e) /\ e.sum = w /\ e.addr = Len(w) /\ e.addr \in 1..PartitionSize
        BY <2>3, <2>5 DEF Drained
      <3>3. Records(e, y, s.ok)
        BY <3>1, <3>2, WriteMetadataFacts
      <3>4. Entry(e, e.sum) = Entry(st, w)
        BY <3>2 DEF Entry, SameEntry
      <3> HIDE DEF y
      <3>5. /\ y \in Stores /\ NoFaults(y) /\ ~y.erased /\ y.algo = st.algo /\ s.ok \in BOOLEAN
            /\ \/ y.kvs = NoMetadata
               \/ y.kvs = st.kvs
               \/ y.kvs = Entry(st, w) /\ Contents(y, Len(w)) = w /\ Len(w) \in 1..PartitionSize
            /\ s.ok => /\ y.init = st.init /\ y.valid /\ y.addr = Len(w) /\ y.name = st.name
                       /\ y.kvs = Entry(st, w) /\ Contents(y, Len(w)) = w
        BY <3>2, <3>3, <3>4 DEF Records, SameEntry
      <3>6. CASE s.ok = FALSE
        <4>1. y = s.st
          BY DEF y
        <4> QED  BY <1>2, <3>5, <3>6, <4>1
      <3>7. CASE s.ok = TRUE
        <4>1. t = y /\ r.ok = TRUE
          BY <1>1, <3>7 DEF y
        <4> HIDE DEF t
        <4>2. Closes(st, t, r.ok, w)
          BY <3>2, <3>5, <3>7, <4>1 DEF Closes, Clean
        <4> QED  BY <4>2 DEF t
      <3> QED  BY <3>5, <3>6, <3>7
    <2> QED  BY <2>3, <2>4, <2>5 DEF Drained
  <1> QED  BY <1>3, <1>4, <1>5

\* What Init finds of the last blob.
Loads(st, t) ==
  /\ t \in Stores /\ NoFaults(t) /\ ~t.erased
  /\ t.init = st.init /\ t.algo = st.algo /\ t.flash = st.flash
  /\ t.kvs = NoMetadata \/ t.kvs = st.kvs
  /\ t.valid => /\ t.kvs = st.kvs /\ t.kvs # NoMetadata /\ t.addr = st.kvs.size
                /\ t.name = st.kvs.name
                /\ st.algo => Contents(t, st.kvs.size) = st.kvs.sum
  /\ st.kvs # NoMetadata /\ (st.algo => Contents(st, st.kvs.size) = st.kvs.sum) =>
       t.valid \/ t.faults # st.faults

\* BlobStore::LoadMetadata finds the last closed blob, or none; if it is there and
\* is not found, a read has failed.
LEMMA LoadMetadataFacts ==
    ASSUME NEW st \in Stores, NoFaults(st), ~st.erased,
           st.kvs # NoMetadata => st.kvs.size \in 1..PartitionSize,
           NEW t \in LoadMetadata(st)
    PROVE  Loads(st, t)
  <1> DEFINE fresh == ResetMetadata(st)
             n == st.kvs.size
  <1>0. st.faults \in Nat
    BY DEF Stores
  <1>1. /\ fresh \in Stores /\ ~fresh.valid /\ fresh.addr = 0
        /\ fresh.init = st.init /\ fresh.erased = st.erased /\ fresh.algo = st.algo
        /\ fresh.flash = st.flash /\ fresh.kvs = st.kvs /\ fresh.faults = st.faults
    BY ResetMetadataFacts
  <1>2. \/ st.faults < MaxFaults /\ t = Failed(fresh)
        \/ st.kvs = NoMetadata /\ t = fresh
        \/ /\ st.kvs # NoMetadata
           /\ \E check \in ValidateChecksum(fresh, n, st.kvs.sum) :
                IF check.ok THEN t = Loaded(check.st) ELSE \E r \in Invalidate(check.st) : t = r.st
    <2> DEFINE Checked == UNION {IF check.ok THEN {Loaded(check.st)} ELSE {r.st : r \in Invalidate(check.st)}
                                   : check \in ValidateChecksum(fresh, n, st.kvs.sum)}
    <2>1. t \in OnFault(st, {Failed(fresh)}) \cup (IF st.kvs = NoMetadata THEN {fresh} ELSE Checked)
      BY Zenon DEF LoadMetadata
    <2>2. CASE t \in OnFault(st, {Failed(fresh)})
      BY <2>2, Zenon DEF OnFault
    <2>3. CASE t \in (IF st.kvs = NoMetadata THEN {fresh} ELSE Checked)
      <3>1. CASE st.kvs = NoMetadata
        BY <2>3, <3>1, Zenon
      <3>2. CASE st.kvs # NoMetadata
        <4>1. t \in Checked
          BY <2>3, <3>2, Zenon
        <4>2. PICK check \in ValidateChecksum(fresh, n, st.kvs.sum) :
                t \in (IF check.ok THEN {Loaded(check.st)} ELSE {r.st : r \in Invalidate(check.st)})
          BY <4>1, Zenon
        <4>3. IF check.ok THEN t = Loaded(check.st) ELSE \E r \in Invalidate(check.st) : t = r.st
          BY <4>2, Zenon
        <4> QED  BY <3>2, <4>3
      <3> QED  BY <3>1, <3>2
    <2> QED  BY <2>1, <2>2, <2>3, Zenon
  <1> HIDE DEF fresh, n
  <1>3. NoFaults(fresh)
    BY <1>1 DEF NoFaults
  <1>4. CASE st.faults < MaxFaults /\ t = Failed(fresh)
    <2>1. t \in Stores /\ t.faults = fresh.faults + 1 /\ SameEntry(fresh, t)
          /\ t.valid = fresh.valid /\ t.erased = fresh.erased /\ t.flash = fresh.flash
      BY <1>1, <1>4, FailedFacts
    <2>2. NoFaults(t)
      BY <1>0, <1>1, <1>3, <2>1, BlobAssumption DEF NoFaults, SameEntry
    <2> QED  BY <1>0, <1>1, <2>1, <2>2 DEF Loads, SameEntry
  <1>5. CASE st.kvs = NoMetadata /\ t = fresh
    BY <1>1, <1>3, <1>5 DEF Loads
  <1>6. ASSUME st.kvs # NoMetadata, NEW check \in ValidateChecksum(fresh, n, st.kvs.sum),
               IF check.ok THEN t = Loaded(check.st) ELSE \E r \in Invalidate(check.st) : t = r.st
        PROVE  Loads(st, t)
    <2> DEFINE c == check.st
    <2>1. n \in 1..PartitionSize
      BY <1>6 DEF n
    <2>2. Contents(fresh, n) = Contents(st, n)
      BY <1>1 DEF Contents
    <2>3. /\ c \in Stores /\ NoFaults(c) /\ SameEntry(fresh, c)
          /\ c.valid = fresh.valid /\ c.erased = fresh.erased /\ c.addr = fresh.addr
          /\ c.flash = fresh.flash /\ check.ok \in BOOLEAN
          /\ check.ok => (fresh.algo => Contents(fresh, n) = st.kvs.sum)
          /\ ~check.ok => c.faults = fresh.faults + 1 \/ (fresh.algo /\ Contents(fresh, n) # st.kvs.sum)
          /\ c.faults = fresh.faults \/ c.faults = fresh.faults + 1
      <3>1. Checks(fresh, c, check.ok, n, st.kvs.sum)
        BY <1>1, <1>3, <1>6, <2>1, ValidateChecksumFacts
      <3> HIDE DEF c
      <3> QED  BY <3>1 DEF Checks
    <2> HIDE DEF c
    <2>4. CASE check.ok
      <3>1. t = Loaded(c)
        BY <1>6, <2>4 DEF c
      <3>2. /\ t \in Stores /\ t.valid /\ t.addr = c.kvs.size /\ t.name = c.kvs.name
            /\ t.init = c.init /\ t.erased = c.erased /\ t.algo = c.algo
            /\ t.flash = c.flash /\ t.kvs = c.kvs /\ t.faults = c.faults
        BY <2>3, <3>1, LoadedFacts
      <3>3. NoFaults(t)
        BY <2>3, <3>2 DEF NoFaults
      <3>4. t.flash = st.flash /\ t.kvs = st.kvs /\ t.init = st.init /\ t.algo = st.algo /\ ~t.erased
        BY <1>1, <2>3, <3>2 DEF SameEntry
      <3>5. Contents(t, n) = Contents(st, n)
        BY <3>4 DEF Contents
      <3> QED  BY <1>1, <1>6, <2>2, <2>3, <2>4, <3>2, <3>3, <3>4, <3>5 DEF Loads, n
    <2>5. CASE ~check.ok
      <3>1. PICK r \in Invalidate(c) : t = r.st
        BY <1>6, <2>5 DEF c
      <3>2. /\ t \in Stores /\ NoFaults(t)
            /\ t.init = c.init /\ t.valid = c.erased /\ t.erased = c.erased /\ t.algo = c.algo
            /\ t.flash = c.flash /\ t.faults >= c.faults
            /\ t.kvs = NoMetadata \/ t.kvs = c.kvs
        BY <2>3, <3>1, InvalidateFacts
      <3>3. c.faults = fresh.faults + 1 => t.faults # st.faults
        <4>1. t.faults \in Nat
          BY <3>2 DEF Stores
        <4> QED  BY <1>0, <1>1, <3>2, <4>1
      <3> QED  BY <1>1, <2>2, <2>3, <2>5, <3>2, <3>3 DEF Loads, SameEntry, n
    <2> QED  BY <2>3, <2>4, <2>5
  <1> QED  BY <1>2, <1>4, <1>5, <1>6

\* The blobs of the writers, and what a call of Erase left in them.
Leftovers == [bytes : Seq(Byte), name : {0, 1}]
Blobs == [bytes : Seq(Byte), name : {0, 1}, left : Leftovers]

\* A blob has bytes and a name.
LEMMA BlobFacts ==
    ASSUME NEW blob \in Blobs
    PROVE  Content(blob) \in Seq(Byte) /\ FileName(blob) \in {0, 1}
  <1>1. blob.bytes \in Seq(Byte) /\ blob.left.bytes \in Seq(Byte) /\ blob.name \in {0, 1}
        /\ blob.left.name \in {0, 1}
    BY DEF Blobs, Leftovers
  <1> QED  BY <1>1 DEF Content, FileName

\* A blob that is started again holds what was left of the last one.
LEMMA FreshFacts ==
    ASSUME NEW b \in Seq(Byte), NEW n \in {0, 1}, NEW blob, blob = Fresh([bytes |-> b, name |-> n])
    PROVE  blob \in Blobs /\ Content(blob) = b /\ FileName(blob) = n
  <1> DEFINE left == [bytes |-> b, name |-> n]
  <1>1. left \in Leftovers /\ left.bytes = b /\ left.name = n
    BY DEF Leftovers
  <1>2. <<>> \in Seq(Byte) /\ 0 \in {0, 1}
    OBVIOUS
  <1> HIDE DEF left
  <1>3. blob = Fresh(left)
    BY DEF left
  <1>4. blob \in Blobs
    BY <1>1, <1>2, <1>3 DEF Blobs, Fresh
  <1>5. blob.bytes = <<>> /\ blob.name = 0 /\ blob.left = left
    BY <1>3 DEF Fresh
  <1>6. Content(blob) = b \o <<>> /\ FileName(blob) = n
    BY <1>1, <1>5 DEF Content, FileName
  <1> QED  BY <1>4, <1>6

\* Nothing was written and nothing was left.
LEMMA FreshNothing ==
    ASSUME NEW blob, blob = Fresh(Nothing)
    PROVE  blob \in Blobs /\ Content(blob) = <<>> /\ FileName(blob) = 0
  <1>1. <<>> \in Seq(Byte)
    OBVIOUS
  <1> QED  BY <1>1, FreshFacts DEF Nothing

\* Concatenation, for sequences of bytes.
LEMMA ByteAssociative == \A a, b, c \in Seq(Byte) : (a \o b) \o c = a \o (b \o c)
  BY ConcatAssociative

\* The writer's blob after an accepted write.
LEMMA LongerBlob ==
    ASSUME NEW blob \in Blobs, NEW d \in Seq(Byte), NEW new, new = [blob EXCEPT !.bytes = @ \o d]
    PROVE  new \in Blobs /\ Content(new) = Content(blob) \o d /\ FileName(new) = FileName(blob)
  <1>1. blob.bytes \in Seq(Byte) /\ blob.left.bytes \in Seq(Byte) /\ blob.bytes \o d \in Seq(Byte)
    BY DEF Blobs, Leftovers
  <1>2. new.bytes = blob.bytes \o d /\ new.name = blob.name /\ new.left = blob.left
    BY DEF Blobs
  <1>3. new \in Blobs
    BY <1>1 DEF Blobs
  <1>4. blob.left.bytes \o (blob.bytes \o d) = (blob.left.bytes \o blob.bytes) \o d
    BY <1>1, ByteAssociative
  <1>5. ASSUME NEW x, x.bytes = blob.bytes \o d, x.name = blob.name, x.left = blob.left
        PROVE  Content(x) = blob.left.bytes \o (blob.bytes \o d) /\ FileName(x) = FileName(blob)
    BY <1>5, Zenon DEF Content, FileName
  <1>6. Content(blob) \o d = (blob.left.bytes \o blob.bytes) \o d
    BY DEF Content
  <1> QED  BY <1>2, <1>3, <1>4, <1>5, <1>6, Zenon

\* The writer's blob after SetFileName.
LEMMA NamedBlob ==
    ASSUME NEW blob \in Blobs, NEW new, new = [blob EXCEPT !.name = 1]
    PROVE  new \in Blobs /\ Content(new) = Content(blob) /\ FileName(new) = 1
  BY DEF Blobs, Content, FileName

\* Types of the variables.
TypeOK ==
  /\ store \in Stores
  /\ writer \in {"none", "direct", "deferred"}
  /\ offset \in [Readers -> Int]
  /\ written \in Blobs /\ whole \in Blobs
  /\ kept \in {"no", "closed", "hidden"}
  /\ opens \in Nat

\* The stored metadata describe the last blob that was closed. Without a
\* checksum the flash itself must still hold it.
Stored(st, blob) ==
  st.kvs # NoMetadata =>
    /\ st.kvs = Metadata(Len(Content(blob)), IF st.algo THEN Content(blob) ELSE <<>>, FileName(blob))
    /\ Len(Content(blob)) \in 1..PartitionSize
    /\ ~st.algo => Contents(st, Len(Content(blob))) = Content(blob)

\* The store of an open writer.
Writing(st, kind, blob) ==
  /\ Open(st, Content(blob)) /\ st.init /\ st.name = FileName(blob)
  /\ ~st.algo => st.kvs = NoMetadata
  /\ kind = "direct" => Len(st.buf) < FlashWriteSize

\* No writer is open.
Quiet(st, blob) ==
  st.init /\ HasData(st) => Contents(st, st.addr) = Content(blob) /\ st.name = FileName(blob)

\* A blob whose Close returned OK.
Safe(st, blob, how) ==
  /\ st.kvs # NoMetadata /\ Contents(st, Len(Content(blob))) = Content(blob)
  /\ st.init /\ how = "closed" => st.valid /\ st.addr = Len(Content(blob))

\* The inductive invariant.
BlobInv ==
  /\ TypeOK
  /\ NoFaults(store) /\ Clean(store) /\ Stored(store, whole)
  /\ writer # "none" => Writing(store, writer, written) /\ NoReaders
  /\ writer = "none" => Quiet(store, whole)
  /\ kept # "no" => Safe(store, whole, kept) /\ writer = "none"
  /\ ~store.init => ~store.erased /\ NoReaders
  /\ ReadersSeeStableBlob

\* The bytes of a call of Write.
LEMMA DataType ==
    ASSUME Content(written) \in Seq(Byte), NEW n \in Nat, NEW b \in Bytes
    PROVE  Data(n, b) \in Seq(Byte)
  <1>1. Len(Content(written)) \in Nat
    OBVIOUS
  <1>2. \A i \in 1..n : <<b, Len(Content(written)) + i>> \in Byte
    BY <1>1 DEF Byte
  <1> DEFINE f == Data(n, b)
  <1>3. f \in [1..n -> Byte]
    BY <1>2, Zenon DEF Data
  <1> HIDE DEF f
  <1>4. f \in Seq(Byte)
    BY <1>3
  <1> QED  BY <1>4 DEF f

\* What a call of the open writer leaves: the entry stays, or is deleted.
LEMMA WriterKeepsStored ==
    ASSUME NEW st, NEW t, NEW blob, Stored(st, blob), ~st.algo => st.kvs = NoMetadata,
           t.algo = st.algo, t.kvs = NoMetadata \/ t.kvs = st.kvs
    PROVE  Stored(t, blob) /\ (~t.algo => t.kvs = NoMetadata)
  BY DEF Stored

\* The constructor over an erased partition and no metadata.
LEMMA InitEstablishes == Init => BlobInv
  <1> SUFFICES ASSUME Init PROVE BlobInv
    OBVIOUS
  <1>1. PICK algo \in BOOLEAN :
          store = Booted([algo |-> algo, flash |-> [c \in Cells |-> Erased],
                          kvs |-> NoMetadata, faults |-> IF algo THEN 0 ELSE MaxFaults])
    BY DEF Init
  <1>2. /\ ~store.init /\ ~store.valid /\ ~store.erased /\ store.addr = 0 /\ store.buf = <<>>
        /\ store.sum = <<>> /\ store.name = 0 /\ store.algo = algo
        /\ store.flash = [c \in Cells |-> Erased] /\ store.kvs = NoMetadata
        /\ store.faults = IF algo THEN 0 ELSE MaxFaults
    BY <1>1 DEF Booted
  <1>3. store \in Stores
    <2>1. [c \in Cells |-> Erased] \in [Cells -> Cell]
      BY DEF Cell
    <2>2. (IF algo THEN 0 ELSE MaxFaults) \in Nat
      BY BlobAssumption
    <2>3. <<>> \in Seq(Byte) /\ <<>> \in Seq(Cell) /\ 0 \in Nat /\ NoMetadata \in Entries
      BY NoMetadataType
    <2>4. ASSUME NEW f \in [Cells -> Cell], NEW n \in Nat, NEW m \in Entries, NEW a \in BOOLEAN,
                 NEW p \in Seq(Byte), NEW q \in Seq(Cell)
          PROVE  [init |-> FALSE, valid |-> FALSE, erased |-> FALSE, addr |-> 0, buf |-> p,
                  sum |-> q, name |-> 0, algo |-> a, flash |-> f, kvs |-> m, faults |-> n] \in Stores
      BY Zenon, <2>3 DEF Stores
    <2>5. store = [init |-> FALSE, valid |-> FALSE, erased |-> FALSE, addr |-> 0, buf |-> <<>>,
                   sum |-> <<>>, name |-> 0, algo |-> algo, flash |-> [c \in Cells |-> Erased],
                   kvs |-> NoMetadata, faults |-> IF algo THEN 0 ELSE MaxFaults]
      BY <1>1 DEF Booted
    <2> QED  BY <2>1, <2>2, <2>3, <2>4, <2>5, Zenon
  <1>4. writer = "none" /\ offset = [r \in Readers |-> -1] /\ written = Fresh(Nothing)
        /\ whole = Fresh(Nothing) /\ kept = "no" /\ opens = 0
    BY DEF Init
  <1>5. TypeOK
    <2>1. 0 \in Nat /\ -1 \in Int
      OBVIOUS
    <2>2. [r \in Readers |-> -1] \in [Readers -> Int]
      BY <2>1
    <2>3. Fresh(Nothing) \in Blobs
      BY FreshNothing
    <2> QED  BY <1>3, <1>4, <2>1, <2>2, <2>3, Zenon DEF TypeOK
  <1>6. NoFaults(store) /\ Clean(store) /\ Stored(store, whole) /\ Quiet(store, whole)
    BY <1>2, BlobAssumption DEF NoFaults, Clean, Stored, Quiet
  <1>7. NoReaders /\ ReadersSeeStableBlob
    BY <1>4 DEF NoReaders, ReadersSeeStableBlob
  <1> QED  BY <1>2, <1>4, <1>5, <1>6, <1>7 DEF BlobInv

\* BlobStore::Init.
LEMMA InitStorePreserves ==
    ASSUME BlobInv, InitStore
    PROVE  BlobInv'
  <1> DEFINE st == [store EXCEPT !.init = TRUE]
             t == store'
  <1>1. store \in Stores /\ NoFaults(store) /\ ~store.init /\ ~store.erased /\ NoReaders
        /\ Stored(store, whole) /\ TypeOK
    BY DEF BlobInv, TypeOK, InitStore
  <1>2. /\ st \in Stores /\ st.init /\ st.erased = store.erased /\ st.algo = store.algo
        /\ st.flash = store.flash /\ st.kvs = store.kvs /\ st.faults = store.faults
    BY <1>1 DEF Stores
  <1>3. /\ t \in LoadMetadata(st) /\ UNCHANGED <<writer, offset, written, whole, opens>>
        /\ kept' = IF kept = "no" \/ t.faults = store.faults THEN kept
                   ELSE IF t.kvs = store.kvs THEN "hidden" ELSE "no"
    BY DEF InitStore
  <1> HIDE DEF st, t
  <1>4. NoFaults(st) /\ ~st.erased
    BY <1>1, <1>2 DEF NoFaults
  <1> DEFINE b == Content(whole)
             n == Len(b)
  <1>5. ASSUME st.kvs # NoMetadata
        PROVE  /\ st.kvs.size = n /\ st.kvs.name = FileName(whole) /\ n \in 1..PartitionSize
               /\ st.algo => st.kvs.sum = b
               /\ ~st.algo => Contents(st, n) = b
    <2>1. /\ st.kvs = Metadata(n, IF st.algo THEN b ELSE <<>>, FileName(whole))
          /\ n \in 1..PartitionSize
          /\ ~st.algo => Contents(store, n) = b
      BY <1>1, <1>2, <1>5 DEF Stored
    <2>2. Contents(st, n) = Contents(store, n)
      BY <1>2 DEF Contents
    <2> HIDE DEF b, n
    <2>3. st.kvs.size = n /\ st.kvs.name = FileName(whole) /\ (st.algo => st.kvs.sum = b)
      BY <2>1 DEF Metadata
    <2> QED  BY <2>1, <2>2, <2>3
  <1> HIDE DEF b, n
  <1>6. Loads(st, t)
    BY <1>2, <1>3, <1>4, <1>5, LoadMetadataFacts
  <1>7. /\ t \in Stores /\ NoFaults(t) /\ ~t.erased
        /\ t.init /\ t.algo = st.algo /\ t.flash = st.flash
        /\ t.kvs = NoMetadata \/ t.kvs = st.kvs
    BY <1>2, <1>6 DEF Loads
  <1>8. Contents(t, n) = Contents(st, n) /\ Contents(st, n) = Contents(store, n)
    BY <1>2, <1>7 DEF Contents
  <1>9. Clean(t)
    BY <1>7 DEF Clean
  <1>10. Stored(t, whole)
    BY <1>1, <1>2, <1>7, <1>8 DEF Stored, b, n
  <1>11. t.valid => t.addr = n /\ t.name = FileName(whole) /\ Contents(t, n) = b /\ t.kvs # NoMetadata
    BY <1>2, <1>5, <1>6, <1>8 DEF Loads
  <1>12. Quiet(t, whole)
    BY <1>11 DEF Quiet, HasData, b
  <1>13. ASSUME kept' # "no" PROVE Safe(t, whole, kept')
    <2>0. kept # "no"
      BY <1>3, <1>13
    <2>1. st.kvs # NoMetadata /\ Contents(st, n) = b
      BY <1>2, <1>8, <2>0 DEF BlobInv, Safe, b, n
    <2>2. t.valid \/ t.faults # store.faults
      BY <1>2, <1>5, <1>6, <2>1 DEF Loads
    <2>3. CASE t.valid
      BY <1>11, <2>3 DEF Safe, b, n
    <2>4. CASE ~t.valid
      <3>1. kept' = "hidden" /\ t.kvs = store.kvs
        BY <1>3, <1>13, <2>0, <2>2, <2>4
      <3> QED  BY <1>2, <1>8, <2>1, <3>1 DEF Safe, b, n
    <2> QED  BY <2>3, <2>4
  <1>14. TypeOK'
    <2>1. kept' \in {"no", "closed", "hidden"}
      BY <1>1, <1>3 DEF TypeOK
    <2> QED  BY <1>1, <1>3, <1>7, <2>1 DEF TypeOK, t
  <1>15. writer = "none" /\ NoReaders'
    BY <1>1, <1>3 DEF BlobInv, Writing, NoReaders
  <1>16. ReadersSeeStableBlob'
    BY <1>15 DEF ReadersSeeStableBlob, NoReaders
  <1> QED  BY <1>3, <1>7, <1>9, <1>10, <1>12, <1>13, <1>14, <1>15, <1>16 DEF BlobInv, t

\* A step of the open writer: enough that the store is one of an open writer.
LEMMA WriterStep ==
    ASSUME BlobInv, writer' \in {"direct", "deferred"}, NoReaders, offset' = offset, whole' = whole, kept' = "no",
           opens' \in Nat, written' \in Blobs,
           Writing(store', writer', written'), Stored(store', whole)
    PROVE  BlobInv'
  <1>1. store' \in Stores /\ NoFaults(store') /\ Clean(store') /\ store'.init
    BY DEF Writing, Open
  <1>2. TypeOK'
    BY <1>1 DEF BlobInv, TypeOK
  <1>3. NoReaders' /\ ReadersSeeStableBlob'
    BY DEF NoReaders, ReadersSeeStableBlob
  <1>4. writer' # "none"
    OBVIOUS
  <1> QED  BY <1>1, <1>2, <1>3, <1>4 DEF BlobInv

\* What Invalidate leaves, whether or not the entry could be deleted.
Invalidated(st, t) ==
  /\ t \in Stores /\ NoFaults(t)
  /\ t.init = st.init /\ t.valid = st.erased /\ t.erased = st.erased /\ t.addr = 0
  /\ t.buf = <<>> /\ t.sum = <<>> /\ t.name = 0 /\ t.algo = st.algo
  /\ t.flash = st.flash
  /\ t.kvs = NoMetadata \/ (t.kvs = st.kvs /\ st.algo)

\* Every result of Invalidate is Invalidated.
LEMMA InvalidatedFacts ==
    ASSUME NEW st \in Stores, NoFaults(st), NEW r \in Invalidate(st)
    PROVE  Invalidated(st, r.st)
  BY InvalidateFacts DEF Invalidated

\* An invalidated store is one of a writer that has accepted nothing.
LEMMA InvalidatedIsOpen ==
    ASSUME NEW st \in Stores, NoFaults(st), Clean(st), st.init, NEW blob, Stored(st, blob),
           NEW r \in Invalidate(st), NEW kind, NEW t, t = r.st
    PROVE  Writing(t, kind, Fresh(Nothing)) /\ Stored(t, blob)
  <1>1. /\ t \in Stores /\ NoFaults(t)
        /\ t.init = st.init /\ t.valid = st.erased /\ t.erased = st.erased /\ t.addr = 0
        /\ t.buf = <<>> /\ t.sum = <<>> /\ t.name = 0 /\ t.algo = st.algo
        /\ t.flash = st.flash
        /\ t.kvs = NoMetadata \/ (t.kvs = st.kvs /\ st.algo)
    BY InvalidatedFacts DEF Invalidated
  <1>2. Clean(t)
    BY <1>1 DEF Clean
  <1>3. ~HasData(t)
    BY <1>1 DEF HasData
  <1>4. InHand(t, <<>>) /\ Len(t.buf) < FlashWriteSize
    BY <1>1, BlobAssumption DEF InHand
  <1>5. Stored(t, blob)
    BY <1>1 DEF Stored
  <1>6. Content(Fresh(Nothing)) = <<>> /\ FileName(Fresh(Nothing)) = 0
    BY FreshNothing
  <1> QED  BY <1>1, <1>2, <1>3, <1>4, <1>5, <1>6 DEF Writing, Open

\* BlobWriter::Open.
LEMMA OpenWriterPreserves ==
    ASSUME BlobInv, NEW kind \in {"direct", "deferred"}, OpenWriter(kind)
    PROVE  BlobInv'
  <1>1. PICK r \in Invalidate(store) : store' = r.st
    BY DEF OpenWriter
  <1>2. store.init /\ NoReaders /\ writer' = kind /\ written' = Fresh(Nothing) /\ kept' = "no"
        /\ opens' = opens + 1 /\ offset' = offset /\ whole' = whole
    BY DEF OpenWriter, OpenWrite
  <1>3. store \in Stores /\ NoFaults(store) /\ Clean(store) /\ Stored(store, whole) /\ opens \in Nat
    BY DEF BlobInv, TypeOK
  <1>4. Writing(store', kind, Fresh(Nothing)) /\ Stored(store', whole)
    BY <1>1, <1>2, <1>3, InvalidatedIsOpen
  <1>5. /\ writer' \in {"direct", "deferred"} /\ kept' = "no" /\ opens' \in Nat
        /\ written' \in Blobs /\ Writing(store', writer', written')
    <2>1. opens' \in Nat
      BY <1>2, <1>3
    <2>2. Fresh(Nothing) \in Blobs
      BY FreshNothing
    <2> QED  BY <1>2, <1>4, <2>1, <2>2, Zenon
  <1> QED  BY <1>2, <1>4, <1>5, WriterStep

\* BlobWriter::Discard.
LEMMA DiscardWriterPreserves ==
    ASSUME BlobInv, DiscardWriter
    PROVE  BlobInv'
  <1>1. PICK r \in Invalidate(store) : store' = r.st
    BY DEF DiscardWriter
  <1>2. writer # "none" /\ written' = Fresh(Nothing) /\ writer' = writer /\ offset' = offset
        /\ whole' = whole /\ kept' = kept /\ opens' = opens
    BY DEF DiscardWriter
  <1>3. store \in Stores /\ NoFaults(store) /\ Clean(store) /\ Stored(store, whole) /\ opens \in Nat
        /\ store.init /\ NoReaders /\ kept = "no" /\ writer \in {"direct", "deferred"}
    BY <1>2 DEF BlobInv, TypeOK, Writing
  <1>4. Writing(store', writer, Fresh(Nothing)) /\ Stored(store', whole)
    BY <1>1, <1>3, InvalidatedIsOpen
  <1>5. Fresh(Nothing) \in Blobs
    BY FreshNothing
  <1> QED  BY <1>2, <1>3, <1>4, <1>5, WriterStep

\* The facts about an open writer that the steps use.
LEMMA WriterFacts ==
    ASSUME BlobInv, writer # "none"
    PROVE  /\ Open(store, Content(written)) /\ store.init /\ (~store.algo => store.kvs = NoMetadata)
           /\ writer = "direct" => Len(store.buf) < FlashWriteSize
           /\ Stored(store, whole) /\ NoReaders /\ kept = "no" /\ opens \in Nat
           /\ writer \in {"direct", "deferred"} /\ written \in Blobs /\ whole \in Blobs
           /\ Content(written) \in Seq(Byte) /\ store.name = FileName(written)
  <1>1. written \in Blobs
    BY DEF BlobInv, TypeOK
  <1> QED  BY <1>1, BlobFacts DEF BlobInv, TypeOK, Writing

\* A call that leaves the entry alone keeps the writer open.
LEMMA StillOpenStep ==
    ASSUME BlobInv, writer # "none", UNCHANGED <<writer, offset, whole, kept, opens>>,
           written' \in Blobs, FileName(written') = FileName(written),
           StillOpen(store, store', Content(written')),
           writer = "direct" => Len(store'.buf) < FlashWriteSize
    PROVE  BlobInv'
  <1>1. /\ store.init /\ (~store.algo => store.kvs = NoMetadata)
        /\ Stored(store, whole) /\ NoReaders /\ kept = "no" /\ opens \in Nat
        /\ writer \in {"direct", "deferred"} /\ store.name = FileName(written)
    BY WriterFacts
  <1>2. Open(store', Content(written')) /\ store'.kvs = store.kvs /\ store'.algo = store.algo
        /\ store'.init = store.init /\ store'.name = store.name
    BY DEF StillOpen, SameEntry
  <1>3. Stored(store', whole) /\ (~store'.algo => store'.kvs = NoMetadata)
    BY <1>1, <1>2, WriterKeepsStored
  <1>4. Writing(store', writer', written')
    BY <1>1, <1>2, <1>3 DEF Writing
  <1> QED  BY <1>1, <1>3, <1>4, WriterStep

\* BlobWriter::DoWrite and DeferredWriter::DoWrite.
LEMMA DoWritePreserves ==
    ASSUME BlobInv, NEW n \in 0..MaxWrite, NEW b \in Bytes, DoWrite(n, b)
    PROVE  BlobInv'
  <1> DEFINE data == Data(n, b)
             w == Content(written)
             longer == [written EXCEPT !.bytes = @ \o data]
  <1>0. n \in Nat /\ writer # "none"
    BY BlobAssumption DEF DoWrite
  <1>1. PICK r \in (IF writer = "direct" THEN Write(store, data) ELSE AddToWriteBuffer(store, data)) :
          store' = r.st /\ written' = IF r.ok THEN longer ELSE written
    BY DEF DoWrite
  <1>2. Open(store, w) /\ w \in Seq(Byte) /\ written \in Blobs
        /\ (writer = "direct" => Len(store.buf) < FlashWriteSize)
    BY <1>0, WriterFacts
  <1>3. data \in Seq(Byte)
    BY <1>0, <1>2, DataType
  <1> HIDE DEF data
  <1>4. longer \in Blobs /\ Content(longer) = w \o data /\ FileName(longer) = FileName(written)
    BY <1>2, <1>3, LongerBlob
  <1> HIDE DEF w, longer
  <1>5. /\ r.ok \in BOOLEAN
        /\ r.ok => StillOpen(store, store', w \o data)
        /\ ~r.ok => StillOpen(store, store', w)
        /\ writer = "direct" => Len(store'.buf) < FlashWriteSize
    <2>1. CASE writer = "direct"
      <3>1. r \in Write(store, data)
        BY <1>1, <2>1
      <3> QED  BY <1>1, <1>2, <1>3, <2>1, <3>1, WriteFacts
    <2>2. CASE writer # "direct"
      <3>1. r \in AddToWriteBuffer(store, data)
        BY <1>1, <2>2
      <3> QED  BY <1>1, <1>2, <1>3, <2>2, <3>1, AddToWriteBufferFacts
    <2> QED  BY <2>1, <2>2
  <1>6. written' \in Blobs /\ FileName(written') = FileName(written)
        /\ StillOpen(store, store', Content(written'))
    <2>1. CASE r.ok
      <3>1. written' = longer
        BY <1>1, <2>1
      <3> QED  BY <1>4, <1>5, <2>1, <3>1
    <2>2. CASE ~r.ok
      <3>1. written' = written
        BY <1>1, <2>2
      <3> QED  BY <1>2, <1>5, <2>2, <3>1 DEF w
    <2> QED  BY <1>5, <2>1, <2>2
  <1>7. UNCHANGED <<writer, offset, whole, kept, opens>>
    BY DEF DoWrite
  <1> QED  BY <1>0, <1>5, <1>6, <1>7, StillOpenStep

\* DeferredWriter::Flush.
LEMMA FlushWriterPreserves ==
    ASSUME BlobInv, FlushWriter
    PROVE  BlobInv'
  <1>1. PICK r \in Flush(store) : store' = r.st
    BY DEF FlushWriter
  <1>2. writer = "deferred" /\ UNCHANGED <<writer, offset, written, whole, kept, opens>>
    BY DEF FlushWriter
  <1>3. Open(store, Content(written)) /\ Content(written) \in Seq(Byte) /\ written \in Blobs
    BY <1>2, WriterFacts
  <1>4. StillOpen(store, store', Content(written))
    BY <1>1, <1>3, FlushFacts
  <1> QED  BY <1>2, <1>3, <1>4, StillOpenStep

\* BlobWriter::SetFileName.
LEMMA SetFileNamePreserves ==
    ASSUME BlobInv, SetFileName
    PROVE  BlobInv'
  <1>1. writer # "none" /\ store' = [store EXCEPT !.name = 1]
        /\ written' = [written EXCEPT !.name = 1]
        /\ UNCHANGED <<writer, offset, whole, kept, opens>>
    BY DEF SetFileName
  <1>2. /\ Open(store, Content(written)) /\ store.init /\ (~store.algo => store.kvs = NoMetadata)
        /\ writer = "direct" => Len(store.buf) < FlashWriteSize
        /\ Stored(store, whole) /\ NoReaders /\ kept = "no" /\ opens \in Nat
        /\ writer \in {"direct", "deferred"} /\ written \in Blobs
    BY <1>1, WriterFacts
  <1>a. written' \in Blobs /\ Content(written') = Content(written) /\ FileName(written') = 1
    BY <1>1, <1>2, NamedBlob
  <1> DEFINE t == store'
  <1>3. /\ t \in Stores /\ t.init = store.init /\ t.valid = store.valid /\ t.erased = store.erased
        /\ t.addr = store.addr /\ t.buf = store.buf /\ t.sum = store.sum /\ t.algo = store.algo
        /\ t.flash = store.flash /\ t.kvs = store.kvs /\ t.faults = store.faults /\ t.name = 1
    BY <1>1, <1>2 DEF Open, Stores
  <1> HIDE DEF t
  <1>4. NoFaults(t) /\ Clean(t) /\ InHand(t, Content(written))
    BY <1>2, <1>3 DEF Open, NoFaults, Clean, InHand, ValidToWrite
  <1>5. HasData(t) => Ready(t)
    <2>1. Contents(t, t.addr) = Contents(store, store.addr)
      BY <1>3 DEF Contents
    <2> QED  BY <1>2, <1>3, <2>1 DEF Open, HasData, Ready, Sound, Ahead
  <1>6. Stored(t, whole) /\ (~t.algo => t.kvs = NoMetadata)
    BY <1>2, <1>3, WriterKeepsStored
  <1>7. Writing(t, writer, written')
    BY <1>a, <1>2, <1>3, <1>4, <1>5, <1>6 DEF Writing, Open
  <1> QED  BY <1>1, <1>2, <1>a, <1>6, <1>7, WriterStep DEF t

\* BlobWriter::Erase.
LEMMA EraseWriterPreserves ==
    ASSUME BlobInv, EraseWriter
    PROVE  BlobInv'
  <1>1. PICK r \in Erase(store) : store' = r.st
    BY DEF EraseWriter
  <1>2. writer # "none" /\ written' = Fresh([bytes |-> store'.buf, name |-> store'.name])
        /\ UNCHANGED <<writer, offset, whole, kept, opens>>
    BY DEF EraseWriter
  <1>3. /\ Open(store, Content(written)) /\ store.init /\ (~store.algo => store.kvs = NoMetadata)
        /\ writer = "direct" => Len(store.buf) < FlashWriteSize
        /\ Stored(store, whole) /\ NoReaders /\ kept = "no" /\ opens \in Nat
        /\ writer \in {"direct", "deferred"}
    BY <1>2, WriterFacts
  <1> DEFINE t == store'
  <1>4. /\ t \in Stores /\ NoFaults(t) /\ Clean(t)
        /\ t.init = store.init /\ t.algo = store.algo /\ t.addr = 0
        /\ t.kvs = NoMetadata \/ t.kvs = store.kvs
        /\ store.addr = 0 => SameEntry(store, t) /\ t.buf = store.buf /\ t.sum = store.sum
        /\ store.addr # 0 => t.buf = <<>> /\ t.sum = <<>>
    <2>1. store \in Stores /\ NoFaults(store) /\ Clean(store)
      BY <1>3 DEF Open
    <2> QED  BY <1>1, <2>1, EraseFacts
  <1>5. written' \in Blobs /\ Content(written') = t.buf /\ FileName(written') = t.name
    <2>1. t.buf \in Seq(Byte) /\ t.name \in {0, 1}
      BY <1>4 DEF Stores
    <2> QED  BY <1>2, <2>1, FreshFacts
  <1> HIDE DEF t
  <1>6. ~HasData(t)
    BY <1>4 DEF HasData
  <1>7. InHand(t, t.buf) /\ (writer = "direct" => Len(t.buf) < FlashWriteSize)
    <2>0. t.buf \in Seq(Byte) /\ t.buf = <<>> \o t.buf /\ t.sum \in Seq(Cell)
      BY <1>4 DEF Stores
    <2>1. CASE store.addr = 0
      <3>1. InHand(store, Content(written)) /\ ValidToWrite(store)
        BY <1>3, <2>1 DEF Open, ValidToWrite
      <3>2. Len(t.sum) = 0 /\ t.addr + Len(t.buf) <= PartitionSize
        BY <1>4, <2>1, <3>1 DEF InHand
      <3>3. t.sum = <<>>
        BY <2>0, <3>2, EmptySum
      <3> QED  BY <1>3, <1>4, <2>0, <2>1, <3>2, <3>3 DEF InHand
    <2>2. CASE store.addr # 0
      <3>1. t.buf = <<>> /\ t.sum = <<>> /\ t.addr = 0
        BY <1>4, <2>2
      <3> QED  BY <3>1, BlobAssumption DEF InHand
    <2> QED  BY <2>1, <2>2
  <1>8. Stored(t, whole) /\ (~t.algo => t.kvs = NoMetadata)
    BY <1>3, <1>4, WriterKeepsStored
  <1>9. Writing(t, writer, written')
    BY <1>3, <1>4, <1>5, <1>6, <1>7, <1>8 DEF Writing, Open
  <1> QED  BY <1>2, <1>3, <1>5, <1>8, <1>9, WriterStep DEF t

\* BlobWriter::Close.
LEMMA CloseWriterPreserves ==
    ASSUME BlobInv, CloseWriter
    PROVE  BlobInv'
  <1> DEFINE t == store'
             w == Content(written)
             new == written
  <1>1. PICK r \in CloseWrite(store) :
          /\ store' = r.st
          /\ whole' = IF r.st.kvs \notin {store.kvs, NoMetadata} THEN new ELSE whole
          /\ kept' = IF r.ok /\ Content(written) # <<>> THEN "closed" ELSE "no"
    BY DEF CloseWriter
  <1>2. writer # "none" /\ writer' = "none" /\ written' = Fresh(Nothing) /\ UNCHANGED <<offset, opens>>
    BY DEF CloseWriter
  <1>3. /\ Open(store, w) /\ store.init /\ (~store.algo => store.kvs = NoMetadata)
        /\ Stored(store, whole) /\ NoReaders /\ opens \in Nat /\ w \in Seq(Byte)
        /\ whole \in Blobs /\ written \in Blobs /\ store.name = FileName(written)
    BY <1>2, WriterFacts
  <1>4. Closes(store, t, r.ok, w)
    BY <1>1, <1>3, CloseWriteFacts
  <1>5. /\ t \in Stores /\ NoFaults(t) /\ Clean(t) /\ t.algo = store.algo /\ r.ok \in BOOLEAN
        /\ ~r.ok => ~t.valid /\ ~t.erased
        /\ r.ok => t.init
    BY <1>3, <1>4 DEF Closes
  <1>6. t.kvs = r.st.kvs /\ store.name \in {0, 1} /\ store.kvs \in Entries
    BY <1>1, <1>3 DEF Open, Stores
  <1> HIDE DEF t, w
  <1>7. ASSUME Len(w) \in 1..PartitionSize PROVE Entry(store, w) # NoMetadata
    <2>1. Entry(store, w).size = Len(w) /\ NoMetadata.size = 0
      BY DEF Entry, Metadata, NoMetadata
    <2>2. Len(w) # 0
      BY <1>7
    <2> QED  BY <2>1, <2>2
  (* The metadata and the blob they describe, together. *)
  <1>8. Content(new) = w /\ FileName(new) = store.name
    BY <1>3 DEF w
  <1>9. new \in Blobs
    BY <1>3
  <1> HIDE DEF new
  <1>10. ASSUME t.kvs = Entry(store, w), Contents(t, Len(w)) = w, Len(w) \in 1..PartitionSize
         PROVE  Content(whole') = w /\ FileName(whole') = store.name /\ Stored(t, whole')
    <2>1. CASE t.kvs = store.kvs
      <3>1. store.algo
        BY <1>3, <1>7, <1>10, <2>1
      <3>2. whole' = whole
        BY <1>1, <1>6, <2>1
      <3>3. store.kvs = Metadata(Len(Content(whole)), Content(whole), FileName(whole))
        BY <1>3, <1>7, <1>10, <2>1, <3>1 DEF Stored
      <3>4. store.kvs = Metadata(Len(w), w, store.name)
        BY <1>10, <2>1, <3>1 DEF Entry
      <3>5. Content(whole) = w /\ FileName(whole) = store.name
        <4>1. store.kvs.sum = Content(whole) /\ store.kvs.name = FileName(whole)
          BY <3>3 DEF Metadata
        <4>2. store.kvs.sum = w /\ store.kvs.name = store.name
          BY <3>4 DEF Metadata
        <4> QED  BY <4>1, <4>2
      <3>6. Stored(t, whole)
        BY <1>3, <1>5, <1>10, <2>1, <3>1 DEF Stored
      <3> QED  BY <3>2, <3>5, <3>6
    <2>2. CASE t.kvs # store.kvs
      <3>1. whole' = new
        BY <1>1, <1>6, <1>7, <1>10, <2>2
      <3>2. Stored(t, new)
        BY <1>5, <1>8, <1>10 DEF Stored, Entry
      <3> QED  BY <1>8, <3>1, <3>2
    <2> QED  BY <2>1, <2>2
  <1>11. Stored(t, whole')
    <2>1. CASE t.kvs = NoMetadata
      BY <2>1 DEF Stored
    <2>2. CASE t.kvs = store.kvs /\ t.kvs # NoMetadata
      <3>1. whole' = whole /\ store.algo
        BY <1>1, <1>3, <1>6, <2>2
      <3>2. Stored(t, whole)
        BY <1>3, <1>5, <2>2, <3>1 DEF Stored
      <3> QED  BY <3>1, <3>2
    <2>3. CASE t.kvs = Entry(store, w) /\ Contents(t, Len(w)) = w /\ Len(w) \in 1..PartitionSize
      BY <1>10, <2>3
    <2> QED  BY <1>4, <2>1, <2>2, <2>3 DEF Closes
  <1>12. r.ok => \/ w = <<>> /\ t.addr = 0
                 \/ /\ t.valid /\ t.addr = Len(w) /\ Len(w) \in 1..PartitionSize
                    /\ t.name = store.name
                    /\ t.kvs = Entry(store, w) /\ Contents(t, Len(w)) = w
    BY <1>4 DEF Closes
  <1>13. Quiet(t, whole')
    <2>1. CASE ~r.ok
      BY <1>5, <2>1 DEF Quiet, HasData
    <2>2. CASE r.ok
      BY <1>10, <1>12, <2>2 DEF Quiet, HasData
    <2> QED  BY <2>1, <2>2
  <1>14. kept' \in {"no", "closed"} /\ (kept' # "no" => r.ok /\ w # <<>>)
    BY <1>1, Zenon DEF w
  <1>15. kept' # "no" => Safe(t, whole', kept')
    <2> SUFFICES ASSUME kept' # "no" PROVE Safe(t, whole', kept')
      OBVIOUS
    <2>1. /\ t.valid /\ t.addr = Len(w) /\ Len(w) \in 1..PartitionSize
          /\ t.kvs = Entry(store, w) /\ Contents(t, Len(w)) = w
      BY <1>12, <1>14
    <2> QED  BY <1>7, <1>10, <2>1 DEF Safe
  <1>16. TypeOK'
    <2>1. whole' \in Blobs /\ written' \in Blobs
      BY <1>1, <1>2, <1>3, <1>9, FreshNothing
    <2>2. offset \in [Readers -> Int]
      BY DEF BlobInv, TypeOK
    <2> QED  BY <1>2, <1>3, <1>5, <1>14, <2>1, <2>2 DEF TypeOK, t, w
  <1>17. NoReaders' /\ ReadersSeeStableBlob'
    BY <1>2, <1>3 DEF NoReaders, ReadersSeeStableBlob
  <1>18. ~t.init => ~t.erased
    BY <1>5
  <1> QED  BY <1>2, <1>5, <1>11, <1>13, <1>15, <1>16, <1>17, <1>18 DEF BlobInv, t

\* The readers change nothing but their offsets.
LEMMA ReaderStep ==
    ASSUME BlobInv, UNCHANGED <<store, writer, written, whole, kept, opens>>,
           offset' \in [Readers -> Int], writer = "none" /\ store.init,
           \A r \in Readers : offset'[r] # -1 => HasData(store) /\ offset'[r] <= store.addr
    PROVE  BlobInv'
  <1>1. TypeOK'
    BY DEF BlobInv, TypeOK
  <1>2. ReadersSeeStableBlob'
    BY DEF ReadersSeeStableBlob, HasData
  <1>3. NoFaults(store') /\ Clean(store') /\ Stored(store', whole') /\ Quiet(store', whole')
        /\ (kept' # "no" => Safe(store', whole', kept')) /\ writer' = "none" /\ store'.init
    BY DEF BlobInv
  <1> QED  BY <1>1, <1>2, <1>3 DEF BlobInv

\* The operations of BlobReader.
LEMMA ReadersPreserve ==
    ASSUME BlobInv, NEW r \in Readers, OpenReader(r) \/ Read(r) \/ Seek(r) \/ CloseReader(r)
    PROVE  BlobInv'
  <1>0. /\ offset \in [Readers -> Int] /\ store.addr \in Nat
        /\ \A q \in Readers : offset[q] # -1 =>
              writer = "none" /\ HasData(store) /\ offset[q] <= store.addr /\ store.init
    BY DEF BlobInv, TypeOK, Stores, ReadersSeeStableBlob, NoReaders
  <1>1. UNCHANGED <<store, writer, written, whole, kept, opens>>
    BY DEF OpenReader, Read, Seek, CloseReader
  <1>2. ASSUME NEW o \in Int, offset' = [offset EXCEPT ![r] = o], writer = "none", store.init,
               o # -1 => HasData(store) /\ o <= store.addr
        PROVE  BlobInv'
    <2>1. offset' \in [Readers -> Int]
      BY <1>0, <1>2
    <2>2. \A q \in Readers : offset'[q] # -1 => HasData(store) /\ offset'[q] <= store.addr
      BY <1>0, <1>2
    <2> QED  BY <1>1, <1>2, <2>1, <2>2, ReaderStep
  <1>3. CASE OpenReader(r)
    <2>1. PICK o \in 0..store.addr - 1 : offset' = [offset EXCEPT ![r] = o]
      BY <1>3 DEF OpenReader
    <2>2. writer = "none" /\ store.init /\ HasData(store)
      BY <1>3 DEF OpenReader
    <2>3. o \in Int /\ o <= store.addr
      BY <1>0
    <2> QED  BY <1>2, <2>1, <2>2, <2>3
  <1>4. CASE Read(r)
    <2>1. PICK n \in 1..store.addr - offset[r] : offset' = [offset EXCEPT ![r] = @ + n]
      BY <1>4 DEF Read
    <2>2. offset[r] \in 0..store.addr - 1 /\ HasData(store)
      BY <1>4 DEF Read
    <2>3. offset[r] # -1 /\ offset[r] + n \in Int /\ offset[r] + n <= store.addr
      BY <1>0, <2>2
    <2>4. offset' = [offset EXCEPT ![r] = offset[r] + n]
      BY <2>1
    <2>5. writer = "none" /\ store.init
      BY <1>0, <2>3
    <2> QED  BY <1>2, <2>2, <2>3, <2>4, <2>5
  <1>5. CASE Seek(r)
    <2>1. PICK o \in 0..store.addr - 1 : offset' = [offset EXCEPT ![r] = o]
      BY <1>5 DEF Seek
    <2>2. writer = "none" /\ store.init /\ HasData(store)
      BY <1>0, <1>5 DEF Seek
    <2>3. o \in Int /\ o <= store.addr
      BY <1>0
    <2> QED  BY <1>2, <2>1, <2>2, <2>3
  <1>6. CASE CloseReader(r)
    <2>1. offset' = [offset EXCEPT ![r] = -1] /\ -1 \in Int
      BY <1>6 DEF CloseReader
    <2>2. writer = "none" /\ store.init
      BY <1>0, <1>6 DEF CloseReader
    <2> QED  BY <1>2, <2>1, <2>2
  <1> QED  BY <1>3, <1>4, <1>5, <1>6

\* A loss of power: the members are lost, the flash and the entry stay.
LEMMA PowerLossPreserves ==
    ASSUME BlobInv, PowerLoss
    PROVE  BlobInv'
  <1> DEFINE t == store'
  <1>1. t = Booted(store) /\ writer' = "none" /\ offset' = [r \in Readers |-> -1]
        /\ written' = Fresh(Nothing) /\ kept' = (IF kept = "hidden" THEN "closed" ELSE kept)
        /\ UNCHANGED <<whole, opens>>
    BY DEF PowerLoss
  <1>2. store \in Stores /\ NoFaults(store) /\ Stored(store, whole) /\ (kept # "no" => Safe(store, whole, kept))
        /\ TypeOK
    BY DEF BlobInv, TypeOK
  <1> HIDE DEF t
  <1>3. /\ t \in Stores /\ ~t.init /\ ~t.valid /\ ~t.erased /\ t.addr = 0
        /\ t.algo = store.algo /\ t.flash = store.flash /\ t.kvs = store.kvs /\ t.faults = store.faults
    BY <1>1, <1>2, BootedFacts
  <1>4. NoFaults(t) /\ Clean(t) /\ Quiet(t, whole)
    BY <1>2, <1>3 DEF NoFaults, Clean, Quiet
  <1>5. Contents(t, Len(Content(whole))) = Contents(store, Len(Content(whole)))
    BY <1>3 DEF Contents
  <1>6. Stored(t, whole)
    BY <1>2, <1>3, <1>5 DEF Stored
  <1>7. kept' # "no" => Safe(t, whole, kept')
    BY <1>1, <1>2, <1>3, <1>5 DEF Safe
  <1>8. NoReaders' /\ ReadersSeeStableBlob'
    BY <1>1 DEF NoReaders, ReadersSeeStableBlob
  <1>9. TypeOK'
    <2>1. written' \in Blobs /\ [r \in Readers |-> -1] \in [Readers -> Int]
      BY <1>1, FreshNothing
    <2> QED  BY <1>1, <1>2, <1>3, <2>1 DEF TypeOK, t
  <1> QED  BY <1>1, <1>3, <1>4, <1>6, <1>7, <1>8, <1>9 DEF BlobInv, t

\* The inductive invariant holds in every reachable state of the store, for every
\* size of the partition, of a flash write and of the write buffer, any number of
\* readers, and any number of failures of the flash and of the key value store.
THEOREM BlobInvAlways == Spec => []BlobInv
  <1>1. Init => BlobInv
    BY InitEstablishes
  <1>2. BlobInv /\ [Next]_vars => BlobInv'
    <2> SUFFICES ASSUME BlobInv, [Next]_vars PROVE BlobInv'
      OBVIOUS
    <2>1. CASE InitStore
      BY <2>1, InitStorePreserves
    <2>2. ASSUME NEW kind \in {"direct", "deferred"}, OpenWriter(kind) PROVE BlobInv'
      BY <2>2, OpenWriterPreserves
    <2>3. ASSUME NEW n \in 0..MaxWrite, NEW b \in Bytes, DoWrite(n, b) PROVE BlobInv'
      BY <2>3, DoWritePreserves
    <2>4. CASE FlushWriter
      BY <2>4, FlushWriterPreserves
    <2>5. CASE EraseWriter
      BY <2>5, EraseWriterPreserves
    <2>6. CASE DiscardWriter
      BY <2>6, DiscardWriterPreserves
    <2>7. CASE SetFileName
      BY <2>7, SetFileNamePreserves
    <2>8. CASE CloseWriter
      BY <2>8, CloseWriterPreserves
    <2>9. ASSUME NEW r \in Readers, OpenReader(r) \/ Read(r) \/ Seek(r) \/ CloseReader(r) PROVE BlobInv'
      BY <2>9, ReadersPreserve
    <2>10. CASE PowerLoss
      BY <2>10, PowerLossPreserves
    <2>11. CASE UNCHANGED vars
      BY <2>11 DEF vars, BlobInv, TypeOK, NoReaders, ReadersSeeStableBlob
    <2> QED  BY <2>1, <2>2, <2>3, <2>4, <2>5, <2>6, <2>7, <2>8, <2>9, <2>10, <2>11 DEF Next
  <1> QED  BY <1>1, <1>2, PTL DEF Spec

\* What HasData shows once no writer is open is, byte for byte and with its file
\* name, a blob that BlobWriter::Close stored: what was written since the writer's
\* last Erase or Discard, after what that Erase left in the write buffer.
THEOREM BlobsAreWhole == Spec => []BlobIsWhole
  <1>1. BlobInv => BlobIsWhole
    <2> SUFFICES ASSUME BlobInv, writer = "none", store.init, HasData(store)
                 PROVE  /\ Contents(store, store.addr) = Content(whole) /\ store.name = FileName(whole)
                        /\ whole.left = Nothing =>
                             Contents(store, store.addr) = whole.bytes /\ store.name = whole.name
      BY DEF BlobIsWhole
    <2>1. Contents(store, store.addr) = Content(whole) /\ store.name = FileName(whole)
      BY DEF BlobInv, Quiet
    <2>2. ASSUME whole.left = Nothing PROVE Content(whole) = whole.bytes /\ FileName(whole) = whole.name
      <3>1. whole.bytes \in Seq(Byte) /\ whole.name \in {0, 1}
        BY DEF BlobInv, TypeOK, Blobs
      <3>2. Content(whole) = <<>> \o whole.bytes /\ FileName(whole) = whole.name
        BY <2>2, <3>1 DEF Content, FileName, Nothing
      <3> QED  BY <3>1, <3>2
    <2> QED  BY <2>1, <2>2
  <1> QED  BY <1>1, BlobInvAlways, PTL

\* A blob whose BlobWriter::Close returned OK is there, whole, after any number of
\* restarts, until a writer is opened, unless a read fails in BlobStore::Init.
THEOREM ClosedBlobsSurvive == Spec => []ClosedBlobSurvives
  <1>1. BlobInv => ClosedBlobSurvives
    <2> DEFINE b == Content(whole)
    <2> SUFFICES ASSUME BlobInv, kept # "no"
                 PROVE  /\ store.kvs.size = Len(b) /\ Contents(store, store.kvs.size) = b
                        /\ store.init /\ kept = "closed" => HasData(store) /\ store.addr = store.kvs.size
      BY DEF ClosedBlobSurvives
    <2>1. Safe(store, whole, kept) /\ Stored(store, whole)
      BY DEF BlobInv
    <2>2. /\ store.kvs = Metadata(Len(b), IF store.algo THEN b ELSE <<>>, FileName(whole))
          /\ Len(b) \in 1..PartitionSize /\ Contents(store, Len(b)) = b
          /\ store.init /\ kept = "closed" => store.valid /\ store.addr = Len(b)
      BY <2>1 DEF Safe, Stored
    <2> HIDE DEF b
    <2>3. store.kvs.size = Len(b)
      BY <2>2 DEF Metadata
    <2> QED  BY <2>2, <2>3 DEF HasData
  <1> QED  BY <1>1, BlobInvAlways, PTL

\* CommitToFlash writes to erased cells only: flash_erased_ is never set over
\* written cells, and past flash_address_ of a valid blob nothing is written.
THEOREM WritesGoToErasedFlash == Spec => []FlashAheadIsErased
  <1>1. BlobInv => FlashAheadIsErased
    BY DEF BlobInv, Clean, Writing, Open, Ready, Ahead, FlashAheadIsErased
  <1> QED  BY <1>1, BlobInvAlways, PTL

\* Under an open BlobReader no writer is open and the blob stays valid up to the
\* offset of the reader.
THEOREM ReadersAreSafe == Spec => []ReadersSeeStableBlob
  <1>1. BlobInv => ReadersSeeStableBlob
    BY DEF BlobInv
  <1> QED  BY <1>1, BlobInvAlways, PTL
=============================================================================
