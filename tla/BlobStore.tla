----------------------------- MODULE BlobStore -----------------------------
(***************************************************************************)
(* pw_blob_store: one blob in a flash partition, its metadata under one    *)
(* key of a key value store, writers (direct and deferred) and readers.    *)
(*                                                                         *)
(* The members of the store, the partition and the stored metadata are    *)
(* one record; an operation maps it to the set of records it may leave:    *)
(* the flash and the key value store may report a failure after any part   *)
(* of their work. What a loss of power leaves in the middle of an          *)
(* operation is what such a failure leaves, followed by PowerLoss.         *)
(***************************************************************************)
EXTENDS Integers, Sequences, FiniteSets

CONSTANTS
  Bytes,             \* values of a byte of data
  PartitionSize,     \* cells of the partition
  FlashWriteSize,    \* flash_write_size_bytes_
  WriteBufferSize,   \* size of write_buffer_
  Readers,           \* BlobReader objects
  MixedValues,       \* bound: if FALSE, the bytes of one blob share their value
  MaxWrite,          \* bound: bytes of one call of Write
  MaxOpens,          \* bound: times a writer is opened
  MaxFaults          \* bound: operations of the flash or of the KVS that fail

\* A cell holds a byte of data (a pair, see Data), or one of these.
Erased == <<>>
Garbage == <<"garbage">>   \* written when it was not erased, or wrongly
NoMetadata == [size |-> 0, sum |-> <<>>, name |-> 0]
Nothing == [bytes |-> <<>>, name |-> 0]

ASSUME BlobAssumption ==
  /\ FlashWriteSize \in Nat \ {0} /\ PartitionSize \in Nat /\ WriteBufferSize \in Nat
  /\ PartitionSize % FlashWriteSize = 0
  /\ WriteBufferSize = 0 \/ WriteBufferSize >= FlashWriteSize
  /\ MixedValues \in BOOLEAN
  /\ MaxWrite \in Nat /\ MaxOpens \in Nat /\ MaxFaults \in Nat

VARIABLES
  store,    \* the store: see Booted
  writer,   \* the open writer: "none", "direct" or "deferred"
  offset,   \* offset[r]: the offset of an open reader, -1 for a closed one
  written,  \* the open writer's blob: see Fresh
  whole,    \* the last blob whose metadata Close stored
  kept,     \* "closed" once Close returned OK for `whole`: see InitStore
  opens     \* writers opened so far

vars == <<store, writer, offset, written, whole, kept, opens>>

Cells == 1..PartitionSize
Metadata(size, sum, name) == [size |-> size, sum |-> sum, name |-> name]

\* The blob a writer has put together since it was opened, or since its last
\* Discard or Erase, both of which are documented to start it afresh: the bytes
\* its calls accepted and the name it set. `left` is what that Erase in fact
\* left in the write buffer and in the file name.
Fresh(left) == [bytes |-> <<>>, name |-> 0, left |-> left]
Content(blob) == blob.left.bytes \o blob.bytes
FileName(blob) == IF blob.name # 0 THEN blob.name ELSE blob.left.name

\* The constructor's members over a partition and stored metadata.
Booted(st) ==
  [init |-> FALSE, valid |-> FALSE, erased |-> FALSE, addr |-> 0, buf |-> <<>>,
   sum |-> <<>>, name |-> 0,
   algo |-> st.algo, flash |-> st.flash, kvs |-> st.kvs, faults |-> st.faults]

\* algo: checksum_algo_ is not nullptr. A store without one cannot tell that
\* the flash failed it: it is run on a flash that never does.
Init ==
  /\ \E algo \in BOOLEAN :
       store = Booted([algo |-> algo, flash |-> [c \in Cells |-> Erased],
                       kvs |-> NoMetadata, faults |-> IF algo THEN 0 ELSE MaxFaults])
  /\ writer = "none"
  /\ offset = [r \in Readers |-> -1]
  /\ written = Fresh(Nothing) /\ whole = Fresh(Nothing)
  /\ kept = "no" /\ opens = 0

(***************************************************************************)
(* Helpers. addr is flash_address_, buf the bytes in the write buffer, so  *)
(* that write_address_ is addr + Len(buf).                                 *)
(***************************************************************************)
WriteAddress(st) == st.addr + Len(st.buf)
ValidToWrite(st) == st.valid \/ st.addr = 0
WriteBytesRemaining(st) == PartitionSize - WriteAddress(st)
WriteBufferBytesFree(st) ==
  LET room == WriteBufferSize - Len(st.buf)
  IN  IF room < WriteBytesRemaining(st) THEN room ELSE WriteBytesRemaining(st)
HasData(st) == st.valid /\ st.addr > 0
Contents(st, n) == [i \in 1..n |-> st.flash[i]]

WithFlash(st, cells) == [st EXCEPT !.flash = cells]
WithKvs(st, metadata) == [st EXCEPT !.kvs = metadata]
WithBuffer(st, bytes) == [st EXCEPT !.buf = bytes]
Spoilt(st) == [st EXCEPT !.valid = FALSE]
Failed(st) == [st EXCEPT !.faults = @ + 1]
OnFault(st, results) == IF st.faults < MaxFaults THEN results ELSE {}
Ok(st) == [st |-> st, ok |-> TRUE]
Fail(st) == [st |-> st, ok |-> FALSE]
First(s, n) == SubSeq(s, 1, n)
After(s, n) == SubSeq(s, n + 1, Len(s))

\* The results of A, and of B after those that are OK (PW_TRY).
Then(A, B(_)) == {r \in A : ~r.ok} \cup UNION {B(r.st) : r \in {x \in A : x.ok}}

\* KeyValueStore::Delete of the metadata; it may fail before or after the
\* deletion is what a later Init finds.
KvsDelete(st) ==
  {Ok(WithKvs(st, NoMetadata))}
  \cup OnFault(st, {Fail(Failed(st)), Fail(WithKvs(Failed(st), NoMetadata))})

\* KeyValueStore::Put of the metadata; it may fail before or after the new
\* entry is the one a later Init finds.
KvsPut(st, metadata) ==
  {Ok(WithKvs(st, metadata))}
  \cup OnFault(st, {Fail(Failed(st)), Fail(WithKvs(Failed(st), metadata))})

\* FlashPartition::Erase; a failure has erased some of the cells.
Wiped(st, n) == [c \in Cells |-> IF c <= n THEN Erased ELSE st.flash[c]]
PartitionErase(st) ==
  {Ok(WithFlash(st, Wiped(st, PartitionSize)))}
  \cup OnFault(st, {Fail(WithFlash(Failed(st), Wiped(st, n))) : n \in 0..PartitionSize})

\* The cells after n bytes of data were written at addr.
Programmed(st, data, n) ==
  [c \in Cells |->
     IF c - st.addr \notin 1..n \/ data[c - st.addr] = Erased THEN st.flash[c]
     ELSE IF st.flash[c] = Erased THEN data[c - st.addr] ELSE Garbage]

\* FlashPartition::Write of data at addr; a failure has written some of it, or
\* is not noticed at all and leaves a wrong byte.
PartitionWrite(st, data) ==
  LET all == Programmed(st, data, Len(data))
  IN  {Ok(WithFlash(st, all))}
      \cup OnFault(st,
             {Fail(WithFlash(Failed(st), Programmed(st, data, n))) : n \in 0..Len(data)}
             \cup {Ok(WithFlash(Failed(st), [all EXCEPT ![st.addr + i] = Garbage]))
                     : i \in 1..Len(data)})

(***************************************************************************)
(* The members of BlobStore.                                               *)
(***************************************************************************)
Cleared(st) ==
  [st EXCEPT !.valid = st.erased, !.sum = <<>>, !.addr = 0, !.buf = <<>>, !.name = 0]

Invalidate(st) == KvsDelete(Cleared(st))

\* The states Erase goes on from: Invalidate's failure is ignored.
Reset(st) == IF st.addr = 0 THEN {st} ELSE {r.st : r \in Invalidate(st)}

Blank(st) == [st EXCEPT !.erased = TRUE, !.valid = TRUE]
Erase(st) ==
  IF st.erased THEN {Ok(st)}
  ELSE UNION {Then(PartitionErase(x), LAMBDA e : {Ok(Blank(e))}) : x \in Reset(st)}

EraseIfNeeded(st) == IF st.addr = 0 THEN Erase(st) ELSE {Ok(st)}

\* Mutant of Committed: flash_erased_ is not cleared by a write.
CommittedStaysErased(st, source, size) ==
  [st EXCEPT !.addr = @ + size, !.sum = @ \o First(source, size)]

Committed(st, source, size) ==
  [st EXCEPT !.erased = FALSE, !.addr = @ + size, !.sum = @ \o First(source, size)]

\* The first `size` bytes of source are data, the others padding.
CommitToFlash(st, source, size) ==
  {IF r.ok THEN Ok(Committed(r.st, source, size))
   ELSE Fail(Spoilt(Committed(r.st, source, size))) : r \in PartitionWrite(st, source)}

\* Write's steps 2 and 3: commit the whole flash writes of data, buffer the rest.
WriteChunks(st, data) ==
  LET whole_chunks == Len(data) - (Len(data) % FlashWriteSize)
      rest == After(data, whole_chunks)
  IN  Then(IF whole_chunks = 0 THEN {Ok(st)}
           ELSE CommitToFlash(st, First(data, whole_chunks), whole_chunks),
           LAMBDA x : {Ok(WithBuffer(x, rest))})

\* Step 1: with bytes in the buffer, fill it up to one flash write first.
WriteSteps(st, data) ==
  LET room == FlashWriteSize - Len(st.buf)
      full == st.buf \o First(data, room)
  IN  IF st.buf = <<>> THEN WriteChunks(st, data)
      ELSE IF Len(data) < room THEN {Ok(WithBuffer(st, st.buf \o data))}
      ELSE Then(CommitToFlash(WithBuffer(st, <<>>), full, FlashWriteSize),
                LAMBDA x : WriteChunks(x, After(data, room)))

Write(st, data) ==
  IF ~ValidToWrite(st) THEN {Fail(st)}
  ELSE IF data = <<>> THEN {Ok(st)}
  ELSE IF WriteBytesRemaining(st) < Len(data) THEN {Fail(st)}
  ELSE IF WriteBufferSize = 0 /\ Len(data) % FlashWriteSize # 0 THEN {Fail(st)}
  ELSE Then(EraseIfNeeded(st), LAMBDA x : WriteSteps(x, data))

AddToWriteBuffer(st, data) ==
  IF ~ValidToWrite(st) \/ WriteBytesRemaining(st) = 0 \/ WriteBufferBytesFree(st) < Len(data)
  THEN {Fail(st)}
  ELSE {Ok(WithBuffer(st, st.buf \o data))}

\* Only whole flash writes leave the buffer. A commit of no bytes still clears
\* flash_erased_.
Flush(st) ==
  LET size == Len(st.buf) - (Len(st.buf) % FlashWriteSize)
  IN  IF ~ValidToWrite(st) THEN {Fail(st)}
      ELSE IF st.buf = <<>> THEN {Ok(st)}
      ELSE Then(EraseIfNeeded(st),
                LAMBDA x : CommitToFlash(WithBuffer(x, After(x.buf, size)),
                                         First(x.buf, size), size))

\* The buffered bytes, padded with the erased value to one flash write.
FlushFinalPartialChunk(st) ==
  LET padded == [i \in 1..FlashWriteSize |-> IF i <= Len(st.buf) THEN st.buf[i] ELSE Erased]
  IN  CommitToFlash(WithBuffer(st, <<>>), padded, Len(st.buf))

\* A checksum is the bytes it is computed over: equal checksums, equal bytes.
\* Without an algorithm the stored value is 0, here the empty sequence, and
\* nothing is read. A read of the partition that fails leaves the checksum of
\* the bytes before it.
Summed(st, n) == [st EXCEPT !.sum = Contents(st, n)]
ValidateChecksum(st, size, expected) ==
  IF size = 0 THEN {Fail(st)}
  ELSE IF ~st.algo THEN {Ok(st)}
  ELSE {IF Contents(st, size) = expected THEN Ok(Summed(st, size)) ELSE Fail(Summed(st, size))}
       \cup OnFault(st, {Fail(Summed(Failed(st), n)) : n \in 0..size - 1})

\* PW_CHECK_OK(Invalidate()): a failure is a crash, which starts the store again.
InvalidateOrCrash(st) ==
  {Fail(IF r.ok THEN r.st ELSE Booted(r.st)) : r \in Invalidate(st)}

\* Mutant of WriteMetadata: the flash is not read back before the blob is kept.
WriteMetadataUnverified(st) ==
  KvsPut(st, Metadata(st.addr, IF st.algo THEN Contents(st, st.addr) ELSE <<>>, st.name))

WriteMetadata(st) ==
  LET sum == IF st.algo THEN st.sum ELSE <<>>
  IN  UNION {IF check.ok THEN KvsPut(check.st, Metadata(st.addr, sum, st.name))
             ELSE InvalidateOrCrash(check.st) : check \in ValidateChecksum(st, st.addr, sum)}

\* Mutant of CloseWrite: the status of WriteMetadata is dropped.
CloseWriteIgnoresMetadata(st) ==
  LET results ==
        IF ~ValidToWrite(st) THEN {Fail(st)}
        ELSE IF WriteAddress(st) = 0 THEN {Ok(st)}
        ELSE Then(Then(Flush(st),
                       LAMBDA x : IF x.buf = <<>> THEN {Ok(x)} ELSE FlushFinalPartialChunk(x)),
                  LAMBDA x : {Ok(r.st) : r \in WriteMetadata(x)})
  IN  {IF r.ok THEN r ELSE Fail(Spoilt(r.st)) : r \in results}

\* do_close_write, and valid_data_ after it.
CloseWrite(st) ==
  LET results ==
        IF ~ValidToWrite(st) THEN {Fail(st)}
        ELSE IF WriteAddress(st) = 0 THEN {Ok(st)}
        ELSE Then(Then(Flush(st),
                       LAMBDA x : IF x.buf = <<>> THEN {Ok(x)} ELSE FlushFinalPartialChunk(x)),
                  WriteMetadata)
  IN  {IF r.ok THEN r ELSE Fail(Spoilt(r.st)) : r \in results}

ResetMetadata(st) == [st EXCEPT !.addr = 0, !.buf = <<>>, !.name = 0, !.valid = FALSE]
Loaded(st) == [st EXCEPT !.addr = st.kvs.size, !.name = st.kvs.name, !.valid = TRUE]
\* A Get that fails is taken for an entry that is not there. A checksum that
\* differs or could not be read invalidates the blob.
LoadMetadata(st) ==
  LET fresh == ResetMetadata(st)
  IN  OnFault(st, {Failed(fresh)})
      \cup IF st.kvs = NoMetadata THEN {fresh}
           ELSE UNION {IF check.ok THEN {Loaded(check.st)} ELSE {r.st : r \in Invalidate(check.st)}
                         : check \in ValidateChecksum(fresh, st.kvs.size, st.kvs.sum)}

(***************************************************************************)
(* Actions: the public operations, on a store, its writer and its readers. *)
(***************************************************************************)
\* A read that fails in Init may hide a closed blob until the next restart, or
\* take its metadata away.
InitStore ==
  /\ ~store.init
  /\ store' \in LoadMetadata([store EXCEPT !.init = TRUE])
  /\ kept' = IF kept = "no" \/ store'.faults = store.faults THEN kept
             ELSE IF store'.kvs = store.kvs THEN "hidden" ELSE "no"
  /\ UNCHANGED <<writer, offset, written, whole, opens>>

NoReaders == \A r \in Readers : offset[r] = -1
\* Mutant of OpenWrite: open readers do not keep a writer out.
OpenWriteDespiteReaders == store.init /\ writer = "none"

OpenWrite == store.init /\ writer = "none" /\ NoReaders

\* BlobWriter::Open. Clearing the old blob may fail: that is ignored.
OpenWriter(kind) ==
  /\ OpenWrite
  /\ opens < MaxOpens
  /\ \E r \in Invalidate(store) : store' = r.st
  /\ writer' = kind /\ written' = Fresh(Nothing) /\ kept' = "no" /\ opens' = opens + 1
  /\ UNCHANGED <<offset, whole>>

\* The next n bytes for the writer: a value of Bytes, and its place in the blob.
\* The value tells blobs apart, the place the bytes of a blob: unless MixedValues,
\* all bytes of a blob have one value.
Allowed(b) == MixedValues \/ \A i \in DOMAIN Content(written) : Content(written)[i][1] = b
Data(n, b) == [i \in 1..n |-> <<b, Len(Content(written)) + i>>]

DoWrite(n, b) ==
  /\ writer # "none" /\ Allowed(b)
  /\ \E r \in (IF writer = "direct" THEN Write(store, Data(n, b))
               ELSE AddToWriteBuffer(store, Data(n, b))) :
       /\ store' = r.st
       /\ written' = IF r.ok THEN [written EXCEPT !.bytes = @ \o Data(n, b)] ELSE written
  /\ UNCHANGED <<writer, offset, whole, kept, opens>>

FlushWriter ==
  /\ writer = "deferred"
  /\ \E r \in Flush(store) : store' = r.st
  /\ UNCHANGED <<writer, offset, written, whole, kept, opens>>

EraseWriter ==
  /\ writer # "none"
  /\ \E r \in Erase(store) : store' = r.st
  /\ written' = Fresh([bytes |-> store'.buf, name |-> store'.name])
  /\ UNCHANGED <<writer, offset, whole, kept, opens>>

DiscardWriter ==
  /\ writer # "none"
  /\ \E r \in Invalidate(store) : store' = r.st
  /\ written' = Fresh(Nothing)
  /\ UNCHANGED <<writer, offset, whole, kept, opens>>

SetFileName ==
  /\ writer # "none"
  /\ store' = [store EXCEPT !.name = 1]
  /\ written' = [written EXCEPT !.name = 1]
  /\ UNCHANGED <<writer, offset, whole, kept, opens>>

\* A blob whose metadata has reached the key value store is the one a restart finds.
CloseWriter ==
  /\ writer # "none"
  /\ writer' = "none" /\ written' = Fresh(Nothing)
  /\ \E r \in CloseWrite(store) :
       /\ store' = r.st
       /\ whole' = IF r.st.kvs \notin {store.kvs, NoMetadata} THEN written ELSE whole
       /\ kept' = IF r.ok /\ Content(written) # <<>> THEN "closed" ELSE "no"
  /\ UNCHANGED <<offset, opens>>

\* BlobReader::Open at an offset in the blob.
OpenReader(r) ==
  /\ offset[r] = -1
  /\ store.init /\ writer = "none" /\ HasData(store)
  /\ \E o \in 0..store.addr - 1 : offset' = [offset EXCEPT ![r] = o]
  /\ UNCHANGED <<store, writer, written, whole, kept, opens>>

\* BlobReader::DoRead: as many bytes as dest holds and the blob still has.
Read(r) ==
  /\ offset[r] \in 0..store.addr - 1 /\ HasData(store)
  /\ \E n \in 1..store.addr - offset[r] : offset' = [offset EXCEPT ![r] = @ + n]
  /\ UNCHANGED <<store, writer, written, whole, kept, opens>>

Seek(r) ==
  /\ offset[r] # -1
  /\ \E o \in 0..store.addr - 1 : offset' = [offset EXCEPT ![r] = o]
  /\ UNCHANGED <<store, writer, written, whole, kept, opens>>

CloseReader(r) ==
  /\ offset[r] # -1
  /\ offset' = [offset EXCEPT ![r] = -1]
  /\ UNCHANGED <<store, writer, written, whole, kept, opens>>

PowerLoss ==
  /\ store.init
  /\ store' = Booted(store)
  /\ writer' = "none" /\ offset' = [r \in Readers |-> -1] /\ written' = Fresh(Nothing)
  /\ kept' = IF kept = "hidden" THEN "closed" ELSE kept
  /\ UNCHANGED <<whole, opens>>

Next ==
  \/ InitStore
  \/ \E kind \in {"direct", "deferred"} : OpenWriter(kind)
  \/ \E n \in 0..MaxWrite, b \in Bytes : DoWrite(n, b)
  \/ FlushWriter \/ EraseWriter \/ DiscardWriter \/ SetFileName \/ CloseWriter
  \/ \E r \in Readers : OpenReader(r) \/ Read(r) \/ Seek(r) \/ CloseReader(r)
  \/ PowerLoss

Spec == Init /\ [][Next]_vars

(***************************************************************************)
(* Properties.                                                             *)
(***************************************************************************)

\* A blob that can be read is, byte for byte and with its file name, one that a
\* writer wrote and closed: HasData, once no writer is open, never shows a blob
\* of which a flash write failed, an erase was cut short, whose metadata belongs
\* to older bytes, or which lost bytes on the way through the write buffer. If
\* Erase left bytes in the write buffer or a file name, which blob_store.h says
\* it resets, the blob is what it left with what was written after it, else it
\* is what was written.
BlobIsWhole ==
  writer = "none" /\ store.init /\ HasData(store) =>
    /\ Contents(store, store.addr) = Content(whole) /\ store.name = FileName(whole)
    /\ whole.left = Nothing =>
         Contents(store, store.addr) = whole.bytes /\ store.name = whole.name

\* What Close reported OK stays in the flash and in the key value store until a
\* writer is opened again, whatever restarts come between, and can be read: only
\* an Init in which a read of the key value store or of the partition fails may
\* hide it until the next restart, or, with a failing read of the partition, drop
\* its metadata.
ClosedBlobSurvives ==
  kept # "no" =>
    /\ store.kvs.size = Len(Content(whole))
    /\ Contents(store, store.kvs.size) = Content(whole)
    /\ store.init /\ kept = "closed" => HasData(store) /\ store.addr = store.kvs.size

\* The bytes a writer will write next go to erased flash: flash_erased_ is
\* never set over written cells, and past the address of a valid blob that is
\* being written nothing is written.
FlashAheadIsErased ==
  /\ store.erased => store.valid /\ store.addr = 0 /\ \A c \in Cells : store.flash[c] = Erased
  /\ writer # "none" /\ HasData(store) =>
       \A c \in Cells : c > store.addr => store.flash[c] = Erased

\* Under an open reader the blob does not change: no writer is open and the
\* data stays readable up to the reader's offset.
ReadersSeeStableBlob ==
  \A r \in Readers : offset[r] # -1 =>
    writer = "none" /\ HasData(store) /\ offset[r] <= store.addr
=============================================================================
