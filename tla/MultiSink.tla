----------------------------- MODULE MultiSink -----------------------------
(***************************************************************************)
(* pw_multisink over pw_ring_buffer: a ring of entries with one writer and *)
(* several readers at their own places, where a new entry pushes the       *)
(* oldest ones out, and drains that are told how many entries they missed. *)
(*                                                                         *)
(* The ring is modelled cell by cell, with the indices of the code: cell 1 *)
(* of an entry stands for its preamble (sequence id and length), each      *)
(* other cell for a part of its data. An entry's kind gives its size and   *)
(* what a filter looks at. Every operation runs under the sink's lock.     *)
(***************************************************************************)
EXTENDS Integers, Sequences, FiniteSets, FiniteSetsExt

CONSTANTS
  BufferSize,   \* buffer_bytes_, in cells
  Kinds,        \* kinds of entries
  SizeOf(_),    \* cells of an entry of a kind, its preamble included
  Drains,       \* drains besides oldest_entry_drain_
  MaxEntries,   \* bound: sequence ids given out
  MaxDropped    \* bound: entries one call of HandleDropped reports

ASSUME RingAssumption ==
  /\ BufferSize \in Nat \ {0} /\ MaxEntries \in Nat /\ MaxDropped \in Nat
  /\ \A k \in Kinds : SizeOf(k) \in 2..BufferSize
  /\ "oldest" \notin Drains

VARIABLES
  ring,           \* [buf, write, reader]: the cells, write_idx_, and each reader's place
  sequence_id,    \* sequence_id_
  ingress_drops,  \* total_ingress_drops_
  handled,        \* handled[d]: last_handled_sequence_id_ and last_handled_ingress_drop_count_
  pushed          \* sequence ids and kinds pushed so far, in order

sinkVars == <<ring, sequence_id, ingress_drops, handled, pushed>>

Detached == [at |-> -1, count |-> 0]
Empty == <<-1, "none", 0>>
Readers(r) == {d \in DOMAIN r.reader : r.reader[d] # Detached}

SinkInit ==
  /\ ring = [buf |-> [c \in 0..BufferSize - 1 |-> Empty], write |-> 0,
             reader |-> [d \in Drains \cup {"oldest"} |->
                           IF d = "oldest" THEN [at |-> 0, count |-> 0] ELSE Detached]]
  /\ sequence_id = 0 /\ ingress_drops = 0 /\ pushed = <<>>
  /\ handled = [d \in Drains \cup {"oldest"} |-> [seq |-> -1, ingress |-> 0]]

(***************************************************************************)
(* PrefixedEntryRingBufferMulti. An index may equal BufferSize: it then    *)
(* names the same cell as 0.                                               *)
(***************************************************************************)
IncrementIndex(i, n) == IF i + n > BufferSize THEN i + n - BufferSize ELSE i + n
Cell(r, i) == r.buf[i % BufferSize]

\* The entry whose preamble is at index i.
EntryAt(r, i) == [seq |-> Cell(r, i)[1], kind |-> Cell(r, i)[2]]
FrontEntry(r, d) == EntryAt(r, r.reader[d].at)

PopFront(r, d) ==
  IF r.reader[d].count = 0 THEN r
  ELSE [r EXCEPT !.reader[d] =
          [at |-> IncrementIndex(@.at, SizeOf(FrontEntry(r, d).kind)), count |-> @.count - 1]]

GetSlowestReader(r) ==
  CHOOSE d \in Readers(r) : \A e \in Readers(r) : r.reader[e].count <= r.reader[d].count

\* RawAvailableBytes, with the slowest reader at `slowest`.
RawAvailableBytes(write, slowest) ==
  IF slowest.at < write THEN BufferSize - (write - slowest.at)
  ELSE IF slowest.at > write THEN slowest.at - write
  ELSE IF slowest.count # 0 THEN 0 ELSE BufferSize

\* The place of a reader after it has popped each number of its entries.
PlacesOf(r, reader) ==
  LET at[n \in 0..reader.count] ==
        IF n = 0 THEN reader.at
        ELSE IncrementIndex(at[n - 1], SizeOf(EntryAt(r, at[n - 1]).kind))
  IN  [n \in 0..reader.count |-> [at |-> at[n], count |-> reader.count - n]]

\* Mutant of Evict: only one of the slowest readers is moved.
EvictOne(r, place) ==
  LET slowest == GetSlowestReader(r)
  IN  [d \in DOMAIN r.reader |-> IF d = slowest THEN place ELSE r.reader[d]]

\* InternalPopFrontAll, until the slowest reader has come to `place`: every
\* reader that was before it is moved there.
Evict(r, place) ==
  [d \in DOMAIN r.reader |->
     IF d \in Readers(r) /\ r.reader[d].count > place.count THEN place ELSE r.reader[d]]

RawWrite(buf, write, cells) ==
  [c \in DOMAIN buf |->
     LET n == ((c - write) % BufferSize) + 1
     IN  IF n <= Len(cells) THEN cells[n] ELSE buf[c]]

\* PushBack: the oldest entries make room, then every reader has one more.
PushBack(r, seq, kind) ==
  LET size == SizeOf(kind)
      places == PlacesOf(r, r.reader[GetSlowestReader(r)])
      n == Min({m \in DOMAIN places : RawAvailableBytes(r.write, places[m]) >= size})
      left == Evict(r, places[n])
  IN  [buf |-> RawWrite(r.buf, r.write, [i \in 1..size |-> <<seq, kind, i>>]),
       write |-> IncrementIndex(r.write, size),
       reader |-> [d \in DOMAIN left |->
                     IF left[d] = Detached THEN Detached ELSE [left[d] EXCEPT !.count = @ + 1]]]

\* InternalDering: the ring is turned until reader d's front is at index 0.
Dering(r, d) ==
  LET turn == r.reader[d].at
      Turned(i) == IF i < turn THEN i + BufferSize - turn ELSE i - turn
  IN  [buf |-> [c \in DOMAIN r.buf |-> Cell(r, c + turn)],
       write |-> Turned(r.write),
       reader |-> [e \in DOMAIN r.reader |->
                     IF e \in Readers(r) THEN [r.reader[e] EXCEPT !.at = Turned(@)]
                     ELSE r.reader[e]]]

\* InternalRead compares each of the two parts of an entry that wraps with the
\* space for its data, not their sum.
ReadFits(r, d, space) ==
  LET data == SizeOf(FrontEntry(r, d).kind) - 1
      start == IncrementIndex(r.reader[d].at, 1)
      first == IF data < BufferSize - start THEN data ELSE BufferSize - start
  IN  first <= space /\ data - first <= space

(***************************************************************************)
(* MultiSink.                                                              *)
(***************************************************************************)
HandleEntry(kind) ==
  /\ sequence_id < MaxEntries
  /\ ring' = PushBack(ring, sequence_id, kind)
  /\ pushed' = Append(pushed, [seq |-> sequence_id, kind |-> kind])
  /\ sequence_id' = sequence_id + 1
  /\ UNCHANGED <<ingress_drops, handled>>

HandleDropped(n) ==
  /\ sequence_id + n <= MaxEntries
  /\ sequence_id' = sequence_id + n
  /\ ingress_drops' = ingress_drops + n
  /\ UNCHANGED <<ring, handled, pushed>>

\* Mutant of MissedSince: one entry is taken off although none was read.
MissedSinceOffByOne(d, id, empty) == Max({0, id - handled[d].seq - 1})

\* Sequence ids between the last handled one and id; the entry read is not missed.
MissedSince(d, id, empty) == id - handled[d].seq - (IF empty THEN 0 ELSE 1)

\* What reading drain d's front entry into `space` cells gives and leaves. An
\* entry that does not fit is dropped, whether it is to be popped or not, and
\* is found missing by a later call.
PeekOrPopEntry(d, space, pop) ==
  LET empty == ring.reader[d].count = 0
      small == ~empty /\ ~ReadFits(ring, d, space)
      front == FrontEntry(ring, d)
      id == IF empty THEN sequence_id - 1 ELSE front.seq
      gap == MissedSince(d, id, empty)
      ingress == Min({gap, ingress_drops - handled[d].ingress})
  IN  IF small
      THEN [status |-> "small", drop |-> 0, ingress |-> 0, entry |-> front,
            ring |-> PopFront(ring, d), handled |-> handled[d]]
      ELSE [status |-> IF empty THEN "empty" ELSE "ok",
            drop |-> gap - ingress, ingress |-> ingress, entry |-> front,
            ring |-> IF pop THEN PopFront(ring, d) ELSE ring,
            handled |-> [seq |-> IF empty \/ pop THEN id ELSE handled[d].seq,
                         ingress |-> IF gap = 0 THEN handled[d].ingress
                                     ELSE IF ingress_drops > ingress THEN ingress_drops - ingress
                                     ELSE ingress_drops]]

\* PopEntry of a peeked entry: nothing is popped when the front has moved on.
PopEntry(d, seq) ==
  IF /\ seq # handled[d].seq
     /\ ring.reader[d].count > 0
     /\ FrontEntry(ring, d).seq = seq
  THEN /\ ring' = PopFront(ring, d)
       /\ handled' = [handled EXCEPT ![d].seq = seq]
  ELSE UNCHANGED <<ring, handled>>

AttachReader(r, d) ==
  [r EXCEPT !.reader[d] = IF Readers(r) = {} THEN [at |-> r.write, count |-> 0]
                          ELSE r.reader[GetSlowestReader(r)]]

AttachDrain(d) ==
  /\ ring.reader[d] = Detached
  /\ ring' = AttachReader(ring, d)
  /\ handled' = [handled EXCEPT ![d] = [seq |-> handled["oldest"].seq, ingress |-> 0]]
  /\ UNCHANGED <<sequence_id, ingress_drops, pushed>>

DetachDrain(d) ==
  /\ ring.reader[d] # Detached
  /\ ring' = [ring EXCEPT !.reader[d] = Detached]
  /\ UNCHANGED <<sequence_id, ingress_drops, handled, pushed>>

ClearSink ==
  /\ ring' = [ring EXCEPT !.write = 0,
                          !.reader = [d \in DOMAIN @ |-> IF d \in Readers(ring)
                                        THEN [at |-> 0, count |-> 0] ELSE @[d]]]
  /\ UNCHANGED <<sequence_id, ingress_drops, handled, pushed>>

\* UnsafeForEachEntry: iterating derings the oldest drain's reader.
UnsafeForEachEntry ==
  /\ ring' = Dering(ring, "oldest")
  /\ UNCHANGED <<sequence_id, ingress_drops, handled, pushed>>

(***************************************************************************)
(* Properties.                                                             *)
(***************************************************************************)

\* What a reader still has to read is the tail of what was pushed, complete and
\* in order: from its index, entry after entry, the cells hold exactly the last
\* `count` entries and end at the write index, wherever the ring wraps and
\* however often it was filled, deringed or cleared.
ReadersSeeTheTail ==
  \A d \in Readers(ring) :
    LET count == ring.reader[d].count
        places == PlacesOf(ring, ring.reader[d])
    IN  /\ \A n \in 1..count :
             LET e == pushed[Len(pushed) - count + n]
             IN  \A i \in 1..SizeOf(e.kind) :
                   Cell(ring, places[n - 1].at + i - 1) = <<e.seq, e.kind, i>>
        /\ places[count].at % BufferSize = ring.write % BufferSize
=============================================================================
