----------------------- MODULE TransferSession_proofs -----------------------
(***************************************************************************)
(* Proofs about a transfer session.                                        *)
(*                                                                         *)
(* First the invariants. Then the handlers of the receiver and of the      *)
(* transmitter, one by one: each lemma says what a handler leaves of its   *)
(* context and of the queue it sends to, whichever early return it takes.  *)
(* Then the actions, that they keep each part of the invariant, and the    *)
(* properties that follow from it.                                         *)
(***************************************************************************)
EXTENDS TransferSession, SequenceTheorems, TLAPS

\* Bytes, chunks and contexts.
Byte == Nat \X Nat
AnyStatus == Statuses \cup {NoStatus}
ChunkToRx == [type : {"kTransferData", "kTransferStart", "kTransferCompletion"}, offset : Nat,
              data : Seq(Byte), final : BOOLEAN, status : AnyStatus]
ChunkToTx == [type : {"kTransferStart", "kParametersRetransmit", "kParametersContinue",
                      "kTransferCompletion"}, offset : Nat,
              pending_bytes : Nat, window_end_offset : Nat, status : AnyStatus]
TxContext == [state : {"kInactive", "kCompleted", "kWaiting", "kTransmitting"}, offset : Nat,
              window_end_offset : Nat, last_chunk_offset : Nat, data_sent : BOOLEAN,
              retries : Nat, status : AnyStatus]
RxContext == [state : {"kInactive", "kCompleted", "kWaiting", "kRecovery"}, offset : Nat,
              window_size : Nat, window_end_offset : Nat, pending_bytes : Nat,
              last_chunk_offset : Nat, retries : Nat, status : AnyStatus]
Config == [dir : {"read", "write"}, size : Nat, cap : Nat, seekable : BOOLEAN]

\* Types of what no context holds.
Typed ==
  /\ cfg \in Config /\ cfg.dir \in Dirs /\ transfers \in 0..MaxTransfers /\ result \in AnyStatus
  /\ losses \in Nat /\ linkUp \in BOOLEAN
  /\ toRx \in Seq(ChunkToRx) /\ toTx \in Seq(ChunkToTx)

\* The bytes are those of the resource, from an offset on.
Piece(bytes, offset) ==
  /\ offset + Len(bytes) <= cfg.size
  /\ \A i \in 1..Len(bytes) : bytes[i] = Resource[offset + i]

\* A chunk to the receiver is a piece of the resource, in its place; the final
\* chunk comes at its end.
GoodToRx(c) ==
  /\ c \in ChunkToRx
  /\ Piece(c.data, c.offset)
  /\ c.final => c.offset = cfg.size /\ c.type = "kTransferData"
  /\ c.type # "kTransferData" => c.data = NoBytes /\ c.offset = 0
  /\ c.type = "kTransferData" => c.data # NoBytes \/ c.final
  /\ c.type = "kTransferCompletion" <=> c.status # NoStatus

\* Parameters ask for something there is.
GoodToTx(c) ==
  /\ c \in ChunkToTx
  /\ c.offset <= cfg.size
  /\ c.type = "kTransferCompletion" <=> c.status # NoStatus
  /\ c.status = NoStatus => c.window_end_offset = c.offset + c.pending_bytes

\* The receiver's offset is what its writer has.
RxGood(r, bytes) ==
  /\ r \in RxContext /\ bytes \in Seq(Byte)
  /\ Piece(bytes, 0) /\ Len(bytes) <= cfg.cap
  /\ Active(r) => r.offset = Len(bytes) /\ r.window_end_offset = r.offset + r.pending_bytes
  /\ r.state = "kCompleted" => r.status # NoStatus

\* The transmitter's offset is where its reader is.
TxGood(t, pos) ==
  /\ t \in TxContext /\ pos \in 0..cfg.size
  /\ Active(t) => t.offset = pos /\ t.last_chunk_offset <= t.offset
  /\ t.state = "kCompleted" => t.status # NoStatus

\* Nothing has happened before the first transfer.
Untouched ==
  transfers = 0 => /\ toRx = << >> /\ toTx = << >> /\ output = NoBytes
                   /\ rx.state = "kInactive" /\ tx.state = "kInactive"

\* What no step may spoil of the bytes: the first part of the invariant.
DataInv ==
  /\ Typed /\ Untouched
  /\ RxGood(rx, output) /\ TxGood(tx, readPos)
  /\ \A i \in 1..Len(toRx) : GoodToRx(toRx[i])
  /\ \A i \in 1..Len(toTx) : GoodToTx(toTx[i])

\* A transmitter that has sent nothing yet may repeat its first chunk.
Fresh(t) == Active(t) /\ ~t.data_sent

\* In a write, no first chunk follows data: the receiver does not start again.
\* s are the chunks on their way to the receiver, t is the transmitter.
OrderedIn(s, t, bytes) ==
  /\ \A i, j \in 1..Len(s) : i < j /\ s[i].type = "kTransferData" => s[j].type # "kTransferStart"
  /\ (\E i \in 1..Len(s) : s[i].type = "kTransferData") => ~Fresh(t)
  /\ bytes # NoBytes => ~Fresh(t) /\ \A i \in 1..Len(s) : s[i].type # "kTransferStart"

\* The same of the present state.
Ordered == cfg.dir = "write" => OrderedIn(toRx, tx, output)

\* An OK is somewhere: at an end or on its way.
SaysOk(r, t, s, q) ==
  \/ r.state = "kCompleted" /\ r.status = "OK"
  \/ t.state = "kCompleted" /\ t.status = "OK"
  \/ \E i \in 1..Len(s) : s[i].status = "OK"
  \/ \E i \in 1..Len(q) : q[i].status = "OK"

\* An OK means that every byte is in the receiver's writer.
OkInv == SaysOk(rx, tx, toRx, toTx) => Len(output) = cfg.size

\* The end of the window the receiver may open when its writer has n bytes.
Limit(n) == IF cfg.cap - n < PendingBytes THEN cfg.cap ELSE n + PendingBytes

\* No window, used, asked for or held, ends after n.
Within(n, s, q, t) ==
  /\ \A i \in 1..Len(s) : s[i].data # NoBytes => s[i].offset + Len(s[i].data) <= n
  /\ \A i \in 1..Len(q) : q[i].status = NoStatus => q[i].window_end_offset <= n
  /\ Active(t) => t.window_end_offset <= n

\* The windows asked for only grow, and the transmitter's is the smallest.
Growing(q, t) ==
  /\ \A i, j \in 1..Len(q) : i < j /\ q[i].status = NoStatus /\ q[j].status = NoStatus =>
        q[i].window_end_offset <= q[j].window_end_offset
  /\ Active(t) => /\ t.offset <= t.window_end_offset
                  /\ \A i \in 1..Len(q) : q[i].status = NoStatus =>
                        t.window_end_offset <= q[i].window_end_offset

\* No window reaches past what the receiver asked for last, nor past the room of
\* its writer.
WindowInv ==
  /\ Within(Limit(Len(output)), toRx, toTx, tx)
  /\ Active(rx) => /\ Within(rx.window_end_offset, toRx, toTx, tx)
                   /\ rx.window_end_offset <= Limit(Len(output))
  /\ Growing(toTx, tx)

\* What on_completion has been told when a transfer starts: nothing, or the end of the
\* transfer that this one replaces.
Unfinished == {NoStatus, "ABORTED"}

\* The outcome is known only once the client's context has ended.
Settled ==
  result \notin Unfinished => IF cfg.dir = "read" THEN ~Active(rx) ELSE ~Active(tx)

-----------------------------------------------------------------------------
(* The receiver.                                                           *)

\* The statuses of a chunk and of an outcome.
LEMMA StatusFacts == /\ Statuses \subseteq AnyStatus /\ NoStatus \in AnyStatus /\ NoStatus \notin Statuses
                     /\ "OK" \in Statuses
  BY DEF Statuses, AnyStatus, NoStatus

\* Sending a chunk or none.
LEMMA SendOne ==
    ASSUME NEW S, NEW s \in Seq(S), NEW x \in S, NEW n \in {0, 1}
    PROVE  s \o [i \in 1..n |-> x] = s \/ s \o [i \in 1..n |-> x] = Append(s, x)
  <1>1. CASE n = 0
    <2>1. [i \in 1..n |-> x] = << >>
      BY <1>1
    <2>2. s \o << >> = s
      BY ConcatEmptySeq
    <2> QED  BY <2>1, <2>2
  <1>2. CASE n = 1
    <2>1. [i \in 1..n |-> x] = << x >>
      BY <1>2
    <2>2. s \o << x >> = Append(s, x)
      BY AppendIsConcat
    <2> QED  BY <2>1, <2>2
  <1> QED  BY <1>1, <1>2

\* Context::set_transfer_state(kCompleted) of a receiver.
LEMMA RxCompleted ==
    ASSUME NEW r \in RxContext, NEW status \in Statuses
    PROVE  LET t == Completed(r, status) IN
           t \in RxContext /\ t.state = "kCompleted" /\ t.status = status
  BY StatusFacts DEF RxContext, Completed

\* The same of a transmitter.
LEMMA TxCompleted ==
    ASSUME NEW r \in TxContext, NEW status \in Statuses
    PROVE  LET t == Completed(r, status) IN
           t \in TxContext /\ t.state = "kCompleted" /\ t.status = status
  BY StatusFacts DEF TxContext, Completed

\* Context::SendFinalStatusChunk of a receiver.
LEMMA FinalToTx ==
    ASSUME NEW status \in Statuses, cfg \in Config
    PROVE  /\ FinalStatusToTx(status) \in ChunkToTx /\ FinalStatusToTx(status).status = status
           /\ GoodToTx(FinalStatusToTx(status))
  BY StatusFacts DEF FinalStatusToTx, ChunkToTx, GoodToTx, Config

\* Context::SendFinalStatusChunk of a transmitter.
LEMMA FinalToRx ==
    ASSUME NEW status \in Statuses, cfg \in Config
    PROVE  LET c == FinalStatusToRx(status) IN
           /\ c \in ChunkToRx /\ c.status = status /\ c.data = NoBytes /\ c.type = "kTransferCompletion"
           /\ GoodToRx(c)
  <1> DEFINE c == FinalStatusToRx(status)
  <1>0. NoBytes \in Seq(Byte) /\ Len(NoBytes) = 0
    BY DEF NoBytes
  <1>1. c \in ChunkToRx /\ c.status = status /\ c.data = NoBytes /\ c.type = "kTransferCompletion"
        /\ c.offset = 0 /\ c.final = FALSE
    BY <1>0, StatusFacts DEF FinalStatusToRx, ChunkToRx
  <1> HIDE DEF c
  <1>2. Piece(c.data, c.offset)
    BY <1>0, <1>1 DEF Piece, Config
  <1>3. GoodToRx(c)
    BY <1>1, <1>2, StatusFacts DEF GoodToRx
  <1> QED  BY <1>1, <1>3 DEF c

\* The receiver's transfer ends.
RxEnds(r) ==
  /\ rx' \in RxContext /\ rx'.state = "kCompleted" /\ rx'.status \in Statuses
  /\ result' = IF ClientReceives THEN rx'.status ELSE result
  /\ toTx' = toTx \/ toTx' = Append(toTx, FinalStatusToTx(rx'.status))

\* It goes on, and perhaps asks for a window that ends at w.
RxStays(r, w) ==
  /\ Active(rx') /\ RxGood(rx', output') /\ result' = result
  /\ \/ /\ toTx' = toTx /\ rx'.window_end_offset = r.window_end_offset
        /\ rx'.pending_bytes > 0 \/ r.state = "kRecovery"
     \/ /\ \E x : toTx' = Append(toTx, x) /\ GoodToTx(x) /\ x.status = NoStatus
                  /\ x.window_end_offset = rx'.window_end_offset
        /\ rx'.window_end_offset = w

\* It is over already.
RxRepeats(r) ==
  /\ r.state = "kCompleted" /\ rx' = r /\ result' = result
  /\ toTx' = Append(toTx, FinalStatusToTx(r.status))

\* Context::Finish of a receiver; only the handler's FinalizeWrite makes an OK worse.
LEMMA RxFinishFacts ==
    ASSUME cfg \in Config, toTx \in Seq(ChunkToTx),
           NEW r \in RxContext, NEW status \in Statuses, NEW n \in {0, 1}, RxFinish(r, status, n)
    PROVE  RxEnds(r) /\ (rx'.status = "OK" => status = "OK")
  <1>1. PICK final \in {status} \cup (IF "finalize" \in Faults /\ ~ClientReceives /\ status = "OK"
                                      THEN {"DATA_LOSS"} ELSE {}) :
          /\ rx' = Completed(r, final)
          /\ result' = IF ClientReceives THEN final ELSE result
          /\ toTx' = toTx \o [i \in 1..n |-> FinalStatusToTx(final)]
    BY DEF RxFinish
  <1>2. final \in Statuses /\ (final = "OK" => status = "OK")
    BY DEF Statuses
  <1>3. rx' \in RxContext /\ rx'.state = "kCompleted" /\ rx'.status = final
    BY <1>1, <1>2, RxCompleted
  <1>4. FinalStatusToTx(final) \in ChunkToTx
    BY <1>2, FinalToTx
  <1>5. toTx' = toTx \/ toTx' = Append(toTx, FinalStatusToTx(final))
    BY <1>1, <1>4, SendOne
  <1> QED  BY <1>1, <1>2, <1>3, <1>5 DEF RxEnds

\* The chunk of Context::SendTransferParameters asks for a position of the resource.
LEMMA ParametersFacts ==
    ASSUME cfg \in Config, NEW r, NEW bytes, RxGood(r, bytes), Active(r),
           NEW type \in {"kTransferStart", "kParametersRetransmit", "kParametersContinue"}
    PROVE  LET x == ParametersChunk(type, r) IN
           GoodToTx(x) /\ x.status = NoStatus /\ x.window_end_offset = r.window_end_offset
  <1>1. r \in RxContext /\ r.offset = Len(bytes) /\ bytes \in Seq(Byte) /\ Len(bytes) <= cfg.size
        /\ r.window_end_offset = r.offset + r.pending_bytes
    BY DEF RxGood, Piece, Config
  <1>2. ParametersChunk(type, r) \in ChunkToTx
    BY <1>1, StatusFacts DEF RxContext, ChunkToTx, ParametersChunk
  <1> QED  BY <1>1, <1>2 DEF GoodToTx, ParametersChunk, RxContext

\* Context::SendTransferParameters: sent, or the transfer ends with INTERNAL.
LEMMA SendParametersFacts ==
    ASSUME cfg \in Config, toTx \in Seq(ChunkToTx), NEW r, NEW q, Active(r), RxGood(r, output'),
           NEW type \in {"kTransferStart", "kParametersRetransmit", "kParametersContinue"},
           RxSendParameters(r, type)
    PROVE  RxStays(q, r.window_end_offset) \/ (RxEnds(q) /\ rx'.status # "OK")
  <1>1. CASE /\ rx' = r
             /\ toTx' = Append(toTx, ParametersChunk(type, r))
             /\ UNCHANGED result
    BY <1>1, ParametersFacts DEF RxStays
  <1>2. CASE RxFinish(r, "INTERNAL", 1)
    <2>1. r \in RxContext /\ "INTERNAL" \in Statuses
      BY DEF RxGood, Statuses
    <2> QED  BY <1>2, <2>1, RxFinishFacts DEF RxEnds
  <1> QED  BY <1>1, <1>2 DEF RxSendParameters

\* Context::UpdateTransferParameters opens a window up to the limit of the writer.
LEMMA UpdatedWindowFacts ==
    ASSUME cfg \in Config, NEW r \in RxContext, NEW bytes \in Seq(Byte), Len(bytes) <= cfg.cap,
           r.offset = Len(bytes), NEW u, u = UpdatedWindow(r, bytes)
    PROVE  /\ u \in RxContext /\ u.state = r.state /\ u.offset = r.offset /\ u.status = r.status
           /\ u.window_end_offset = u.offset + u.pending_bytes
           /\ u.window_end_offset = Limit(Len(bytes))
  <1>0. Len(bytes) \in Nat /\ cfg.cap \in Nat /\ PendingBytes \in Nat
    BY ParametersAssumption DEF Config
  <1> DEFINE room == cfg.cap - Len(bytes)
             pending == IF room < PendingBytes THEN room ELSE PendingBytes
  <1>1. pending \in Nat /\ r.offset + pending \in Nat /\ r.offset + pending = Limit(Len(bytes))
    BY <1>0 DEF Limit
  <1>2. u = [r EXCEPT !.window_size = pending, !.window_end_offset = r.offset + pending,
                      !.pending_bytes = pending]
    BY DEF UpdatedWindow
  <1> HIDE DEF pending
  <1>3. /\ u \in RxContext /\ u.state = r.state /\ u.offset = r.offset /\ u.status = r.status
        /\ u.pending_bytes = pending /\ u.window_end_offset = r.offset + pending
    BY <1>1, <1>2 DEF RxContext
  <1> QED  BY <1>1, <1>3

\* What a chunk does to the writer.
RxWrites(r, bytes, c) ==
  \/ output' = bytes
  \/ /\ Active(r) /\ output' = bytes \o c.data /\ c.offset = Len(bytes) /\ c.offset = r.offset
     /\ Len(bytes) + Len(c.data) <= cfg.cap

\* The chunk that ends the resource has been written.
WritesAll(bytes, c) == c.final /\ output' = bytes \o c.data /\ c.offset = Len(bytes)

\* What HandleReceiveChunk leaves.
Received(r, bytes, c) ==
  /\ RxWrites(r, bytes, c)
  /\ \/ Active(r) /\ RxStays(r, Limit(Len(output')))
     \/ Active(r) /\ RxEnds(r) /\ (rx'.status = "OK" => WritesAll(bytes, c))
     \/ RxRepeats(r) /\ output' = bytes

\* Two pieces of the resource that follow each other are one.
LEMMA PieceConcat ==
    ASSUME cfg \in Config, NEW a \in Seq(Byte), NEW b \in Seq(Byte), Piece(a, 0), Piece(b, Len(a))
    PROVE  /\ a \o b \in Seq(Byte) /\ Len(a \o b) = Len(a) + Len(b) /\ Piece(a \o b, 0)
  <1>1. /\ a \o b \in Seq(Byte) /\ Len(a \o b) = Len(a) + Len(b)
        /\ \A i \in 1..Len(a \o b) : (a \o b)[i] = IF i <= Len(a) THEN a[i] ELSE b[i - Len(a)]
    BY ConcatProperties, Zenon
  <1>2. Len(a) \in Nat /\ Len(b) \in Nat /\ cfg.size \in Nat
    BY DEF Config
  <1> DEFINE s == a \o b
  <1> HIDE DEF s
  <1>3. ASSUME NEW i \in 1..Len(s) PROVE s[i] = Resource[0 + i]
    <2>1. CASE i <= Len(a)
      <3>1. i \in 1..Len(a)
        BY <1>2, <2>1
      <3> QED  BY <1>1, <2>1, <3>1 DEF Piece, s
    <2>2. CASE ~(i <= Len(a))
      <3>1. i - Len(a) \in 1..Len(b) /\ Len(a) + (i - Len(a)) = 0 + i
        BY <1>1, <1>2, <2>2 DEF s
      <3> QED  BY <1>1, <2>2, <3>1 DEF Piece, s
    <2> QED  BY <2>1, <2>2
  <1>4. 0 + Len(s) <= cfg.size
    BY <1>1, <1>2 DEF Piece, s
  <1>5. Piece(s, 0)
    BY <1>3, <1>4 DEF Piece
  <1> QED  BY <1>1, <1>5 DEF s

\* Data that is accepted goes on where the writer is, within the window.
LEMMA AcceptsFacts ==
    ASSUME cfg \in Config, NEW r, NEW bytes, RxGood(r, bytes), Active(r), NEW c, GoodToRx(c),
           RxAccepts(r, bytes, c), NEW a, a = Advanced(r, c)
    PROVE  /\ RxWrites(r, bytes, c) /\ c.offset = Len(bytes) /\ output' = bytes \o c.data
           /\ RxGood(a, output') /\ Active(a) /\ a.window_end_offset = r.window_end_offset
           /\ a.state = r.state /\ a \in RxContext
           /\ a.offset = Len(output') /\ output' \in Seq(Byte) /\ Len(output') <= cfg.cap
  <1>1. /\ r \in RxContext /\ bytes \in Seq(Byte) /\ Piece(bytes, 0) /\ Len(bytes) <= cfg.cap
        /\ r.offset = Len(bytes) /\ r.window_end_offset = r.offset + r.pending_bytes
    BY DEF RxGood
  <1>2. c \in ChunkToRx /\ Piece(c.data, c.offset) /\ c.data \in Seq(Byte) /\ Len(c.data) \in Nat
        /\ c.offset \in Nat
    BY DEF GoodToRx, ChunkToRx
  <1>3. /\ c.offset = r.offset /\ Len(c.data) <= r.pending_bytes /\ output' = bytes \o c.data
        /\ c.data # NoBytes => Len(bytes) + Len(c.data) <= cfg.cap
    BY DEF RxAccepts
  <1>4. Len(bytes) + Len(c.data) <= cfg.cap
    <2>1. CASE c.data = NoBytes
      <3>1. Len(c.data) = 0
        BY <2>1 DEF NoBytes
      <3> QED  BY <1>1, <3>1
    <2> QED  BY <1>3, <2>1
  <1>5. output' \in Seq(Byte) /\ Len(output') = Len(bytes) + Len(c.data) /\ Piece(output', 0)
    <2>1. Piece(c.data, Len(bytes))
      BY <1>1, <1>2, <1>3
    <2> QED  BY <1>1, <1>2, <1>3, <2>1, PieceConcat
  <1>6. r.pending_bytes \in Nat /\ r.offset \in Nat
    BY <1>1 DEF RxContext
  <1>7. r.offset + Len(c.data) \in Nat /\ r.pending_bytes - Len(c.data) \in Nat
    BY <1>2, <1>3, <1>6
  <1>8. /\ a \in RxContext /\ a.state = r.state /\ a.window_end_offset = r.window_end_offset
        /\ a.offset = r.offset + Len(c.data) /\ a.pending_bytes = r.pending_bytes - Len(c.data)
    BY <1>1, <1>2, <1>7 DEF RxContext, Advanced
  <1>9. a.window_end_offset = a.offset + a.pending_bytes /\ a.offset = Len(output')
    BY <1>1, <1>2, <1>5, <1>6, <1>8
  <1>10. Active(a) /\ a.state # "kCompleted"
    BY <1>8 DEF Active
  <1>11. RxGood(a, output')
    BY <1>4, <1>5, <1>8, <1>9, <1>10 DEF RxGood
  <1> QED  BY <1>1, <1>3, <1>4, <1>5, <1>8, <1>9, <1>10, <1>11 DEF RxWrites

\* A receiver with a new window is a good one.
LEMMA WindowIsGood ==
    ASSUME cfg \in Config, NEW r, NEW bytes, RxGood(r, bytes), Active(r), NEW u, u = UpdatedWindow(r, bytes)
    PROVE  RxGood(u, bytes) /\ Active(u) /\ u.window_end_offset = Limit(Len(bytes))
  <1>1. /\ r \in RxContext /\ bytes \in Seq(Byte) /\ Piece(bytes, 0) /\ Len(bytes) <= cfg.cap
        /\ r.offset = Len(bytes)
    BY DEF RxGood
  <1>2. /\ u \in RxContext /\ u.state = r.state /\ u.offset = r.offset /\ u.status = r.status
        /\ u.window_end_offset = u.offset + u.pending_bytes
        /\ u.window_end_offset = Limit(Len(bytes))
    BY <1>1, UpdatedWindowFacts
  <1>3. Active(u) /\ u.state # "kCompleted"
    BY <1>2 DEF Active
  <1> QED  BY <1>1, <1>2, <1>3 DEF RxGood

\* A change of the state or of the last offset seen.
LEMMA StateIsGood ==
    ASSUME NEW r, NEW bytes, RxGood(r, bytes), Active(r),
           NEW state \in {"kWaiting", "kRecovery"}, NEW n \in Nat
    PROVE  /\ LET u == [r EXCEPT !.state = state] IN
              RxGood(u, bytes) /\ Active(u) /\ u.state = state
              /\ u.window_end_offset = r.window_end_offset /\ u.pending_bytes = r.pending_bytes
              /\ u.offset = r.offset
           /\ LET u == [r EXCEPT !.last_chunk_offset = n] IN
              RxGood(u, bytes) /\ Active(u) /\ u.state = r.state
              /\ u.window_end_offset = r.window_end_offset /\ u.pending_bytes = r.pending_bytes
  BY DEF RxGood, RxContext, Active

\* Context::HandleReceivedData, whichever of its early returns is taken.
LEMMA ReceivedDataFacts ==
    ASSUME cfg \in Config, toTx \in Seq(ChunkToTx),
           NEW r, NEW bytes, RxGood(r, bytes), r.state = "kWaiting", NEW c, GoodToRx(c),
           NEW q, q.window_end_offset = r.window_end_offset, q.offset = r.offset, Active(q),
           HandleReceivedData(r, bytes, c)
    PROVE  Received(q, bytes, c)
  <1>0. Active(r) /\ r \in RxContext /\ c \in ChunkToRx /\ c.offset \in Nat
    BY DEF Active, RxGood, GoodToRx, ChunkToRx
  <1>a. {"INTERNAL", "DATA_LOSS", "OK"} \subseteq Statuses
    BY DEF Statuses
  <1>1. CASE RxBadOffset(r, bytes, c)
    <2> DEFINE s == [r EXCEPT !.state = "kRecovery"]
               u == UpdatedWindow(s, bytes)
    <2>1. RxGood(s, bytes) /\ Active(s)
      BY <1>0, StateIsGood
    <2>2. output' = bytes /\ RxSendParameters(u, "kParametersRetransmit")
      BY <1>1 DEF RxBadOffset
    <2> HIDE DEF s
    <2>3. RxGood(u, bytes) /\ Active(u) /\ u.window_end_offset = Limit(Len(bytes))
      BY <2>1, WindowIsGood
    <2> HIDE DEF u
    <2>4. RxStays(q, u.window_end_offset) \/ (RxEnds(q) /\ rx'.status # "OK")
      BY <2>2, <2>3, SendParametersFacts
    <2> QED  BY <2>2, <2>3, <2>4 DEF Received, RxWrites
  <1>2. CASE RxTooMuchData(r, bytes, c) \/ RxWriteFails(r, bytes, c)
    <2>1. output' = bytes /\ \E s \in {"INTERNAL", "DATA_LOSS"} : RxFinish(r, s, 1)
      BY <1>2 DEF RxTooMuchData, RxWriteFails
    <2>2. PICK s \in {"INTERNAL", "DATA_LOSS"} : RxFinish(r, s, 1)
      BY <2>1
    <2>3. RxEnds(r) /\ rx'.status # "OK"
      BY <1>0, <1>a, <2>2, RxFinishFacts
    <2> QED  BY <2>1, <2>3 DEF Received, RxWrites, RxEnds
  <1>3. CASE RxFinalChunk(r, bytes, c)
    <2> DEFINE s == [r EXCEPT !.last_chunk_offset = c.offset]
    <2>1. RxAccepts(r, bytes, c) /\ c.final /\ RxFinish(s, "OK", 1)
      BY <1>3 DEF RxFinalChunk
    <2>2. s \in RxContext
      BY <1>0 DEF RxContext
    <2>3. RxEnds(s)
      BY <1>a, <2>1, <2>2, RxFinishFacts
    <2>4. RxWrites(r, bytes, c) /\ c.offset = Len(bytes) /\ output' = bytes \o c.data
      BY <1>0, <2>1, AcceptsFacts
    <2> QED  BY <2>1, <2>3, <2>4 DEF Received, RxWrites, RxEnds, WritesAll
  <1> DEFINE a == Advanced(r, c)
             w == UpdatedWindow(a, bytes \o c.data)
  <1>4. ASSUME RxAccepts(r, bytes, c),
               NEW type \in {"kParametersRetransmit", "kParametersContinue"}, RxSendParameters(w, type)
        PROVE  Received(q, bytes, c)
    <2>1. RxWrites(r, bytes, c) /\ output' = bytes \o c.data /\ RxGood(a, output') /\ Active(a)
      BY <1>0, <1>4, AcceptsFacts
    <2> HIDE DEF a
    <2>2. RxGood(w, output') /\ Active(w) /\ w.window_end_offset = Limit(Len(output'))
      BY <2>1, WindowIsGood
    <2> HIDE DEF w
    <2>3. RxStays(q, w.window_end_offset) \/ (RxEnds(q) /\ rx'.status # "OK")
      BY <1>4, <2>2, SendParametersFacts
    <2> QED  BY <2>1, <2>2, <2>3 DEF Received, RxWrites
  <1>5. CASE RxNextWindow(r, bytes, c) \/ RxExtendWindow(r, bytes, c)
    <2>1. RxAccepts(r, bytes, c)
          /\ \E type \in {"kParametersRetransmit", "kParametersContinue"} : RxSendParameters(w, type)
      BY <1>5 DEF RxNextWindow, RxExtendWindow
    <2> QED  BY <1>4, <2>1
  <1>6. CASE RxKeepWindow(r, bytes, c)
    <2>1. RxAccepts(r, bytes, c) /\ a.pending_bytes # 0 /\ rx' = a /\ toTx' = toTx /\ result' = result
      BY <1>6 DEF RxKeepWindow
    <2>2. RxWrites(r, bytes, c) /\ RxGood(a, output') /\ Active(a)
          /\ a.window_end_offset = r.window_end_offset /\ a \in RxContext
      BY <1>0, <2>1, AcceptsFacts
    <2> HIDE DEF a
    <2>3. a.pending_bytes > 0
      BY <2>1, <2>2 DEF RxContext
    <2>4. RxStays(q, Limit(Len(output')))
      BY <2>1, <2>2, <2>3 DEF RxStays
    <2> QED  BY <2>2, <2>4 DEF Received, RxWrites
  <1> QED  BY <1>1, <1>2, <1>3, <1>5, <1>6 DEF HandleReceivedData

\* Context::HandleReceiveChunk, in every state of the receiver.
LEMMA ReceiveChunkFacts ==
    ASSUME cfg \in Config, toTx \in Seq(ChunkToTx),
           NEW r, NEW bytes, RxGood(r, bytes), NEW c, GoodToRx(c), HandleReceiveChunk(r, bytes, c)
    PROVE  Received(r, bytes, c)
  <1>0. c \in ChunkToRx /\ c.offset \in Nat
    BY DEF GoodToRx, ChunkToRx
  <1>1. CASE /\ r.state = "kCompleted"
             /\ rx' = r
             /\ toTx' = Append(toTx, FinalStatusToTx(r.status))
             /\ output' = bytes
             /\ UNCHANGED result
    BY <1>1 DEF Received, RxRepeats, RxWrites
  <1>2. CASE r.state = "kRecovery" /\ RxRecovering(r, bytes, c)
    <2> DEFINE s == [r EXCEPT !.last_chunk_offset = c.offset]
               u == UpdatedWindow(s, bytes)
    <2>0. Active(r)
      BY <1>2 DEF Active
    <2>1. RxGood(s, bytes) /\ Active(s) /\ s.window_end_offset = r.window_end_offset
      BY <1>0, <2>0, StateIsGood
    <2>2. output' = bytes
          /\ \/ RxSendParameters(u, "kParametersRetransmit")
             \/ rx' = s /\ toTx' = toTx /\ result' = result
      BY <1>2 DEF RxRecovering
    <2> HIDE DEF s
    <2>3. RxGood(u, bytes) /\ Active(u) /\ u.window_end_offset = Limit(Len(bytes))
      BY <2>1, WindowIsGood
    <2> HIDE DEF u
    <2>4. CASE RxSendParameters(u, "kParametersRetransmit")
      <3>1. RxStays(r, u.window_end_offset) \/ (RxEnds(r) /\ rx'.status # "OK")
        BY <2>2, <2>3, <2>4, SendParametersFacts
      <3> QED  BY <2>0, <2>2, <2>3, <3>1 DEF Received, RxWrites
    <2>5. CASE rx' = s /\ toTx' = toTx /\ result' = result
      <3>1. RxStays(r, Limit(Len(output')))
        BY <1>2, <2>1, <2>2, <2>5 DEF RxStays
      <3> QED  BY <2>0, <2>2, <3>1 DEF Received, RxWrites
    <2> QED  BY <2>2, <2>4, <2>5
  <1>3. CASE r.state = "kRecovery" /\ HandleReceivedData([r EXCEPT !.state = "kWaiting"], bytes, c)
    <2> DEFINE s == [r EXCEPT !.state = "kWaiting"]
    <2>0. Active(r)
      BY <1>3 DEF Active
    <2>1. RxGood(s, bytes) /\ s.state = "kWaiting" /\ s.window_end_offset = r.window_end_offset
          /\ s.offset = r.offset
      BY <2>0, StateIsGood
    <2> HIDE DEF s
    <2>2. HandleReceivedData(s, bytes, c)
      BY <1>3 DEF s
    <2> QED  BY <2>0, <2>1, <2>2, ReceivedDataFacts
  <1>4. CASE r.state = "kWaiting" /\ HandleReceivedData(r, bytes, c)
    <2>1. Active(r)
      BY <1>4 DEF Active
    <2> QED  BY <1>4, <2>1, ReceivedDataFacts
  <1> QED  BY <1>1, <1>2, <1>3, <1>4 DEF HandleReceiveChunk

-----------------------------------------------------------------------------
(* The transmitter.                                                        *)

\* The transmitter's transfer ends.
TxEnds ==
  /\ tx' \in TxContext /\ tx'.state = "kCompleted" /\ tx'.status \in Statuses
  /\ TxGood(tx', readPos')
  /\ result' = IF ClientTransmits THEN tx'.status ELSE result
  /\ toRx' = toRx \/ toRx' = Append(toRx, FinalStatusToRx(tx'.status))

\* A chunk a context with the window of t may send.
Allowed(t, x) ==
  /\ GoodToRx(x) /\ x.status = NoStatus
  /\ x.type = "kTransferStart" => ~t.data_sent
  /\ x.type = "kTransferData" => tx'.data_sent
  /\ t.offset <= t.window_end_offset /\ x.data # NoBytes =>
       x.offset + Len(x.data) <= t.window_end_offset

\* It goes on, in the window of t.
TxStays(t) ==
  /\ Active(tx') /\ TxGood(tx', readPos') /\ result' = result
  /\ t.data_sent => tx'.data_sent
  /\ t.offset <= t.window_end_offset =>
       tx'.offset <= tx'.window_end_offset /\ tx'.window_end_offset <= t.window_end_offset
  /\ toRx' = toRx \/ \E x : toRx' = Append(toRx, x) /\ Allowed(t, x)

\* It is over already.
TxRepeats(t) ==
  /\ t.state = "kCompleted" /\ tx' \in TxContext /\ tx'.state = "kCompleted"
  /\ tx'.status \in {t.status, "FAILED_PRECONDITION"}
  /\ TxGood(tx', readPos') /\ result' = result
  /\ toRx' = Append(toRx, FinalStatusToRx(tx'.status))

\* An ended transmitter promises nothing about its offset.
LEMMA CompletedIsGood ==
    ASSUME NEW t \in TxContext, NEW pos \in 0..cfg.size, t.state = "kCompleted", t.status # NoStatus
    PROVE  TxGood(t, pos)
  BY DEF TxGood, Active

\* Context::Finish of a transmitter.
LEMMA TxFinishFacts ==
    ASSUME cfg \in Config, toRx \in Seq(ChunkToRx), readPos' \in 0..cfg.size,
           NEW t \in TxContext, NEW status \in Statuses, NEW n \in {0, 1}, TxFinish(t, status, n)
    PROVE  TxEnds /\ tx'.status = status
  <1>1. /\ tx' = Completed(t, status)
        /\ result' = IF ClientTransmits THEN status ELSE result
        /\ toRx' = toRx \o [i \in 1..n |-> FinalStatusToRx(status)]
    BY DEF TxFinish
  <1>2. tx' \in TxContext /\ tx'.state = "kCompleted" /\ tx'.status = status
    BY <1>1, TxCompleted
  <1>3. FinalStatusToRx(status) \in ChunkToRx
    BY FinalToRx
  <1>4. toRx' = toRx \/ toRx' = Append(toRx, FinalStatusToRx(status))
    BY <1>1, <1>3, SendOne
  <1>5. TxGood(tx', readPos')
    <2>1. tx'.status # NoStatus
      BY <1>2, StatusFacts
    <2> QED  BY <1>2, <2>1 DEF TxGood, Active
  <1> QED  BY <1>1, <1>2, <1>4, <1>5 DEF TxEnds

\* The chunks a transmitter sends.
LEMMA InitialChunkFacts ==
    ASSUME cfg \in Config, NEW c, c = InitialTransmitChunk
    PROVE  GoodToRx(c) /\ c.status = NoStatus /\ c.type = "kTransferStart" /\ c.data = NoBytes
  <1>0. NoBytes \in Seq(Byte) /\ Len(NoBytes) = 0
    BY DEF NoBytes
  <1>1. /\ c \in ChunkToRx /\ c.status = NoStatus /\ c.type = "kTransferStart" /\ c.data = NoBytes
        /\ c.offset = 0 /\ c.final = FALSE
    BY <1>0, StatusFacts DEF InitialTransmitChunk, ChunkToRx
  <1>2. Piece(c.data, c.offset)
    BY <1>0, <1>1 DEF Piece, Config
  <1> QED  BY <1>1, <1>2 DEF GoodToRx

\* The chunk with remaining_bytes 0, sent at the end of the resource.
LEMMA FinalChunkFacts ==
    ASSUME cfg \in Config, NEW c, c = DataChunk(cfg.size, NoBytes, TRUE)
    PROVE  GoodToRx(c) /\ c.status = NoStatus /\ c.type = "kTransferData" /\ c.data = NoBytes
  <1>0. NoBytes \in Seq(Byte) /\ Len(NoBytes) = 0 /\ cfg.size \in Nat
    BY DEF NoBytes, Config
  <1>1. /\ c \in ChunkToRx /\ c.status = NoStatus /\ c.type = "kTransferData" /\ c.data = NoBytes
        /\ c.offset = cfg.size /\ c.final = TRUE
    BY <1>0, StatusFacts DEF DataChunk, ChunkToRx
  <1>2. Piece(c.data, c.offset)
    <2>1. Len(c.data) = 0 /\ c.offset \in Nat /\ c.offset = cfg.size
      BY <1>0, <1>1
    <2>2. c.offset + Len(c.data) <= cfg.size /\ 1..Len(c.data) = {}
      <3> DEFINE n == Len(c.data)
                 o == c.offset
                 z == cfg.size
      <3>1. n = 0 /\ o \in Nat /\ o = z
        BY <2>1
      <3> HIDE DEF n, o, z
      <3>2. o + n <= z /\ 1..n = {}
        BY <3>1
      <3> QED  BY <3>2 DEF n, o, z
    <2> QED  BY <2>2 DEF Piece
  <1> QED  BY <1>1, <1>2 DEF GoodToRx

\* What the reader returns is a piece of the resource, from its position on.
LEMMA ReadFacts ==
    ASSUME cfg \in Config, transfers \in Nat, NEW pos \in Nat, NEW n \in Nat \ {0},
           pos + n <= cfg.size, NEW s, s = SubSeq(Resource, pos + 1, pos + n)
    PROVE  s \in Seq(Byte) /\ Len(s) = n /\ Piece(s, pos) /\ s # NoBytes
  <1>0. cfg.size \in Nat
    BY DEF Config
  <1>1. ASSUME NEW i \in (pos + 1)..(pos + n) PROVE Resource[i] \in Byte
    <2>1. i \in 1..cfg.size /\ i \in Nat
      BY <1>0
    <2> QED  BY <2>1 DEF Resource, Byte
  <1> DEFINE R == Resource
  <1> HIDE DEF R
  <1>2. \A i \in (pos + 1)..(pos + n) : R[i] \in Byte
    BY <1>1 DEF R
  <1>3. /\ s \in Seq(Byte)
        /\ Len(s) = IF pos + 1 <= pos + n THEN (pos + n) - (pos + 1) + 1 ELSE 0
        /\ \A i \in 1..((pos + n) - (pos + 1) + 1) : s[i] = R[(pos + 1) + i - 1]
    <2>1. s = SubSeq(R, pos + 1, pos + n) /\ pos + 1 \in Int /\ pos + n \in Int
      BY DEF R
    <2> HIDE DEF R
    <2> DEFINE m == pos + 1
               k == pos + n
    <2> HIDE DEF m, k
    <2>2. m \in Int /\ k \in Int /\ \A i \in m..k : R[i] \in Byte
      BY <1>2, <2>1 DEF m, k
    <2>3. /\ SubSeq(R, m, k) \in Seq(Byte)
          /\ Len(SubSeq(R, m, k)) = IF m <= k THEN k - m + 1 ELSE 0
          /\ \A i \in 1..(k - m + 1) : SubSeq(R, m, k)[i] = R[m + i - 1]
      BY <2>2, SubSeqProperties, SMTT(30)
    <2> QED  BY <2>1, <2>3 DEF m, k
  <1>4. Len(s) = n
    BY <1>3
  <1>5. ASSUME NEW i \in 1..Len(s) PROVE s[i] = Resource[pos + i]
    <2>1. i \in 1..((pos + n) - (pos + 1) + 1) /\ (pos + 1) + i - 1 = pos + i
      BY <1>4
    <2> QED  BY <1>3, <2>1 DEF R
  <1>6. Piece(s, pos)
    BY <1>4, <1>5 DEF Piece
  <1>7. s # NoBytes
    BY <1>4 DEF NoBytes
  <1> QED  BY <1>3, <1>4, <1>6, <1>7

\* A chunk with data.
LEMMA DataChunkFacts ==
    ASSUME cfg \in Config, NEW pos \in Nat, NEW s \in Seq(Byte), Piece(s, pos), s # NoBytes,
           NEW c, c = DataChunk(pos, s, FALSE)
    PROVE  /\ GoodToRx(c) /\ c.status = NoStatus /\ c.type = "kTransferData" /\ c.data = s
           /\ c.offset = pos
  <1>1. /\ c \in ChunkToRx /\ c.status = NoStatus /\ c.type = "kTransferData" /\ c.data = s
        /\ c.offset = pos /\ c.final = FALSE
    BY StatusFacts DEF DataChunk, ChunkToRx
  <1> QED  BY <1>1 DEF GoodToRx

\* u is what is left of t when the chunk c is ready to be sent.
LEMMA TxSendFacts ==
    ASSUME cfg \in Config, toRx \in Seq(ChunkToRx),
           NEW t, NEW u \in TxContext, u.state \in {"kWaiting", "kTransmitting"}, TxGood(u, readPos'),
           NEW c, GoodToRx(c), c.status = NoStatus, c.type = "kTransferData",
           t.offset <= t.window_end_offset =>
              /\ u.offset <= u.window_end_offset /\ u.window_end_offset <= t.window_end_offset
              /\ c.data # NoBytes => c.offset + Len(c.data) <= t.window_end_offset,
           TxSend(u, c)
    PROVE  TxStays(t) \/ (TxEnds /\ tx'.status # "OK")
  <1>0. readPos' \in 0..cfg.size /\ u.offset = readPos' /\ u.last_chunk_offset <= u.offset
    BY DEF TxGood, Active
  <1>1. CASE /\ tx' = [u EXCEPT !.data_sent = TRUE,
                                !.state = IF u.offset = u.window_end_offset
                                          THEN "kWaiting" ELSE u.state]
             /\ toRx' = Append(toRx, c)
             /\ UNCHANGED result
    <2> DEFINE s == IF u.offset = u.window_end_offset THEN "kWaiting" ELSE u.state
    <2>1. s \in {"kWaiting", "kTransmitting"}
      OBVIOUS
    <2> HIDE DEF s
    <2>2. tx' = [u EXCEPT !.data_sent = TRUE, !.state = s]
      BY <1>1 DEF s
    <2>3. /\ tx' \in TxContext /\ tx'.state = s /\ tx'.data_sent = TRUE /\ tx'.offset = u.offset
          /\ tx'.window_end_offset = u.window_end_offset
          /\ tx'.last_chunk_offset = u.last_chunk_offset
      BY <2>1, <2>2 DEF TxContext
    <2>4. Active(tx') /\ tx'.state # "kCompleted"
      BY <2>1, <2>3 DEF Active
    <2>5. TxGood(tx', readPos')
      BY <1>0, <2>3, <2>4 DEF TxGood
    <2>6. Allowed(t, c)
      BY <2>3 DEF Allowed
    <2>7. t.offset <= t.window_end_offset =>
             tx'.offset <= tx'.window_end_offset /\ tx'.window_end_offset <= t.window_end_offset
      BY <2>3
    <2> QED  BY <1>1, <2>3, <2>4, <2>5, <2>6, <2>7 DEF TxStays
  <1>2. CASE TxFinish(u, "DATA_LOSS", 1)
    <2>1. "DATA_LOSS" \in Statuses
      BY DEF Statuses
    <2>2. TxEnds /\ tx'.status = "DATA_LOSS"
      BY <1>0, <1>2, <2>1, TxFinishFacts
    <2> QED  BY <2>2
  <1> QED  BY <1>1, <1>2 DEF TxSend

\* Context::TransmitNextChunk with data: no more than the window, the chunk size and
\* the resource allow.
LEMMA TransmitDataFacts ==
    ASSUME cfg \in Config, toRx \in Seq(ChunkToRx), transfers \in Nat,
           NEW t \in TxContext, NEW pos \in 0..cfg.size, t.state \in {"kWaiting", "kTransmitting"},
           t.offset = pos, TransmitData(t, pos)
    PROVE  TxStays(t) \/ (TxEnds /\ tx'.status # "OK")
  <1>0. cfg.size \in Nat /\ pos \in Nat /\ MaxChunkSize \in Nat /\ t.window_end_offset \in Nat
    BY ParametersAssumption DEF Config, TxContext
  <1> DEFINE window == t.window_end_offset - t.offset
             room == IF window \in 0..MaxChunkSize THEN window ELSE MaxChunkSize
             most == IF pos + room <= cfg.size THEN room ELSE cfg.size - pos
             U(n) == [t EXCEPT !.last_chunk_offset = t.offset, !.offset = t.offset + n]
             C(n) == DataChunk(t.offset, SubSeq(Resource, pos + 1, pos + n), FALSE)
  <1>1. pos < cfg.size /\ \E n \in 1..most : readPos' = pos + n /\ TxSend(U(n), C(n))
    BY DEF TransmitData
  <1>2. PICK n \in 1..most : readPos' = pos + n /\ TxSend(U(n), C(n))
    BY <1>1
  <1>3. room \in Nat /\ (t.offset <= t.window_end_offset => room <= t.window_end_offset - t.offset)
    BY <1>0
  <1> HIDE DEF room
  <1>4. most \in Nat /\ most <= room /\ pos + most <= cfg.size
    BY <1>0, <1>1, <1>3
  <1> HIDE DEF most
  <1>5. n \in Nat \ {0} /\ pos + n <= cfg.size /\ n <= room /\ pos + n \in 0..cfg.size
    BY <1>0, <1>3, <1>4
  <1>6. PICK s : s = SubSeq(Resource, pos + 1, pos + n)
    OBVIOUS
  <1>7. s \in Seq(Byte) /\ Len(s) = n /\ Piece(s, pos) /\ s # NoBytes
    BY <1>0, <1>5, <1>6, ReadFacts, ZenonT(60)
  <1>8. PICK c : c = DataChunk(pos, s, FALSE)
    OBVIOUS
  <1>9. /\ GoodToRx(c) /\ c.status = NoStatus /\ c.type = "kTransferData" /\ c.data = s
        /\ c.offset = pos
    BY <1>0, <1>7, <1>8, DataChunkFacts DEF DataChunk
  <1> DEFINE u == U(n)
  <1>a. TxSend(u, c)
    BY <1>2, <1>6, <1>8
  <1> HIDE DEF C
  <1>10. /\ u \in TxContext /\ u.state = t.state /\ u.offset = pos + n /\ u.last_chunk_offset = pos
         /\ u.window_end_offset = t.window_end_offset
    <2>1. t.offset + n \in Nat
      BY <1>0, <1>5
    <2> QED  BY <1>0, <2>1 DEF TxContext
  <1> HIDE DEF u, U
  <1>11. TxGood(u, readPos')
    <2>1. readPos' \in 0..cfg.size /\ u.offset = readPos' /\ u.last_chunk_offset <= u.offset
      BY <1>0, <1>2, <1>5, <1>10
    <2> QED  BY <1>10, <2>1 DEF TxGood, Active
  <1>12. t.offset <= t.window_end_offset =>
           /\ u.offset <= u.window_end_offset /\ u.window_end_offset <= t.window_end_offset
           /\ c.data # NoBytes => c.offset + Len(c.data) <= t.window_end_offset
    <2>1. pos + n \in Nat /\ (pos <= t.window_end_offset => pos + n <= t.window_end_offset)
      BY <1>0, <1>3, <1>5
    <2>2. c.offset + Len(c.data) = pos + n
      BY <1>7, <1>9
    <2> QED  BY <1>0, <1>10, <2>1, <2>2
  <1> QED  BY <1>a, <1>9, <1>10, <1>11, <1>12, TxSendFacts

\* Context::TransmitNextChunk: data, the final chunk, or an end that is not OK.
LEMMA TransmitFacts ==
    ASSUME cfg \in Config, toRx \in Seq(ChunkToRx), transfers \in Nat,
           NEW t \in TxContext, NEW pos \in 0..cfg.size, t.state \in {"kWaiting", "kTransmitting"},
           t.offset = pos, t.last_chunk_offset <= cfg.size,
           NEW requested \in BOOLEAN, ~requested => t.last_chunk_offset <= t.offset,
           TransmitNextChunk(t, pos, requested)
    PROVE  TxStays(t) \/ (TxEnds /\ tx'.status # "OK")
  <1>0. /\ cfg.size \in Nat /\ pos \in Nat /\ t.window_end_offset \in Nat
        /\ Active(t) /\ t.state # "kCompleted"
        /\ {"DATA_LOSS", "RESOURCE_EXHAUSTED"} \subseteq Statuses
    BY DEF Config, TxContext, Active, Statuses
  <1>1. CASE TransmitFinalChunk(t, pos)
    <2> DEFINE u == [t EXCEPT !.window_end_offset = t.offset]
               c == DataChunk(t.offset, NoBytes, TRUE)
    <2>1. pos = cfg.size /\ readPos' = pos /\ TxSend(u, c) /\ c = DataChunk(cfg.size, NoBytes, TRUE)
      BY <1>1 DEF TransmitFinalChunk
    <2> HIDE DEF c
    <2>2. GoodToRx(c) /\ c.status = NoStatus /\ c.type = "kTransferData" /\ c.data = NoBytes
      BY <2>1, FinalChunkFacts
    <2>3. /\ u \in TxContext /\ u.state = t.state /\ u.offset = pos
          /\ u.last_chunk_offset = t.last_chunk_offset /\ u.window_end_offset = pos
      BY <1>0 DEF TxContext
    <2> HIDE DEF u
    <2>4. TxGood(u, readPos')
      BY <2>1, <2>3 DEF TxGood, Active
    <2>5. t.offset <= t.window_end_offset =>
             /\ u.offset <= u.window_end_offset /\ u.window_end_offset <= t.window_end_offset
      BY <1>0, <2>3
    <2> QED  BY <2>1, <2>2, <2>3, <2>4, <2>5, TxSendFacts
  <1>2. CASE TransmitNothing(t, pos, requested)
    <2>1. readPos' = pos
      BY <1>2 DEF TransmitNothing
    <2>2. CASE TxFinish(t, "RESOURCE_EXHAUSTED", 1)
      <3>1. TxEnds /\ tx'.status = "RESOURCE_EXHAUSTED"
        BY <1>0, <2>1, <2>2, TxFinishFacts
      <3> QED  BY <3>1
    <2>3. CASE ~requested /\ tx' = t /\ toRx' = toRx /\ result' = result
      <3>1. TxGood(t, pos)
        BY <1>0, <2>3 DEF TxGood
      <3>2. t.offset <= t.window_end_offset =>
               tx'.offset <= tx'.window_end_offset /\ tx'.window_end_offset <= t.window_end_offset
        BY <1>0, <2>3
      <3> QED  BY <1>0, <2>1, <2>3, <3>1, <3>2 DEF TxStays
    <2> QED  BY <1>2, <2>2, <2>3 DEF TransmitNothing
  <1>3. CASE TransmitData(t, pos)
    BY <1>3, TransmitDataFacts
  <1>4. CASE TransmitReadFails(t, pos)
    <2>1. TxFinish(t, "DATA_LOSS", 1) /\ readPos' = pos
      BY <1>4 DEF TransmitReadFails
    <2>2. TxEnds /\ tx'.status = "DATA_LOSS"
      BY <1>0, <2>1, TxFinishFacts
    <2> QED  BY <2>2
  <1> QED  BY <1>1, <1>2, <1>3, <1>4 DEF TransmitNextChunk

\* What HandleTransmitChunk leaves: the new window is the one asked for.
InWindow(t, c) ==
  \E u : /\ TxStays(u) /\ u.window_end_offset = c.window_end_offset
         /\ t.data_sent <=> u.data_sent
         /\ t.offset <= t.window_end_offset /\ t.window_end_offset <= c.window_end_offset =>
              u.offset <= u.window_end_offset

\* The transmitter answers parameters.
Answered(t, c) ==
  \/ Active(t) /\ InWindow(t, c)
  \/ Active(t) /\ TxEnds /\ tx'.status # "OK"
  \/ TxRepeats(t)

\* Context::HandleTransferParametersUpdate, with and without a seek of the reader.
LEMMA ParametersUpdateFacts ==
    ASSUME cfg \in Config, toRx \in Seq(ChunkToRx), transfers \in Nat,
           NEW t, NEW pos, TxGood(t, pos), t.state \in {"kWaiting", "kTransmitting"},
           NEW c, GoodToTx(c), c.status = NoStatus, HandleTransferParametersUpdate(t, pos, c)
    PROVE  Answered(t, c)
  <1>0. /\ t \in TxContext /\ pos \in 0..cfg.size /\ t.offset = pos /\ t.last_chunk_offset <= t.offset
        /\ cfg.size \in Nat /\ pos \in Nat /\ t.window_end_offset \in Nat /\ t.last_chunk_offset \in Nat
        /\ Active(t)
    BY DEF Config, TxContext, Active, TxGood
  <1>1. /\ c.offset \in 0..cfg.size /\ c.window_end_offset = c.offset + c.pending_bytes
        /\ c.window_end_offset \in Nat /\ c.pending_bytes \in Nat /\ c.offset \in Nat
    BY <1>0 DEF GoodToTx, ChunkToTx
  <1>2. CASE TransmitNextChunk([t EXCEPT !.window_end_offset = c.window_end_offset,
                                         !.state = "kTransmitting"], pos, FALSE)
    <2> DEFINE u == [t EXCEPT !.window_end_offset = c.window_end_offset, !.state = "kTransmitting"]
    <2>1. /\ u \in TxContext /\ u.state = "kTransmitting" /\ u.offset = t.offset
          /\ u.last_chunk_offset = t.last_chunk_offset /\ u.window_end_offset = c.window_end_offset
          /\ u.data_sent = t.data_sent
      BY <1>0, <1>1 DEF TxContext
    <2>2. TransmitNextChunk(u, pos, FALSE)
      BY <1>2
    <2> HIDE DEF u
    <2>3. u.last_chunk_offset <= cfg.size /\ u.last_chunk_offset <= u.offset
      BY <1>0, <2>1
    <2>4. TxStays(u) \/ (TxEnds /\ tx'.status # "OK")
      BY <1>0, <2>1, <2>2, <2>3, TransmitFacts
    <2>5. t.offset <= t.window_end_offset /\ t.window_end_offset <= c.window_end_offset =>
              u.offset <= u.window_end_offset
      BY <1>0, <1>1, <2>1
    <2>6. t.data_sent <=> u.data_sent
      BY <2>1
    <2> QED  BY <1>0, <2>1, <2>4, <2>5, <2>6 DEF Answered, InWindow
  <1>3. CASE TransmitNextChunk([t EXCEPT !.offset = c.offset,
                                         !.window_end_offset = c.offset + c.pending_bytes,
                                         !.state = "kTransmitting"],
                               IF t.offset = c.offset THEN pos ELSE c.offset, TRUE)
    <2> DEFINE u == [t EXCEPT !.offset = c.offset,
                              !.window_end_offset = c.offset + c.pending_bytes,
                              !.state = "kTransmitting"]
               p == IF t.offset = c.offset THEN pos ELSE c.offset
    <2>1. /\ u \in TxContext /\ u.state = "kTransmitting" /\ u.offset = c.offset
          /\ u.last_chunk_offset = t.last_chunk_offset
          /\ u.window_end_offset = c.offset + c.pending_bytes
          /\ u.data_sent = t.data_sent
      BY <1>0, <1>1 DEF TxContext
    <2>2. TransmitNextChunk(u, p, TRUE) /\ p = c.offset
      BY <1>0, <1>3
    <2> HIDE DEF u, p
    <2>3. u.last_chunk_offset <= cfg.size
      BY <1>0, <2>1
    <2>4. TxStays(u) \/ (TxEnds /\ tx'.status # "OK")
      BY <1>1, <2>1, <2>2, <2>3, TransmitFacts
    <2>5. u.offset <= u.window_end_offset
      BY <1>1, <2>1
    <2>6. t.data_sent <=> u.data_sent
      BY <2>1
    <2>7. u.window_end_offset = c.window_end_offset
      BY <1>1, <2>1
    <2> QED  BY <1>0, <2>4, <2>5, <2>6, <2>7 DEF Answered, InWindow
  <1>4. CASE TxFinish(t, "UNIMPLEMENTED", 1) /\ readPos' = pos
    <2>1. "UNIMPLEMENTED" \in Statuses
      BY DEF Statuses
    <2>2. TxEnds /\ tx'.status = "UNIMPLEMENTED"
      BY <1>0, <1>4, <2>1, TxFinishFacts
    <2> QED  BY <1>0, <2>2 DEF Answered
  <1> QED  BY <1>2, <1>3, <1>4 DEF HandleTransferParametersUpdate

\* Context::HandleTransmitChunk, in every state of the transmitter.
LEMMA TransmitChunkFacts ==
    ASSUME cfg \in Config, toRx \in Seq(ChunkToRx), transfers \in Nat,
           NEW t, NEW pos, TxGood(t, pos),
           NEW c, GoodToTx(c), c.status = NoStatus, HandleTransmitChunk(t, pos, c)
    PROVE  Answered(t, c)
  <1>1. CASE t.state = "kCompleted"
    <2> DEFINE status == IF IsInitialToTx(c) THEN t.status ELSE "FAILED_PRECONDITION"
    <2>1. /\ tx' = [t EXCEPT !.status = status] /\ toRx' = Append(toRx, FinalStatusToRx(status))
          /\ readPos' = pos /\ result' = result
      BY <1>1 DEF HandleTransmitChunk
    <2>2. /\ status \in {t.status, "FAILED_PRECONDITION"} /\ status \in AnyStatus /\ status # NoStatus
          /\ t \in TxContext /\ pos \in 0..cfg.size
      BY <1>1 DEF TxGood, TxContext, AnyStatus, Statuses, NoStatus
    <2> HIDE DEF status
    <2>3. tx' \in TxContext /\ tx'.state = "kCompleted" /\ tx'.status = status
      BY <1>1, <2>1, <2>2 DEF TxContext
    <2>4. TxGood(tx', readPos')
      BY <2>1, <2>2, <2>3 DEF TxGood, Active
    <2> QED  BY <1>1, <2>1, <2>2, <2>3, <2>4 DEF Answered, TxRepeats
  <1>2. CASE t.state \in {"kWaiting", "kTransmitting"} /\ HandleTransferParametersUpdate(t, pos, c)
    BY <1>2, ParametersUpdateFacts
  <1> QED  BY <1>1, <1>2 DEF HandleTransmitChunk

-----------------------------------------------------------------------------
(* What a step leaves of the queues and of the two sides.                  *)

\* A queue after a chunk has been sent.
LEMMA SentFacts ==
    ASSUME NEW S, NEW s \in Seq(S), NEW x \in S, NEW t, t = Append(s, x)
    PROVE  /\ t \in Seq(S)
           /\ \A i \in 1..Len(t) : (i \in 1..Len(s) /\ t[i] = s[i]) \/ (i = Len(s) + 1 /\ t[i] = x)
           /\ Len(t) = Len(s) + 1 /\ Len(s) \in Nat
  OBVIOUS

\* A queue after its first chunk has been taken.
LEMMA TakenFacts ==
    ASSUME NEW S, NEW s \in Seq(S), s # << >>, NEW t, t = Tail(s)
    PROVE  /\ t \in Seq(S) /\ Head(s) \in S /\ Head(s) = s[1] /\ 1 \in 1..Len(s)
           /\ \A i \in 1..Len(t) : i + 1 \in 1..Len(s) /\ t[i] = s[i + 1]
  OBVIOUS

\* The queues.
ToRxGood(s) == s \in Seq(ChunkToRx) /\ \A i \in 1..Len(s) : GoodToRx(s[i])
ToTxGood(s) == s \in Seq(ChunkToTx) /\ \A i \in 1..Len(s) : GoodToTx(s[i])

\* A good chunk that is sent keeps a queue good.
LEMMA ToRxSent ==
    ASSUME NEW s, ToRxGood(s), NEW x, GoodToRx(x)
    PROVE  ToRxGood(Append(s, x))
  <1>1. s \in Seq(ChunkToRx) /\ x \in ChunkToRx
    BY DEF ToRxGood, GoodToRx
  <1>2. PICK t : t = Append(s, x)
    OBVIOUS
  <1>3. t \in Seq(ChunkToRx) /\ \A i \in 1..Len(t) : (i \in 1..Len(s) /\ t[i] = s[i]) \/ t[i] = x
    BY <1>1, <1>2, SentFacts
  <1>4. ToRxGood(t)
    BY <1>3 DEF ToRxGood
  <1> QED  BY <1>2, <1>4

\* The same of the queue to the transmitter.
LEMMA ToTxSent ==
    ASSUME NEW s, ToTxGood(s), NEW x, GoodToTx(x)
    PROVE  ToTxGood(Append(s, x))
  <1>1. s \in Seq(ChunkToTx) /\ x \in ChunkToTx
    BY DEF ToTxGood, GoodToTx
  <1>2. PICK t : t = Append(s, x)
    OBVIOUS
  <1>3. t \in Seq(ChunkToTx) /\ \A i \in 1..Len(t) : (i \in 1..Len(s) /\ t[i] = s[i]) \/ t[i] = x
    BY <1>1, <1>2, SentFacts
  <1>4. ToTxGood(t)
    BY <1>3 DEF ToTxGood
  <1> QED  BY <1>2, <1>4

\* Taking a chunk keeps a queue good, and the chunk is good.
LEMMA ToRxTaken ==
    ASSUME NEW s, ToRxGood(s), s # << >>
    PROVE  ToRxGood(Tail(s)) /\ GoodToRx(Head(s))
  <1>1. s \in Seq(ChunkToRx)
    BY DEF ToRxGood
  <1>2. PICK t : t = Tail(s)
    OBVIOUS
  <1>3. /\ t \in Seq(ChunkToRx) /\ Head(s) = s[1] /\ 1 \in 1..Len(s)
        /\ \A i \in 1..Len(t) : i + 1 \in 1..Len(s) /\ t[i] = s[i + 1]
    BY <1>1, <1>2, TakenFacts
  <1>4. ToRxGood(t) /\ GoodToRx(Head(s))
    BY <1>3 DEF ToRxGood
  <1> QED  BY <1>2, <1>4

\* The same of the queue to the transmitter.
LEMMA ToTxTaken ==
    ASSUME NEW s, ToTxGood(s), s # << >>
    PROVE  ToTxGood(Tail(s)) /\ GoodToTx(Head(s))
  <1>1. s \in Seq(ChunkToTx)
    BY DEF ToTxGood
  <1>2. PICK t : t = Tail(s)
    OBVIOUS
  <1>3. /\ t \in Seq(ChunkToTx) /\ Head(s) = s[1] /\ 1 \in 1..Len(s)
        /\ \A i \in 1..Len(t) : i + 1 \in 1..Len(s) /\ t[i] = s[i + 1]
    BY <1>1, <1>2, TakenFacts
  <1>4. ToTxGood(t) /\ GoodToTx(Head(s))
    BY <1>3 DEF ToTxGood
  <1> QED  BY <1>2, <1>4

\* What a step of the receiver leaves well.
RxSide == RxGood(rx', output') /\ ToTxGood(toTx') /\ result' \in AnyStatus
TxSide == TxGood(tx', readPos') /\ ToRxGood(toRx') /\ result' \in AnyStatus

\* The end of a receiver leaves its side good.
LEMMA RxEndsSide ==
    ASSUME cfg \in Config, result \in AnyStatus, ToTxGood(toTx),
           output' \in Seq(Byte), Piece(output', 0), Len(output') <= cfg.cap, NEW q, RxEnds(q)
    PROVE  RxSide
  <1>1. rx'.status \in Statuses /\ rx'.state = "kCompleted" /\ rx' \in RxContext
    BY DEF RxEnds
  <1>2. RxGood(rx', output')
    BY <1>1, StatusFacts DEF RxGood, Active
  <1>3. ToTxGood(toTx')
    BY <1>1, FinalToTx, ToTxSent DEF RxEnds
  <1>4. result' \in AnyStatus
    BY <1>1, StatusFacts DEF RxEnds
  <1> QED  BY <1>2, <1>3, <1>4 DEF RxSide

\* So does going on.
LEMMA RxStaysSide ==
    ASSUME result \in AnyStatus, ToTxGood(toTx), NEW q, NEW w, RxStays(q, w)
    PROVE  RxSide
  <1>1. ToTxGood(toTx')
    BY ToTxSent DEF RxStays
  <1> QED  BY <1>1 DEF RxStays, RxSide

\* So does any chunk.
LEMMA ReceivedSide ==
    ASSUME cfg \in Config, result \in AnyStatus, ToTxGood(toTx), NEW r, NEW bytes, RxGood(r, bytes),
           NEW c, GoodToRx(c), Received(r, bytes, c)
    PROVE  RxSide
  <1>0. /\ bytes \in Seq(Byte) /\ Piece(bytes, 0) /\ Len(bytes) <= cfg.cap /\ r \in RxContext
        /\ r.state = "kCompleted" => r.status # NoStatus
    BY DEF RxGood
  <1>1. output' \in Seq(Byte) /\ Piece(output', 0) /\ Len(output') <= cfg.cap
    <2>1. CASE output' = bytes
      BY <1>0, <2>1
    <2>2. CASE /\ output' = bytes \o c.data /\ c.offset = Len(bytes)
               /\ Len(bytes) + Len(c.data) <= cfg.cap
      <3>1. c.data \in Seq(Byte) /\ Piece(c.data, Len(bytes))
        BY <2>2 DEF GoodToRx, ChunkToRx
      <3> QED  BY <1>0, <2>2, <3>1, PieceConcat
    <2> QED  BY <2>1, <2>2 DEF Received, RxWrites
  <1>2. CASE RxStays(r, Limit(Len(output')))
    BY <1>2, RxStaysSide
  <1>3. CASE RxEnds(r)
    BY <1>1, <1>3, RxEndsSide
  <1>4. CASE RxRepeats(r) /\ output' = bytes
    <2>1. r.status \in Statuses
      BY <1>0, <1>4 DEF RxRepeats, RxContext, AnyStatus
    <2>2. ToTxGood(toTx')
      BY <1>4, <2>1, FinalToTx, ToTxSent DEF RxRepeats
    <2> QED  BY <1>4, <2>2 DEF RxRepeats, RxSide
  <1> QED  BY <1>2, <1>3, <1>4 DEF Received

\* The same for the transmitter.
LEMMA TxEndsSide ==
    ASSUME cfg \in Config, result \in AnyStatus, ToRxGood(toRx), TxEnds
    PROVE  TxSide
  <1>1. tx'.status \in Statuses
    BY DEF TxEnds
  <1>2. ToRxGood(toRx')
    <2>1. GoodToRx(FinalStatusToRx(tx'.status))
      BY <1>1, FinalToRx
    <2> QED  BY <2>1, ToRxSent DEF TxEnds
  <1>3. result' \in AnyStatus
    BY <1>1, StatusFacts DEF TxEnds
  <1> QED  BY <1>2, <1>3 DEF TxSide, TxEnds

\* Going on leaves the side of a transmitter good.
LEMMA TxStaysSide ==
    ASSUME result \in AnyStatus, ToRxGood(toRx), NEW t, TxStays(t)
    PROVE  TxSide
  <1>1. ToRxGood(toRx')
    BY ToRxSent DEF TxStays, Allowed
  <1> QED  BY <1>1 DEF TxStays, TxSide

\* So does answering parameters.
LEMMA AnsweredSide ==
    ASSUME cfg \in Config, result \in AnyStatus, ToRxGood(toRx), NEW t, NEW pos, TxGood(t, pos),
           NEW c, Answered(t, c)
    PROVE  TxSide
  <1>1. CASE InWindow(t, c)
    BY <1>1, TxStaysSide DEF InWindow
  <1>2. CASE TxEnds
    BY <1>2, TxEndsSide
  <1>3. CASE TxRepeats(t)
    <2>1. tx'.status \in Statuses
      BY <1>3 DEF TxRepeats, TxGood, TxContext, AnyStatus, Statuses
    <2>2. ToRxGood(toRx')
      BY <1>3, <2>1, FinalToRx, ToRxSent DEF TxRepeats
    <2> QED  BY <1>3, <2>2 DEF TxRepeats, TxSide
  <1> QED  BY <1>1, <1>2, <1>3 DEF Answered

-----------------------------------------------------------------------------
(* The actions.                                                            *)

\* A chunk that is received resets the retries and nothing that matters here.
LEMMA HeardRx ==
    ASSUME NEW r, NEW bytes, RxGood(r, bytes), NEW h, h = Heard(r)
    PROVE  /\ RxGood(h, bytes) /\ h.state = r.state /\ h.status = r.status
           /\ h.window_end_offset = r.window_end_offset /\ (Active(h) <=> Active(r))
  <1>1. /\ r \in RxContext /\ bytes \in Seq(Byte)
        /\ Piece(bytes, 0) /\ Len(bytes) <= cfg.cap
        /\ Active(r) => r.offset = Len(bytes) /\ r.window_end_offset = r.offset + r.pending_bytes
        /\ r.state = "kCompleted" => r.status # NoStatus
    BY DEF RxGood
  <1>2. /\ h \in RxContext /\ h.state = r.state /\ h.status = r.status /\ h.offset = r.offset
        /\ h.window_end_offset = r.window_end_offset /\ h.pending_bytes = r.pending_bytes
    BY <1>1 DEF RxContext, Heard
  <1>3. Active(h) <=> Active(r)
    BY <1>2 DEF Active
  <1>4. RxGood(h, bytes)
    BY <1>1, <1>2, <1>3 DEF RxGood
  <1> QED  BY <1>2, <1>3, <1>4

\* The same of a transmitter.
LEMMA HeardTx ==
    ASSUME NEW t, NEW pos, TxGood(t, pos), NEW h, h = Heard(t)
    PROVE  /\ TxGood(h, pos) /\ h.state = t.state /\ h.status = t.status /\ h.offset = t.offset
           /\ h.window_end_offset = t.window_end_offset /\ (Active(h) <=> Active(t))
           /\ h.data_sent <=> t.data_sent
  <1>1. /\ t \in TxContext /\ pos \in 0..cfg.size
        /\ Active(t) => t.offset = pos /\ t.last_chunk_offset <= t.offset
        /\ t.state = "kCompleted" => t.status # NoStatus
    BY DEF TxGood
  <1>2. /\ h \in TxContext /\ h.state = t.state /\ h.status = t.status /\ h.offset = t.offset
        /\ h.window_end_offset = t.window_end_offset /\ h.last_chunk_offset = t.last_chunk_offset
        /\ h.data_sent = t.data_sent
    BY <1>1 DEF TxContext, Heard
  <1>3. Active(h) <=> Active(t)
    BY <1>2 DEF Active
  <1>4. TxGood(h, pos)
    BY <1>1, <1>2, <1>3 DEF TxGood
  <1> QED  BY <1>2, <1>3, <1>4

\* Context::Initialize makes a receiver without a window ...
LEMMA NewRxFacts ==
    ASSUME cfg \in Config
    PROVE  /\ NewRx \in RxContext /\ NewRx.state = "kWaiting" /\ NewRx.offset = 0
           /\ NewRx.window_end_offset = 0 /\ NewRx.pending_bytes = 0 /\ Active(NewRx)
           /\ RxGood(NewRx, NoBytes)
  <1>0. NoBytes \in Seq(Byte) /\ Len(NoBytes) = 0 /\ cfg.size \in Nat /\ cfg.cap \in Nat
    BY DEF NoBytes, Config
  <1>1. /\ NewRx \in RxContext /\ NewRx.state = "kWaiting" /\ NewRx.offset = 0
        /\ NewRx.window_end_offset = 0 /\ NewRx.pending_bytes = 0
    BY StatusFacts DEF NewRx, RxContext
  <1>2. Active(NewRx)
    BY <1>1 DEF Active
  <1>3. Piece(NoBytes, 0)
    BY <1>0 DEF Piece
  <1>4. RxGood(NewRx, NoBytes)
    BY <1>0, <1>1, <1>3 DEF RxGood
  <1> QED  BY <1>1, <1>2, <1>4

\* ... and a transmitter at the start.
LEMMA NewTxFacts ==
    ASSUME cfg \in Config
    PROVE  /\ NewTx \in TxContext /\ NewTx.state = "kWaiting" /\ NewTx.offset = 0
           /\ NewTx.window_end_offset = 0 /\ NewTx.data_sent = FALSE /\ Active(NewTx)
           /\ TxGood(NewTx, 0)
  <1>0. cfg.size \in Nat
    BY DEF Config
  <1>1. /\ NewTx \in TxContext /\ NewTx.state = "kWaiting" /\ NewTx.offset = 0
        /\ NewTx.window_end_offset = 0 /\ NewTx.last_chunk_offset = 0 /\ NewTx.data_sent = FALSE
    BY StatusFacts DEF NewTx, TxContext
  <1>2. Active(NewTx)
    BY <1>1 DEF Active
  <1>3. TxGood(NewTx, 0)
    BY <1>0, <1>1 DEF TxGood
  <1> QED  BY <1>1, <1>2, <1>3

\* Handler::PrepareWrite and PrepareRead succeed, or the transfer ends with an error.
LEMMA PreparedRx ==
    ASSUME cfg \in Config, NEW r \in Prepared(NewRx)
    PROVE  RxGood(r, NoBytes) /\ (r = NewRx \/ (r.state = "kCompleted" /\ r.status # "OK"))
  <1>1. CASE r = NewRx
    BY <1>1, NewRxFacts
  <1>2. CASE r \in {Completed(NewRx, "DATA_LOSS"), Completed(NewRx, "PERMISSION_DENIED")}
    <2>1. {"DATA_LOSS", "PERMISSION_DENIED"} \subseteq Statuses
      BY DEF Statuses
    <2>2. /\ r \in RxContext /\ r.state = "kCompleted"
          /\ r.status \in {"DATA_LOSS", "PERMISSION_DENIED"}
      BY <1>2, <2>1, NewRxFacts, RxCompleted
    <2>3. NoBytes \in Seq(Byte) /\ Piece(NoBytes, 0) /\ Len(NoBytes) <= cfg.cap
      BY NewRxFacts DEF RxGood
    <2>4. r.status # NoStatus /\ r.status # "OK" /\ ~Active(r)
      BY <2>2 DEF NoStatus, Active
    <2> QED  BY <2>2, <2>3, <2>4 DEF RxGood
  <1> QED  BY <1>1, <1>2 DEF Prepared

\* The same of a transmitter.
LEMMA PreparedTx ==
    ASSUME cfg \in Config, NEW t \in Prepared(NewTx)
    PROVE  TxGood(t, 0) /\ (t = NewTx \/ (t.state = "kCompleted" /\ t.status # "OK"))
  <1>1. CASE t = NewTx
    BY <1>1, NewTxFacts
  <1>2. CASE t \in {Completed(NewTx, "DATA_LOSS"), Completed(NewTx, "PERMISSION_DENIED")}
    <2>1. {"DATA_LOSS", "PERMISSION_DENIED"} \subseteq Statuses
      BY DEF Statuses
    <2>2. /\ t \in TxContext /\ t.state = "kCompleted"
          /\ t.status \in {"DATA_LOSS", "PERMISSION_DENIED"}
      BY <1>2, <2>1, NewTxFacts, TxCompleted
    <2>3. 0 \in 0..cfg.size
      BY DEF Config
    <2>4. t.status # NoStatus /\ t.status # "OK" /\ ~Active(t)
      BY <2>2 DEF NoStatus, Active
    <2> QED  BY <2>2, <2>3, <2>4 DEF TxGood
  <1> QED  BY <1>1, <1>2 DEF Prepared

\* What a chunk does to the receiver.
RxRestarts(c) ==
  /\ ClientTransmits /\ IsInitialToRx(c)
  /\ \E r \in Prepared(NewRx) : Received(r, NoBytes, c)
RxTakes(c) ==
  /\ c.status = NoStatus /\ rx.state # "kInactive" /\ Received(Heard(rx), output, c)
RxIsTold(c) ==
  /\ Active(rx) /\ c.status # NoStatus /\ output' = output
  /\ RxEnds(rx) /\ (rx'.status = "OK" => c.status = "OK")
RxIgnores ==
  ~Active(rx) /\ (rx' = rx \/ rx' = Heard(rx)) /\ output' = output /\ toTx' = toTx /\ result' = result
RxHandles(c) == RxRestarts(c) \/ RxTakes(c) \/ RxIsTold(c) \/ RxIgnores

\* A chunk arrives at the receiver: a new transfer, a chunk of this one, a status, or
\* nothing to do.
LEMMA RxReceiveFacts ==
    ASSUME DataInv, RxReceive
    PROVE  /\ toRx # << >> /\ toRx' = Tail(toRx) /\ GoodToRx(Head(toRx))
           /\ UNCHANGED <<cfg, tx, readPos, transfers, losses, linkUp>>
           /\ RxHandles(Head(toRx))
  <1> DEFINE c == Head(toRx)
  <1>0. /\ cfg \in Config /\ toTx \in Seq(ChunkToTx) /\ RxGood(rx, output) /\ ToRxGood(toRx)
    BY DEF DataInv, Typed, ToRxGood
  <1>1. /\ toRx # << >> /\ toRx' = Tail(toRx)
        /\ UNCHANGED <<cfg, tx, readPos, transfers, losses, linkUp>>
    BY DEF RxReceive
  <1>2. GoodToRx(c)
    BY <1>0, <1>1, ToRxTaken
  <1>3. \/ /\ ClientTransmits /\ IsInitialToRx(c)
           /\ \E r \in Prepared(NewRx) : HandleReceiveChunk(r, NoBytes, c)
        \/ /\ rx.state # "kInactive" /\ RxStatusChunk(Heard(rx), c)
        \/ /\ rx.state # "kInactive" /\ c.status = NoStatus /\ HandleReceiveChunk(Heard(rx), output, c)
        \/ /\ rx.state = "kInactive" /\ UNCHANGED <<rx, output, toTx, result>>
    BY DEF RxReceive
  <1> SUFFICES RxHandles(c)
    BY <1>1, <1>2
  <1> HIDE DEF c
  <1>h. PICK h : h = Heard(rx)
    OBVIOUS
  <1>i. /\ RxGood(h, output) /\ h.state = rx.state /\ (Active(h) <=> Active(rx)) /\ h \in RxContext
    BY <1>0, <1>h, HeardRx DEF RxGood
  <1>4. CASE /\ ClientTransmits /\ IsInitialToRx(c)
             /\ \E r \in Prepared(NewRx) : HandleReceiveChunk(r, NoBytes, c)
    <2>1. PICK r \in Prepared(NewRx) : HandleReceiveChunk(r, NoBytes, c)
      BY <1>4
    <2>2. RxGood(r, NoBytes)
      BY <1>0, PreparedRx
    <2>3. Received(r, NoBytes, c)
      BY <1>0, <1>2, <2>1, <2>2, ReceiveChunkFacts
    <2>4. RxRestarts(c)
      BY <1>4, <2>3 DEF RxRestarts
    <2> QED  BY <2>4 DEF RxHandles
  <1>5. CASE rx.state # "kInactive" /\ RxStatusChunk(h, c)
    <2>1. c.status # NoStatus /\ output' = output
      BY <1>5 DEF RxStatusChunk
    <2>2. c.status \in Statuses
      BY <1>2, <2>1 DEF GoodToRx, ChunkToRx, AnyStatus
    <2>3. CASE Active(h) /\ RxFinish(h, c.status, 0)
      <3>1. RxEnds(h) /\ (rx'.status = "OK" => c.status = "OK")
        BY <1>0, <1>i, <2>2, <2>3, RxFinishFacts
      <3>2. RxIsTold(c)
        BY <1>i, <2>1, <2>3, <3>1 DEF RxIsTold, RxEnds
      <3> QED  BY <3>2 DEF RxHandles
    <2>4. CASE ~Active(h) /\ rx' = h /\ toTx' = toTx /\ result' = result
      <3>1. RxIgnores
        BY <1>h, <1>i, <2>1, <2>4 DEF RxIgnores
      <3> QED  BY <3>1 DEF RxHandles
    <2> QED  BY <1>5, <2>3, <2>4 DEF RxStatusChunk
  <1>6. CASE rx.state # "kInactive" /\ c.status = NoStatus /\ HandleReceiveChunk(h, output, c)
    <2>1. Received(h, output, c)
      BY <1>0, <1>2, <1>i, <1>6, ReceiveChunkFacts
    <2> QED  BY <1>h, <1>6, <2>1 DEF RxHandles, RxTakes
  <1>7. CASE rx.state = "kInactive" /\ UNCHANGED <<rx, output, toTx, result>>
    <2>1. ~Active(rx)
      BY <1>7 DEF Active
    <2> QED  BY <1>7, <2>1 DEF RxHandles, RxIgnores
  <1> QED  BY <1>3, <1>h, <1>4, <1>5, <1>6, <1>7

\* What a chunk does to the transmitter.
TxRestarts(c) ==
  /\ ClientReceives /\ IsInitialToTx(c)
  /\ \E t \in Prepared(NewTx) : Answered(t, c)
TxTakes(c) ==
  /\ tx.state # "kInactive" /\ Answered(Heard(tx), c)
TxIsTold(c) ==
  /\ Active(tx) /\ TxEnds /\ tx'.status = c.status
TxIgnores ==
  ~Active(tx) /\ (tx' = tx \/ tx' = Heard(tx)) /\ readPos' = readPos /\ toRx' = toRx /\ result' = result
TxHandles(c) ==
  (c.status = NoStatus /\ (TxRestarts(c) \/ TxTakes(c))) \/ (c.status # NoStatus /\ TxIsTold(c)) \/ TxIgnores

\* A chunk arrives at the transmitter.
LEMMA TxReceiveFacts ==
    ASSUME DataInv, TxReceive
    PROVE  /\ toTx # << >> /\ toTx' = Tail(toTx) /\ GoodToTx(Head(toTx))
           /\ UNCHANGED <<cfg, rx, output, transfers, losses, linkUp>>
           /\ TxHandles(Head(toTx))
  <1> DEFINE c == Head(toTx)
  <1>0. /\ cfg \in Config /\ toRx \in Seq(ChunkToRx) /\ TxGood(tx, readPos) /\ ToTxGood(toTx)
        /\ transfers \in Nat
    BY ParametersAssumption DEF DataInv, Typed, ToTxGood
  <1>1. /\ toTx # << >> /\ toTx' = Tail(toTx)
        /\ UNCHANGED <<cfg, rx, output, transfers, losses, linkUp>>
    BY DEF TxReceive
  <1>2. GoodToTx(c)
    BY <1>0, <1>1, ToTxTaken
  <1>3. \/ /\ ClientReceives /\ IsInitialToTx(c)
           /\ \E t \in Prepared(NewTx) : HandleTransmitChunk(t, 0, c)
        \/ /\ tx.state # "kInactive" /\ TxStatusChunk(Heard(tx), c)
        \/ /\ tx.state # "kInactive" /\ c.status = NoStatus /\ HandleTransmitChunk(Heard(tx), readPos, c)
        \/ /\ tx.state = "kInactive" /\ UNCHANGED <<tx, readPos, toRx, result>>
    BY DEF TxReceive
  <1> SUFFICES TxHandles(c)
    BY <1>1, <1>2
  <1> HIDE DEF c
  <1>h. PICK h : h = Heard(tx)
    OBVIOUS
  <1>i. /\ TxGood(h, readPos) /\ h.state = tx.state /\ (Active(h) <=> Active(tx)) /\ h \in TxContext
        /\ readPos \in 0..cfg.size
    <2>1. TxGood(h, readPos) /\ h.state = tx.state /\ (Active(h) <=> Active(tx))
      BY <1>0, <1>h, HeardTx
    <2> QED  BY <2>1 DEF TxGood
  <1>4. CASE /\ ClientReceives /\ IsInitialToTx(c)
             /\ \E t \in Prepared(NewTx) : HandleTransmitChunk(t, 0, c)
    <2>0. c.status = NoStatus
      BY <1>2, <1>4 DEF IsInitialToTx, GoodToTx
    <2>1. PICK t \in Prepared(NewTx) : HandleTransmitChunk(t, 0, c)
      BY <1>4
    <2>2. TxGood(t, 0)
      BY <1>0, PreparedTx
    <2>3. Answered(t, c)
      BY <1>0, <1>2, <2>0, <2>1, <2>2, TransmitChunkFacts
    <2>4. TxRestarts(c)
      BY <1>4, <2>3 DEF TxRestarts
    <2> QED  BY <2>0, <2>4 DEF TxHandles
  <1>5. CASE tx.state # "kInactive" /\ TxStatusChunk(h, c)
    <2>1. c.status # NoStatus /\ readPos' = readPos
      BY <1>5 DEF TxStatusChunk
    <2>2. c.status \in Statuses
      BY <1>2, <2>1 DEF GoodToTx, ChunkToTx, AnyStatus
    <2>3. CASE Active(h) /\ TxFinish(h, c.status, 0)
      <3>1. TxEnds /\ tx'.status = c.status
        BY <1>0, <1>i, <2>1, <2>2, <2>3, TxFinishFacts
      <3>2. TxIsTold(c)
        BY <1>i, <2>3, <3>1 DEF TxIsTold
      <3> QED  BY <2>1, <3>2 DEF TxHandles
    <2>4. CASE ~Active(h) /\ tx' = h /\ toRx' = toRx /\ result' = result
      <3>1. TxIgnores
        BY <1>h, <1>i, <2>1, <2>4 DEF TxIgnores
      <3> QED  BY <3>1 DEF TxHandles
    <2> QED  BY <1>5, <2>3, <2>4 DEF TxStatusChunk
  <1>6. CASE tx.state # "kInactive" /\ c.status = NoStatus /\ HandleTransmitChunk(h, readPos, c)
    <2>1. Answered(h, c)
      BY <1>0, <1>2, <1>i, <1>6, TransmitChunkFacts
    <2> QED  BY <1>h, <1>6, <2>1 DEF TxHandles, TxTakes
  <1>7. CASE tx.state = "kInactive" /\ UNCHANGED <<tx, readPos, toRx, result>>
    <2>1. ~Active(tx)
      BY <1>7 DEF Active
    <2> QED  BY <1>7, <2>1 DEF TxHandles, TxIgnores
  <1> QED  BY <1>3, <1>h, <1>4, <1>5, <1>6, <1>7

\* Counting a retry changes nothing that matters here.
LEMMA RetriedRx ==
    ASSUME NEW r, NEW bytes, RxGood(r, bytes), NEW n \in Nat, NEW h, h = [r EXCEPT !.retries = n]
    PROVE  /\ RxGood(h, bytes) /\ h.state = r.state /\ (Active(h) <=> Active(r))
           /\ h.window_end_offset = r.window_end_offset
  <1>1. /\ r \in RxContext /\ bytes \in Seq(Byte)
        /\ Piece(bytes, 0) /\ Len(bytes) <= cfg.cap
        /\ Active(r) => r.offset = Len(bytes) /\ r.window_end_offset = r.offset + r.pending_bytes
        /\ r.state = "kCompleted" => r.status # NoStatus
    BY DEF RxGood
  <1>2. /\ h \in RxContext /\ h.state = r.state /\ h.status = r.status /\ h.offset = r.offset
        /\ h.window_end_offset = r.window_end_offset /\ h.pending_bytes = r.pending_bytes
    BY <1>1 DEF RxContext
  <1>3. Active(h) <=> Active(r)
    BY <1>2 DEF Active
  <1>4. RxGood(h, bytes)
    BY <1>1, <1>2, <1>3 DEF RxGood
  <1> QED  BY <1>2, <1>3, <1>4

\* A timeout of the receiver asks again for the same window, or ends the transfer.
RxRetries ==
  RxStays(rx, rx.window_end_offset) \/ (RxEnds(rx) /\ rx'.status # "OK")

\* Context::HandleTimeout of a receiver.
LEMMA RxTimeoutFacts ==
    ASSUME DataInv, RxTimeout
    PROVE  /\ Active(rx) /\ output' = output
           /\ UNCHANGED <<cfg, tx, readPos, toRx, transfers, losses, linkUp>>
           /\ RxRetries
  <1>0. /\ cfg \in Config /\ toTx \in Seq(ChunkToTx) /\ RxGood(rx, output) /\ rx \in RxContext
        /\ "DEADLINE_EXCEEDED" \in Statuses
    BY DEF DataInv, Typed, RxGood, Statuses
  <1>1. /\ Active(rx) /\ output' = output
        /\ UNCHANGED <<cfg, tx, readPos, toRx, transfers, losses, linkUp>>
        /\ \/ RxFinish(rx, "DEADLINE_EXCEEDED", 1)
           \/ RxSendParameters([rx EXCEPT !.retries = rx.retries + 1], "kParametersRetransmit")
    BY DEF RxTimeout, Active
  <1>2. CASE RxFinish(rx, "DEADLINE_EXCEEDED", 1)
    <2>1. RxEnds(rx) /\ rx'.status # "OK"
      BY <1>0, <1>2, RxFinishFacts
    <2> QED  BY <1>1, <2>1 DEF RxRetries
  <1>3. CASE RxSendParameters([rx EXCEPT !.retries = rx.retries + 1], "kParametersRetransmit")
    <2>1. PICK h : h = [rx EXCEPT !.retries = rx.retries + 1]
      OBVIOUS
    <2>2. rx.retries + 1 \in Nat
      BY <1>0 DEF RxContext
    <2>3. RxGood(h, output) /\ (Active(h) <=> Active(rx)) /\ h.window_end_offset = rx.window_end_offset
      BY <1>0, <2>1, <2>2, RetriedRx
    <2>4. RxSendParameters(h, "kParametersRetransmit") /\ RxGood(h, output') /\ Active(h)
      BY <1>1, <1>3, <2>1, <2>3
    <2>5. RxStays(rx, h.window_end_offset) \/ (RxEnds(rx) /\ rx'.status # "OK")
      BY <1>0, <2>4, SendParametersFacts
    <2> QED  BY <1>1, <2>3, <2>5 DEF RxRetries
  <1> QED  BY <1>1, <1>2, <1>3

\* A timeout of the transmitter stays in its window.
TxRetries == InWindow(tx, tx) \/ (TxEnds /\ tx'.status # "OK")

\* The timeout between two chunks of a transmitter in its window.
LEMMA TxInterchunkFacts ==
    ASSUME DataInv, TxInterchunkTimeout
    PROVE  /\ Active(tx) /\ UNCHANGED <<cfg, rx, output, toTx, transfers, losses, linkUp>>
           /\ TxRetries
  <1>0. /\ cfg \in Config /\ toRx \in Seq(ChunkToRx) /\ transfers \in Nat /\ TxGood(tx, readPos)
    BY ParametersAssumption DEF DataInv, Typed
  <1>1. /\ tx.state = "kTransmitting" /\ TransmitNextChunk(tx, readPos, FALSE)
        /\ UNCHANGED <<cfg, rx, output, toTx, transfers, losses, linkUp>>
    BY DEF TxInterchunkTimeout
  <1>2. /\ Active(tx) /\ tx \in TxContext /\ readPos \in 0..cfg.size /\ tx.offset = readPos
        /\ tx.last_chunk_offset <= tx.offset /\ tx.last_chunk_offset \in Nat /\ cfg.size \in Nat
    BY <1>0, <1>1 DEF TxGood, Active, Config, TxContext
  <1>3. tx.last_chunk_offset <= cfg.size
    BY <1>2
  <1>4. TxStays(tx) \/ (TxEnds /\ tx'.status # "OK")
    BY <1>0, <1>1, <1>2, <1>3, TransmitFacts
  <1> QED  BY <1>1, <1>2, <1>4 DEF TxRetries, InWindow

\* Context::HandleTimeout of a transmitter: the first chunk, or the last one, again.
LEMMA TxTimeoutFacts ==
    ASSUME DataInv, TxTimeout
    PROVE  /\ Active(tx) /\ UNCHANGED <<cfg, rx, output, toTx, transfers, losses, linkUp>>
           /\ TxRetries
  <1>0. /\ cfg \in Config /\ toRx \in Seq(ChunkToRx) /\ transfers \in Nat /\ TxGood(tx, readPos)
    BY ParametersAssumption DEF DataInv, Typed
  <1>s. {"DEADLINE_EXCEEDED", "INTERNAL"} \subseteq Statuses
    BY DEF Statuses
  <1>1. tx.state = "kWaiting" /\ UNCHANGED <<cfg, rx, output, toTx, transfers, losses, linkUp>>
    BY DEF TxTimeout
  <1>2. /\ Active(tx) /\ tx \in TxContext /\ readPos \in 0..cfg.size /\ tx.offset = readPos
        /\ tx.last_chunk_offset <= tx.offset /\ tx.last_chunk_offset \in Nat /\ cfg.size \in Nat
        /\ tx.window_end_offset \in Nat /\ tx.retries \in Nat /\ tx.offset \in Nat
    BY <1>0, <1>1 DEF TxGood, Active, Config, TxContext
  <1>3. PICK t : t = [tx EXCEPT !.retries = tx.retries + 1]
    OBVIOUS
  <1>4. /\ t \in TxContext /\ t.state = "kWaiting" /\ t.offset = tx.offset
        /\ t.last_chunk_offset = tx.last_chunk_offset /\ t.window_end_offset = tx.window_end_offset
        /\ t.data_sent = tx.data_sent
    BY <1>1, <1>2, <1>3 DEF TxContext
  <1>5. TxGood(t, readPos) /\ Active(t)
    BY <1>2, <1>4 DEF TxGood, Active
  <1> SUFFICES TxRetries
    BY <1>1, <1>2
  <1>6. \/ \E u \in {tx, t}, s \in {"DEADLINE_EXCEEDED", "INTERNAL"} : TxFinish(u, s, 1) /\ readPos' = readPos
        \/ /\ ~tx.data_sent /\ readPos' = readPos /\ tx' = t
           /\ toRx' = Append(toRx, InitialTransmitChunk) /\ result' = result
        \/ TransmitNextChunk([t EXCEPT !.offset = t.last_chunk_offset], t.last_chunk_offset, FALSE)
    BY <1>3 DEF TxTimeout
  <1>7. ASSUME NEW u \in {tx, t}, NEW s \in {"DEADLINE_EXCEEDED", "INTERNAL"}, TxFinish(u, s, 1),
               readPos' = readPos
        PROVE  TxRetries
    <2>1. u \in TxContext /\ readPos' \in 0..cfg.size /\ s \in Statuses
      BY <1>2, <1>4, <1>7, <1>s
    <2>2. TxEnds /\ tx'.status = s
      BY <1>0, <1>7, <2>1, TxFinishFacts
    <2> QED  BY <2>2 DEF TxRetries
  <1>8. CASE /\ ~tx.data_sent /\ readPos' = readPos /\ tx' = t
             /\ toRx' = Append(toRx, InitialTransmitChunk) /\ result' = result
    <2>1. PICK c : c = InitialTransmitChunk
      OBVIOUS
    <2>2. GoodToRx(c) /\ c.status = NoStatus /\ c.type = "kTransferStart" /\ c.data = NoBytes
      BY <1>0, <2>1, InitialChunkFacts
    <2>3. Allowed(t, c)
      BY <1>4, <1>8, <2>2 DEF Allowed
    <2>4. t.offset <= t.window_end_offset =>
             tx'.offset <= tx'.window_end_offset /\ tx'.window_end_offset <= t.window_end_offset
      BY <1>2, <1>4, <1>8
    <2>5. TxStays(t)
      BY <1>5, <1>8, <2>1, <2>3, <2>4 DEF TxStays
    <2>6. /\ t.window_end_offset = tx.window_end_offset /\ (tx.data_sent <=> t.data_sent)
          /\ tx.offset <= tx.window_end_offset => t.offset <= t.window_end_offset
      BY <1>4
    <2> QED  BY <2>5, <2>6 DEF TxRetries, InWindow
  <1>9. CASE TransmitNextChunk([t EXCEPT !.offset = t.last_chunk_offset], t.last_chunk_offset, FALSE)
    <2>1. PICK u : u = [t EXCEPT !.offset = t.last_chunk_offset]
      OBVIOUS
    <2>2. /\ u \in TxContext /\ u.state = "kWaiting" /\ u.offset = tx.last_chunk_offset
          /\ u.last_chunk_offset = tx.last_chunk_offset /\ u.window_end_offset = tx.window_end_offset
          /\ u.data_sent = tx.data_sent
      BY <1>2, <1>4, <2>1 DEF TxContext
    <2>3. TransmitNextChunk(u, tx.last_chunk_offset, FALSE)
      BY <1>4, <1>9, <2>1
    <2>4. /\ tx.last_chunk_offset \in 0..cfg.size /\ u.last_chunk_offset <= cfg.size
          /\ u.last_chunk_offset <= u.offset
      BY <1>2, <2>2
    <2>5. TxStays(u) \/ (TxEnds /\ tx'.status # "OK")
      BY <1>0, <2>2, <2>3, <2>4, TransmitFacts
    <2>6. /\ tx.data_sent <=> u.data_sent
          /\ tx.offset <= tx.window_end_offset => u.offset <= u.window_end_offset
      BY <1>2, <2>2
    <2> QED  BY <2>2, <2>5, <2>6 DEF TxRetries, InWindow
  <1> QED  BY <1>6, <1>7, <1>8, <1>9

\* Client::CancelTransfer ends the client's side with CANCELLED.
LEMMA CancelFacts ==
    ASSUME DataInv, ClientCancel
    PROVE  /\ UNCHANGED <<cfg, readPos, output, transfers, losses, linkUp>>
           /\ \/ ClientReceives /\ Active(rx) /\ RxEnds(rx) /\ rx'.status # "OK" /\ UNCHANGED <<tx, toRx>>
              \/ ClientTransmits /\ Active(tx) /\ TxEnds /\ tx'.status # "OK" /\ UNCHANGED <<rx, toTx>>
  <1>0. /\ cfg \in Config /\ toRx \in Seq(ChunkToRx) /\ toTx \in Seq(ChunkToTx)
        /\ rx \in RxContext /\ tx \in TxContext /\ readPos \in 0..cfg.size
        /\ "CANCELLED" \in Statuses
    BY DEF DataInv, Typed, RxGood, TxGood, Statuses
  <1>1. /\ UNCHANGED <<cfg, readPos, output, transfers, losses, linkUp>>
        /\ \/ ClientReceives /\ Active(rx) /\ RxFinish(rx, "CANCELLED", 1) /\ UNCHANGED <<tx, toRx>>
           \/ ClientTransmits /\ Active(tx) /\ TxFinish(tx, "CANCELLED", 1) /\ UNCHANGED <<rx, toTx>>
    BY DEF ClientCancel
  <1>2. CASE ClientReceives /\ Active(rx) /\ RxFinish(rx, "CANCELLED", 1) /\ UNCHANGED <<tx, toRx>>
    <2>1. RxEnds(rx) /\ rx'.status # "OK"
      BY <1>0, <1>2, RxFinishFacts
    <2> QED  BY <1>1, <1>2, <2>1
  <1>3. CASE ClientTransmits /\ Active(tx) /\ TxFinish(tx, "CANCELLED", 1) /\ UNCHANGED <<rx, toTx>>
    <2>1. TxEnds /\ tx'.status = "CANCELLED"
      BY <1>0, <1>1, <1>3, TxFinishFacts
    <2> QED  BY <1>1, <1>3, <2>1
  <1> QED  BY <1>1, <1>2, <1>3

-----------------------------------------------------------------------------
(* The bytes: DataInv is inductive.                                        *)

\* One transfer of the session id, or reads only: what a write sends again
\* belongs to the write that is going on.
OneResource == MaxTransfers <= 1 \/ Dirs \subseteq {"read"}

\* The bytes of the resource change only when a client starts to write.
LEMMA SameResource ==
    ASSUME cfg' = cfg, transfers' = transfers \/ ~ClientTransmits
    PROVE  Resource' = Resource
  BY DEF Resource, ClientTransmits

\* DataInv of the next state, from its parts; the resource may change when nothing of
\* the old one is left.
LEMMA DataPrime ==
    ASSUME cfg \in Config, cfg' = cfg, cfg.dir \in Dirs,
           \/ Resource' = Resource
           \/ output' = NoBytes /\ \A i \in 1..Len(toRx') : toRx'[i].data = NoBytes,
           transfers' \in 1..MaxTransfers, losses' \in Nat, linkUp' \in BOOLEAN, result' \in AnyStatus,
           RxGood(rx', output'), TxGood(tx', readPos'), ToRxGood(toRx'), ToTxGood(toTx')
    PROVE  DataInv'
  <1>0. transfers' \in 0..MaxTransfers /\ transfers' # 0
    BY ParametersAssumption
  <1>1. Typed' /\ Untouched'
    BY <1>0 DEF Typed, Untouched, ToRxGood, ToTxGood
  <1>2. ASSUME NEW s, NEW n, Piece(s, n), Resource' = Resource \/ s = NoBytes
        PROVE  n + Len(s) <= cfg'.size /\ \A i \in 1..Len(s) : s[i] = Resource'[n + i]
    <2>1. CASE Resource' = Resource
      BY <1>2, <2>1 DEF Piece
    <2>2. CASE s = NoBytes
      <3>1. Len(s) = 0
        BY <2>2 DEF NoBytes
      <3> QED  BY <1>2, <3>1 DEF Piece
    <2> QED  BY <1>2, <2>1, <2>2
  <1>3. RxGood(rx, output)'
    <2>1. Piece(output', 0) /\ (Resource' = Resource \/ output' = NoBytes)
      BY DEF RxGood
    <2>2. Piece(output, 0)'
      BY <1>2, <2>1 DEF Piece
    <2> QED  BY <2>2 DEF RxGood, Active
  <1>4. TxGood(tx, readPos)'
    BY DEF TxGood, Active
  <1>5. (\A i \in 1..Len(toRx) : GoodToRx(toRx[i]))'
    <2> SUFFICES ASSUME NEW i \in 1..Len(toRx') PROVE GoodToRx(toRx[i])'
      OBVIOUS
    <2>1. GoodToRx(toRx'[i])
      BY DEF ToRxGood
    <2>2. Resource' = Resource \/ toRx'[i].data = NoBytes
      OBVIOUS
    <2>3. Piece(toRx'[i].data, toRx'[i].offset)
      BY <2>1 DEF GoodToRx
    <2>4. Piece(toRx[i].data, toRx[i].offset)'
      BY <1>2, <2>2, <2>3 DEF Piece
    <2> QED  BY <2>1, <2>4 DEF GoodToRx
  <1>6. (\A i \in 1..Len(toTx) : GoodToTx(toTx[i]))'
    BY DEF ToTxGood, GoodToTx
  <1> QED  BY <1>1, <1>3, <1>4, <1>5, <1>6 DEF DataInv

\* Before the first transfer.
LEMMA DataInit ==
    ASSUME Init
    PROVE  DataInv
  <1>1. cfg \in Config /\ cfg.dir \in Dirs
    BY ParametersAssumption DEF Init, Config
  <1>2. Typed /\ Untouched
    BY <1>1, ParametersAssumption, StatusFacts DEF Init, Typed, Untouched, NewRx, NewTx
  <1>3. RxGood(rx, output)
    <2>1. /\ rx \in RxContext /\ rx.state = "kInactive"
      BY StatusFacts DEF Init, NewRx, RxContext
    <2>2. output \in Seq(Byte) /\ Len(output) = 0
      BY DEF Init, NoBytes
    <2> QED  BY <1>1, <2>1, <2>2 DEF RxGood, Piece, Active, Config
  <1>4. TxGood(tx, readPos)
    <2>1. /\ tx \in TxContext /\ tx.state = "kInactive" /\ readPos = 0
      BY StatusFacts DEF Init, NewTx, TxContext
    <2> QED  BY <1>1, <2>1 DEF TxGood, Active, Config
  <1>5. Len(toRx) = 0 /\ Len(toTx) = 0
    BY DEF Init
  <1> QED  BY <1>2, <1>3, <1>4, <1>5 DEF DataInv

\* The facts about the state before a step.
LEMMA DataFacts ==
    ASSUME DataInv
    PROVE  /\ cfg \in Config /\ cfg.dir \in Dirs /\ transfers \in 0..MaxTransfers /\ result \in AnyStatus
           /\ losses \in Nat /\ linkUp \in BOOLEAN /\ MaxTransfers \in Nat
           /\ RxGood(rx, output) /\ TxGood(tx, readPos) /\ ToRxGood(toRx) /\ ToTxGood(toTx)
           /\ toRx \in Seq(ChunkToRx) /\ toTx \in Seq(ChunkToTx)
           /\ toRx # << >> \/ toTx # << >> \/ Active(rx) \/ Active(tx) => transfers \in 1..MaxTransfers
  BY ParametersAssumption DEF DataInv, Typed, Untouched, ToRxGood, ToTxGood, Active

\* The window of a new receiver.
LEMMA NewWindow ==
    ASSUME cfg \in Config, NEW r, r = UpdatedWindow(NewRx, NoBytes)
    PROVE  RxGood(r, NoBytes) /\ Active(r) /\ r.window_end_offset = Limit(0)
  <1>1. RxGood(NewRx, NoBytes) /\ Active(NewRx)
    BY NewRxFacts
  <1>2. Len(NoBytes) = 0
    BY DEF NoBytes
  <1> QED  BY <1>1, <1>2, WindowIsGood

\* What ClientStart does to the receiver of a read ...
ReadStarts ==
  /\ ClientReceives /\ output' = NoBytes /\ UNCHANGED <<tx, readPos, toRx>>
  /\ \/ /\ Active(rx') /\ RxGood(rx', NoBytes) /\ rx'.window_end_offset = Limit(0)
        /\ result' \in Unfinished
        /\ \E x : toTx' = Append(toTx, x) /\ GoodToTx(x) /\ x.status = NoStatus
                  /\ x.window_end_offset = rx'.window_end_offset
     \/ /\ rx'.state = "kCompleted" /\ RxGood(rx', NoBytes) /\ rx'.status = "INTERNAL"
        /\ result' = "INTERNAL" /\ toTx' = toTx

\* ... and to the transmitter of a write.
WriteStarts ==
  /\ ClientTransmits /\ readPos' = 0 /\ UNCHANGED <<rx, output, toTx>>
  /\ TxGood(tx', 0)
  /\ \/ tx' = NewTx /\ result' \in Unfinished /\ toRx' = Append(toRx, InitialTransmitChunk)
     \/ /\ tx'.state = "kCompleted" /\ tx'.status = "INTERNAL" /\ result' = "INTERNAL"
        /\ toRx' = toRx

\* Client::Read and Client::Write.
LEMMA StartFacts ==
    ASSUME DataInv, ClientStart
    PROVE  /\ transfers < MaxTransfers /\ transfers' = transfers + 1 /\ UNCHANGED <<cfg, losses, linkUp>>
           /\ ReadStarts \/ WriteStarts
  <1>0. cfg \in Config /\ "INTERNAL" \in Statuses /\ "INTERNAL" # NoStatus
    BY DEF DataInv, Typed, Statuses, NoStatus
  <1>1. /\ transfers < MaxTransfers /\ transfers' = transfers + 1 /\ UNCHANGED <<cfg, losses, linkUp>>
    BY DEF ClientStart
  <1>2. PICK r : r = UpdatedWindow(NewRx, NoBytes)
    OBVIOUS
  <1>3. RxGood(r, NoBytes) /\ Active(r) /\ r.window_end_offset = Limit(0) /\ r \in RxContext
    BY <1>0, <1>2, NewWindow DEF RxGood
  <1>4. \/ /\ ClientReceives /\ output' = NoBytes /\ UNCHANGED <<tx, readPos, toRx>>
           /\ \/ /\ rx' = r
                 /\ toTx' = Append(toTx, ParametersChunk("kTransferStart", r))
                 /\ result' \in Unfinished
              \/ /\ rx' = Completed(r, "INTERNAL")
                 /\ result' = "INTERNAL"
                 /\ UNCHANGED toTx
        \/ /\ ClientTransmits /\ readPos' = 0 /\ UNCHANGED <<rx, output, toTx>>
           /\ \/ /\ tx' = NewTx
                 /\ toRx' = Append(toRx, InitialTransmitChunk)
                 /\ result' \in Unfinished
              \/ /\ tx' = Completed(NewTx, "INTERNAL")
                 /\ result' = "INTERNAL"
                 /\ UNCHANGED toRx
    BY <1>2 DEF ClientStart, Unfinished
  <1>5. /\ LET x == ParametersChunk("kTransferStart", r) IN
           GoodToTx(x) /\ x.status = NoStatus /\ x.window_end_offset = r.window_end_offset
    BY <1>0, <1>3, ParametersFacts
  <1>6. PICK q : q = Completed(r, "INTERNAL")
    OBVIOUS
  <1>7. q \in RxContext /\ q.state = "kCompleted" /\ q.status = "INTERNAL"
    BY <1>0, <1>3, <1>6, RxCompleted
  <1>8. RxGood(q, NoBytes)
    BY <1>0, <1>3, <1>7 DEF RxGood, Active
  <1>9. PICK t : t = Completed(NewTx, "INTERNAL")
    OBVIOUS
  <1>10. t \in TxContext /\ t.state = "kCompleted" /\ t.status = "INTERNAL"
    BY <1>0, <1>9, NewTxFacts, TxCompleted
  <1>11. TxGood(NewTx, 0) /\ 0 \in 0..cfg.size
    BY <1>0, NewTxFacts DEF TxGood
  <1>12. TxGood(t, 0)
    BY <1>0, <1>10, <1>11, CompletedIsGood
  <1>13. CASE /\ ClientReceives /\ output' = NoBytes /\ UNCHANGED <<tx, readPos, toRx>>
              /\ \/ /\ rx' = r
                    /\ toTx' = Append(toTx, ParametersChunk("kTransferStart", r))
                    /\ result' \in Unfinished
                 \/ /\ rx' = Completed(r, "INTERNAL")
                    /\ result' = "INTERNAL"
                    /\ UNCHANGED toTx
    <2>1. ReadStarts
      BY <1>3, <1>5, <1>6, <1>7, <1>8, <1>13 DEF ReadStarts
    <2> QED  BY <1>1, <2>1
  <1>14. CASE /\ ClientTransmits /\ readPos' = 0 /\ UNCHANGED <<rx, output, toTx>>
              /\ \/ /\ tx' = NewTx
                    /\ toRx' = Append(toRx, InitialTransmitChunk)
                    /\ result' \in Unfinished
                 \/ /\ tx' = Completed(NewTx, "INTERNAL")
                    /\ result' = "INTERNAL"
                    /\ UNCHANGED toRx
    <2>1. WriteStarts
      BY <1>9, <1>10, <1>11, <1>12, <1>14 DEF WriteStarts
    <2> QED  BY <1>1, <2>1
  <1> QED  BY <1>4, <1>13, <1>14

\* Starting a transfer keeps DataInv, when no data of another write is about.
LEMMA DataStart ==
    ASSUME OneResource, DataInv, ClientStart
    PROVE  DataInv'
  <1>0. /\ cfg \in Config /\ cfg.dir \in Dirs /\ transfers \in 0..MaxTransfers /\ MaxTransfers \in Nat
        /\ losses \in Nat /\ linkUp \in BOOLEAN /\ toRx \in Seq(ChunkToRx)
        /\ RxGood(rx, output) /\ TxGood(tx, readPos) /\ ToRxGood(toRx) /\ ToTxGood(toTx)
    BY DataFacts
  <1>1. /\ transfers < MaxTransfers /\ transfers' = transfers + 1 /\ UNCHANGED <<cfg, losses, linkUp>>
        /\ ReadStarts \/ WriteStarts
    BY StartFacts
  <1>2. transfers' \in 1..MaxTransfers /\ "INTERNAL" \in AnyStatus
    BY <1>0, <1>1 DEF AnyStatus, Statuses
  <1>3. CASE ReadStarts
    <2>1. Resource' = Resource
      BY <1>1, <1>3, SameResource DEF ReadStarts, ClientReceives, ClientTransmits
    <2>2. RxGood(rx', output') /\ result' \in AnyStatus
      BY <1>2, <1>3, StatusFacts DEF ReadStarts, Unfinished, AnyStatus, Statuses
    <2>3. ToTxGood(toTx')
      BY <1>0, <1>3, ToTxSent DEF ReadStarts
    <2>4. TxGood(tx', readPos') /\ ToRxGood(toRx')
      BY <1>0, <1>3 DEF ReadStarts
    <2> QED  BY <1>0, <1>1, <1>2, <2>1, <2>2, <2>3, <2>4, DataPrime
  <1>4. CASE WriteStarts
    <2>1. transfers = 0
      <3>1. ~(Dirs \subseteq {"read"})
        BY <1>0, <1>4 DEF WriteStarts, ClientTransmits
      <3>2. MaxTransfers <= 1
        BY <3>1 DEF OneResource
      <3> QED  BY <1>0, <1>1, <3>2
    <2>2. output = NoBytes /\ toRx = << >>
      BY <2>1 DEF DataInv, Untouched
    <2>3. PICK c : c = InitialTransmitChunk
      OBVIOUS
    <2>4. GoodToRx(c) /\ c.data = NoBytes /\ c \in ChunkToRx
      BY <1>0, <2>3, InitialChunkFacts DEF GoodToRx
    <2>5. output' = NoBytes /\ \A i \in 1..Len(toRx') : toRx'[i].data = NoBytes
      <3>1. output' = NoBytes /\ (toRx' = toRx \/ toRx' = Append(toRx, c))
        BY <1>4, <2>2, <2>3 DEF WriteStarts
      <3>2. Len(toRx) = 0
        BY <2>2
      <3>3. CASE toRx' = Append(toRx, c)
        <4>1. \A i \in 1..Len(toRx') : (i \in 1..Len(toRx) /\ toRx'[i] = toRx[i]) \/ toRx'[i] = c
          BY <1>0, <2>4, <3>3, SentFacts
        <4> QED  BY <2>4, <3>1, <3>2, <4>1
      <3>4. CASE toRx' = toRx
        BY <3>1, <3>2, <3>4
      <3> QED  BY <3>1, <3>3, <3>4
    <2>6. ToRxGood(toRx')
      BY <1>0, <1>4, <2>3, <2>4, ToRxSent DEF WriteStarts
    <2>7. RxGood(rx', output') /\ ToTxGood(toTx') /\ TxGood(tx', readPos') /\ result' \in AnyStatus
      BY <1>0, <1>2, <1>4, StatusFacts DEF WriteStarts, Unfinished, AnyStatus, Statuses
    <2> QED  BY <1>0, <1>1, <1>2, <2>5, <2>6, <2>7, DataPrime
  <1> QED  BY <1>1, <1>3, <1>4

\* The steps of the receiver keep it.
LEMMA RxDataStep ==
    ASSUME DataInv, RxReceive \/ RxTimeout
    PROVE  DataInv'
  <1>0. /\ cfg \in Config /\ cfg.dir \in Dirs /\ result \in AnyStatus
        /\ losses \in Nat /\ linkUp \in BOOLEAN
        /\ RxGood(rx, output) /\ TxGood(tx, readPos) /\ ToRxGood(toRx) /\ ToTxGood(toTx)
        /\ toRx # << >> \/ Active(rx) => transfers \in 1..MaxTransfers
    BY DataFacts
  <1>1. CASE RxReceive
    <2> DEFINE c == Head(toRx)
    <2>1. /\ toRx # << >> /\ toRx' = Tail(toRx) /\ GoodToRx(c)
          /\ UNCHANGED <<cfg, tx, readPos, transfers, losses, linkUp>>
          /\ RxHandles(c)
      BY <1>1, RxReceiveFacts
    <2> HIDE DEF c
    <2>2. ToRxGood(toRx')
      BY <1>0, <2>1, ToRxTaken
    <2>3. PICK h : h = Heard(rx)
      OBVIOUS
    <2>4. RxGood(h, output)
      BY <1>0, <2>3, HeardRx
    <2>5. RxSide
      <3>1. CASE RxRestarts(c)
        <4>1. PICK r \in Prepared(NewRx) : Received(r, NoBytes, c)
          BY <3>1 DEF RxRestarts
        <4>2. RxGood(r, NoBytes)
          BY <1>0, PreparedRx
        <4> QED  BY <1>0, <2>1, <4>1, <4>2, ReceivedSide
      <3>2. CASE RxTakes(c)
        <4>1. Received(h, output, c)
          BY <2>3, <3>2 DEF RxTakes
        <4> QED  BY <1>0, <2>1, <2>4, <4>1, ReceivedSide
      <3>3. CASE RxIsTold(c)
        <4>1. output' = output /\ RxEnds(rx)
          BY <3>3 DEF RxIsTold
        <4>2. output' \in Seq(Byte) /\ Piece(output', 0) /\ Len(output') <= cfg.cap
          BY <1>0, <4>1 DEF RxGood
        <4> QED  BY <1>0, <4>1, <4>2, RxEndsSide
      <3>4. CASE RxIgnores
        BY <1>0, <2>3, <2>4, <3>4 DEF RxIgnores, RxSide
      <3> QED  BY <2>1, <3>1, <3>2, <3>3, <3>4 DEF RxHandles
    <2>6. Resource' = Resource
      BY <2>1, SameResource
    <2> QED  BY <1>0, <2>1, <2>2, <2>5, <2>6, DataPrime DEF RxSide
  <1>2. CASE RxTimeout
    <2>1. /\ Active(rx) /\ output' = output
          /\ UNCHANGED <<cfg, tx, readPos, toRx, transfers, losses, linkUp>>
          /\ RxRetries
      BY <1>2, RxTimeoutFacts
    <2>2. output' \in Seq(Byte) /\ Piece(output', 0) /\ Len(output') <= cfg.cap
      BY <1>0, <2>1 DEF RxGood
    <2>3. RxSide
      BY <1>0, <2>1, <2>2, RxEndsSide, RxStaysSide DEF RxRetries
    <2>4. Resource' = Resource
      BY <2>1, SameResource
    <2> QED  BY <1>0, <2>1, <2>3, <2>4, DataPrime DEF RxSide
  <1> QED  BY <1>1, <1>2

\* The steps of the transmitter keep it.
LEMMA TxDataStep ==
    ASSUME DataInv, TxReceive \/ TxInterchunkTimeout \/ TxTimeout
    PROVE  DataInv'
  <1>0. /\ cfg \in Config /\ cfg.dir \in Dirs /\ result \in AnyStatus
        /\ losses \in Nat /\ linkUp \in BOOLEAN
        /\ RxGood(rx, output) /\ TxGood(tx, readPos) /\ ToRxGood(toRx) /\ ToTxGood(toTx)
        /\ toTx # << >> \/ Active(tx) => transfers \in 1..MaxTransfers
    BY DataFacts
  <1>1. CASE TxReceive
    <2> DEFINE c == Head(toTx)
    <2>1. /\ toTx # << >> /\ toTx' = Tail(toTx) /\ GoodToTx(c)
          /\ UNCHANGED <<cfg, rx, output, transfers, losses, linkUp>>
          /\ TxHandles(c)
      BY <1>1, TxReceiveFacts
    <2> HIDE DEF c
    <2>2. ToTxGood(toTx')
      BY <1>0, <2>1, ToTxTaken
    <2>3. PICK h : h = Heard(tx)
      OBVIOUS
    <2>4. TxGood(h, readPos)
      BY <1>0, <2>3, HeardTx
    <2>5. TxSide
      <3>1. CASE TxRestarts(c)
        <4>1. PICK t \in Prepared(NewTx) : Answered(t, c)
          BY <3>1 DEF TxRestarts
        <4>2. TxGood(t, 0)
          BY <1>0, PreparedTx
        <4> QED  BY <1>0, <4>1, <4>2, AnsweredSide
      <3>2. CASE TxTakes(c)
        <4>1. Answered(h, c)
          BY <2>3, <3>2 DEF TxTakes
        <4> QED  BY <1>0, <2>4, <4>1, AnsweredSide
      <3>3. CASE TxIsTold(c)
        BY <1>0, <3>3, TxEndsSide DEF TxIsTold
      <3>4. CASE TxIgnores
        BY <1>0, <2>3, <2>4, <3>4 DEF TxIgnores, TxSide
      <3> QED  BY <2>1, <3>1, <3>2, <3>3, <3>4 DEF TxHandles
    <2>6. Resource' = Resource
      BY <2>1, SameResource
    <2> QED  BY <1>0, <2>1, <2>2, <2>5, <2>6, DataPrime DEF TxSide
  <1>2. CASE TxInterchunkTimeout \/ TxTimeout
    <2>1. /\ Active(tx) /\ UNCHANGED <<cfg, rx, output, toTx, transfers, losses, linkUp>>
          /\ TxRetries
      BY <1>2, TxInterchunkFacts, TxTimeoutFacts
    <2>2. TxSide
      BY <1>0, <2>1, TxEndsSide, TxStaysSide DEF TxRetries, InWindow
    <2>3. Resource' = Resource
      BY <2>1, SameResource
    <2> QED  BY <1>0, <2>1, <2>2, <2>3, DataPrime DEF TxSide
  <1> QED  BY <1>1, <1>2

\* A cancelled transfer and a lost chunk keep it.
LEMMA OtherDataStep ==
    ASSUME DataInv, ClientCancel \/ Lose
    PROVE  DataInv'
  <1>0. /\ cfg \in Config /\ cfg.dir \in Dirs /\ result \in AnyStatus
        /\ losses \in Nat /\ linkUp \in BOOLEAN
        /\ RxGood(rx, output) /\ TxGood(tx, readPos) /\ ToRxGood(toRx) /\ ToTxGood(toTx)
        /\ toRx # << >> \/ toTx # << >> \/ Active(rx) \/ Active(tx) => transfers \in 1..MaxTransfers
    BY DataFacts
  <1>1. CASE ClientCancel
    <2>1. /\ UNCHANGED <<cfg, readPos, output, transfers, losses, linkUp>>
          /\ \/ Active(rx) /\ RxEnds(rx) /\ UNCHANGED <<tx, toRx>>
             \/ Active(tx) /\ TxEnds /\ UNCHANGED <<rx, toTx>>
      BY <1>1, CancelFacts
    <2>2. Resource' = Resource
      BY <2>1, SameResource
    <2>3. CASE Active(rx) /\ RxEnds(rx) /\ UNCHANGED <<tx, toRx>>
      <3>1. output' \in Seq(Byte) /\ Piece(output', 0) /\ Len(output') <= cfg.cap
        BY <1>0, <2>1 DEF RxGood
      <3>2. RxSide
        BY <1>0, <2>3, <3>1, RxEndsSide
      <3> QED  BY <1>0, <2>1, <2>2, <2>3, <3>2, DataPrime DEF RxSide
    <2>4. CASE Active(tx) /\ TxEnds /\ UNCHANGED <<rx, toTx>>
      <3>1. TxSide
        BY <1>0, <2>4, TxEndsSide
      <3> QED  BY <1>0, <2>1, <2>2, <2>4, <3>1, DataPrime DEF TxSide
    <2> QED  BY <2>1, <2>3, <2>4
  <1>2. CASE Lose
    <2>1. /\ UNCHANGED <<cfg, tx, rx, readPos, output, transfers, result, linkUp>>
          /\ losses' \in Nat
          /\ \/ toRx # << >> /\ toRx' = Tail(toRx) /\ toTx' = toTx
             \/ toTx # << >> /\ toTx' = Tail(toTx) /\ toRx' = toRx
      BY <1>0, <1>2 DEF Lose
    <2>2. ToRxGood(toRx') /\ ToTxGood(toTx')
      BY <1>0, <2>1, ToRxTaken, ToTxTaken
    <2>3. Resource' = Resource
      BY <2>1, SameResource
    <2> QED  BY <1>0, <2>1, <2>2, <2>3, DataPrime
  <1> QED  BY <1>1, <1>2

\* So do the loss of the link and a step of something else.
LEMMA IdleDataStep ==
    ASSUME DataInv, LinkDown \/ UNCHANGED vars
    PROVE  DataInv'
  <1>1. /\ UNCHANGED <<cfg, tx, rx, readPos, output, toRx, toTx, transfers, result, losses>>
        /\ linkUp' \in BOOLEAN
    BY DataFacts DEF LinkDown, vars
  <1>2. Resource' = Resource
    BY <1>1, SameResource
  <1>3. Typed' /\ Untouched'
    BY <1>1 DEF DataInv, Typed, Untouched
  <1>4. RxGood(rx, output)' /\ TxGood(tx, readPos)'
    BY <1>1, <1>2 DEF DataInv, RxGood, TxGood, Piece, Active
  <1>5. (\A i \in 1..Len(toRx) : GoodToRx(toRx[i]))' /\ (\A i \in 1..Len(toTx) : GoodToTx(toTx[i]))'
    BY <1>1, <1>2 DEF DataInv, GoodToRx, GoodToTx, Piece
  <1> QED  BY <1>3, <1>4, <1>5 DEF DataInv

\* DataInv is inductive.
LEMMA DataStep ==
    ASSUME OneResource, DataInv, [Next]_vars
    PROVE  DataInv'
  <1>1. CASE Next
    BY <1>1, DataStart, RxDataStep, TxDataStep, OtherDataStep, IdleDataStep DEF Next
  <1>2. CASE UNCHANGED vars
    BY <1>2, IdleDataStep
  <1> QED  BY <1>1, <1>2

\* It holds in every reachable state.
LEMMA DataAlways ==
    ASSUME OneResource
    PROVE  Spec => []DataInv
  <1>1. Init => DataInv
    BY DataInit
  <1>2. DataInv /\ [Next]_vars => DataInv'
    BY DataStep
  <1> QED  BY <1>1, <1>2, PTL DEF Spec

\* What the receiver's writer has is, at every moment and byte for byte, the start of
\* the resource: chunks that are lost, repeated or resent after a timeout never leave
\* a hole, a byte twice or a byte in the wrong place (Context::HandleReceivedData
\* and HandleTransferParametersUpdate). For every size, capacity, window, chunk size,
\* number of retries and losses and every fault; for one transfer of the session id,
\* or any number of reads.
THEOREM OutputStaysPrefix ==
    ASSUME OneResource
    PROVE  Spec => []OutputIsPrefix
  <1>1. DataInv => OutputIsPrefix
    <2> SUFFICES ASSUME DataInv PROVE OutputIsPrefix
      OBVIOUS
    <2>1. Piece(output, 0) /\ output \in Seq(Byte)
      BY DEF DataInv, RxGood
    <2> QED  BY <2>1 DEF Piece, OutputIsPrefix
  <1> QED  BY <1>1, DataAlways, PTL

-----------------------------------------------------------------------------
(* The order of a write, and what OK means.                                *)

\* Taking a chunk keeps the order.
LEMMA OrderedTake ==
    ASSUME NEW s \in Seq(ChunkToRx), s # << >>, NEW t, NEW b, OrderedIn(s, t, b),
           NEW q, q = Tail(s)
    PROVE  OrderedIn(q, t, b)
  <1>1. /\ q \in Seq(ChunkToRx)
        /\ \A i \in 1..Len(q) : i + 1 \in 1..Len(s) /\ q[i] = s[i + 1]
    BY TakenFacts
  <1>2. \A i, j \in 1..Len(q) : i < j /\ q[i].type = "kTransferData" => q[j].type # "kTransferStart"
    <2> SUFFICES ASSUME NEW i \in 1..Len(q), NEW j \in 1..Len(q), i < j, q[i].type = "kTransferData"
                 PROVE  q[j].type # "kTransferStart"
      OBVIOUS
    <2>1. i + 1 < j + 1 /\ i + 1 \in 1..Len(s) /\ j + 1 \in 1..Len(s)
      BY <1>1
    <2> QED  BY <1>1, <2>1 DEF OrderedIn
  <1>3. (\E i \in 1..Len(q) : q[i].type = "kTransferData") => ~Fresh(t)
    BY <1>1 DEF OrderedIn
  <1>4. b # NoBytes => ~Fresh(t) /\ \A i \in 1..Len(q) : q[i].type # "kTransferStart"
    BY <1>1 DEF OrderedIn
  <1> QED  BY <1>2, <1>3, <1>4 DEF OrderedIn

\* So does sending one: data ends the time of first chunks.
LEMMA OrderedSend ==
    ASSUME NEW s \in Seq(ChunkToRx), NEW t, NEW b, OrderedIn(s, t, b),
           NEW u, Fresh(u) => Fresh(t), NEW x \in ChunkToRx,
           x.type = "kTransferData" => ~Fresh(u), x.type = "kTransferStart" => Fresh(t),
           NEW q, q = Append(s, x)
    PROVE  OrderedIn(q, u, b)
  <1>1. /\ \A i \in 1..Len(q) : (i \in 1..Len(s) /\ q[i] = s[i]) \/ (i = Len(s) + 1 /\ q[i] = x)
        /\ Len(q) = Len(s) + 1 /\ Len(s) \in Nat
    BY SentFacts
  <1>2. \A i, j \in 1..Len(q) : i < j /\ q[i].type = "kTransferData" => q[j].type # "kTransferStart"
    <2> SUFFICES ASSUME NEW i \in 1..Len(q), NEW j \in 1..Len(q), i < j, q[i].type = "kTransferData"
                 PROVE  q[j].type # "kTransferStart"
      OBVIOUS
    <2>1. i \in 1..Len(s) /\ q[i] = s[i]
      BY <1>1
    <2>2. CASE j \in 1..Len(s) /\ q[j] = s[j]
      BY <2>1, <2>2 DEF OrderedIn
    <2>3. CASE q[j] = x
      <3>1. ~Fresh(t)
        BY <2>1 DEF OrderedIn
      <3> QED  BY <2>3, <3>1
    <2> QED  BY <1>1, <2>2, <2>3
  <1>3. ASSUME NEW i \in 1..Len(q), q[i].type = "kTransferData"
        PROVE  ~Fresh(u)
    <2>1. CASE i \in 1..Len(s) /\ q[i] = s[i]
      BY <1>3, <2>1 DEF OrderedIn
    <2>2. CASE q[i] = x
      BY <1>3, <2>2
    <2> QED  BY <1>1, <2>1, <2>2
  <1>4. ASSUME b # NoBytes PROVE ~Fresh(u) /\ \A i \in 1..Len(q) : q[i].type # "kTransferStart"
    <2>1. ~Fresh(t) /\ ~Fresh(u)
      BY <1>4 DEF OrderedIn
    <2>2. \A i \in 1..Len(s) : s[i].type # "kTransferStart"
      BY <1>4 DEF OrderedIn
    <2> QED  BY <1>1, <2>1, <2>2
  <1> QED  BY <1>2, <1>3, <1>4 DEF OrderedIn

\* So does a transmitter that sends nothing.
LEMMA OrderedStill ==
    ASSUME NEW s, NEW t, NEW b, OrderedIn(s, t, b), NEW u, Fresh(u) => Fresh(t)
    PROVE  OrderedIn(s, u, b)
  BY DEF OrderedIn

\* A first chunk on its way means that nothing is written yet.
LEMMA RestartIsEmpty ==
    ASSUME DataInv, Ordered, toRx # << >>, NEW c, c = Head(toRx), GoodToRx(c),
           ClientTransmits, IsInitialToRx(c)
    PROVE  c.data = NoBytes /\ Len(output) = 0
  <1>0. cfg \in Config /\ toRx \in Seq(ChunkToRx) /\ RxGood(rx, output) /\ cfg.size \in Nat
    BY DataFacts DEF Config
  <1>1. c = toRx[1] /\ 1 \in 1..Len(toRx)
    BY <1>0, TakenFacts
  <1>2. c.data = NoBytes
    BY DEF IsInitialToRx, GoodToRx
  <1>3. CASE c.type = "kTransferStart"
    <2>1. OrderedIn(toRx, tx, output)
      BY DEF Ordered, ClientTransmits
    <2>2. output = NoBytes
      BY <1>1, <1>3, <2>1 DEF OrderedIn
    <2> QED  BY <1>2, <2>2 DEF NoBytes
  <1>4. CASE c.type # "kTransferStart"
    <2>1. c.offset = 0 /\ c.status = NoStatus
      BY <1>4 DEF IsInitialToRx
    <2>2. c.type = "kTransferData" /\ c.final
      BY <1>2, <1>4, <2>1 DEF GoodToRx, ChunkToRx
    <2>3. cfg.size = 0
      BY <2>1, <2>2 DEF GoodToRx
    <2>4. Len(output) <= 0 /\ Len(output) \in Nat
      BY <1>0, <2>3 DEF RxGood, Piece
    <2> QED  BY <1>2, <2>4
  <1> QED  BY <1>3, <1>4

\* What is written stays written.
LEMMA OutputGrows ==
    ASSUME DataInv, Ordered, RxReceive
    PROVE  /\ output' \in Seq(Byte) /\ Len(output) \in Nat /\ Len(output') \in Nat
           /\ Len(output') >= Len(output) /\ Len(output') <= cfg.size /\ Len(output') <= cfg.cap
           /\ output' = NoBytes \/ output' = output \/ Head(toRx).type = "kTransferData"
  <1> DEFINE c == Head(toRx)
  <1>1. toRx # << >> /\ GoodToRx(c) /\ RxHandles(c) /\ cfg' = cfg
    BY RxReceiveFacts
  <1>2. /\ cfg \in Config /\ RxGood(rx, output) /\ output \in Seq(Byte) /\ Len(output) <= cfg.size
        /\ Len(output) <= cfg.cap
    BY DataFacts DEF RxGood, Piece, Config
  <1>p. PICK d : d = c
    OBVIOUS
  <1> HIDE DEF c
  <1>3. d.data \in Seq(Byte) /\ Piece(d.data, d.offset) /\ (d.type # "kTransferData" => d.data = NoBytes)
    BY <1>1, <1>p DEF GoodToRx, ChunkToRx
  <1>s. cfg.size \in Nat /\ cfg.cap \in Nat /\ Len(output) \in Nat
    BY <1>2 DEF Config
  <1>4. CASE RxRestarts(c)
    <2>1. d.data = NoBytes /\ Len(output) = 0
      BY <1>1, <1>p, <1>4, RestartIsEmpty DEF RxRestarts, c
    <2>2. output' = NoBytes \/ output' = NoBytes \o d.data
      BY <1>p, <1>4 DEF RxRestarts, Received, RxWrites
    <2>3. output' = NoBytes
      BY <2>1, <2>2 DEF NoBytes
    <2>4. output' \in Seq(Byte) /\ Len(output') = 0
      BY <2>3 DEF NoBytes
    <2> QED  BY <1>s, <2>1, <2>3, <2>4
  <1>5. CASE RxTakes(c)
    <2>1. \/ output' = output
          \/ /\ output' = output \o d.data /\ d.offset = Len(output)
             /\ Len(output) + Len(d.data) <= cfg.cap
      BY <1>p, <1>5 DEF RxTakes, Received, RxWrites
    <2>2. CASE output' = output
      BY <1>2, <1>s, <2>2
    <2>3. CASE output' = output \o d.data /\ d.offset = Len(output) /\ Len(output) + Len(d.data) <= cfg.cap
      <3>1. output' \in Seq(Byte) /\ Len(output') = Len(output) + Len(d.data)
        BY <1>2, <1>3, <2>3, ConcatProperties, Zenon
      <3>2. Len(output) + Len(d.data) <= cfg.size /\ Len(d.data) \in Nat
        BY <1>3, <2>3 DEF Piece
      <3>3. d.type = "kTransferData" \/ output' = output
        BY <1>2, <1>3, <2>3, ConcatEmptySeq DEF NoBytes
      <3>4. Len(output') \in Nat /\ Len(output') >= Len(output)
        BY <1>s, <3>1, <3>2
      <3>5. Len(output') <= cfg.size /\ Len(output') <= cfg.cap
        BY <2>3, <3>1, <3>2
      <3> QED  BY <1>p, <1>s, <3>1, <3>3, <3>4, <3>5 DEF c
    <2> QED  BY <2>1, <2>2, <2>3
  <1>6. CASE RxIsTold(c) \/ RxIgnores
    <2>1. output' = output
      BY <1>6 DEF RxIsTold, RxIgnores
    <2> QED  BY <1>2, <1>s, <2>1
  <1> QED  BY <1>1, <1>4, <1>5, <1>6 DEF RxHandles

\* The order is inductive.
LEMMA OrderedStep ==
    ASSUME MaxTransfers <= 1, DataInv, Ordered, [Next]_vars
    PROVE  Ordered'
  <1>0. /\ toRx \in Seq(ChunkToRx) /\ cfg \in Config /\ transfers \in 0..MaxTransfers
        /\ MaxTransfers \in Nat /\ ToRxGood(toRx) /\ TxGood(tx, readPos)
    BY DataFacts
  <1>c. cfg' = cfg
    BY DEF Next, vars, ClientStart, ClientCancel, RxReceive, TxReceive, RxTimeout,
           TxInterchunkTimeout, TxTimeout, Lose, LinkDown
  <1> SUFFICES ASSUME cfg.dir = "write" PROVE OrderedIn(toRx', tx', output')
    BY <1>c DEF Ordered
  <1>d. ClientTransmits /\ ~ClientReceives /\ OrderedIn(toRx, tx, output)
    BY DEF ClientTransmits, ClientReceives, Ordered
  \* The transmitter ends, or goes on in a window.
  <1>e. ASSUME TxEnds, output' = output PROVE OrderedIn(toRx', tx', output')
    <2>1. ~Fresh(tx') /\ tx'.status \in Statuses
      BY <1>e DEF TxEnds, Fresh, Active
    <2>2. PICK x : x = FinalStatusToRx(tx'.status)
      OBVIOUS
    <2>3. x \in ChunkToRx /\ x.type = "kTransferCompletion"
      BY <1>0, <2>1, <2>2, FinalToRx
    <2>4. CASE toRx' = toRx
      BY <1>d, <1>e, <2>1, <2>4, OrderedStill
    <2>5. CASE toRx' = Append(toRx, x)
      BY <1>0, <1>d, <1>e, <2>1, <2>3, <2>5, OrderedSend
    <2> QED  BY <1>e, <2>2, <2>4, <2>5 DEF TxEnds
  <1>w. ASSUME NEW t, Active(t), Active(tx), (t.data_sent <=> tx.data_sent), NEW c, InWindow(t, c),
               output' = output
        PROVE  OrderedIn(toRx', tx', output')
    <2>1. PICK u : TxStays(u) /\ (t.data_sent <=> u.data_sent)
      BY <1>w DEF InWindow
    <2>2. Fresh(tx') => Fresh(tx)
      BY <1>w, <2>1 DEF TxStays, Fresh
    <2>3. CASE toRx' = toRx
      BY <1>d, <1>w, <2>2, <2>3, OrderedStill
    <2>4. ASSUME NEW x, toRx' = Append(toRx, x), Allowed(u, x) PROVE OrderedIn(toRx', tx', output')
      <3>1. /\ x \in ChunkToRx /\ (x.type = "kTransferData" => ~Fresh(tx'))
            /\ x.type = "kTransferStart" => Fresh(tx)
        BY <1>w, <2>1, <2>4 DEF Allowed, GoodToRx, Fresh
      <3> QED  BY <1>0, <1>d, <1>w, <2>2, <2>4, <3>1, OrderedSend
    <2> QED  BY <2>1, <2>3, <2>4 DEF TxStays
  <1>1. CASE ClientStart
    <2>1. transfers < MaxTransfers /\ (ReadStarts \/ WriteStarts)
      BY <1>1, StartFacts
    <2>2. transfers = 0
      BY <1>0, <2>1
    <2>3. output = NoBytes /\ toRx = << >> /\ Len(toRx) = 0
      BY <2>2 DEF DataInv, Untouched
    <2>4. WriteStarts
      BY <1>d, <2>1 DEF ReadStarts
    <2>5. PICK x : x = InitialTransmitChunk
      OBVIOUS
    <2>6. x \in ChunkToRx /\ x.type = "kTransferStart"
      BY <1>0, <2>5, InitialChunkFacts DEF GoodToRx
    <2>7. output' = NoBytes /\ (toRx' = toRx \/ toRx' = Append(toRx, x))
      BY <2>3, <2>4, <2>5 DEF WriteStarts
    <2>8. CASE toRx' = toRx
      BY <2>3, <2>7, <2>8 DEF OrderedIn
    <2>9. CASE toRx' = Append(toRx, x)
      <3>1. Len(toRx') = 1 /\ \A i \in 1..Len(toRx') : toRx'[i] = x
        BY <1>0, <2>3, <2>6, <2>9, SentFacts
      <3> QED  BY <2>6, <2>7, <3>1 DEF OrderedIn
    <2> QED  BY <2>7, <2>8, <2>9
  <1>2. CASE ClientCancel
    <2>1. TxEnds /\ output' = output
      BY <1>2, <1>d, CancelFacts
    <2> QED  BY <1>e, <2>1
  <1>3. CASE RxReceive
    <2>1. toRx # << >> /\ toRx' = Tail(toRx) /\ tx' = tx
      BY <1>3, RxReceiveFacts
    <2>2. OrderedIn(toRx', tx, output)
      BY <1>0, <1>d, <2>1, OrderedTake
    <2>3. output' = NoBytes \/ output' = output \/ Head(toRx).type = "kTransferData"
      BY <1>3, OutputGrows
    <2>4. CASE output' = NoBytes \/ output' = output
      BY <2>1, <2>2, <2>4 DEF OrderedIn
    <2>5. CASE Head(toRx).type = "kTransferData"
      <3>1. /\ toRx[1].type = "kTransferData" /\ 1 \in 1..Len(toRx)
            /\ \A i \in 1..Len(toRx') : i + 1 \in 1..Len(toRx) /\ toRx'[i] = toRx[i + 1]
        BY <1>0, <2>1, <2>5, TakenFacts
      <3>2. ~Fresh(tx)
        BY <1>d, <3>1 DEF OrderedIn
      <3>3. ASSUME NEW i \in 1..Len(toRx') PROVE toRx'[i].type # "kTransferStart"
        <4>1. 1 < i + 1
          OBVIOUS
        <4> QED  BY <1>d, <3>1, <4>1 DEF OrderedIn
      <3> QED  BY <2>1, <2>2, <3>2, <3>3 DEF OrderedIn
    <2> QED  BY <2>3, <2>4, <2>5
  <1>4. CASE TxReceive
    <2> DEFINE c == Head(toTx)
    <2>1. TxHandles(c) /\ output' = output
      BY <1>4, TxReceiveFacts
    <2> HIDE DEF c
    <2>2. PICK h : h = Heard(tx)
      OBVIOUS
    <2>3. /\ (Active(h) <=> Active(tx)) /\ (h.data_sent <=> tx.data_sent) /\ TxGood(h, readPos)
      BY <1>0, <2>2, HeardTx
    <2>4. CASE TxTakes(c)
      <3>1. Answered(h, c)
        BY <2>2, <2>4 DEF TxTakes
      <3>2. CASE Active(h) /\ InWindow(h, c)
        BY <1>w, <2>1, <2>3, <3>2
      <3>3. CASE TxEnds
        BY <1>e, <2>1, <3>3
      <3>4. CASE TxRepeats(h)
        <4>1. ~Fresh(tx') /\ tx'.status \in Statuses
          BY <2>3, <3>4 DEF TxRepeats, Fresh, Active, TxGood, TxContext, AnyStatus, Statuses
        <4>2. PICK x : x = FinalStatusToRx(tx'.status)
          OBVIOUS
        <4>3. x \in ChunkToRx /\ x.type = "kTransferCompletion" /\ toRx' = Append(toRx, x)
          BY <1>0, <3>4, <4>1, <4>2, FinalToRx DEF TxRepeats
        <4> QED  BY <1>0, <1>d, <2>1, <4>1, <4>3, OrderedSend
      <3> QED  BY <3>1, <3>2, <3>3, <3>4 DEF Answered
    <2>5. CASE TxIsTold(c)
      BY <1>e, <2>1, <2>5 DEF TxIsTold
    <2>6. CASE TxIgnores
      <3>1. ~Fresh(tx')
        BY <2>2, <2>3, <2>6 DEF TxIgnores, Fresh
      <3> QED  BY <1>d, <2>1, <2>6, <3>1, OrderedStill DEF TxIgnores
    <2> QED  BY <1>d, <2>1, <2>4, <2>5, <2>6 DEF TxHandles, TxRestarts
  <1>5. CASE RxTimeout
    BY <1>5, <1>d, RxTimeoutFacts
  <1>6. CASE TxInterchunkTimeout \/ TxTimeout
    <2>1. Active(tx) /\ output' = output /\ TxRetries
      BY <1>6, TxInterchunkFacts, TxTimeoutFacts
    <2> QED  BY <1>e, <1>w, <2>1 DEF TxRetries
  <1>7. CASE Lose
    <2>1. tx' = tx /\ output' = output /\ (toRx' = toRx \/ (toRx # << >> /\ toRx' = Tail(toRx)))
      BY <1>7 DEF Lose
    <2> QED  BY <1>0, <1>d, <2>1, OrderedTake
  <1>8. CASE LinkDown \/ UNCHANGED vars
    BY <1>8, <1>d DEF LinkDown, vars
  <1> QED  BY <1>1, <1>2, <1>3, <1>4, <1>5, <1>6, <1>7, <1>8 DEF Next

\* An OK is on its way in a queue.
HasOk(q) == \E i \in 1..Len(q) : q[i].status = "OK"

\* A chunk that is sent brings an OK only of its own.
LEMMA OkSent ==
    ASSUME NEW S, NEW s \in Seq(S), NEW x \in S, NEW q, q = s \/ q = Append(s, x), HasOk(q)
    PROVE  HasOk(s) \/ x.status = "OK"
  <1>1. CASE q = s
    BY <1>1
  <1>2. CASE q = Append(s, x)
    <2>1. \A i \in 1..Len(q) : (i \in 1..Len(s) /\ q[i] = s[i]) \/ q[i] = x
      BY <1>2, SentFacts
    <2> QED  BY <2>1 DEF HasOk
  <1> QED  BY <1>1, <1>2

\* Taking a chunk brings none.
LEMMA OkTaken ==
    ASSUME NEW S, NEW s \in Seq(S), s # << >>
    PROVE  (HasOk(Tail(s)) => HasOk(s)) /\ (Head(s).status = "OK" => HasOk(s))
  <1>1. PICK q : q = Tail(s)
    OBVIOUS
  <1>2. /\ Head(s) = s[1] /\ 1 \in 1..Len(s)
        /\ \A i \in 1..Len(q) : i + 1 \in 1..Len(s) /\ q[i] = s[i + 1]
    BY <1>1, TakenFacts
  <1>3. HasOk(q) => HasOk(s)
    BY <1>2 DEF HasOk
  <1>4. Head(s).status = "OK" => HasOk(s)
    BY <1>2 DEF HasOk
  <1> QED  BY <1>1, <1>3, <1>4

\* A context ended with OK.
RxOk(r) == r.state = "kCompleted" /\ r.status = "OK"

\* An OK is somewhere now.
SomeOk == SaysOk(rx, tx, toRx, toTx)

\* The four places of an OK.
LEMMA SomeOkIs ==
    /\ SomeOk <=> (RxOk(rx) \/ RxOk(tx) \/ HasOk(toRx) \/ HasOk(toTx))
    /\ SomeOk' <=> (RxOk(rx') \/ RxOk(tx') \/ HasOk(toRx') \/ HasOk(toTx'))
  BY DEF SomeOk, SaysOk, RxOk, HasOk

\* An OK of the receiver's side is an old one, or its own.
LEMMA OkOfRxEnds ==
    ASSUME cfg \in Config, toTx \in Seq(ChunkToTx), NEW q, RxEnds(q), RxOk(rx') \/ HasOk(toTx')
    PROVE  HasOk(toTx) \/ rx'.status = "OK"
  <1>1. rx'.status \in Statuses
    BY DEF RxEnds
  <1>2. PICK x : x = FinalStatusToTx(rx'.status)
    OBVIOUS
  <1>3. x \in ChunkToTx /\ x.status = rx'.status
    BY <1>1, <1>2, FinalToTx
  <1>4. toTx' = toTx \/ toTx' = Append(toTx, x)
    BY <1>2 DEF RxEnds
  <1> QED  BY <1>3, <1>4, OkSent DEF RxOk

\* A receiver that goes on says no OK.
LEMMA OkOfRxStays ==
    ASSUME toTx \in Seq(ChunkToTx), NEW q, NEW w, RxStays(q, w), RxOk(rx') \/ HasOk(toTx')
    PROVE  HasOk(toTx)
  <1>1. ~RxOk(rx')
    BY DEF RxStays, Active, RxOk
  <1>2. CASE toTx' = toTx
    BY <1>1, <1>2
  <1>3. ASSUME NEW x, toTx' = Append(toTx, x), GoodToTx(x), x.status = NoStatus
        PROVE  HasOk(toTx)
    <2>1. x \in ChunkToTx /\ x.status # "OK"
      BY <1>3 DEF GoodToTx, NoStatus
    <2> QED  BY <1>1, <1>3, <2>1, OkSent
  <1> QED  BY <1>2, <1>3 DEF RxStays

\* The receiver says OK to the chunk that ends the resource, or says it again.
LEMMA OkOfReceived ==
    ASSUME cfg \in Config, toTx \in Seq(ChunkToTx), NEW r, NEW bytes, RxGood(r, bytes),
           NEW c, Received(r, bytes, c), RxOk(rx') \/ HasOk(toTx')
    PROVE  HasOk(toTx) \/ WritesAll(bytes, c) \/ RxOk(r)
  <1>1. CASE RxStays(r, Limit(Len(output')))
    BY <1>1, OkOfRxStays
  <1>2. CASE RxEnds(r) /\ (rx'.status = "OK" => WritesAll(bytes, c))
    BY <1>2, OkOfRxEnds
  <1>3. CASE RxRepeats(r)
    <2>1. r.status \in Statuses /\ r.state = "kCompleted" /\ rx' = r
      BY <1>3 DEF RxRepeats, RxGood, RxContext, AnyStatus
    <2>2. PICK x : x = FinalStatusToTx(r.status)
      OBVIOUS
    <2>3. x \in ChunkToTx /\ x.status = r.status /\ toTx' = Append(toTx, x)
      BY <1>3, <2>1, <2>2, FinalToTx DEF RxRepeats
    <2> QED  BY <2>1, <2>3, OkSent DEF RxOk
  <1> QED  BY <1>1, <1>2, <1>3 DEF Received

\* An OK of the transmitter's side likewise.
LEMMA OkOfTxEnds ==
    ASSUME cfg \in Config, toRx \in Seq(ChunkToRx), TxEnds, RxOk(tx') \/ HasOk(toRx')
    PROVE  HasOk(toRx) \/ tx'.status = "OK"
  <1>1. tx'.status \in Statuses
    BY DEF TxEnds
  <1>2. PICK x : x = FinalStatusToRx(tx'.status)
    OBVIOUS
  <1>3. x \in ChunkToRx /\ x.status = tx'.status
    BY <1>1, <1>2, FinalToRx
  <1>4. toRx' = toRx \/ toRx' = Append(toRx, x)
    BY <1>2 DEF TxEnds
  <1> QED  BY <1>3, <1>4, OkSent DEF RxOk

\* A transmitter that goes on says no OK.
LEMMA OkOfTxStays ==
    ASSUME toRx \in Seq(ChunkToRx), NEW t, TxStays(t), RxOk(tx') \/ HasOk(toRx')
    PROVE  HasOk(toRx)
  <1>1. ~RxOk(tx')
    BY DEF TxStays, Active, RxOk
  <1>2. CASE toRx' = toRx
    BY <1>1, <1>2
  <1>3. ASSUME NEW x, toRx' = Append(toRx, x), Allowed(t, x)
        PROVE  HasOk(toRx)
    <2>1. x \in ChunkToRx /\ x.status # "OK"
      BY <1>3 DEF Allowed, GoodToRx, NoStatus
    <2> QED  BY <1>1, <1>3, <2>1, OkSent
  <1> QED  BY <1>2, <1>3 DEF TxStays

\* To parameters it says OK only again.
LEMMA OkOfAnswered ==
    ASSUME cfg \in Config, toRx \in Seq(ChunkToRx), NEW t, NEW pos, TxGood(t, pos),
           NEW c, Answered(t, c), RxOk(tx') \/ HasOk(toRx')
    PROVE  HasOk(toRx) \/ RxOk(t)
  <1>1. CASE InWindow(t, c)
    BY <1>1, OkOfTxStays DEF InWindow
  <1>2. CASE TxEnds /\ tx'.status # "OK"
    BY <1>2, OkOfTxEnds
  <1>3. CASE TxRepeats(t)
    <2>1. /\ tx'.status \in Statuses /\ t.state = "kCompleted"
          /\ tx'.status = "OK" => t.status = "OK"
      BY <1>3 DEF TxRepeats, TxGood, TxContext, AnyStatus, Statuses
    <2>2. PICK x : x = FinalStatusToRx(tx'.status)
      OBVIOUS
    <2>3. x \in ChunkToRx /\ x.status = tx'.status /\ toRx' = Append(toRx, x)
      BY <1>3, <2>1, <2>2, FinalToRx DEF TxRepeats
    <2> QED  BY <2>1, <2>3, OkSent DEF RxOk
  <1> QED  BY <1>1, <1>2, <1>3 DEF Answered

\* A chunk at the receiver: an OK needs the final chunk, which comes at the end of the
\* resource and is only taken when all before it is written.
LEMMA OkRxReceive ==
    ASSUME DataInv, Ordered, OkInv, RxReceive
    PROVE  OkInv'
  <1> DEFINE c == Head(toRx)
  <1>0. /\ cfg \in Config /\ toTx \in Seq(ChunkToTx) /\ toRx \in Seq(ChunkToRx) /\ RxGood(rx, output)
    BY DataFacts
  <1>1. /\ toRx # << >> /\ toRx' = Tail(toRx) /\ GoodToRx(c) /\ tx' = tx /\ cfg' = cfg
        /\ RxHandles(c)
    BY RxReceiveFacts
  <1>2. /\ Len(output) \in Nat /\ Len(output') \in Nat /\ Len(output') >= Len(output)
        /\ Len(output') <= cfg.size /\ cfg.size \in Nat
    BY <1>0, OutputGrows DEF Config
  <1>3. SomeOk => Len(output') = cfg.size
    BY <1>2 DEF OkInv, SomeOk
  <1>o. (HasOk(toRx') => HasOk(toRx)) /\ (c.status = "OK" => HasOk(toRx))
    BY <1>0, <1>1, OkTaken
  <1> HIDE DEF c
  <1> SUFFICES ASSUME SomeOk' PROVE Len(output') = cfg.size
    BY <1>1 DEF OkInv, SomeOk
  <1>4. SomeOk \/ RxOk(rx') \/ HasOk(toTx')
    BY <1>1, <1>o, SomeOkIs
  <1>5. CASE ~SomeOk
    <2>1. ~HasOk(toTx) /\ ~HasOk(toRx) /\ ~RxOk(rx)
      BY <1>5, SomeOkIs
    <2>2. PICK h : h = Heard(rx)
      OBVIOUS
    <2>3. RxGood(h, output) /\ ~RxOk(h)
      BY <1>0, <2>1, <2>2, HeardRx DEF RxOk
    <2>w. ASSUME NEW b, WritesAll(b, c), b \in Seq(Byte) PROVE Len(output') = cfg.size
      <3>1. c.final /\ output' = b \o c.data /\ c.offset = Len(b) /\ c.offset = cfg.size
            /\ c.data \in Seq(Byte)
        BY <1>1, <2>w DEF WritesAll, GoodToRx, ChunkToRx
      <3>2. Len(output') = Len(b) + Len(c.data)
        <4>1. PICK d \in Seq(Byte) : d = c.data
          BY <3>1
        <4>2. Len(b \o d) = Len(b) + Len(d)
          BY <2>w, ConcatProperties, Zenon
        <4> QED  BY <3>1, <4>1, <4>2
      <3>3. Len(output') >= cfg.size
        BY <1>2, <3>1, <3>2
      <3> QED  BY <1>2, <3>3
    <2>4. CASE RxRestarts(c)
      <3>1. PICK r \in Prepared(NewRx) : Received(r, NoBytes, c)
        BY <2>4 DEF RxRestarts
      <3>2. RxGood(r, NoBytes) /\ ~RxOk(r) /\ NoBytes \in Seq(Byte)
        BY <1>0, PreparedRx, NewRxFacts DEF RxOk, RxGood
      <3>3. WritesAll(NoBytes, c)
        BY <1>0, <1>4, <1>5, <2>1, <3>1, <3>2, OkOfReceived
      <3> QED  BY <2>w, <3>2, <3>3
    <2>5. CASE RxTakes(c)
      <3>1. Received(h, output, c)
        BY <2>2, <2>5 DEF RxTakes
      <3>2. WritesAll(output, c)
        BY <1>0, <1>4, <1>5, <2>1, <2>3, <3>1, OkOfReceived
      <3>3. output \in Seq(Byte)
        BY <1>0 DEF RxGood
      <3> QED  BY <2>w, <3>2, <3>3
    <2>6. CASE RxIsTold(c)
      <3>1. RxEnds(rx) /\ rx'.status # "OK"
        BY <1>o, <2>1, <2>6 DEF RxIsTold
      <3> QED  BY <1>0, <1>4, <1>5, <2>1, <3>1, OkOfRxEnds
    <2>7. CASE RxIgnores
      <3>1. ~RxOk(rx') /\ ~HasOk(toTx')
        BY <2>1, <2>2, <2>3, <2>7 DEF RxIgnores
      <3> QED  BY <1>4, <1>5, <3>1
    <2> QED  BY <1>1, <2>4, <2>5, <2>6, <2>7 DEF RxHandles
  <1> QED  BY <1>3, <1>5

\* OkInv is inductive.
LEMMA OkStep ==
    ASSUME MaxTransfers <= 1, DataInv, Ordered, OkInv, [Next]_vars
    PROVE  OkInv'
  <1>0. /\ toRx \in Seq(ChunkToRx) /\ toTx \in Seq(ChunkToTx) /\ cfg \in Config
        /\ transfers \in 0..MaxTransfers /\ MaxTransfers \in Nat /\ TxGood(tx, readPos)
    BY DataFacts
  <1>c. cfg' = cfg
    BY DEF Next, vars, ClientStart, ClientCancel, RxReceive, TxReceive, RxTimeout,
           TxInterchunkTimeout, TxTimeout, Lose, LinkDown
  <1>k. ASSUME output' = output, SomeOk' => SomeOk PROVE OkInv'
    BY <1>c, <1>k DEF OkInv, SomeOk
  <1>r. ASSUME output' = output, tx' = tx, toRx' = toRx, RxRetries PROVE OkInv'
    <2>1. SomeOk' => SomeOk
      BY <1>0, <1>r, SomeOkIs, OkOfRxEnds, OkOfRxStays DEF RxRetries
    <2> QED  BY <1>k, <1>r, <2>1
  <1>t. ASSUME output' = output, rx' = rx, toTx' = toTx, TxRetries PROVE OkInv'
    <2>1. SomeOk' => SomeOk
      BY <1>0, <1>t, SomeOkIs, OkOfTxEnds, OkOfTxStays DEF TxRetries, InWindow
    <2> QED  BY <1>k, <1>t, <2>1
  <1>1. CASE ClientStart
    <2>1. transfers < MaxTransfers /\ (ReadStarts \/ WriteStarts)
      BY <1>1, StartFacts
    <2>2. transfers = 0
      BY <1>0, <2>1
    <2>3. /\ rx.state = "kInactive" /\ tx.state = "kInactive" /\ toRx = << >> /\ toTx = << >>
          /\ ~HasOk(toRx) /\ ~HasOk(toTx)
      BY <2>2 DEF DataInv, Untouched, HasOk
    <2>4. ~RxOk(rx) /\ ~RxOk(tx)
      BY <2>3 DEF RxOk
    <2>5. CASE ReadStarts
      <3>1. ~RxOk(rx') /\ tx' = tx /\ toRx' = toRx
        BY <2>5 DEF ReadStarts, RxOk, Active
      <3>2. ~HasOk(toTx')
        <4>1. CASE toTx' = toTx
          BY <2>3, <4>1
        <4>2. ASSUME NEW x, toTx' = Append(toTx, x), GoodToTx(x), x.status = NoStatus
              PROVE  ~HasOk(toTx')
          <5>1. x \in ChunkToTx /\ x.status # "OK"
            BY <4>2 DEF GoodToTx, NoStatus
          <5> QED  BY <1>0, <2>3, <4>2, <5>1, OkSent
        <4> QED  BY <2>5, <4>1, <4>2 DEF ReadStarts
      <3>3. ~SomeOk'
        BY <2>3, <2>4, <3>1, <3>2, SomeOkIs
      <3> QED  BY <3>3 DEF OkInv, SomeOk
    <2>6. CASE WriteStarts
      <3>1. ~RxOk(tx') /\ rx' = rx /\ toTx' = toTx
        BY <1>0, <2>6, NewTxFacts DEF WriteStarts, RxOk
      <3>2. PICK x : x = InitialTransmitChunk
        OBVIOUS
      <3>3. x \in ChunkToRx /\ x.status # "OK"
        BY <1>0, <3>2, InitialChunkFacts DEF GoodToRx, NoStatus
      <3>4. toRx' = toRx \/ toRx' = Append(toRx, x)
        BY <2>6, <3>2 DEF WriteStarts
      <3>5. ~HasOk(toRx')
        BY <1>0, <2>3, <3>3, <3>4, OkSent
      <3>6. ~SomeOk'
        BY <2>3, <2>4, <3>1, <3>5, SomeOkIs
      <3> QED  BY <3>6 DEF OkInv, SomeOk
    <2> QED  BY <2>1, <2>5, <2>6
  <1>2. CASE ClientCancel
    <2>1. output' = output /\ \/ RxEnds(rx) /\ rx'.status # "OK" /\ tx' = tx /\ toRx' = toRx
                              \/ TxEnds /\ tx'.status # "OK" /\ rx' = rx /\ toTx' = toTx
      BY <1>2, CancelFacts
    <2> QED  BY <1>r, <1>t, <2>1 DEF RxRetries, TxRetries
  <1>3. CASE RxReceive
    BY <1>3, OkRxReceive
  <1>4. CASE TxReceive
    <2> DEFINE c == Head(toTx)
    <2>1. /\ toTx # << >> /\ toTx' = Tail(toTx) /\ TxHandles(c) /\ output' = output /\ rx' = rx
      BY <1>4, TxReceiveFacts
    <2>2. (HasOk(toTx') => HasOk(toTx)) /\ (c.status = "OK" => HasOk(toTx))
      BY <1>0, <2>1, OkTaken
    <2> HIDE DEF c
    <2>3. PICK h : h = Heard(tx)
      OBVIOUS
    <2>4. TxGood(h, readPos) /\ (RxOk(h) => RxOk(tx))
      BY <1>0, <2>3, HeardTx DEF RxOk
    <2>5. ASSUME RxOk(tx') \/ HasOk(toRx') PROVE SomeOk
      <3>1. CASE TxRestarts(c)
        <4>1. PICK t \in Prepared(NewTx) : Answered(t, c)
          BY <3>1 DEF TxRestarts
        <4>2. TxGood(t, 0) /\ ~RxOk(t)
          BY <1>0, PreparedTx, NewTxFacts DEF RxOk
        <4> QED  BY <1>0, <2>5, <4>1, <4>2, OkOfAnswered, SomeOkIs
      <3>2. CASE TxTakes(c)
        <4>1. Answered(h, c)
          BY <2>3, <3>2 DEF TxTakes
        <4> QED  BY <1>0, <2>4, <2>5, <4>1, OkOfAnswered, SomeOkIs
      <3>3. CASE TxIsTold(c)
        BY <1>0, <2>2, <2>5, <3>3, OkOfTxEnds, SomeOkIs DEF TxIsTold
      <3>4. CASE TxIgnores
        BY <2>3, <2>4, <2>5, <3>4, SomeOkIs DEF TxIgnores
      <3> QED  BY <2>1, <3>1, <3>2, <3>3, <3>4 DEF TxHandles
    <2>6. SomeOk' => SomeOk
      BY <2>1, <2>2, <2>5, SomeOkIs
    <2> QED  BY <1>k, <2>1, <2>6
  <1>5. CASE RxTimeout
    BY <1>5, <1>r, RxTimeoutFacts
  <1>6. CASE TxInterchunkTimeout \/ TxTimeout
    BY <1>6, <1>t, TxInterchunkFacts, TxTimeoutFacts
  <1>7. CASE Lose
    <2>1. /\ rx' = rx /\ tx' = tx /\ output' = output
          /\ \/ toRx # << >> /\ toRx' = Tail(toRx) /\ toTx' = toTx
             \/ toTx # << >> /\ toTx' = Tail(toTx) /\ toRx' = toRx
      BY <1>7 DEF Lose
    <2>2. SomeOk' => SomeOk
      BY <1>0, <2>1, OkTaken, SomeOkIs
    <2> QED  BY <1>k, <2>1, <2>2
  <1>8. CASE LinkDown \/ UNCHANGED vars
    <2>1. rx' = rx /\ tx' = tx /\ output' = output /\ toRx' = toRx /\ toTx' = toTx
      BY <1>8 DEF LinkDown, vars
    <2> QED  BY <1>k, <2>1, SomeOkIs
  <1> QED  BY <1>1, <1>2, <1>3, <1>4, <1>5, <1>6, <1>7, <1>8 DEF Next

-----------------------------------------------------------------------------
(* The window.                                                             *)

\* The more is written, the further the window may reach.
LEMMA LimitGrows ==
    ASSUME cfg \in Config, NEW n \in Nat, NEW m \in Nat, n <= m, m <= cfg.cap
    PROVE  Limit(n) \in Nat /\ Limit(m) \in Nat /\ Limit(n) <= Limit(m)
  <1>1. cfg.cap \in Nat /\ PendingBytes \in Nat
    BY ParametersAssumption DEF Config
  <1> QED  BY <1>1 DEF Limit

\* A larger bound is one too.
LEMMA WithinMore ==
    ASSUME NEW s \in Seq(ChunkToRx), NEW q \in Seq(ChunkToTx), NEW t \in TxContext,
           NEW n \in Nat, NEW m \in Nat, n <= m, Within(n, s, q, t)
    PROVE  Within(m, s, q, t)
  <1>1. ASSUME NEW i \in 1..Len(s), s[i].data # NoBytes PROVE s[i].offset + Len(s[i].data) <= m
    <2>1. s[i] \in ChunkToRx
      OBVIOUS
    <2>2. s[i].offset \in Nat /\ Len(s[i].data) \in Nat
      BY <2>1 DEF ChunkToRx
    <2>3. s[i].offset + Len(s[i].data) <= n
      BY <1>1 DEF Within
    <2> QED  BY <2>2, <2>3
  <1>2. ASSUME NEW i \in 1..Len(q), q[i].status = NoStatus PROVE q[i].window_end_offset <= m
    <2>1. q[i] \in ChunkToTx
      OBVIOUS
    <2>2. q[i].window_end_offset \in Nat
      BY <2>1 DEF ChunkToTx
    <2>3. q[i].window_end_offset <= n
      BY <1>2 DEF Within
    <2> QED  BY <2>2, <2>3
  <1>3. ASSUME Active(t) PROVE t.window_end_offset <= m
    <2>1. t.window_end_offset \in Nat /\ t.window_end_offset <= n
      BY <1>3 DEF Within, TxContext
    <2> QED  BY <2>1
  <1> QED  BY <1>1, <1>2, <1>3 DEF Within

\* A chunk taken by the receiver leaves the bound.
LEMMA WithinTakeRx ==
    ASSUME NEW s \in Seq(ChunkToRx), s # << >>, NEW q, NEW t, NEW n, Within(n, s, q, t), NEW u, u = Tail(s)
    PROVE  Within(n, u, q, t)
  <1>1. \A i \in 1..Len(u) : i + 1 \in 1..Len(s) /\ u[i] = s[i + 1]
    BY TakenFacts
  <1> QED  BY <1>1 DEF Within

\* Parameters taken by the transmitter: they are the smallest window still on its way.
LEMMA TakeTx ==
    ASSUME NEW q \in Seq(ChunkToTx), q # << >>, NEW t, NEW u, u = Tail(q)
    PROVE  /\ \A n, s : Within(n, s, q, t) => Within(n, s, u, t)
           /\ Growing(q, t) => Growing(u, t)
           /\ Growing(q, t) /\ Head(q).status = NoStatus => \A i \in 1..Len(u) :
                u[i].status = NoStatus => Head(q).window_end_offset <= u[i].window_end_offset
           /\ \A n, s : Within(n, s, q, t) /\ Head(q).status = NoStatus => Head(q).window_end_offset <= n
           /\ Growing(q, t) /\ Head(q).status = NoStatus /\ Active(t) =>
                t.window_end_offset <= Head(q).window_end_offset
  <1>1. /\ Head(q) = q[1] /\ 1 \in 1..Len(q)
        /\ \A i \in 1..Len(u) : i + 1 \in 1..Len(q) /\ u[i] = q[i + 1]
    BY TakenFacts
  <1>2. \A n, s : Within(n, s, q, t) => Within(n, s, u, t)
    BY <1>1 DEF Within
  <1>3. ASSUME Growing(q, t) PROVE Growing(u, t)
    <2>1. ASSUME NEW i \in 1..Len(u), NEW j \in 1..Len(u), i < j, u[i].status = NoStatus, u[j].status = NoStatus
          PROVE  u[i].window_end_offset <= u[j].window_end_offset
      <3>1. i + 1 < j + 1
        BY <2>1
      <3> QED  BY <1>1, <1>3, <2>1, <3>1 DEF Growing
    <2>2. Active(t) => /\ t.offset <= t.window_end_offset
                       /\ \A i \in 1..Len(u) : u[i].status = NoStatus =>
                             t.window_end_offset <= u[i].window_end_offset
      BY <1>1, <1>3 DEF Growing
    <2> QED  BY <2>1, <2>2 DEF Growing
  <1>4. ASSUME Growing(q, t), Head(q).status = NoStatus, NEW i \in 1..Len(u), u[i].status = NoStatus
        PROVE  Head(q).window_end_offset <= u[i].window_end_offset
    <2>1. 1 < i + 1
      OBVIOUS
    <2> QED  BY <1>1, <1>4, <2>1 DEF Growing
  <1>5. \A n, s : Within(n, s, q, t) /\ Head(q).status = NoStatus => Head(q).window_end_offset <= n
    BY <1>1 DEF Within
  <1>6. Growing(q, t) /\ Head(q).status = NoStatus /\ Active(t) =>
                t.window_end_offset <= Head(q).window_end_offset
    BY <1>1 DEF Growing
  <1> QED  BY <1>2, <1>3, <1>4, <1>5, <1>6

\* Parameters sent by the receiver: they are the largest.
LEMMA SendTx ==
    ASSUME NEW q \in Seq(ChunkToTx), NEW x \in ChunkToTx, NEW t, NEW s, NEW u, u = Append(q, x)
    PROVE  /\ \A n : Within(n, s, q, t) /\ (x.status = NoStatus => x.window_end_offset <= n)
                       => Within(n, s, u, t)
           /\ Growing(q, t) /\ (x.status = NoStatus => Within(x.window_end_offset, s, q, t))
                => Growing(u, t)
  <1>1. /\ \A i \in 1..Len(u) : (i \in 1..Len(q) /\ u[i] = q[i]) \/ (i = Len(q) + 1 /\ u[i] = x)
        /\ Len(u) = Len(q) + 1 /\ Len(q) \in Nat
    BY SentFacts
  <1>2. ASSUME NEW n, Within(n, s, q, t), x.status = NoStatus => x.window_end_offset <= n
        PROVE  Within(n, s, u, t)
    BY <1>1, <1>2 DEF Within
  <1>3. ASSUME Growing(q, t), x.status = NoStatus => Within(x.window_end_offset, s, q, t)
        PROVE  Growing(u, t)
    <2>1. ASSUME NEW i \in 1..Len(u), NEW j \in 1..Len(u), i < j, u[i].status = NoStatus, u[j].status = NoStatus
          PROVE  u[i].window_end_offset <= u[j].window_end_offset
      <3>1. i \in 1..Len(q) /\ u[i] = q[i]
        BY <1>1, <2>1
      <3>2. CASE j \in 1..Len(q) /\ u[j] = q[j]
        BY <1>3, <2>1, <3>1, <3>2 DEF Growing
      <3>3. CASE u[j] = x
        BY <1>3, <2>1, <3>1, <3>3 DEF Within
      <3> QED  BY <1>1, <3>2, <3>3
    <2>2. Active(t) => /\ t.offset <= t.window_end_offset
                       /\ \A i \in 1..Len(u) : u[i].status = NoStatus =>
                             t.window_end_offset <= u[i].window_end_offset
      BY <1>1, <1>3 DEF Growing, Within
    <2> QED  BY <2>1, <2>2 DEF Growing
  <1> QED  BY <1>2, <1>3

\* Data sent by the transmitter in its window.
LEMMA SendRx ==
    ASSUME NEW s \in Seq(ChunkToRx), NEW x \in ChunkToRx, NEW q, NEW t, NEW r, NEW n, Within(n, s, q, t),
           x.data # NoBytes => x.offset + Len(x.data) <= n, Active(r) => r.window_end_offset <= n,
           NEW u, u = s \/ u = Append(s, x)
    PROVE  Within(n, u, q, r)
  <1>1. CASE u = s
    BY <1>1 DEF Within
  <1>2. CASE u = Append(s, x)
    <2>1. \A i \in 1..Len(u) : (i \in 1..Len(s) /\ u[i] = s[i]) \/ u[i] = x
      BY <1>2, SentFacts
    <2> QED  BY <2>1 DEF Within
  <1> QED  BY <1>1, <1>2

\* The receiver is not active, or has the largest window.
RxClosed ==
  /\ ~Active(rx')
  /\ toTx' = toTx \/ \E x \in ChunkToTx : toTx' = Append(toTx, x) /\ x.status # NoStatus
RxOpen ==
  /\ Active(rx') /\ rx'.window_end_offset \in Nat /\ rx'.window_end_offset <= Limit(Len(output'))
  /\ Within(rx'.window_end_offset, toRx', toTx, tx)
  /\ \/ toTx' = toTx
     \/ \E x \in ChunkToTx : /\ toTx' = Append(toTx, x) /\ x.status = NoStatus
                             /\ x.window_end_offset = rx'.window_end_offset

\* A step of the receiver keeps WindowInv.
LEMMA WindowRx ==
    ASSUME DataInv, WindowInv, tx' = tx, cfg' = cfg, Len(output') \in Nat, Len(output) \in Nat,
           Len(output) <= Len(output'), Len(output') <= cfg.cap,
           toRx' = toRx \/ (toRx # << >> /\ toRx' = Tail(toRx)), RxClosed \/ RxOpen
    PROVE  WindowInv'
  <1>0. cfg \in Config /\ toRx \in Seq(ChunkToRx) /\ toTx \in Seq(ChunkToTx) /\ tx \in TxContext
    BY DataFacts DEF TxGood
  <1>1. toRx' \in Seq(ChunkToRx)
    BY <1>0, TakenFacts
  <1> DEFINE L == Limit(Len(output'))
  <1>2. Limit(Len(output)) \in Nat /\ L \in Nat /\ Limit(Len(output)) <= L
    BY <1>0, LimitGrows
  <1> HIDE DEF L
  <1>3. Within(Limit(Len(output)), toRx', toTx, tx) /\ Growing(toTx, tx)
    BY <1>0, WithinTakeRx DEF WindowInv
  <1>4. Within(L, toRx', toTx, tx)
    BY <1>0, <1>1, <1>2, <1>3, WithinMore
  <1>5. Limit(Len(output))' = L
    BY DEF Limit, L
  <1>6. CASE toTx' = toTx
    <2>1. Within(L, toRx', toTx', tx') /\ Growing(toTx', tx')
      BY <1>3, <1>4, <1>6
    <2>2. Active(rx') => Within(rx'.window_end_offset, toRx', toTx', tx') /\ rx'.window_end_offset <= L
      BY <1>6 DEF RxClosed, RxOpen, L
    <2> QED  BY <1>5, <2>1, <2>2 DEF WindowInv
  <1>7. ASSUME NEW x \in ChunkToTx, toTx' = Append(toTx, x), x.status # NoStatus, ~Active(rx')
        PROVE  WindowInv'
    <2>1. Within(L, toRx', toTx', tx') /\ Growing(toTx', tx')
      BY <1>0, <1>3, <1>4, <1>7, SendTx
    <2> QED  BY <1>5, <1>7, <2>1 DEF WindowInv
  <1>8. ASSUME RxOpen, NEW x \in ChunkToTx, toTx' = Append(toTx, x), x.status = NoStatus,
               x.window_end_offset = rx'.window_end_offset
        PROVE  WindowInv'
    <2>1. /\ Within(x.window_end_offset, toRx', toTx, tx) /\ x.window_end_offset <= L
          /\ x.window_end_offset \in Nat
      BY <1>8 DEF RxOpen, L
    <2>2. Growing(toTx', tx')
      BY <1>0, <1>3, <1>8, <2>1, SendTx
    <2>3. Within(L, toRx', toTx', tx')
      BY <1>0, <1>4, <1>8, <2>1, SendTx
    <2>4. x.window_end_offset <= x.window_end_offset
      BY <2>1
    <2>5. Within(x.window_end_offset, toRx', toTx', tx')
      BY <1>0, <1>8, <2>1, <2>4, SendTx
    <2> QED  BY <1>5, <1>8, <2>1, <2>2, <2>3, <2>5 DEF WindowInv
  <1> QED  BY <1>6, <1>7, <1>8 DEF RxClosed, RxOpen

\* The transmitter is not active, or stays in a window that ends at w.
TxClosed ==
  /\ ~Active(tx')
  /\ toRx' = toRx \/ \E x \in ChunkToRx : toRx' = Append(toRx, x) /\ x.data = NoBytes
TxOpen(w) ==
  /\ tx' \in TxContext /\ Active(tx')
  /\ tx'.offset <= tx'.window_end_offset /\ tx'.window_end_offset <= w
  /\ \/ toRx' = toRx
     \/ \E x \in ChunkToRx : /\ toRx' = Append(toRx, x)
                             /\ x.data # NoBytes => x.offset + Len(x.data) <= w

\* So does a step of the transmitter.
LEMMA WindowTx ==
    ASSUME DataInv, WindowInv, rx' = rx, output' = output, cfg' = cfg,
           toTx' = toTx \/ (toTx # << >> /\ toTx' = Tail(toTx)),
           NEW w \in Nat, TxClosed \/ TxOpen(w),
           TxOpen(w) => /\ \A n, s : Within(n, s, toTx, tx) => w <= n
                        /\ \A i \in 1..Len(toTx') : toTx'[i].status = NoStatus =>
                              w <= toTx'[i].window_end_offset
    PROVE  WindowInv'
  <1>0. /\ cfg \in Config /\ toRx \in Seq(ChunkToRx) /\ toTx \in Seq(ChunkToTx) /\ RxGood(rx, output)
        /\ rx \in RxContext /\ Len(output) \in Nat /\ Len(output) <= cfg.cap
    BY DataFacts DEF RxGood
  <1>1. toTx' \in Seq(ChunkToTx)
    BY <1>0, TakenFacts
  <1>2. Growing(toTx', tx) /\ \A n, s : Within(n, s, toTx, tx) => Within(n, s, toTx', tx)
    BY <1>0, TakeTx DEF WindowInv
  <1>3. ASSUME NEW n \in Nat, Within(n, toRx, toTx, tx)
        PROVE  Within(n, toRx', toTx', tx')
    <2>1. Within(n, toRx, toTx', tx)
      BY <1>2, <1>3
    <2>2. CASE TxClosed
      <3>1. CASE toRx' = toRx
        BY <2>1, <2>2, <3>1 DEF Within, TxClosed
      <3>2. ASSUME NEW x \in ChunkToRx, toRx' = Append(toRx, x), x.data = NoBytes
            PROVE  Within(n, toRx', toTx', tx')
        BY <1>0, <2>1, <2>2, <3>2, SendRx DEF TxClosed
      <3> QED  BY <2>2, <3>1, <3>2 DEF TxClosed
    <2>3. CASE TxOpen(w)
      <3>0. tx'.window_end_offset \in Nat /\ tx'.window_end_offset <= w
        BY <2>3 DEF TxOpen, TxContext
      <3>1. w <= n
        BY <1>3, <2>3
      <3>2. tx'.window_end_offset <= n
        BY <3>0, <3>1
      <3>3. CASE toRx' = toRx
        BY <2>1, <3>2, <3>3 DEF Within
      <3>4. ASSUME NEW x \in ChunkToRx, toRx' = Append(toRx, x),
                   x.data # NoBytes => x.offset + Len(x.data) <= w
            PROVE  Within(n, toRx', toTx', tx')
        <4>1. x.offset + Len(x.data) \in Nat
          BY DEF ChunkToRx
        <4>2. x.data # NoBytes => x.offset + Len(x.data) <= n
          BY <3>1, <3>4, <4>1
        <4> QED  BY <1>0, <2>1, <3>2, <3>4, <4>2, SendRx
      <3> QED  BY <2>3, <3>3, <3>4 DEF TxOpen
    <2> QED  BY <2>2, <2>3
  <1>4. Growing(toTx', tx')
    <2>1. CASE TxClosed
      BY <1>2, <2>1 DEF TxClosed, Growing
    <2>2. CASE TxOpen(w)
      <3>1. /\ tx'.offset <= tx'.window_end_offset /\ tx'.window_end_offset <= w
            /\ tx'.window_end_offset \in Nat
        BY <2>2 DEF TxOpen, TxContext
      <3>2. ASSUME NEW i \in 1..Len(toTx'), toTx'[i].status = NoStatus
            PROVE  tx'.window_end_offset <= toTx'[i].window_end_offset
        <4>1. w <= toTx'[i].window_end_offset
          BY <2>2, <3>2
        <4>2. toTx'[i] \in ChunkToTx
          BY <1>1
        <4>3. toTx'[i].window_end_offset \in Nat
          BY <4>2 DEF ChunkToTx
        <4> QED  BY <3>1, <4>1, <4>3
      <3> QED  BY <1>2, <3>1, <3>2 DEF Growing
    <2> QED  BY <2>1, <2>2
  <1>5. Limit(Len(output))' = Limit(Len(output)) /\ Limit(Len(output)) \in Nat
    <2>1. Limit(Len(output)) \in Nat
      BY <1>0, LimitGrows
    <2> QED  BY <2>1 DEF Limit
  <1>6. Within(Limit(Len(output)), toRx', toTx', tx')
    BY <1>3, <1>5 DEF WindowInv
  <1>7. Active(rx') => /\ Within(rx'.window_end_offset, toRx', toTx', tx')
                       /\ rx'.window_end_offset <= Limit(Len(output))
    <2>1. rx.window_end_offset \in Nat
      BY <1>0 DEF RxContext
    <2> QED  BY <1>3, <2>1 DEF WindowInv
  <1> QED  BY <1>4, <1>5, <1>6, <1>7 DEF WindowInv

\* How the receiver's steps close or open its window.
LEMMA RxEndsCloses ==
    ASSUME cfg \in Config, NEW q, RxEnds(q)
    PROVE  RxClosed
  <1>1. rx'.status \in Statuses /\ ~Active(rx')
    BY DEF RxEnds, Active
  <1>2. PICK x : x = FinalStatusToTx(rx'.status)
    OBVIOUS
  <1>3. x \in ChunkToTx /\ x.status # NoStatus
    BY <1>1, <1>2, FinalToTx, StatusFacts
  <1> QED  BY <1>1, <1>2, <1>3 DEF RxEnds, RxClosed

\* Repeating the final status keeps it closed.
LEMMA RxRepeatsCloses ==
    ASSUME cfg \in Config, NEW r, NEW b, RxGood(r, b), RxRepeats(r)
    PROVE  RxClosed
  <1>1. r.status \in Statuses /\ ~Active(rx')
    BY DEF RxRepeats, RxGood, RxContext, AnyStatus, Active
  <1>2. PICK x : x = FinalStatusToTx(r.status)
    OBVIOUS
  <1>3. x \in ChunkToTx /\ x.status # NoStatus
    BY <1>1, <1>2, FinalToTx, StatusFacts
  <1> QED  BY <1>1, <1>2, <1>3 DEF RxRepeats, RxClosed

\* Going on opens the window asked for, or keeps the one there is.
LEMMA RxStaysOpens ==
    ASSUME NEW r, NEW w, RxStays(r, w), w <= Limit(Len(output')), Within(w, toRx', toTx, tx),
           \/ /\ r.window_end_offset <= Limit(Len(output'))
              /\ Within(r.window_end_offset, toRx', toTx, tx)
           \/ r = NewRx
    PROVE  RxOpen
  <1>1. /\ Active(rx') /\ rx' \in RxContext /\ rx'.window_end_offset \in Nat
        /\ rx'.window_end_offset = rx'.offset + rx'.pending_bytes
        /\ rx'.offset \in Nat /\ rx'.pending_bytes \in Nat
    BY DEF RxStays, RxGood, RxContext
  <1>2. CASE /\ toTx' = toTx /\ rx'.window_end_offset = r.window_end_offset
             /\ rx'.pending_bytes > 0 \/ r.state = "kRecovery"
    <2>1. r # NewRx
      <3>1. r = NewRx => r.window_end_offset = 0 /\ r.state # "kRecovery"
        BY DEF NewRx
      <3> QED  BY <1>1, <1>2, <3>1
    <2> QED  BY <1>1, <1>2, <2>1 DEF RxOpen
  <1>3. ASSUME NEW x, toTx' = Append(toTx, x), GoodToTx(x), x.status = NoStatus,
               x.window_end_offset = rx'.window_end_offset, rx'.window_end_offset = w
        PROVE  RxOpen
    <2>1. x \in ChunkToTx
      BY <1>3 DEF GoodToTx
    <2> QED  BY <1>1, <1>3, <2>1 DEF RxOpen
  <1> QED  BY <1>2, <1>3 DEF RxStays

\* How the transmitter's steps do.
LEMMA TxEndsCloses ==
    ASSUME cfg \in Config, TxEnds
    PROVE  TxClosed
  <1>1. tx'.status \in Statuses /\ ~Active(tx')
    BY DEF TxEnds, Active
  <1>2. PICK x : x = FinalStatusToRx(tx'.status)
    OBVIOUS
  <1>3. x \in ChunkToRx /\ x.data = NoBytes
    BY <1>1, <1>2, FinalToRx
  <1> QED  BY <1>1, <1>2, <1>3 DEF TxEnds, TxClosed

\* Repeating the final status keeps it closed.
LEMMA TxRepeatsCloses ==
    ASSUME cfg \in Config, NEW t, NEW pos, TxGood(t, pos), TxRepeats(t)
    PROVE  TxClosed
  <1>1. tx'.status \in Statuses /\ ~Active(tx')
    BY DEF TxRepeats, TxGood, TxContext, AnyStatus, Statuses, Active
  <1>2. PICK x : x = FinalStatusToRx(tx'.status)
    OBVIOUS
  <1>3. x \in ChunkToRx /\ x.data = NoBytes
    BY <1>1, <1>2, FinalToRx
  <1> QED  BY <1>1, <1>2, <1>3 DEF TxRepeats, TxClosed

\* Answering parameters takes over the window they ask for.
LEMMA InWindowOpens ==
    ASSUME NEW t, NEW c, InWindow(t, c),
           t.offset <= t.window_end_offset, t.window_end_offset <= c.window_end_offset
    PROVE  TxOpen(c.window_end_offset)
  <1>1. PICK u : /\ TxStays(u) /\ u.window_end_offset = c.window_end_offset
                 /\ u.offset <= u.window_end_offset
    BY DEF InWindow
  <1>2. /\ Active(tx') /\ tx' \in TxContext
        /\ tx'.offset <= tx'.window_end_offset /\ tx'.window_end_offset <= c.window_end_offset
        /\ toRx' = toRx \/ \E x : toRx' = Append(toRx, x) /\ Allowed(u, x)
    BY <1>1 DEF TxStays, TxGood
  <1>3. ASSUME NEW x, toRx' = Append(toRx, x), Allowed(u, x)
        PROVE  x \in ChunkToRx /\ (x.data # NoBytes => x.offset + Len(x.data) <= c.window_end_offset)
    BY <1>1, <1>3 DEF Allowed, GoodToRx
  <1> QED  BY <1>2, <1>3 DEF TxOpen

\* A chunk arrives at the receiver.
LEMMA WindowRxReceive ==
    ASSUME DataInv, Ordered, WindowInv, RxReceive
    PROVE  WindowInv'
  <1> DEFINE c == Head(toRx)
  <1>0. /\ cfg \in Config /\ toRx \in Seq(ChunkToRx) /\ toTx \in Seq(ChunkToTx) /\ RxGood(rx, output)
        /\ tx \in TxContext
    BY DataFacts DEF TxGood
  <1>1. toRx # << >> /\ toRx' = Tail(toRx) /\ tx' = tx /\ cfg' = cfg /\ RxHandles(c)
    BY RxReceiveFacts
  <1> HIDE DEF c
  <1>2. /\ Len(output) \in Nat /\ Len(output') \in Nat /\ Len(output) <= Len(output')
        /\ Len(output') <= cfg.cap
    BY OutputGrows
  <1> DEFINE L == Limit(Len(output'))
  <1>3. Limit(Len(output)) \in Nat /\ L \in Nat /\ Limit(Len(output)) <= L
    BY <1>0, <1>2, LimitGrows
  <1>t. toRx' \in Seq(ChunkToRx)
    BY <1>0, <1>1, TakenFacts
  <1>4. Within(Limit(Len(output)), toRx', toTx, tx)
    BY <1>0, <1>1, WithinTakeRx DEF WindowInv
  <1> HIDE DEF L
  <1>5. Within(L, toRx', toTx, tx) /\ L <= L
    BY <1>0, <1>3, <1>4, <1>t, WithinMore
  <1>6. ASSUME Active(rx) PROVE rx.window_end_offset <= L /\ Within(rx.window_end_offset, toRx', toTx, tx)
    <2>1. rx.window_end_offset \in Nat
      BY <1>0 DEF RxGood, RxContext
    <2>2. rx.window_end_offset <= L
      BY <1>3, <1>6, <2>1 DEF WindowInv
    <2> QED  BY <1>0, <1>1, <1>6, <2>2, WithinTakeRx DEF WindowInv
  <1>7. PICK h : h = Heard(rx)
    OBVIOUS
  <1>8. RxGood(h, output) /\ h.window_end_offset = rx.window_end_offset /\ (Active(h) <=> Active(rx))
    BY <1>0, <1>7, HeardRx
  <1>9. RxClosed \/ RxOpen
    <2>1. CASE RxRestarts(c)
      <3>1. PICK r \in Prepared(NewRx) : Received(r, NoBytes, c)
        BY <2>1 DEF RxRestarts
      <3>2. RxGood(r, NoBytes) /\ (r = NewRx \/ r.state = "kCompleted")
        BY <1>0, PreparedRx
      <3>3. Active(r) => r = NewRx
        BY <3>2 DEF Active
      <3>4. CASE Active(r) /\ RxStays(r, L)
        BY <1>5, <3>3, <3>4, RxStaysOpens DEF L
      <3>5. CASE RxEnds(r)
        BY <1>0, <3>5, RxEndsCloses
      <3>6. CASE RxRepeats(r)
        BY <1>0, <3>2, <3>6, RxRepeatsCloses
      <3> QED  BY <3>1, <3>4, <3>5, <3>6 DEF Received, L
    <2>2. CASE RxTakes(c)
      <3>1. Received(h, output, c)
        BY <1>7, <2>2 DEF RxTakes
      <3>4. CASE Active(h) /\ RxStays(h, L)
        <4>1. h.window_end_offset <= L /\ Within(h.window_end_offset, toRx', toTx, tx)
          BY <1>6, <1>8, <3>4
        <4> QED  BY <1>5, <3>4, <4>1, RxStaysOpens DEF L
      <3>5. CASE RxEnds(h)
        BY <1>0, <3>5, RxEndsCloses
      <3>6. CASE RxRepeats(h)
        BY <1>0, <1>8, <3>6, RxRepeatsCloses
      <3> QED  BY <3>1, <3>4, <3>5, <3>6 DEF Received, L
    <2>3. CASE RxIsTold(c)
      BY <1>0, <2>3, RxEndsCloses DEF RxIsTold
    <2>4. CASE RxIgnores
      BY <1>7, <1>8, <2>4 DEF RxIgnores, RxClosed
    <2> QED  BY <1>1, <2>1, <2>2, <2>3, <2>4 DEF RxHandles
  <1> QED  BY <1>1, <1>2, <1>9, WindowRx

\* Parameters or a status arrive at the transmitter.
LEMMA WindowTxReceive ==
    ASSUME DataInv, WindowInv, TxReceive
    PROVE  WindowInv'
  <1>0. /\ cfg \in Config /\ toTx \in Seq(ChunkToTx) /\ TxGood(tx, readPos)
    BY DataFacts
  <1>1. PICK c : c = Head(toTx)
    OBVIOUS
  <1>2. /\ toTx # << >> /\ toTx' = Tail(toTx) /\ TxHandles(c) /\ GoodToTx(c)
        /\ rx' = rx /\ output' = output /\ cfg' = cfg
    BY <1>1, TxReceiveFacts
  <1>3. c.window_end_offset \in Nat
    BY <1>2 DEF GoodToTx, ChunkToTx
  <1>4. c.status = NoStatus =>
          /\ \A n, s : Within(n, s, toTx, tx) => c.window_end_offset <= n
          /\ \A i \in 1..Len(toTx') : toTx'[i].status = NoStatus =>
                c.window_end_offset <= toTx'[i].window_end_offset
          /\ Active(tx) => tx.window_end_offset <= c.window_end_offset
    BY <1>0, <1>1, <1>2, TakeTx DEF WindowInv
  <1>5. PICK h : h = Heard(tx)
    OBVIOUS
  <1>6. /\ TxGood(h, readPos) /\ h.offset = tx.offset /\ h.window_end_offset = tx.window_end_offset
        /\ (Active(h) <=> Active(tx))
    BY <1>0, <1>5, HeardTx
  <1>7. TxClosed \/ (c.status = NoStatus /\ TxOpen(c.window_end_offset))
    <2>1. CASE c.status = NoStatus /\ TxRestarts(c)
      <3>1. PICK t \in Prepared(NewTx) : Answered(t, c)
        BY <2>1 DEF TxRestarts
      <3>2. TxGood(t, 0) /\ (t = NewTx \/ t.state = "kCompleted")
        BY <1>0, PreparedTx
      <3>3. Active(t) => t.offset = 0 /\ t.window_end_offset = 0
        BY <1>0, <3>2, NewTxFacts DEF Active
      <3>4. CASE Active(t) /\ InWindow(t, c)
        <4>1. t.offset <= t.window_end_offset /\ t.window_end_offset <= c.window_end_offset
          BY <1>3, <3>3, <3>4
        <4> QED  BY <2>1, <3>4, <4>1, InWindowOpens
      <3>5. CASE TxEnds
        BY <1>0, <3>5, TxEndsCloses
      <3>6. CASE TxRepeats(t)
        BY <1>0, <3>2, <3>6, TxRepeatsCloses
      <3> QED  BY <3>1, <3>4, <3>5, <3>6 DEF Answered
    <2>2. CASE c.status = NoStatus /\ TxTakes(c)
      <3>1. Answered(h, c)
        BY <1>5, <2>2 DEF TxTakes
      <3>4. CASE Active(h) /\ InWindow(h, c)
        <4>1. h.offset <= h.window_end_offset /\ h.window_end_offset <= c.window_end_offset
          BY <1>4, <1>6, <2>2, <3>4 DEF WindowInv, Growing
        <4> QED  BY <2>2, <3>4, <4>1, InWindowOpens
      <3>5. CASE TxEnds
        BY <1>0, <3>5, TxEndsCloses
      <3>6. CASE TxRepeats(h)
        BY <1>0, <1>6, <3>6, TxRepeatsCloses
      <3> QED  BY <3>1, <3>4, <3>5, <3>6 DEF Answered
    <2>3. CASE TxIsTold(c)
      BY <1>0, <2>3, TxEndsCloses DEF TxIsTold
    <2>4. CASE TxIgnores
      BY <1>5, <1>6, <2>4 DEF TxIgnores, TxClosed
    <2> QED  BY <1>2, <2>1, <2>2, <2>3, <2>4 DEF TxHandles
  <1>8. CASE TxClosed
    <2>1. ~TxOpen(c.window_end_offset)
      BY <1>8 DEF TxClosed, TxOpen
    <2> QED  BY <1>2, <1>3, <1>8, <2>1, WindowTx
  <1>9. CASE c.status = NoStatus /\ TxOpen(c.window_end_offset)
    BY <1>2, <1>3, <1>4, <1>9, WindowTx
  <1> QED  BY <1>7, <1>8, <1>9

\* Resending stays in the window.
LEMMA WindowTxTimeout ==
    ASSUME DataInv, WindowInv, TxInterchunkTimeout \/ TxTimeout
    PROVE  WindowInv'
  <1>1. /\ Active(tx) /\ UNCHANGED <<cfg, rx, output, toTx>> /\ TxRetries
    BY TxInterchunkFacts, TxTimeoutFacts
  <1>2. /\ cfg \in Config /\ tx \in TxContext /\ tx.window_end_offset \in Nat
    BY DataFacts DEF TxGood, TxContext
  <1>3. /\ tx.offset <= tx.window_end_offset /\ tx.window_end_offset <= tx.window_end_offset
        /\ \A i \in 1..Len(toTx') : toTx'[i].status = NoStatus =>
              tx.window_end_offset <= toTx'[i].window_end_offset
    BY <1>1, <1>2 DEF WindowInv, Growing
  <1>4. \A n, s : Within(n, s, toTx, tx) => tx.window_end_offset <= n
    BY <1>1 DEF Within
  <1>5. TxClosed \/ TxOpen(tx.window_end_offset)
    BY <1>1, <1>2, <1>3, TxEndsCloses, InWindowOpens DEF TxRetries
  <1> QED  BY <1>1, <1>2, <1>3, <1>4, <1>5, WindowTx

\* Asking again asks for the same window.
LEMMA WindowRxTimeout ==
    ASSUME DataInv, WindowInv, RxTimeout
    PROVE  WindowInv'
  <1>1. /\ Active(rx) /\ output' = output /\ UNCHANGED <<cfg, tx, toRx>> /\ RxRetries
    BY RxTimeoutFacts
  <1>2. /\ cfg \in Config /\ Len(output) \in Nat /\ Len(output) <= cfg.cap
        /\ Len(output) <= Len(output)
    BY DataFacts DEF RxGood
  <1>3. /\ rx.window_end_offset <= Limit(Len(output'))
        /\ Within(rx.window_end_offset, toRx', toTx, tx)
    BY <1>1 DEF WindowInv
  <1>4. RxClosed \/ RxOpen
    BY <1>1, <1>2, <1>3, RxEndsCloses, RxStaysOpens DEF RxRetries
  <1> QED  BY <1>1, <1>2, <1>4, WindowRx

\* The first transfer starts with empty queues.
LEMMA WindowStart ==
    ASSUME MaxTransfers <= 1, DataInv, WindowInv, ClientStart
    PROVE  WindowInv'
  <1>0. /\ cfg \in Config /\ transfers \in 0..MaxTransfers /\ MaxTransfers \in Nat
        /\ toRx \in Seq(ChunkToRx) /\ toTx \in Seq(ChunkToTx)
    BY DataFacts
  <1>1. transfers < MaxTransfers /\ cfg' = cfg /\ (ReadStarts \/ WriteStarts)
    BY StartFacts
  <1>2. transfers = 0
    BY <1>0, <1>1
  <1>3. /\ toRx = << >> /\ toTx = << >> /\ output = NoBytes /\ ~Active(rx) /\ ~Active(tx)
        /\ Len(output) = 0 /\ Len(output) <= Len(output) /\ 0 <= cfg.cap
    BY <1>0, <1>2 DEF DataInv, Untouched, Active, NoBytes, Config
  <1>4. CASE ReadStarts
    <2>1. tx' = tx /\ toRx' = toRx /\ output' = NoBytes /\ Len(output') = 0
      BY <1>4 DEF ReadStarts, NoBytes
    <2>2. \A n : Within(n, toRx', toTx, tx)
      BY <1>3, <2>1 DEF Within
    <2>3. Limit(0) \in Nat /\ Limit(0) <= Limit(0)
      BY <1>0, <1>3, LimitGrows
    <2>4. CASE rx'.state = "kCompleted" /\ toTx' = toTx
      <3>1. RxClosed
        BY <2>4 DEF RxClosed, Active
      <3> QED  BY <1>1, <1>3, <2>1, <3>1, WindowRx
    <2>5. ASSUME Active(rx'), rx'.window_end_offset = Limit(0), NEW x, toTx' = Append(toTx, x),
                 GoodToTx(x), x.status = NoStatus, x.window_end_offset = rx'.window_end_offset
          PROVE  WindowInv'
      <3>1. RxOpen
        BY <2>1, <2>2, <2>3, <2>5 DEF RxOpen, GoodToTx
      <3> QED  BY <1>1, <1>3, <2>1, <3>1, WindowRx
    <2> QED  BY <1>4, <2>4, <2>5 DEF ReadStarts
  <1>5. CASE WriteStarts
    <2>1. rx' = rx /\ output' = output /\ toTx' = toTx
      BY <1>5 DEF WriteStarts
    <2>2. PICK x : x = InitialTransmitChunk
      OBVIOUS
    <2>3. x \in ChunkToRx /\ x.data = NoBytes
      BY <1>0, <2>2, InitialChunkFacts DEF GoodToRx
    <2>4. CASE tx'.state = "kCompleted" /\ toRx' = toRx
      <3>1. TxClosed /\ ~TxOpen(0)
        BY <2>4 DEF TxClosed, TxOpen, Active
      <3> QED  BY <1>1, <2>1, <3>1, WindowTx
    <2>5. CASE tx' = NewTx /\ toRx' = Append(toRx, x)
      <3>1. /\ Active(tx') /\ tx'.offset = 0 /\ tx'.window_end_offset = 0
        BY <1>0, <2>5, NewTxFacts
      <3>2. Limit(Len(output))' = Limit(0) /\ Limit(0) \in Nat
        <4>1. Limit(0) \in Nat
          BY <1>0, <1>3, LimitGrows
        <4> QED  BY <1>1, <1>3, <2>1, <4>1 DEF Limit
      <3>3. \A i \in 1..Len(toRx') : toRx'[i] = x
        BY <1>0, <1>3, <2>3, <2>5, SentFacts
      <3>4. Within(Limit(0), toRx', toTx', tx') /\ Growing(toTx', tx')
        BY <1>3, <2>1, <2>3, <3>1, <3>2, <3>3 DEF Within, Growing
      <3> QED  BY <1>3, <2>1, <3>2, <3>4 DEF WindowInv
    <2> QED  BY <1>5, <2>2, <2>4, <2>5 DEF WriteStarts
  <1> QED  BY <1>1, <1>4, <1>5

\* WindowInv is inductive.
LEMMA WindowStep ==
    ASSUME MaxTransfers <= 1, DataInv, Ordered, WindowInv, [Next]_vars
    PROVE  WindowInv'
  <1>0. /\ cfg \in Config /\ toRx \in Seq(ChunkToRx) /\ toTx \in Seq(ChunkToTx)
        /\ Len(output) \in Nat /\ Len(output) <= cfg.cap /\ Len(output) <= Len(output)
    BY DataFacts DEF RxGood
  <1>2. CASE ClientCancel
    <2>1. /\ output' = output /\ cfg' = cfg
          /\ \/ RxEnds(rx) /\ tx' = tx /\ toRx' = toRx
             \/ TxEnds /\ rx' = rx /\ toTx' = toTx
      BY <1>2, CancelFacts
    <2>2. CASE RxEnds(rx) /\ tx' = tx /\ toRx' = toRx
      BY <1>0, <2>1, <2>2, RxEndsCloses, WindowRx
    <2>3. CASE TxEnds /\ rx' = rx /\ toTx' = toTx
      <3>1. TxClosed
        BY <1>0, <2>3, TxEndsCloses
      <3>2. ~TxOpen(0)
        BY <3>1 DEF TxClosed, TxOpen
      <3> QED  BY <2>1, <2>3, <3>1, <3>2, WindowTx
    <2> QED  BY <2>1, <2>2, <2>3
  <1>3. CASE Lose
    <2>1. /\ rx' = rx /\ tx' = tx /\ output' = output /\ cfg' = cfg
          /\ \/ toRx # << >> /\ toRx' = Tail(toRx) /\ toTx' = toTx
             \/ toTx # << >> /\ toTx' = Tail(toTx) /\ toRx' = toRx
      BY <1>3 DEF Lose
    <2>2. \A n : Within(n, toRx, toTx, tx) => Within(n, toRx', toTx', tx')
      BY <1>0, <2>1, WithinTakeRx, TakeTx, ZenonT(60)
    <2>3. Growing(toTx', tx')
      BY <1>0, <2>1, TakeTx DEF WindowInv
    <2>4. Limit(Len(output))' = Limit(Len(output))
      BY <2>1 DEF Limit
    <2> QED  BY <2>1, <2>2, <2>3, <2>4 DEF WindowInv
  <1>4. CASE LinkDown \/ UNCHANGED vars
    <2>1. UNCHANGED <<rx, tx, output, cfg, toRx, toTx>>
      BY <1>4 DEF LinkDown, vars
    <2>2. Limit(Len(output))' = Limit(Len(output))
      BY <2>1 DEF Limit
    <2> QED  BY <2>1, <2>2 DEF WindowInv
  <1> QED  BY <1>2, <1>3, <1>4, WindowStart, WindowRxReceive, WindowTxReceive, WindowRxTimeout,
              WindowTxTimeout DEF Next

\* Before the first transfer.
LEMMA SessionInit ==
    ASSUME Init
    PROVE  Ordered /\ OkInv /\ WindowInv
  <1>1. /\ toRx = << >> /\ toTx = << >> /\ output = NoBytes
        /\ Len(toRx) = 0 /\ Len(toTx) = 0 /\ Len(output) = 0
    BY DEF Init, NoBytes
  <1>2. rx.state = "kInactive" /\ tx.state = "kInactive"
    BY DEF Init, NewRx, NewTx
  <1>3. ~Active(rx) /\ ~Active(tx)
    BY <1>2 DEF Active
  <1>4. Ordered
    BY <1>1, <1>3 DEF Ordered, OrderedIn
  <1>5. OkInv
    BY <1>1, <1>2 DEF OkInv, SaysOk
  <1>6. WindowInv
    BY <1>1, <1>3 DEF WindowInv, Within, Growing
  <1> QED  BY <1>4, <1>5, <1>6

\* The inductive invariant of a session.
SessionInv == DataInv /\ Ordered /\ OkInv /\ WindowInv

\* It holds in every reachable state of the first transfer of a session id.
LEMMA SessionAlways ==
    ASSUME MaxTransfers <= 1
    PROVE  Spec => []SessionInv
  <1>0. OneResource
    BY DEF OneResource
  <1>1. Init => SessionInv
    BY DataInit, SessionInit DEF SessionInv
  <1>2. SessionInv /\ [Next]_vars => SessionInv'
    <2> SUFFICES ASSUME SessionInv, [Next]_vars PROVE SessionInv'
      OBVIOUS
    <2>1. DataInv /\ Ordered /\ OkInv /\ WindowInv
      BY DEF SessionInv
    <2>2. DataInv'
      BY <1>0, <2>1, DataStep
    <2>3. Ordered'
      BY <2>1, OrderedStep
    <2>4. OkInv'
      BY <2>1, OkStep
    <2>5. WindowInv'
      BY <2>1, WindowStep
    <2> QED  BY <2>2, <2>3, <2>4, <2>5 DEF SessionInv
  <1> QED  BY <1>1, <1>2, PTL DEF Spec

\* A transfer whose outcome is OK has stored every byte of the resource: neither a
\* resent final chunk nor a status chunk that crosses with data makes
\* Context::Finish report success for less. For every size, window, number of retries
\* and losses, and every fault.
THEOREM OkMeansAllIsStored ==
    ASSUME MaxTransfers <= 1
    PROVE  Spec => []OkMeansStored
  <1>1. SessionInv => OkMeansStored
    <2> SUFFICES ASSUME SessionInv PROVE OkMeansStored
      OBVIOUS
    <2>1. DataInv /\ OkInv
      BY DEF SessionInv
    <2>2. Piece(output, 0) /\ output \in Seq(Byte) /\ cfg.size \in Nat
      BY <2>1, DataFacts DEF RxGood, Config
    <2>3. ASSUME SaysOk(rx, tx, toRx, toTx) PROVE output = Resource
      <3>1. Len(output) = cfg.size
        BY <2>1, <2>3 DEF OkInv
      <3>2. output = [i \in 1..cfg.size |-> output[i]]
        BY <2>2, <3>1
      <3>3. Resource = [i \in 1..cfg.size |-> Resource[i]]
        BY DEF Resource
      <3>4. \A i \in 1..cfg.size : output[i] = Resource[i]
        BY <2>2, <3>1 DEF Piece
      <3> QED  BY <3>2, <3>3, <3>4
    <2> QED  BY <2>3 DEF OkMeansStored, SaysOk
  <1> QED  BY <1>1, SessionAlways, PTL

\* The transmitter never sends past the window the receiver asked for, nor past the
\* room of the receiver's writer (Context::TransmitNextChunk against
\* UpdateTransferParameters), whatever parameters are lost, resent or late.
THEOREM WindowsAreRespected ==
    ASSUME MaxTransfers <= 1
    PROVE  Spec => []WindowRespected
  <1>1. SessionInv => WindowRespected
    <2> SUFFICES ASSUME SessionInv PROVE WindowRespected
      OBVIOUS
    <2>1. DataInv /\ WindowInv
      BY DEF SessionInv
    <2>2. toRx \in Seq(ChunkToRx) /\ RxGood(rx, output) /\ rx \in RxContext
      BY <2>1, DataFacts DEF RxGood
    <2>3. ASSUME Active(rx), NEW i \in 1..Len(toRx), toRx[i].offset = rx.offset
          PROVE  Len(toRx[i].data) <= rx.pending_bytes
      <3>1. /\ rx.window_end_offset = rx.offset + rx.pending_bytes
            /\ rx.offset \in Nat /\ rx.pending_bytes \in Nat
        BY <2>2, <2>3 DEF RxGood, RxContext
      <3>2. toRx[i] \in ChunkToRx
        BY <2>2
      <3>3. Len(toRx[i].data) \in Nat
        BY <3>2 DEF ChunkToRx
      <3>4. CASE toRx[i].data = NoBytes
        <4>1. Len(toRx[i].data) = 0
          BY <3>4 DEF NoBytes
        <4> QED  BY <3>1, <4>1
      <3>5. CASE toRx[i].data # NoBytes
        <4>1. toRx[i].offset + Len(toRx[i].data) <= rx.window_end_offset
          BY <2>1, <2>3, <3>5 DEF WindowInv, Within
        <4> QED  BY <2>3, <3>1, <3>3, <4>1
      <3> QED  BY <3>4, <3>5
    <2>4. Active(tx) => tx.offset <= tx.window_end_offset
      BY <2>1 DEF WindowInv, Growing
    <2>5. Active(rx) => rx.offset <= rx.window_end_offset
      BY <2>2 DEF RxGood, RxContext
    <2> QED  BY <2>3, <2>4, <2>5 DEF WindowRespected
  <1> QED  BY <1>1, SessionAlways, PTL

-----------------------------------------------------------------------------
(* The outcome.                                                            *)

\* All that the outcome needs to know of a context.
HasState(r) == "state" \in DOMAIN r

\* A step of the receiver sets the outcome only where the client receives,
\* and then the receiver has ended; likewise for the transmitter.
RxOutcome == HasState(rx') /\ (result' = result \/ (ClientReceives /\ ~Active(rx')))
TxOutcome == HasState(tx') /\ (result' = result \/ (ClientTransmits /\ ~Active(tx')))

\* An ended context.
LEMMA EndedState ==
    ASSUME NEW r, HasState(r), NEW status
    PROVE  HasState(Completed(r, status)) /\ ~Active(Completed(r, status))
  BY DEF HasState, Completed, Active

\* Context::Finish of a receiver.
LEMMA RxFinishOutcome ==
    ASSUME NEW r, HasState(r), NEW status, NEW n, RxFinish(r, status, n)
    PROVE  RxOutcome
  <1>1. PICK final : rx' = Completed(r, final) /\ result' = IF ClientReceives THEN final ELSE result
    BY DEF RxFinish
  <1> QED  BY <1>1, EndedState DEF RxOutcome

\* Context::SendTransferParameters.
LEMMA SendOutcome ==
    ASSUME NEW r, HasState(r), NEW type, RxSendParameters(r, type)
    PROVE  RxOutcome
  <1>1. CASE rx' = r /\ result' = result
    BY <1>1 DEF RxOutcome
  <1>2. CASE RxFinish(r, "INTERNAL", 1)
    BY <1>2, RxFinishOutcome
  <1> QED  BY <1>1, <1>2 DEF RxSendParameters

\* The updates of a receiver.
LEMMA WindowState ==
    ASSUME NEW r, HasState(r), NEW bytes, NEW c
    PROVE  /\ HasState(UpdatedWindow(r, bytes)) /\ HasState(Advanced(r, c))
           /\ HasState([r EXCEPT !.last_chunk_offset = c.offset])
           /\ HasState([r EXCEPT !.state = "kRecovery"]) /\ HasState([r EXCEPT !.state = "kWaiting"])
  BY DEF HasState, UpdatedWindow, Advanced

\* Context::HandleReceivedData.
LEMMA ReceivedDataOutcome ==
    ASSUME NEW r, HasState(r), NEW bytes, NEW c, HandleReceivedData(r, bytes, c)
    PROVE  RxOutcome
  <1>1. CASE RxBadOffset(r, bytes, c)
    <2>1. PICK s : s = [r EXCEPT !.state = "kRecovery"]
      OBVIOUS
    <2>2. HasState(UpdatedWindow(s, bytes))
      BY <2>1, WindowState
    <2>3. RxSendParameters(UpdatedWindow(s, bytes), "kParametersRetransmit")
      BY <1>1, <2>1 DEF RxBadOffset
    <2> QED  BY <2>2, <2>3, SendOutcome
  <1>2. CASE RxTooMuchData(r, bytes, c) \/ RxWriteFails(r, bytes, c)
    BY <1>2, RxFinishOutcome DEF RxTooMuchData, RxWriteFails
  <1>3. CASE RxFinalChunk(r, bytes, c)
    <2>1. RxFinish([r EXCEPT !.last_chunk_offset = c.offset], "OK", 1)
      BY <1>3 DEF RxFinalChunk
    <2> QED  BY <2>1, WindowState, RxFinishOutcome
  <1>4. PICK a : a = Advanced(r, c)
    OBVIOUS
  <1>5. HasState(a) /\ HasState(UpdatedWindow(a, bytes \o c.data))
    BY <1>4, WindowState
  <1>6. CASE RxNextWindow(r, bytes, c) \/ RxExtendWindow(r, bytes, c)
    BY <1>4, <1>5, <1>6, SendOutcome DEF RxNextWindow, RxExtendWindow
  <1>7. CASE RxKeepWindow(r, bytes, c)
    BY <1>4, <1>5, <1>7 DEF RxKeepWindow, RxOutcome
  <1> QED  BY <1>1, <1>2, <1>3, <1>6, <1>7 DEF HandleReceivedData

\* Context::HandleReceiveChunk; an ended receiver stays as it is.
LEMMA ReceiveOutcome ==
    ASSUME NEW r, HasState(r), NEW bytes, NEW c, HandleReceiveChunk(r, bytes, c)
    PROVE  RxOutcome /\ (Active(r) \/ (rx' = r /\ result' = result))
  <1>1. CASE r.state = "kCompleted" /\ rx' = r /\ result' = result
    BY <1>1 DEF RxOutcome
  <1>2. CASE r.state = "kRecovery" /\ RxRecovering(r, bytes, c)
    <2>1. PICK s : s = [r EXCEPT !.last_chunk_offset = c.offset]
      OBVIOUS
    <2>2. HasState(s) /\ HasState(UpdatedWindow(s, bytes)) /\ Active(r)
      BY <1>2, <2>1, WindowState DEF Active
    <2>3. \/ RxSendParameters(UpdatedWindow(s, bytes), "kParametersRetransmit")
          \/ rx' = s /\ result' = result
      BY <1>2, <2>1 DEF RxRecovering
    <2> QED  BY <2>2, <2>3, SendOutcome DEF RxOutcome
  <1>3. CASE r.state = "kRecovery" /\ HandleReceivedData([r EXCEPT !.state = "kWaiting"], bytes, c)
    BY <1>3, WindowState, ReceivedDataOutcome DEF Active
  <1>4. CASE r.state = "kWaiting" /\ HandleReceivedData(r, bytes, c)
    BY <1>4, ReceivedDataOutcome DEF Active
  <1> QED  BY <1>1, <1>2, <1>3, <1>4 DEF HandleReceiveChunk

\* Context::Finish of a transmitter.
LEMMA TxFinishOutcome ==
    ASSUME NEW t, HasState(t), NEW status, NEW n, TxFinish(t, status, n)
    PROVE  TxOutcome
  BY EndedState DEF TxFinish, TxOutcome

\* Context::TransmitNextChunk.
LEMMA TransmitOutcome ==
    ASSUME NEW t, HasState(t), NEW pos, NEW requested, TransmitNextChunk(t, pos, requested)
    PROVE  TxOutcome
  <1>1. ASSUME NEW u, HasState(u), NEW c, TxSend(u, c) PROVE TxOutcome
    <2>1. CASE /\ tx' = [u EXCEPT !.data_sent = TRUE,
                                  !.state = IF u.offset = u.window_end_offset
                                            THEN "kWaiting" ELSE u.state]
               /\ result' = result
      BY <1>1, <2>1 DEF TxOutcome, HasState
    <2>2. CASE TxFinish(u, "DATA_LOSS", 1)
      BY <1>1, <2>2, TxFinishOutcome
    <2> QED  BY <1>1, <2>1, <2>2 DEF TxSend
  <1>2. CASE TransmitFinalChunk(t, pos)
    <2>1. PICK u : u = [t EXCEPT !.window_end_offset = t.offset]
      OBVIOUS
    <2>2. HasState(u)
      BY <2>1 DEF HasState
    <2>3. \E c : TxSend(u, c)
      BY <1>2, <2>1 DEF TransmitFinalChunk
    <2> QED  BY <1>1, <2>2, <2>3
  <1>3. CASE TransmitNothing(t, pos, requested)
    <2>1. TxFinish(t, "RESOURCE_EXHAUSTED", 1) \/ (tx' = t /\ result' = result)
      BY <1>3 DEF TransmitNothing
    <2> QED  BY <2>1, TxFinishOutcome DEF TxOutcome
  <1>4. CASE TransmitData(t, pos)
    <2>1. \E n, c : TxSend([t EXCEPT !.last_chunk_offset = t.offset, !.offset = t.offset + n], c)
      BY <1>4 DEF TransmitData
    <2>2. PICK n, c : TxSend([t EXCEPT !.last_chunk_offset = t.offset, !.offset = t.offset + n], c)
      BY <2>1
    <2>3. PICK u : u = [t EXCEPT !.last_chunk_offset = t.offset, !.offset = t.offset + n]
      OBVIOUS
    <2>4. HasState(u)
      BY <2>3 DEF HasState
    <2> QED  BY <1>1, <2>2, <2>3, <2>4
  <1>5. CASE TransmitReadFails(t, pos)
    BY <1>5, TxFinishOutcome DEF TransmitReadFails
  <1> QED  BY <1>2, <1>3, <1>4, <1>5 DEF TransmitNextChunk

\* Context::HandleTransmitChunk.
LEMMA TransmitChunkOutcome ==
    ASSUME NEW t, HasState(t), NEW pos, NEW c, HandleTransmitChunk(t, pos, c)
    PROVE  TxOutcome /\ (Active(t) \/ (~Active(tx') /\ result' = result))
  <1>1. CASE t.state = "kCompleted"
    <2>1. result' = result /\ \E s : tx' = [t EXCEPT !.status = s]
      BY <1>1 DEF HandleTransmitChunk
    <2>2. HasState(tx') /\ tx'.state = "kCompleted"
      BY <1>1, <2>1 DEF HasState
    <2> QED  BY <2>1, <2>2 DEF TxOutcome, Active
  <1>2. CASE t.state \in {"kWaiting", "kTransmitting"} /\ HandleTransferParametersUpdate(t, pos, c)
    <2>0. Active(t)
      BY <1>2 DEF Active
    <2>1. ASSUME NEW u, HasState(u), NEW p, NEW q, TransmitNextChunk(u, p, q) PROVE TxOutcome
      BY <2>1, TransmitOutcome
    <2>2. PICK u : u = [t EXCEPT !.window_end_offset = c.window_end_offset, !.state = "kTransmitting"]
      OBVIOUS
    <2>3. PICK v : v = [t EXCEPT !.offset = c.offset, !.window_end_offset = c.offset + c.pending_bytes,
                                 !.state = "kTransmitting"]
      OBVIOUS
    <2>4. HasState(u) /\ HasState(v)
      BY <2>2, <2>3 DEF HasState
    <2>5. \/ TransmitNextChunk(u, pos, FALSE)
          \/ TransmitNextChunk(v, IF t.offset = c.offset THEN pos ELSE c.offset, TRUE)
          \/ TxFinish(t, "UNIMPLEMENTED", 1)
      BY <1>2, <2>2, <2>3 DEF HandleTransferParametersUpdate
    <2> QED  BY <2>0, <2>1, <2>4, <2>5, TxFinishOutcome
  <1> QED  BY <1>1, <1>2 DEF HandleTransmitChunk

\* The outcome is settled, and what that rests on.
OutcomeInv ==
  /\ HasState(rx) /\ HasState(tx) /\ cfg.dir \in {"read", "write"} /\ transfers \in Nat
  /\ Settled

\* What a step other than the start of a transfer may do to the outcome.
RxMoves ==
  /\ HasState(rx') /\ tx' = tx /\ cfg' = cfg /\ transfers' = transfers
  /\ ClientReceives => (Active(rx') => Active(rx))
  /\ result' = result \/ (ClientReceives /\ Active(rx) /\ ~Active(rx'))
TxMoves ==
  /\ HasState(tx') /\ rx' = rx /\ cfg' = cfg /\ transfers' = transfers
  /\ ClientTransmits => (Active(tx') => Active(tx))
  /\ result' = result \/ (ClientTransmits /\ Active(tx) /\ ~Active(tx'))

\* Handler::PrepareRead and PrepareWrite.
LEMMA PreparedState ==
    ASSUME NEW r, HasState(r), NEW s \in Prepared(r)
    PROVE  HasState(s)
  BY EndedState DEF Prepared

\* Context::Initialize.
LEMMA NewState == HasState(NewRx) /\ HasState(NewTx) /\ HasState(UpdatedWindow(NewRx, NoBytes))
  <1>1. HasState(NewRx) /\ HasState(NewTx)
    BY DEF HasState, NewRx, NewTx
  <1> QED  BY <1>1, WindowState

\* A chunk has been received.
LEMMA HeardState ==
    ASSUME NEW r, HasState(r), NEW h, h = Heard(r)
    PROVE  HasState(h) /\ (Active(h) <=> Active(r))
  BY DEF HasState, Heard, Active

\* A chunk arrives at the receiver.
LEMMA RxReceiveMoves ==
    ASSUME OutcomeInv, RxReceive
    PROVE  RxMoves
  <1> DEFINE c == Head(toRx)
  <1>1. UNCHANGED <<cfg, tx, transfers>> /\ HasState(rx)
    BY DEF RxReceive, OutcomeInv
  <1>2. \/ ClientTransmits /\ \E r \in Prepared(NewRx) : HandleReceiveChunk(r, NoBytes, c)
        \/ RxStatusChunk(Heard(rx), c)
        \/ HandleReceiveChunk(Heard(rx), output, c)
        \/ UNCHANGED <<rx, result>>
    BY DEF RxReceive
  <1> HIDE DEF c
  <1>3. PICK h : h = Heard(rx)
    OBVIOUS
  <1>4. HasState(h) /\ (Active(h) <=> Active(rx))
    BY <1>1, <1>3, HeardState
  <1>5. CASE ClientTransmits /\ \E r \in Prepared(NewRx) : HandleReceiveChunk(r, NoBytes, c)
    <2>1. PICK r \in Prepared(NewRx) : HandleReceiveChunk(r, NoBytes, c)
      BY <1>5
    <2>2. RxOutcome /\ ~ClientReceives
      BY <1>5, <2>1, NewState, PreparedState, ReceiveOutcome DEF ClientTransmits, ClientReceives
    <2> QED  BY <1>1, <2>2 DEF RxMoves, RxOutcome
  <1>6. CASE RxStatusChunk(h, c)
    <2>1. CASE Active(h) /\ RxFinish(h, c.status, 0)
      <3>1. RxOutcome
        BY <1>4, <2>1, RxFinishOutcome
      <3> QED  BY <1>1, <1>4, <2>1, <3>1 DEF RxMoves, RxOutcome
    <2>2. CASE rx' = h /\ result' = result
      BY <1>1, <1>4, <2>2 DEF RxMoves
    <2> QED  BY <1>6, <2>1, <2>2 DEF RxStatusChunk
  <1>7. CASE HandleReceiveChunk(h, output, c)
    <2>1. RxOutcome /\ (Active(h) \/ (rx' = h /\ result' = result))
      BY <1>4, <1>7, ReceiveOutcome
    <2> QED  BY <1>1, <1>4, <2>1 DEF RxMoves, RxOutcome
  <1>8. CASE UNCHANGED <<rx, result>>
    BY <1>1, <1>8 DEF RxMoves
  <1> QED  BY <1>2, <1>3, <1>5, <1>6, <1>7, <1>8

\* A chunk arrives at the transmitter.
LEMMA TxReceiveMoves ==
    ASSUME OutcomeInv, TxReceive
    PROVE  TxMoves
  <1> DEFINE c == Head(toTx)
  <1>1. UNCHANGED <<cfg, rx, transfers>> /\ HasState(tx)
    BY DEF TxReceive, OutcomeInv
  <1>2. \/ ClientReceives /\ \E t \in Prepared(NewTx) : HandleTransmitChunk(t, 0, c)
        \/ TxStatusChunk(Heard(tx), c)
        \/ HandleTransmitChunk(Heard(tx), readPos, c)
        \/ UNCHANGED <<tx, result>>
    BY DEF TxReceive
  <1> HIDE DEF c
  <1>3. PICK h : h = Heard(tx)
    OBVIOUS
  <1>4. HasState(h) /\ (Active(h) <=> Active(tx))
    BY <1>1, <1>3, HeardState
  <1>5. CASE ClientReceives /\ \E t \in Prepared(NewTx) : HandleTransmitChunk(t, 0, c)
    <2>1. PICK t \in Prepared(NewTx) : HandleTransmitChunk(t, 0, c)
      BY <1>5
    <2>2. TxOutcome /\ ~ClientTransmits
      BY <1>5, <2>1, NewState, PreparedState, TransmitChunkOutcome DEF ClientTransmits, ClientReceives
    <2> QED  BY <1>1, <2>2 DEF TxMoves, TxOutcome
  <1>6. CASE TxStatusChunk(h, c)
    <2>1. CASE Active(h) /\ TxFinish(h, c.status, 0)
      <3>1. TxOutcome
        BY <1>4, <2>1, TxFinishOutcome
      <3> QED  BY <1>1, <1>4, <2>1, <3>1 DEF TxMoves, TxOutcome
    <2>2. CASE tx' = h /\ result' = result
      BY <1>1, <1>4, <2>2 DEF TxMoves
    <2> QED  BY <1>6, <2>1, <2>2 DEF TxStatusChunk
  <1>7. CASE HandleTransmitChunk(h, readPos, c)
    <2>1. TxOutcome /\ (Active(h) \/ (~Active(tx') /\ result' = result))
      BY <1>4, <1>7, TransmitChunkOutcome
    <2> QED  BY <1>1, <1>4, <2>1 DEF TxMoves, TxOutcome
  <1>8. CASE UNCHANGED <<tx, result>>
    BY <1>1, <1>8 DEF TxMoves
  <1> QED  BY <1>2, <1>3, <1>5, <1>6, <1>7, <1>8

\* Timeouts and CancelTransfer.
LEMMA TimeoutMoves ==
    ASSUME OutcomeInv, RxTimeout \/ TxInterchunkTimeout \/ TxTimeout \/ ClientCancel
    PROVE  RxMoves \/ TxMoves
  <1>0. HasState(rx) /\ HasState(tx)
    BY DEF OutcomeInv
  <1>1. CASE RxTimeout
    <2>1. /\ UNCHANGED <<cfg, tx, transfers>> /\ Active(rx)
          /\ \/ RxFinish(rx, "DEADLINE_EXCEEDED", 1)
             \/ RxSendParameters([rx EXCEPT !.retries = rx.retries + 1], "kParametersRetransmit")
      BY <1>1 DEF RxTimeout, Active
    <2>2. HasState([rx EXCEPT !.retries = rx.retries + 1])
      BY <1>0 DEF HasState
    <2>3. RxOutcome
      BY <1>0, <2>1, <2>2, RxFinishOutcome, SendOutcome
    <2> QED  BY <2>1, <2>3 DEF RxMoves, RxOutcome
  <1>2. CASE TxInterchunkTimeout
    <2>1. UNCHANGED <<cfg, rx, transfers>> /\ Active(tx) /\ TransmitNextChunk(tx, readPos, FALSE)
      BY <1>2 DEF TxInterchunkTimeout, Active
    <2>2. TxOutcome
      BY <1>0, <2>1, TransmitOutcome
    <2> QED  BY <2>1, <2>2 DEF TxMoves, TxOutcome
  <1>3. CASE TxTimeout
    <2>1. UNCHANGED <<cfg, rx, transfers>> /\ Active(tx)
      BY <1>3 DEF TxTimeout, Active
    <2>2. PICK t : t = [tx EXCEPT !.retries = tx.retries + 1]
      OBVIOUS
    <2>3. PICK u : u = [t EXCEPT !.offset = t.last_chunk_offset]
      OBVIOUS
    <2>4. HasState(t) /\ HasState(u)
      BY <1>0, <2>2, <2>3 DEF HasState
    <2>5. \/ \E v \in {tx, t} : \E s : TxFinish(v, s, 1)
          \/ tx' = t /\ result' = result
          \/ TransmitNextChunk(u, t.last_chunk_offset, FALSE)
      BY <1>3, <2>2, <2>3 DEF TxTimeout
    <2>6. TxOutcome
      BY <1>0, <2>4, <2>5, TxFinishOutcome, TransmitOutcome DEF TxOutcome
    <2> QED  BY <2>1, <2>6 DEF TxMoves, TxOutcome
  <1>4. CASE ClientCancel
    <2>1. /\ UNCHANGED <<cfg, transfers>>
          /\ \/ Active(rx) /\ RxFinish(rx, "CANCELLED", 1) /\ tx' = tx
             \/ Active(tx) /\ TxFinish(tx, "CANCELLED", 1) /\ rx' = rx
      BY <1>4 DEF ClientCancel
    <2>2. CASE Active(rx) /\ RxFinish(rx, "CANCELLED", 1) /\ tx' = tx
      <3>1. RxOutcome
        BY <1>0, <2>2, RxFinishOutcome
      <3> QED  BY <2>1, <2>2, <3>1 DEF RxMoves, RxOutcome
    <2>3. CASE Active(tx) /\ TxFinish(tx, "CANCELLED", 1) /\ rx' = rx
      <3>1. TxOutcome
        BY <1>0, <2>3, TxFinishOutcome
      <3> QED  BY <2>1, <2>3, <3>1 DEF TxMoves, TxOutcome
    <2> QED  BY <2>1, <2>2, <2>3
  <1> QED  BY <1>1, <1>2, <1>3, <1>4

\* The outcome of a step.
FinalStep == result \notin Unfinished => (result' = result \/ transfers' > transfers)

\* The invariant is inductive, and an outcome stays.
LEMMA OutcomeStep ==
    ASSUME OutcomeInv, [Next]_vars
    PROVE  OutcomeInv' /\ FinalStep
  <1>0. /\ HasState(rx) /\ HasState(tx) /\ cfg.dir \in {"read", "write"} /\ transfers \in Nat
        /\ Settled
    BY DEF OutcomeInv
  <1>1. CASE RxMoves \/ TxMoves
    <2>1. Settled' /\ FinalStep
      BY <1>0, <1>1 DEF RxMoves, TxMoves, Settled, FinalStep, ClientReceives, ClientTransmits
    <2> QED  BY <1>0, <1>1, <2>1 DEF OutcomeInv, RxMoves, TxMoves
  <1>2. CASE UNCHANGED <<cfg, tx, rx, transfers, result>>
    BY <1>0, <1>2 DEF OutcomeInv, Settled, FinalStep, Active
  <1>3. CASE ClientStart
    <2>1. transfers' = transfers + 1 /\ cfg' = cfg
      BY <1>3 DEF ClientStart
    <2>2. PICK r : r = UpdatedWindow(NewRx, NoBytes)
      OBVIOUS
    <2>3. HasState(r) /\ HasState(NewTx)
      BY <2>2, NewState
    <2>4. \/ /\ ClientReceives /\ tx' = tx
             /\ \/ rx' = r /\ result' \in Unfinished
                \/ rx' = Completed(r, "INTERNAL") /\ result' = "INTERNAL"
          \/ /\ ClientTransmits /\ rx' = rx
             /\ \/ tx' = NewTx /\ result' \in Unfinished
                \/ tx' = Completed(NewTx, "INTERNAL") /\ result' = "INTERNAL"
      BY <1>3, <2>2 DEF ClientStart, Unfinished
    <2>5. HasState(rx') /\ HasState(tx')
      BY <1>0, <2>3, <2>4, EndedState
    <2>6. Settled'
      BY <2>1, <2>3, <2>4, EndedState DEF Settled, ClientReceives, ClientTransmits
    <2>7. transfers' \in Nat /\ transfers' > transfers
      BY <1>0, <2>1
    <2> QED  BY <1>0, <2>1, <2>5, <2>6, <2>7 DEF OutcomeInv, FinalStep
  <1>4. CASE Lose \/ LinkDown \/ UNCHANGED vars
    BY <1>2, <1>4 DEF Lose, LinkDown, vars
  <1> QED  BY <1>1, <1>3, <1>4, RxReceiveMoves, TxReceiveMoves, TimeoutMoves DEF Next

\* Once Context::Finish has told the client how its transfer ended, no late chunk,
\* timeout or cancellation tells it anything else, until the client starts the next
\* transfer. Where a transfer replaces an active one, Context::HandleEvent first tells the
\* new on_completion ABORTED; what it is told after that is final. For any number of
\* transfers of one session id.
THEOREM CompletionsAreFinal == Spec => CompletionIsFinal
  <1>1. Init => OutcomeInv
    <2> SUFFICES ASSUME Init PROVE OutcomeInv
      OBVIOUS
    <2>1. HasState(rx) /\ HasState(tx)
      BY DEF Init, HasState, NewRx, NewTx
    <2>2. cfg.dir \in {"read", "write"} /\ transfers = 0 /\ result = NoStatus
      BY ParametersAssumption DEF Init
    <2> QED  BY <2>1, <2>2 DEF OutcomeInv, Settled, Unfinished
  <1>2. OutcomeInv /\ [Next]_vars => OutcomeInv'
    BY OutcomeStep
  <1>3. OutcomeInv /\ [Next]_vars => [FinalStep]_vars
    BY OutcomeStep
  <1>4. Spec => [][FinalStep]_vars
    BY <1>1, <1>2, <1>3, PTL DEF Spec
  <1> QED  BY <1>4 DEF CompletionIsFinal, FinalStep, Unfinished
=============================================================================
