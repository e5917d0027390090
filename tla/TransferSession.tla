--------------------------- MODULE TransferSession ---------------------------
(***************************************************************************)
(* One pw_transfer session: the Context of the transmitter and the Context *)
(* of the receiver (pw_transfer/context.cc), joined by the two RPC streams *)
(* that carry their chunks.  In a read transfer the client receives and    *)
(* the server transmits, in a write transfer it is the other way round;    *)
(* cfg.dir says which.                                                     *)
(*                                                                         *)
(* The streams deliver in order and may lose any chunk (Lose), a bounded   *)
(* number of times while the link is up and always once it is down.        *)
(*                                                                         *)
(* A byte of the resource is <<transfer, position>>, so that bytes that    *)
(* end up at the wrong place, or that belong to an earlier transfer, show. *)
(* Times are left out: an active context always has a timeout pending, so  *)
(* a timeout may fire in any active state.  With PrematureTimeouts FALSE   *)
(* the chunk timeout is longer than a round trip: it fires only when       *)
(* nothing is in flight and the peer is not in the middle of a window.     *)
(*                                                                         *)
(* Left out of Context: pending_bytes_ of a transmitter (written, never    *)
(* read), max_chunk_size_bytes_ (a constant here), the rate estimate and   *)
(* the logging.                                                            *)
(***************************************************************************)
EXTENDS Integers, Sequences

CONSTANTS
    Dirs,                 \* transfer directions explored: subset of {"read", "write"}
    Sizes,                \* sizes of the transferred resource, in bytes
    Capacities,           \* how many bytes the receiver's writer can take
    Seekable,             \* subset of BOOLEAN: can the transmitter's reader seek?
    PendingBytes,         \* TransferParameters::pending_bytes()
    MaxChunkSize,         \* TransferParameters::max_chunk_size_bytes()
    ExtendWindowDivisor,  \* TransferParameters::extend_window_divisor()
    MaxRetries,           \* max_retries_
    Faults,               \* failures that may occur: see FaultKinds
    PrematureTimeouts,    \* may a timeout fire while an answer is on its way?
    MaxTransfers,         \* bound: transfers the client starts, one after another
    MaxLosses,            \* bound: chunks lost while the link is up
    MaxInFlight           \* bound: chunks in flight, so that timers do not add without end

FaultKinds ==
    {"prepare", "finalize", "read", "shortread", "write", "rpc", "cancel", "linkdown"}

ASSUME ParametersAssumption ==
    /\ Dirs \subseteq {"read", "write"}
    /\ Sizes \subseteq Nat
    /\ Capacities \subseteq Nat
    /\ Seekable \subseteq BOOLEAN
    /\ PendingBytes \in Nat \ {0}
    /\ MaxChunkSize \in Nat \ {0}
    /\ ExtendWindowDivisor \in Nat \ {0, 1}
    /\ MaxRetries \in Nat \ {0}
    /\ Faults \subseteq FaultKinds
    /\ PrematureTimeouts \in BOOLEAN
    /\ MaxTransfers \in Nat /\ MaxLosses \in Nat /\ MaxInFlight \in Nat \ {0}

VARIABLES
    cfg,        \* what is transferred, and in which direction; fixed by Init
    tx,         \* the transmitting Context
    rx,         \* the receiving Context
    readPos,    \* position of the transmitter's stream::Reader
    output,     \* bytes accepted by the receiver's stream::Writer
    toRx,       \* chunks on their way to the receiver
    toTx,       \* chunks on their way to the transmitter
    transfers,  \* transfers the client has started
    result,     \* status passed to on_completion for the current transfer
    losses,     \* chunks lost so far while the link was up
    linkUp

vars == <<cfg, tx, rx, readPos, output, toRx, toTx,
          transfers, result, losses, linkUp>>

-----------------------------------------------------------------------------
(* Status codes, contexts and chunks                                       *)

Statuses == {"OK", "ABORTED", "CANCELLED", "DATA_LOSS", "DEADLINE_EXCEEDED",
             "FAILED_PRECONDITION", "INTERNAL", "PERMISSION_DENIED",
             "RESOURCE_EXHAUSTED", "UNIMPLEMENTED"}
NoStatus == "none"

States == {"kInactive", "kCompleted", "kWaiting", "kTransmitting", "kRecovery"}

Active(c) == c.state \in {"kWaiting", "kTransmitting", "kRecovery"}

\* Context::Initialize
NewTx == [state |-> "kWaiting", offset |-> 0, window_end_offset |-> 0,
          last_chunk_offset |-> 0, data_sent |-> FALSE, retries |-> 0,
          status |-> NoStatus]
NewRx == [state |-> "kWaiting", offset |-> 0, window_size |-> 0,
          window_end_offset |-> 0, pending_bytes |-> 0,
          last_chunk_offset |-> 0, retries |-> 0, status |-> NoStatus]

\* status_ and last_chunk_offset_ share storage: completing overwrites the offset.
Completed(c, status) ==
    [c EXCEPT !.state = "kCompleted", !.status = status, !.last_chunk_offset = 0]

Heard(c) == [c EXCEPT !.retries = 0]

NoBytes == << >>

DataChunk(offset, data, final) ==
    [type |-> "kTransferData", offset |-> offset, data |-> data,
     final |-> final, status |-> NoStatus]
InitialTransmitChunk ==
    [type |-> "kTransferStart", offset |-> 0, data |-> NoBytes,
     final |-> FALSE, status |-> NoStatus]
ParametersChunk(type, r) ==
    [type |-> type, offset |-> r.offset, pending_bytes |-> r.pending_bytes,
     window_end_offset |-> r.window_end_offset, status |-> NoStatus]
\* EncodeChunk leaves absent fields out and DecodeChunk reads them as zero.
FinalStatusToRx(status) ==
    [type |-> "kTransferCompletion", offset |-> 0, data |-> NoBytes,
     final |-> FALSE, status |-> status]
FinalStatusToTx(status) ==
    [type |-> "kTransferCompletion", offset |-> 0, pending_bytes |-> 0,
     window_end_offset |-> 0, status |-> status]

\* Chunk::IsInitialChunk; a chunk to the transmitter never carries data.
IsInitialToRx(c) ==
    c.type = "kTransferStart" \/ (c.offset = 0 /\ c.data = NoBytes /\ c.status = NoStatus)
IsInitialToTx(c) ==
    c.type = "kTransferStart" \/ (c.offset = 0 /\ c.status = NoStatus)

ClientReceives == cfg.dir = "read"
ClientTransmits == cfg.dir = "write"

\* What the reader yields: a client writes new bytes in each of its transfers.
Resource == [i \in 1..cfg.size |-> <<IF ClientTransmits THEN transfers ELSE 1, i>>]

-----------------------------------------------------------------------------
(* The receiver                                                            *)

\* Finish(): FinalCleanup runs on_completion on the client and FinalizeWrite
\* on the server, whose failure turns an OK into DATA_LOSS.
RxFinish(r, status, chunks) ==
    \E final \in {status} \cup (IF "finalize" \in Faults /\ ~ClientReceives /\ status = "OK"
                                THEN {"DATA_LOSS"} ELSE {}) :
        /\ rx' = Completed(r, final)
        /\ result' = IF ClientReceives THEN final ELSE result
        /\ toTx' = toTx \o [i \in 1..chunks |-> FinalStatusToTx(final)]

\* SendTransferParameters; EncodeAndSendChunk ends the transfer if the RPC
\* write fails, and the callers that check for kCompleted then report it.
RxSendParameters(r, type) ==
    \/ /\ rx' = r
       /\ toTx' = Append(toTx, ParametersChunk(type, r))
       /\ UNCHANGED result
    \/ /\ "rpc" \in Faults
       /\ RxFinish(r, "INTERNAL", 1)

\* Mutant of UpdatedWindow: the window moves, pending_bytes_ does not.
UpdatedWindowStalePending(r, bytes) ==
    [r EXCEPT !.window_size = PendingBytes, !.window_end_offset = r.offset + PendingBytes,
              !.pending_bytes = IF r.pending_bytes = 0 THEN PendingBytes ELSE r.pending_bytes]

\* UpdateAndSendTransferParameters: the window that starts at the current
\* offset and that the writer can hold.
UpdatedWindow(r, bytes) ==
    LET room == cfg.cap - Len(bytes)
        pending == IF room < PendingBytes THEN room ELSE PendingBytes
    IN  [r EXCEPT !.window_size = pending,
                  !.window_end_offset = r.offset + pending,
                  !.pending_bytes = pending]

\* HandleReceivedData in state kWaiting.  `bytes' is the writer's contents.
RxBadOffset(r, bytes, c) ==
    /\ c.offset # r.offset
    /\ RxSendParameters(UpdatedWindow([r EXCEPT !.state = "kRecovery"], bytes),
                        "kParametersRetransmit")
    /\ output' = bytes

RxTooMuchData(r, bytes, c) ==
    /\ c.offset = r.offset
    /\ Len(c.data) > r.pending_bytes
    /\ RxFinish(r, "INTERNAL", 1)
    /\ output' = bytes

RxWriteFails(r, bytes, c) ==
    /\ c.offset = r.offset
    /\ Len(c.data) <= r.pending_bytes
    /\ c.data # NoBytes
    /\ "write" \in Faults \/ Len(bytes) + Len(c.data) > cfg.cap
    /\ RxFinish(r, "DATA_LOSS", 1)
    /\ output' = bytes

RxAccepts(r, bytes, c) ==
    /\ c.offset = r.offset
    /\ Len(c.data) <= r.pending_bytes
    /\ c.data # NoBytes => Len(bytes) + Len(c.data) <= cfg.cap
    /\ output' = bytes \o c.data

\* Mutant of RxFinalChunk: the final chunk is believed at any offset.
RxFinalChunkAnyOffset(r, bytes, c) ==
    /\ c.final
    /\ output' = bytes \o c.data
    /\ RxFinish([r EXCEPT !.last_chunk_offset = c.offset], "OK", 1)

RxFinalChunk(r, bytes, c) ==
    /\ RxAccepts(r, bytes, c)
    /\ c.final
    /\ RxFinish([r EXCEPT !.last_chunk_offset = c.offset], "OK", 1)

Advanced(r, c) ==
    [r EXCEPT !.last_chunk_offset = c.offset,
              !.offset = r.offset + Len(c.data),
              !.pending_bytes = r.pending_bytes - Len(c.data)]

ExtendWindow(r) ==
    r.window_end_offset - r.offset <= r.window_size \div ExtendWindowDivisor

\* The whole window has arrived: ask for the next one.
RxNextWindow(r, bytes, c) ==
    LET a == Advanced(r, c) IN
    /\ RxAccepts(r, bytes, c)
    /\ ~c.final
    /\ a.pending_bytes = 0
    /\ RxSendParameters(UpdatedWindow(a, bytes \o c.data), "kParametersRetransmit")

\* Enough of the window has arrived: extend it, so that the transmitter
\* need not stop.
RxExtendWindow(r, bytes, c) ==
    LET a == Advanced(r, c) IN
    /\ RxAccepts(r, bytes, c)
    /\ ~c.final
    /\ a.pending_bytes # 0
    /\ ExtendWindow(a)
    /\ RxSendParameters(UpdatedWindow(a, bytes \o c.data), "kParametersContinue")

RxKeepWindow(r, bytes, c) ==
    LET a == Advanced(r, c) IN
    /\ RxAccepts(r, bytes, c)
    /\ ~c.final
    /\ a.pending_bytes # 0
    /\ ~ExtendWindow(a)
    /\ rx' = a
    /\ UNCHANGED <<toTx, result>>

HandleReceivedData(r, bytes, c) ==
    \/ RxBadOffset(r, bytes, c)
    \/ RxTooMuchData(r, bytes, c)
    \/ RxWriteFails(r, bytes, c)
    \/ RxFinalChunk(r, bytes, c)
    \/ RxNextWindow(r, bytes, c)
    \/ RxExtendWindow(r, bytes, c)
    \/ RxKeepWindow(r, bytes, c)

\* Mutant of RxRecovering: a repeated wrong offset is not answered.
RxRecoveringDeaf(r, bytes, c) ==
    /\ c.offset # r.offset
    /\ output' = bytes
    /\ rx' = [r EXCEPT !.last_chunk_offset = c.offset]
    /\ UNCHANGED <<toTx, result>>

\* HandleReceiveChunk in state kRecovery, for a chunk that is not the one
\* waited for.  The same wrong offset twice in a row is a retry of the
\* transmitter, which must be told again where to resume.
RxRecovering(r, bytes, c) ==
    LET seen == [r EXCEPT !.last_chunk_offset = c.offset] IN
    /\ c.offset # r.offset
    /\ output' = bytes
    /\ \/ /\ r.last_chunk_offset = c.offset
          /\ RxSendParameters(UpdatedWindow(seen, bytes), "kParametersRetransmit")
       \/ /\ r.last_chunk_offset # c.offset
          /\ rx' = seen
          /\ UNCHANGED <<toTx, result>>

HandleReceiveChunk(r, bytes, c) ==
    \/ /\ r.state = "kCompleted"
       /\ rx' = r
       /\ toTx' = Append(toTx, FinalStatusToTx(r.status))
       /\ output' = bytes
       /\ UNCHANGED result
    \/ /\ r.state = "kRecovery"
       /\ RxRecovering(r, bytes, c)
    \/ /\ r.state = "kRecovery"
       /\ c.offset = r.offset
       /\ HandleReceivedData([r EXCEPT !.state = "kWaiting"], bytes, c)
    \/ /\ r.state = "kWaiting"
       /\ HandleReceivedData(r, bytes, c)

\* Mutant of RxStatusChunk: a status chunk ends the transfer again.
RxStatusChunkFinishesAgain(r, c) ==
    /\ c.status # NoStatus
    /\ UNCHANGED output
    /\ RxFinish(r, c.status, 0)

\* HandleChunkEvent for a chunk that carries a status.
RxStatusChunk(r, c) ==
    /\ c.status # NoStatus
    /\ UNCHANGED output
    /\ \/ Active(r) /\ RxFinish(r, c.status, 0)
       \/ ~Active(r) /\ rx' = r /\ UNCHANGED <<toTx, result>>

\* Handler::Prepare on the server makes the stream ready, at its beginning;
\* a failure completes the new transfer before its first chunk is handled.
Prepared(new) ==
    {new} \cup (IF "prepare" \in Faults
                THEN {Completed(new, "DATA_LOSS"), Completed(new, "PERMISSION_DENIED")}
                ELSE {})

\* TransferService::HandleChunk, then Context::HandleEvent: an initial chunk
\* (re)starts the server's transfer, aborting the one that is active.
RxReceive ==
    /\ linkUp
    /\ toRx # << >>
    /\ toRx' = Tail(toRx)
    /\ LET c == Head(toRx) IN
       \/ /\ ClientTransmits /\ IsInitialToRx(c)
          /\ \E r \in Prepared(NewRx) : HandleReceiveChunk(r, NoBytes, c)
       \/ /\ ~(ClientTransmits /\ IsInitialToRx(c))
          /\ rx.state # "kInactive"
          /\ \/ RxStatusChunk(Heard(rx), c)
             \/ c.status = NoStatus /\ HandleReceiveChunk(Heard(rx), output, c)
       \/ /\ ~(ClientTransmits /\ IsInitialToRx(c))
          /\ rx.state = "kInactive"
          /\ UNCHANGED <<rx, output, toTx, result>>
    /\ UNCHANGED <<cfg, tx, readPos, transfers, losses, linkUp>>

-----------------------------------------------------------------------------
(* The transmitter                                                         *)

TxFinish(t, status, chunks) ==
    /\ tx' = Completed(t, status)
    /\ result' = IF ClientTransmits THEN status ELSE result
    /\ toRx' = toRx \o [i \in 1..chunks |-> FinalStatusToRx(status)]

\* The tail of TransmitNextChunk: the chunk is out, wait for parameters when
\* it closes the window.
TxSend(t, c) ==
    \/ /\ tx' = [t EXCEPT !.data_sent = TRUE,
                          !.state = IF t.offset = t.window_end_offset
                                    THEN "kWaiting" ELSE t.state]
       /\ toRx' = Append(toRx, c)
       /\ UNCHANGED result
    \/ /\ "rpc" \in Faults
       /\ TxFinish(t, "DATA_LOSS", 1)

\* Read() at the end of the resource returns OUT_OF_RANGE.
TransmitFinalChunk(t, pos) ==
    /\ pos = cfg.size
    /\ TxSend([t EXCEPT !.window_end_offset = t.offset], DataChunk(t.offset, NoBytes, TRUE))
    /\ readPos' = pos

\* There is data to send but no window to send it in.
TransmitNothing(t, pos, retransmitRequested) ==
    /\ pos < cfg.size
    /\ t.offset = t.window_end_offset
    /\ readPos' = pos
    /\ \/ /\ retransmitRequested
          /\ TxFinish(t, "RESOURCE_EXHAUSTED", 1)
       \/ /\ ~retransmitRequested
          /\ tx' = t
          /\ UNCHANGED <<toRx, result>>

\* A read may return fewer bytes than there is room for.
TransmitData(t, pos) ==
    LET window == t.window_end_offset - t.offset  \* uint32_t: below zero is huge
        room == IF window \in 0..MaxChunkSize THEN window ELSE MaxChunkSize
        most == IF pos + room <= cfg.size THEN room ELSE cfg.size - pos
    IN
    /\ pos < cfg.size
    /\ t.offset # t.window_end_offset
    /\ \E n \in 1..most :
        /\ n = most \/ "shortread" \in Faults
        /\ readPos' = pos + n
        /\ TxSend([t EXCEPT !.last_chunk_offset = t.offset, !.offset = t.offset + n],
                  DataChunk(t.offset, SubSeq(Resource, pos + 1, pos + n), FALSE))

TransmitReadFails(t, pos) ==
    /\ "read" \in Faults
    /\ TxFinish(t, "DATA_LOSS", 1)
    /\ readPos' = pos

TransmitNextChunk(t, pos, retransmitRequested) ==
    \/ TransmitFinalChunk(t, pos)
    \/ TransmitNothing(t, pos, retransmitRequested)
    \/ TransmitData(t, pos)
    \/ TransmitReadFails(t, pos)

\* Mutant of HandleTransferParametersUpdate: the offset moves, the reader does not.
ParametersUpdateWithoutSeek(t, pos, c) ==
    TransmitNextChunk([t EXCEPT !.offset = c.offset,
                                !.window_end_offset = c.offset + c.pending_bytes,
                                !.state = "kTransmitting"], pos, TRUE)

\* HandleTransferParametersUpdate.  A continuation only moves the end of the
\* window; anything else also moves the offset, which may need a seek.
HandleTransferParametersUpdate(t, pos, c) ==
    \/ /\ c.type = "kParametersContinue"
       /\ TransmitNextChunk([t EXCEPT !.window_end_offset = c.window_end_offset,
                                      !.state = "kTransmitting"], pos, FALSE)
    \/ /\ c.type # "kParametersContinue"
       /\ t.offset = c.offset \/ cfg.seekable
       /\ TransmitNextChunk([t EXCEPT !.offset = c.offset,
                                      !.window_end_offset = c.offset + c.pending_bytes,
                                      !.state = "kTransmitting"],
                            IF t.offset = c.offset THEN pos ELSE c.offset, TRUE)
    \/ /\ c.type # "kParametersContinue"
       /\ t.offset # c.offset
       /\ ~cfg.seekable
       /\ TxFinish(t, "UNIMPLEMENTED", 1)
       /\ readPos' = pos

HandleTransmitChunk(t, pos, c) ==
    \/ /\ t.state = "kCompleted"
       /\ LET status == IF IsInitialToTx(c) THEN t.status ELSE "FAILED_PRECONDITION" IN
          /\ tx' = [t EXCEPT !.status = status]
          /\ toRx' = Append(toRx, FinalStatusToRx(status))
       /\ readPos' = pos
       /\ UNCHANGED result
    \/ /\ t.state \in {"kWaiting", "kTransmitting"}
       /\ HandleTransferParametersUpdate(t, pos, c)

TxStatusChunk(t, c) ==
    /\ c.status # NoStatus
    /\ UNCHANGED readPos
    /\ \/ Active(t) /\ TxFinish(t, c.status, 0)
       \/ ~Active(t) /\ tx' = t /\ UNCHANGED <<toRx, result>>

TxReceive ==
    /\ linkUp
    /\ toTx # << >>
    /\ toTx' = Tail(toTx)
    /\ LET c == Head(toTx) IN
       \/ /\ ClientReceives /\ IsInitialToTx(c)
          /\ \E t \in Prepared(NewTx) : HandleTransmitChunk(t, 0, c)
       \/ /\ ~(ClientReceives /\ IsInitialToTx(c))
          /\ tx.state # "kInactive"
          /\ \/ TxStatusChunk(Heard(tx), c)
             \/ c.status = NoStatus /\ HandleTransmitChunk(Heard(tx), readPos, c)
       \/ /\ ~(ClientReceives /\ IsInitialToTx(c))
          /\ tx.state = "kInactive"
          /\ UNCHANGED <<tx, readPos, toRx, result>>
    /\ UNCHANGED <<cfg, rx, output, transfers, losses, linkUp>>

-----------------------------------------------------------------------------
(* The client starts and cancels                                           *)

\* HandleEvent(kNewClientTransfer) and InitiateTransferAsClient.  The
\* application hands over a fresh stream with each transfer.  The thread has
\* set the new on_completion already when the context aborts a transfer that
\* is still active, so it is the new one that is called with ABORTED.
ClientStart ==
    /\ transfers < MaxTransfers
    /\ transfers' = transfers + 1
    /\ \/ /\ ClientReceives
          /\ output' = NoBytes
          /\ LET r == UpdatedWindow(NewRx, NoBytes) IN
             \/ /\ rx' = r
                /\ toTx' = Append(toTx, ParametersChunk("kTransferStart", r))
                /\ result' = IF Active(rx) THEN "ABORTED" ELSE NoStatus
             \/ /\ "rpc" \in Faults
                /\ rx' = Completed(r, "INTERNAL")
                /\ result' = "INTERNAL"
                /\ UNCHANGED toTx
          /\ UNCHANGED <<tx, readPos, toRx>>
       \/ /\ ClientTransmits
          /\ readPos' = 0
          /\ \/ /\ tx' = NewTx
                /\ toRx' = Append(toRx, InitialTransmitChunk)
                /\ result' = IF Active(tx) THEN "ABORTED" ELSE NoStatus
             \/ /\ "rpc" \in Faults
                /\ tx' = Completed(NewTx, "INTERNAL")
                /\ result' = "INTERNAL"
                /\ UNCHANGED toRx
          /\ UNCHANGED <<rx, output, toTx>>
    /\ UNCHANGED <<cfg, losses, linkUp>>

\* Client::CancelTransfer: HandleEvent(kClientEndTransfer) with a status chunk.
ClientCancel ==
    /\ "cancel" \in Faults
    /\ \/ /\ ClientReceives
          /\ Active(rx)
          /\ RxFinish(rx, "CANCELLED", 1)
          /\ UNCHANGED <<tx, toRx>>
       \/ /\ ClientTransmits
          /\ Active(tx)
          /\ TxFinish(tx, "CANCELLED", 1)
          /\ UNCHANGED <<rx, toTx>>
    /\ UNCHANGED <<cfg, readPos, output, transfers, losses, linkUp>>

-----------------------------------------------------------------------------
(* Timeouts: HandleTimeout and Retry                                       *)

Quiet == toRx = << >> /\ toTx = << >>
MidWindow ==
    tx.state = "kTransmitting" /\ (tx.offset # tx.window_end_offset \/ readPos = cfg.size)
RoomInFlight == Len(toRx) + Len(toTx) < MaxInFlight

\* Mutant of RxTimeout: retries are not counted.
RxTimeoutUncounted ==
    /\ rx.state \in {"kWaiting", "kRecovery"}
    /\ PrematureTimeouts \/ (Quiet /\ ~MidWindow)
    /\ RoomInFlight
    /\ RxSendParameters(rx, "kParametersRetransmit")
    /\ UNCHANGED <<cfg, tx, readPos, output, toRx, transfers, losses, linkUp>>

RxTimeout ==
    /\ rx.state \in {"kWaiting", "kRecovery"}
    /\ PrematureTimeouts \/ (Quiet /\ ~MidWindow)
    /\ RoomInFlight
    /\ \/ /\ rx.retries = MaxRetries
          /\ RxFinish(rx, "DEADLINE_EXCEEDED", 1)
       \/ /\ rx.retries < MaxRetries
          /\ RxSendParameters([rx EXCEPT !.retries = rx.retries + 1], "kParametersRetransmit")
    /\ UNCHANGED <<cfg, tx, readPos, output, toRx, transfers, losses, linkUp>>

\* The inter-chunk delay is over: send the next chunk of the window.
TxInterchunkTimeout ==
    /\ tx.state = "kTransmitting"
    /\ RoomInFlight
    /\ TransmitNextChunk(tx, readPos, FALSE)
    /\ UNCHANGED <<cfg, rx, output, toTx, transfers, losses, linkUp>>

\* After a retry that did not fill the window the state is still kWaiting,
\* but the timeout is the short inter-chunk delay.
TxTimeout ==
    /\ tx.state = "kWaiting"
    /\ PrematureTimeouts \/ Quiet \/ tx.offset # tx.window_end_offset
    /\ RoomInFlight
    /\ \/ /\ tx.retries = MaxRetries
          /\ TxFinish(tx, "DEADLINE_EXCEEDED", 1)
          /\ UNCHANGED readPos
       \/ /\ tx.retries < MaxRetries
          /\ LET t == [tx EXCEPT !.retries = tx.retries + 1] IN
             \* No data sent yet: the initial parameters did not arrive.
             \/ /\ ~tx.data_sent
                /\ UNCHANGED readPos
                /\ \/ /\ tx' = t
                      /\ toRx' = Append(toRx, InitialTransmitChunk)
                      /\ UNCHANGED result
                   \/ /\ "rpc" \in Faults
                      /\ TxFinish(t, "INTERNAL", 1)
             \/ /\ tx.data_sent
                /\ ~cfg.seekable
                /\ TxFinish(t, "DEADLINE_EXCEEDED", 1)
                /\ UNCHANGED readPos
             \* Rewind and send the most recent chunk again.
             \/ /\ tx.data_sent
                /\ cfg.seekable
                /\ TransmitNextChunk([t EXCEPT !.offset = t.last_chunk_offset],
                                     t.last_chunk_offset, FALSE)
    /\ UNCHANGED <<cfg, rx, output, toTx, transfers, losses, linkUp>>

-----------------------------------------------------------------------------
(* The transport                                                           *)

Lose ==
    /\ ~linkUp \/ losses < MaxLosses
    /\ losses' = IF linkUp THEN losses + 1 ELSE losses
    /\ \/ /\ toRx # << >>
          /\ toRx' = Tail(toRx)
          /\ UNCHANGED toTx
       \/ /\ toTx # << >>
          /\ toTx' = Tail(toTx)
          /\ UNCHANGED toRx
    /\ UNCHANGED <<cfg, tx, rx, readPos, output, transfers, result, linkUp>>

LinkDown ==
    /\ "linkdown" \in Faults
    /\ linkUp
    /\ linkUp' = FALSE
    /\ UNCHANGED <<cfg, tx, rx, readPos, output, toRx, toTx,
                   transfers, result, losses>>

-----------------------------------------------------------------------------

Init ==
    /\ cfg \in [dir : Dirs, size : Sizes, cap : Capacities, seekable : Seekable]
    /\ tx = [NewTx EXCEPT !.state = "kInactive"]
    /\ rx = [NewRx EXCEPT !.state = "kInactive"]
    /\ readPos = 0
    /\ output = NoBytes
    /\ toRx = << >>
    /\ toTx = << >>
    /\ transfers = 0
    /\ result = NoStatus
    /\ losses = 0
    /\ linkUp = TRUE

Next ==
    \/ ClientStart
    \/ ClientCancel
    \/ RxReceive
    \/ TxReceive
    \/ RxTimeout
    \/ TxInterchunkTimeout
    \/ TxTimeout
    \/ Lose
    \/ LinkDown

Spec == Init /\ [][Next]_vars

\* The transport hands over what it does not lose, the transfer thread runs
\* its timers, and a link that is down delivers nothing.
Fairness ==
    /\ WF_vars(RxReceive)
    /\ WF_vars(TxReceive)
    /\ WF_vars(RxTimeout)
    /\ WF_vars(TxInterchunkTimeout)
    /\ WF_vars(TxTimeout)
    /\ WF_vars(~linkUp /\ Lose)

FairSpec == Spec /\ Fairness

-----------------------------------------------------------------------------
(* Properties                                                              *)

\* What the receiver has written is the beginning of the resource: no chunk
\* that is lost, repeated, or sent again from another offset leaves a gap, a
\* repetition or foreign bytes (HandleReceivedData, HandleTransferParametersUpdate).
OutputIsPrefix ==
    /\ Len(output) <= cfg.size
    /\ \A i \in 1..Len(output) : output[i] = Resource[i]

\* A completion with OK means that the whole resource is stored: the receiver
\* has written everything (IsFinalTransmitChunk is only believed at the right
\* offset), and a transmitter was told so by a receiver that has, so that the
\* OK of a write passed to on_completion is not a stale or guessed one.
OkMeansStored ==
    /\ rx.state = "kCompleted" /\ rx.status = "OK" => output = Resource
    /\ tx.state = "kCompleted" /\ tx.status = "OK" => output = Resource

\* The transmitter never sends more than the receiver has room for, whatever
\* parameters were lost, repeated or overtaken by a timeout: the check that
\* ends a transfer with INTERNAL ("indicates a bug") never triggers, and the
\* unsigned window_end_offset_ - offset_ of neither end ever wraps.
WindowRespected ==
    /\ Active(rx) => \A i \in 1..Len(toRx) :
          toRx[i].offset = rx.offset => Len(toRx[i].data) <= rx.pending_bytes
    /\ Active(tx) => tx.offset <= tx.window_end_offset
    /\ Active(rx) => rx.offset <= rx.window_end_offset

\* Once on_completion has been called, that transfer's outcome is settled:
\* no late chunk or timeout calls it again.  Only the ABORTED of a transfer
\* that was replaced while it was active is followed by another call: the one
\* with the outcome of the transfer that replaced it.
CompletionIsFinal ==
    [][result \notin {NoStatus, "ABORTED"} => (result' = result \/ transfers' > transfers)]_vars

\* Every transfer the client starts is completed or replaced, whatever is
\* lost (at the latest the retries run out), and the server's transfer ends
\* too, so that its handler is finalized.
BothEndsFinish ==
    /\ \A n \in 1..MaxTransfers :
          (transfers = n) ~> (transfers > n \/ result \notin {NoStatus, "ABORTED"})
    /\ IF ClientReceives THEN []<>(~Active(tx)) ELSE []<>(~Active(rx))

\* If no more than MaxRetries chunks are lost while the link stays up, the
\* output has room and the reader can seek, then the client's first transfer
\* succeeds: Retry and the recovery state make up for every pattern of losses.
SurvivesLosses ==
    /\ transfers = 1 /\ result # NoStatus
    /\ linkUp /\ losses <= MaxRetries
    /\ cfg.seekable /\ cfg.cap >= cfg.size
    => result = "OK"

=============================================================================
