------------------------------ MODULE LogDrain ------------------------------
(***************************************************************************)
(* pw_log_rpc: the thread that moves log entries from a multisink to an    *)
(* RPC stream. RpcLogDrain peeks at an entry, filters it, puts a message   *)
(* before it for what was dropped, packs it and pops it; the sink's lock   *)
(* is free between these, and loggers run there. A sink without this       *)
(* thread (pc = "absent") has a drain "pop" that uses PopEntry alone.      *)
(***************************************************************************)
EXTENDS MultiSink

CONSTANTS
  Rules,            \* the filter's rules: a sequence of [level, flags, module, action]
  LevelOf(_), FlagsOf(_), ModuleOf(_),   \* what the filter sees of a kind
  EntrySpace,       \* size of log_entry_buffer_, in cells of data
  PacketSpace,      \* size of the encoding buffer
  Frame,            \* kLogEntriesEncodeFrameSize
  MessageSize,      \* size of a drop message
  CounterRange,     \* values of a drop count (2^32 in the code)
  MaxBundles,       \* max_bundles_per_trickle_
  MaxOpens,         \* bound: streams opened
  MaxClears         \* bound: calls of Clear and of UnsafeForEachEntry

ASSUME DrainAssumption ==
  /\ {"rpc", "pop"} \subseteq Drains
  /\ CounterRange \in Nat \ {0}
  /\ {EntrySpace, PacketSpace, Frame, MessageSize, MaxBundles, MaxOpens, MaxClears} \subseteq Nat

VARIABLES
  pc,          \* where the drain's thread is
  notified,    \* ready_to_flush_notification_ is released
  pending,     \* drains_pending of the thread
  resting,     \* now is before no_writes_until_
  active,      \* server_writer_ is active
  counters,    \* the drop_count_ members
  packet,      \* [used, packed, caught, bundles, entries, told]: the packet and the loop of
               \* SendLogs; entries and told are what is in the packet (ghosts)
  entry,       \* the peeked entry
  seen,        \* [sent, filtered, told, fits, intact]: what the drain did with the entries (ghost);
               \* told, the drops its messages reported, is tallied up to MaxEntries
  popped,      \* [got, told]: entries and drops the drain "pop" was given
  opened, cleared

drainVars == <<pc, notified, pending, resting, active, counters, packet, entry, seen>>
vars == <<sinkVars, drainVars, popped, opened, cleared>>

NoDrops == [slow |-> 0, ingress |-> 0, stack |-> 0, outbound |-> 0, writer |-> 0]
Counted(c) == c.slow + c.ingress + c.stack + c.outbound + c.writer
NoEntry == [seq |-> -1, kind |-> "none"]

Init ==
  /\ SinkInit
  /\ pc \in {"start", "absent"} /\ notified = FALSE /\ pending = TRUE /\ resting = FALSE /\ active = FALSE
  /\ counters = NoDrops
  /\ packet = [used |-> 0, packed |-> 0, caught |-> FALSE, bundles |-> 0, entries |-> {}, told |-> 0]
  /\ entry = NoEntry
  /\ seen = [sent |-> {}, filtered |-> {}, told |-> 0, fits |-> TRUE, intact |-> TRUE]
  /\ popped = [got |-> 0, told |-> 0]
  /\ opened = 0 /\ cleared = 0

(***************************************************************************)
(* The filter: the first active rule an entry meets decides.               *)
(***************************************************************************)
IsRuleMet(rule, kind) ==
  /\ LevelOf(kind) >= rule.level
  /\ rule.flags = {} \/ FlagsOf(kind) \cap rule.flags # {}
  /\ rule.module = "" \/ ModuleOf(kind) = rule.module

ShouldDropLog(kind) ==
  LET met == {i \in DOMAIN Rules : Rules[i].action # "inactive" /\ IsRuleMet(Rules[i], kind)}
  IN  met # {} /\ Rules[Min(met)].action = "drop"

(***************************************************************************)
(* Loggers, and the users of the sink.                                     *)
(***************************************************************************)
\* NotifyListeners: the thread listens once it has attached itself.
NotifyListeners == notified' = (notified \/ pc \notin {"start", "absent"})

Log ==
  /\ \/ \E kind \in Kinds : HandleEntry(kind)
     \/ \E n \in 1..MaxDropped : HandleDropped(n)
  /\ NotifyListeners
  /\ UNCHANGED <<pc, pending, resting, active, counters, packet, entry, seen, popped, opened, cleared>>

Maintain ==
  /\ cleared < MaxClears
  /\ ClearSink \/ UnsafeForEachEntry
  /\ cleared' = cleared + 1
  /\ UNCHANGED <<drainVars, popped, opened>>

\* The other drain: attached, read with a buffer of some size, detached.
AttachPop ==
  /\ pc = "absent"
  /\ AttachDrain("pop")
  /\ popped' = [got |-> 0, told |-> 0]
  /\ UNCHANGED <<drainVars, opened, cleared>>

Pop(space) ==
  /\ ring.reader["pop"] # Detached
  /\ LET p == PeekOrPopEntry("pop", space, TRUE)
     IN  /\ ring' = p.ring
         /\ handled' = [handled EXCEPT !["pop"] = p.handled]
         /\ popped' = [got |-> popped.got + (IF p.status = "ok" THEN 1 ELSE 0),
                       told |-> popped.told + p.drop + p.ingress]
  /\ UNCHANGED <<sequence_id, ingress_drops, pushed, drainVars, opened, cleared>>

DetachPop == DetachDrain("pop") /\ UNCHANGED <<drainVars, popped, opened, cleared>>

(***************************************************************************)
(* The stream. Open and Close wait for the drain's mutex, which SendLogs   *)
(* holds; the other end may cancel the call at any time.                   *)
(***************************************************************************)
MutexFree == pc \in {"start", "wait"}


Open ==
  /\ MutexFree /\ ~active /\ opened < MaxOpens
  /\ active' = TRUE /\ opened' = opened + 1
  /\ NotifyListeners
  /\ UNCHANGED <<sinkVars, pc, pending, resting, counters, packet, entry, seen, popped, cleared>>

Close ==
  /\ active /\ active' = FALSE
  /\ UNCHANGED <<sinkVars, pc, notified, pending, resting, counters, packet, entry, seen, popped, opened, cleared>>

(***************************************************************************)
(* RpcLogDrainThread::Run.                                                 *)
(***************************************************************************)
Run ==
  /\ pc = "start"
  /\ AttachDrain("rpc")
  /\ pc' = "wait" /\ notified' = TRUE
  /\ UNCHANGED <<pending, resting, active, counters, packet, entry, seen, popped, opened, cleared>>

\* The wait ends on a notification or, with a drain pending, after its delay.
\* Trickle then does nothing before the delay is over.
Trickle ==
  /\ pc = "wait" /\ (notified \/ (pending /\ ~resting))
  /\ notified' = FALSE
  /\ IF resting THEN pending' = TRUE /\ UNCHANGED <<pc, packet>>
     ELSE /\ pending' = FALSE /\ pc' = "bundle"
          /\ packet' = [packet EXCEPT !.caught = FALSE, !.bundles = 0]
  /\ UNCHANGED <<sinkVars, resting, active, counters, entry, seen, popped, opened, cleared>>

DelayEnds ==
  /\ resting /\ resting' = FALSE
  /\ UNCHANGED <<sinkVars, pc, notified, pending, active, counters, packet, entry, seen, popped, opened, cleared>>

\* What the thread does when SendLogs has returned.
Returns(caughtUp) == pc' = "wait" /\ pending' = ~caughtUp /\ resting' = ~caughtUp

(***************************************************************************)
(* SendLogs and EncodeOutgoingPacket.                                      *)
(***************************************************************************)
NextBundle ==
  /\ pc = "bundle"
  /\ IF packet.bundles >= MaxBundles \/ packet.caught
     THEN Returns(packet.caught) /\ UNCHANGED packet
     ELSE IF ~active THEN Returns(TRUE) /\ UNCHANGED packet
     ELSE /\ pc' = "peek"
          /\ packet' = [packet EXCEPT !.used = 0, !.packed = 0]
          /\ UNCHANGED <<pending, resting>>
  /\ UNCHANGED <<sinkVars, notified, active, counters, entry, seen, popped, opened, cleared>>

\* A message for one reason, if it fits; its count starts again from zero.
TryEncodeDropMessage(x, reason) ==
  IF x.counters[reason] > 0 /\ MessageSize + Frame < PacketSpace - x.used
  THEN [counters |-> [x.counters EXCEPT ![reason] = 0], used |-> x.used + MessageSize + Frame,
        told |-> x.told + x.counters[reason]]
  ELSE x

\* The messages, in the order of the code: each takes space from the next.
EncodeDropMessages(x) ==
  LET slow == TryEncodeDropMessage(x, "slow")
      ingress == TryEncodeDropMessage(slow, "ingress")
      stack == TryEncodeDropMessage(ingress, "stack")
      outbound == TryEncodeDropMessage(stack, "outbound")
  IN  TryEncodeDropMessage(outbound, "writer")

\* The entry in the buffer, with sequence id `content`, is packed if an entry
\* of the peeked size fits the rest of the packet.
Pack(used, kind, content) ==
  LET size == SizeOf(kind) + Frame
  IN  IF size > PacketSpace - used
      THEN /\ pc' = "send"
           /\ packet' = [packet EXCEPT !.used = used]
      ELSE /\ pc' = "pop"
           /\ packet' = [packet EXCEPT !.used = used + size, !.packed = @ + 1, !.entries = @ \cup {content}]

\* Mutant of WithMissed: what the sink reported is not added.
WithMissedForgotten(c, p) == c

\* The drop counts with what the sink reported before entry p.
WithMissed(c, p) == [c EXCEPT !.slow = @ + p.drop]

\* An entry to be sent: what was dropped before it goes first. Messages use the
\* entry's buffer, which is then read again.
Report(p, c) ==
  LET known == [WithMissed(c, p) EXCEPT !.slow = (@ - c.stack) % CounterRange]
  IN  \E after \in {EncodeDropMessages([counters |-> known, used |-> packet.used, told |-> packet.told])} :
        /\ counters' = after.counters
        /\ IF known = NoDrops THEN Pack(packet.used, p.entry.kind, p.entry.seq)
           ELSE /\ pc' = "again"
                /\ packet' = [packet EXCEPT !.used = after.used, !.told = Min({after.told, MaxEntries})]

PeekEntry ==
  /\ pc = "peek"
  /\ \E p \in {PeekOrPopEntry("rpc", EntrySpace, FALSE)} :
       LET c == [counters EXCEPT !.ingress = @ + p.ingress]
           tooLarge == SizeOf(p.entry.kind) + 2 * Frame > PacketSpace
       IN
         /\ ring' = p.ring
         /\ handled' = [handled EXCEPT !["rpc"] = p.handled]
         /\ entry' = IF p.status = "ok" THEN p.entry ELSE NoEntry
         /\ \/ /\ p.status = "small"
               /\ counters' = [c EXCEPT !.stack = @ + 1]
               /\ seen' = [seen EXCEPT !.fits = FALSE]
               /\ UNCHANGED <<pc, packet>>
            \/ /\ p.status = "empty"
               /\ counters' = WithMissed(c, p)
               /\ pc' = "send" /\ packet' = [packet EXCEPT !.caught = TRUE]
               /\ UNCHANGED seen
            \/ /\ p.status = "ok" /\ ShouldDropLog(p.entry.kind)
               /\ counters' = WithMissed(c, p)
               /\ pc' = "pop" /\ seen' = [seen EXCEPT !.filtered = @ \cup {p.entry.seq}]
               /\ UNCHANGED packet
            \/ /\ p.status = "ok" /\ ~ShouldDropLog(p.entry.kind) /\ tooLarge
               /\ counters' = [c EXCEPT !.outbound = @ + 1]
               /\ pc' = "pop" /\ seen' = [seen EXCEPT !.fits = FALSE]
               /\ UNCHANGED packet
            \/ /\ p.status = "ok" /\ ~ShouldDropLog(p.entry.kind) /\ ~tooLarge
               /\ Report(p, c) /\ UNCHANGED seen
  /\ UNCHANGED <<sequence_id, ingress_drops, pushed, notified, pending, resting, active, popped, opened, cleared>>

\* The second look at the entry. It may be another one by now; having none that
\* fits the buffer is a crash (PW_CHECK_OK).
PeekAgain ==
  /\ pc = "again"
  /\ \E p \in {PeekOrPopEntry("rpc", EntrySpace, FALSE)} :
         /\ ring' = p.ring
         /\ handled' = [handled EXCEPT !["rpc"] = p.handled]
         /\ IF p.status = "ok" THEN Pack(packet.used, entry.kind, p.entry.seq)
            ELSE pc' = "crashed" /\ UNCHANGED packet
  /\ UNCHANGED <<sequence_id, ingress_drops, pushed, notified, pending, resting, active, counters,
                 entry, seen, popped, opened, cleared>>

PopPeeked ==
  /\ pc = "pop"
  /\ PopEntry("rpc", entry.seq)
  /\ pc' = "peek" /\ entry' = NoEntry
  /\ UNCHANGED <<sequence_id, ingress_drops, pushed, notified, pending, resting, active, counters,
                 packet, seen, popped, opened, cleared>>

\* An empty packet is not sent. With kCloseStreamOnWriterError a packet that
\* cannot be written ends the stream: its entries are counted as dropped; the
\* drop messages in it, whose counts are zero since they were encoded, are lost.
Send ==
  /\ pc = "send"
  /\ \/ /\ packet.used = 0 \/ active
        /\ pc' = "bundle"
        /\ packet' = [packet EXCEPT !.bundles = @ + (IF packet.used = 0 THEN 0 ELSE 1), !.entries = {}, !.told = 0]
        /\ seen' = [seen EXCEPT !.sent = @ \cup packet.entries, !.told = Min({@ + packet.told, MaxEntries})]
        /\ UNCHANGED <<counters, active, pending, resting>>
     \/ /\ packet.used > 0
        /\ counters' = [counters EXCEPT !.writer = @ + packet.packed]
        /\ packet' = [packet EXCEPT !.entries = {}, !.told = 0]
        /\ seen' = [seen EXCEPT !.intact = @ /\ packet.told = 0]
        /\ active' = FALSE /\ Returns(packet.caught)
  /\ UNCHANGED <<sinkVars, notified, entry, popped, opened, cleared>>

Thread == Run \/ Trickle \/ NextBundle \/ PeekEntry \/ PeekAgain \/ PopPeeked \/ Send

Next ==
  \/ Thread \/ DelayEnds
  \/ Log \/ Maintain \/ Open \/ Close
  \/ AttachPop \/ DetachPop \/ \E space \in 1..EntrySpace : Pop(space)

\* The thread is scheduled, and time passes.
Spec == Init /\ [][Next]_vars /\ WF_vars(Thread) /\ WF_vars(DelayEnds)

(***************************************************************************)
(* Properties.                                                             *)
(***************************************************************************)

\* A drain that pops accounts for every sequence id: the entries it was given
\* and the drops it was told of (overwritten by newer entries, dropped before
\* they reached the sink, cleared, or too large for its buffer) add up to the
\* ids handled, however pops interleave with logging.
PopCountsAddUp ==
  ring.reader["pop"] # Detached => popped.got + popped.told = handled["pop"].seq + 1

\* As long as every entry fits the drain's buffers, an entry that is neither
\* sent, in the packet under way nor filtered is counted: in a drop message or
\* in a counter that a later message will carry. Loggers may overwrite entries
\* between the drain's peek, its second peek and its pop, and a write may fail.
\* What the code does not keep is the message itself: when a packet with drop
\* messages cannot be written, the drops they tell of are lost silently.
NoSilentLoss ==
  seen.fits /\ seen.intact /\ pc # "crashed" =>
    Cardinality({s \in 0..handled["rpc"].seq : s \notin seen.sent \cup packet.entries \cup seen.filtered})
      <= seen.told + packet.told + Counted(counters)

\* An open stream, and an entry that waits for the thread.
Waiting == active /\ pc \notin {"start", "absent", "crashed"} /\ ring.reader["rpc"].count > 0

\* Entries were overwritten before the oldest one the drain can read, and with
\* the message that tells of them that one does not fit a packet.
Starved ==
  LET first == FrontEntry(ring, "rpc")
  IN  /\ first.seq > handled["rpc"].seq + 1
      /\ SizeOf(first.kind) + Frame > PacketSpace - (MessageSize + Frame)

=============================================================================
