---------------------------- MODULE KeyValueStore ----------------------------
(***************************************************************************)
(* pw_kvs: the log-structured key-value store, one flash operation at a    *)
(* time.  Flash is a partition of sectors to which entries are appended    *)
(* and which are erased as a whole; everything else is in RAM and lost     *)
(* with the power.  Between two flash operations the power may go, and an  *)
(* operation may fail half-way.                                            *)
(*                                                                         *)
(* Entries have the same size, one slot.  A slot holds an entry or what is *)
(* left of one (Corrupt); what lies behind the last slot is erased.  Keys  *)
(* do not collide in their hash.  The order in which the cache is iterated *)
(* is left open where the code walks over all entries.                     *)
(***************************************************************************)
EXTENDS Integers, Sequences, FiniteSets, SequencesExt

CONSTANTS
    Keys, Values,
    SectorCount,        \* sectors of the partition
    Slots,              \* entries that fit into a sector
    MaxEntries,         \* kMaxEntries of the entry cache
    Redundancies,       \* copies of each entry, one of these
    GcModes,            \* options_.gc_on_write, one of these
    Recoveries,         \* options_.recovery, one of these
    VerifyModes,        \* options_.verify_on_write, one of these
    Faults,             \* what may go wrong: FaultKinds
    Upgrade,            \* whether a boot may bring a new primary format
    MaxTransactions,    \* bound: transaction ids used
    MaxFaults,          \* bound: failed flash operations
    MaxPowerLosses,     \* bound: power losses
    MaxMaintenance      \* bound: maintenance calls

FaultKinds == {"torn", "written", "erase"}

ASSUME KvsAssumption ==
    /\ IsFiniteSet(Keys)
    /\ {"tombstone", "no value"} \cap Values = {}
    /\ SectorCount \in Nat /\ SectorCount >= 2
    /\ Slots \in Nat \ {0}
    /\ MaxEntries \in Nat
    /\ Redundancies \subseteq 1..(SectorCount - 1)
    /\ GcModes \subseteq {"kDisabled", "kOneSector", "kAsManySectorsNeeded"}
    /\ Recoveries \subseteq {"kLazy", "kManual"}
    /\ VerifyModes \subseteq BOOLEAN
    /\ Faults \subseteq FaultKinds
    /\ Upgrade \in BOOLEAN
    /\ MaxTransactions \in Nat /\ MaxFaults \in Nat
    /\ MaxPowerLosses \in Nat /\ MaxMaintenance \in Nat

VARIABLES
    options,    \* redundancy and Options of the store
    flash,      \* sector -> its slots
    cache,      \* entry_cache_: key -> descriptor and addresses
    sectors,    \* sectors_: sector -> SectorDescriptor
    lastNew,    \* sectors_.last_new_
    lastTxn,    \* last_transaction_id_
    init,       \* initialized_
    error,      \* error_detected_
    primary,    \* formats_.primary()
    op,         \* the call in progress and where it is
    used        \* how much of each bound is used up

ram == <<cache, sectors, lastNew, lastTxn, init, error>>
vars == <<options, flash, ram, primary, op, used>>

-----------------------------------------------------------------------------
(* Data                                                                    *)

Sectors == 0..(SectorCount - 1)
Addresses == Sectors \X (1..Slots)

Tombstone == "tombstone"
NoKey == "no key"
NoValue == "no value"
NoSector == SectorCount
kCorruptSector == -1    \* in place of the number of writable slots

Corrupt == [key |-> NoKey, value |-> NoValue, txn |-> 0, format |-> "none"]
NoEntry == [value |-> NoValue, txn |-> 0, addresses |-> <<>>]

SlotAt(a) == flash[a[1]][a[2]]
Readable(a) == a[2] \in DOMAIN flash[a[1]] /\ SlotAt(a) # Corrupt
ReadableAddresses == {a \in Addresses : Readable(a)}

Cached == {k \in Keys : cache[k] # NoEntry}
SectorsOf(addresses) == {a[1] : a \in Range(addresses)}

\* SectorDescriptor.  A corrupt sector has no writable bytes.
IsCorrupt(s) == sectors[s].writable = kCorruptSector
Writable(s) == IF IsCorrupt(s) THEN 0 ELSE sectors[s].writable
Empty(s) == Writable(s) = Slots
Recoverable(s) == Slots - sectors[s].valid - Writable(s)
NextWritableAddress(s) == <<s, Slots - Writable(s) + 1>>

MarkCorrupt(sd) == [sd EXCEPT !.writable = kCorruptSector]
Filled(sd) == [writable |-> IF sd.writable <= 0 THEN 0 ELSE sd.writable - 1,
               valid |-> sd.valid + 1]
RemoveValid(sd) == [sd EXCEPT !.valid = IF @ = 0 THEN 0 ELSE @ - 1]

\* Mutant of Accounted: what the new entry replaces still counts as valid.
AccountedWithoutStale(s, stale) == [sectors EXCEPT ![s] = Filled(@)]

\* The stale copies at the old addresses, once the copy at s is written.
Accounted(s, stale) ==
    [t \in Sectors |->
        LET sd == IF t = s THEN Filled(sectors[t]) ELSE sectors[t]
        IN  IF t \in stale THEN RemoveValid(sd) ELSE sd]

-----------------------------------------------------------------------------
(* Choosing sectors.  The search starts behind last_new_; it yields a      *)
(* number of steps from there, or 0.                                       *)

Steps == 1..SectorCount
At(j) == (lastNew + j) % SectorCount
First(S) == IF S = {} THEN 0 ELSE CHOOSE j \in S : \A i \in S : j <= i
Most(S, f(_)) == First({j \in S : \A i \in S : f(At(i)) <= f(At(j))})

\* Mutant of FindEmpty: the last empty sector is given away.
FindAnyEmpty(mode, skip) == First({j \in Steps : At(j) \notin skip /\ Empty(At(j))})

FindEmpty(mode, skip) ==
    LET empty == {j \in Steps : At(j) \notin skip /\ Empty(At(j))}
    IN  IF mode = "gc" \/ Cardinality(empty) >= 2 THEN First(empty) ELSE 0

PartlyFilled(skip) ==
    {j \in Steps : At(j) \notin skip /\ ~Empty(At(j)) /\ Writable(At(j)) >= 1}

FindPartial(mode, skip) ==
    First({j \in PartlyFilled(skip) : mode = "append" \/ Recoverable(At(j)) = 0})

\* Sectors::Find: a sector in use, an empty one, or in a garbage collection
\* the one in use with the most recoverable bytes.
Find(mode, skip) ==
    LET partial == FindPartial(mode, skip)
        empty == FindEmpty(mode, skip)
        j == IF partial # 0 THEN partial
             ELSE IF empty # 0 THEN empty
             ELSE Most(PartlyFilled(skip), Recoverable)
    IN  [sector |-> IF j = 0 THEN NoSector ELSE At(j),
         lastNew |-> IF partial = 0 /\ empty # 0 THEN At(empty) ELSE lastNew]

ValidBytes(s) == sectors[s].valid

\* FindSectorToGarbageCollect
FindSectorToGarbageCollect(skip) ==
    LET all == {j \in Steps : At(j) \notin skip}
        stale == {j \in all : ValidBytes(At(j)) = 0 /\ Recoverable(At(j)) > 0}
        reclaimable == {j \in all : Recoverable(At(j)) > 0}
        inUse == {j \in all : ValidBytes(At(j)) > 0}
        j == IF stale # {} THEN First(stale)
             ELSE IF reclaimable # {} THEN Most(reclaimable, Recoverable)
             ELSE Most(inUse, ValidBytes)
    IN  IF j = 0 THEN NoSector ELSE At(j)

-----------------------------------------------------------------------------
(* Scanning the flash                                                      *)

\* Mutant of Load: an entry found later replaces one found before.
LoadLatest(scan, a, e) ==
    [scan EXCEPT !.cache[e.key] = [value |-> e.value, txn |-> e.txn, addresses |-> <<a>>]]

\* Loading the entry at an address into the cache: AddNewOrUpdateExisting.
\* bad collects the sectors in which loading failed.
Load(scan, a, e) ==
    LET d == scan.cache[e.key]
        fresh == [value |-> e.value, txn |-> e.txn, addresses |-> <<a>>]
        failed == [scan EXCEPT !.bad = @ \cup {a[1]}]
        full == Cardinality({k \in Keys : scan.cache[k] # NoEntry}) >= MaxEntries
        twice == a[1] \in SectorsOf(d.addresses)
    IN  CASE d = NoEntry /\ full -> failed
          [] (d = NoEntry /\ ~full) \/ (d # NoEntry /\ e.txn > d.txn) ->
                [scan EXCEPT !.cache[e.key] = fresh]
          [] d # NoEntry /\ e.txn = d.txn /\ twice -> failed
          [] d # NoEntry /\ e.txn = d.txn /\ ~twice /\ Len(d.addresses) < options.redundancy ->
                [scan EXCEPT !.cache[e.key].addresses = Append(@, a)]
          [] OTHER -> scan

\* First pass of InitializeMetadata over all slots in the order of their addresses.
Visit(scan, a) ==
    IF a[2] \notin DOMAIN flash[a[1]] THEN scan
    ELSE IF SlotAt(a) = Corrupt THEN [scan EXCEPT !.bad = @ \cup {a[1]}]
    ELSE Load(scan, a, SlotAt(a))

NothingCached == [k \in Keys |-> NoEntry]

Scan ==
    LET Slot(n) == <<(n - 1) \div Slots, ((n - 1) % Slots) + 1>>
        scan[n \in 0..(SectorCount * Slots)] ==
            IF n = 0 THEN [cache |-> NothingCached, bad |-> {}]
            ELSE Visit(scan[n - 1], Slot(n))
    IN  scan[SectorCount * Slots]

\* InitializeMetadata.  Repair() calls it with the last transaction id still
\* in place, and then no entry is newer.
InitializeMetadata(txn, hadError) ==
    LET scan == Scan
        found == {k \in Keys : scan.cache[k] # NoEntry}
        copies(s) == {k \in found : s \in SectorsOf(scan.cache[k].addresses)}
        newer == {k \in found : scan.cache[k].txn > txn}
    IN  /\ cache' = scan.cache
        /\ sectors' = [s \in Sectors |->
              [writable |-> IF s \in scan.bad THEN kCorruptSector ELSE Slots - Len(flash[s]),
               valid |-> Cardinality(copies(s))]]
        /\ \/ /\ newer = {}
              /\ lastTxn' = txn
              /\ lastNew' = 0
           \/ \E k \in newer :
              /\ \A n \in newer : scan.cache[n].txn <= scan.cache[k].txn
              /\ lastTxn' = scan.cache[k].txn
              /\ lastNew' = Last(scan.cache[k].addresses)[1]
        /\ error' = \/ hadError
                    \/ scan.bad # {}
                    \/ \A s \in Sectors : flash[s] # <<>>
                    \/ \E k \in found : Len(scan.cache[k].addresses) < options.redundancy

-----------------------------------------------------------------------------
(* Calls                                                                   *)

\* The fields of a call: its task; the write's key and value; the addresses
\* reserved for copies and how many are written; what follows the reservation;
\* the sector being garbage collected, the caller that waits for it and how
\* many were collected so far; the loop position over sectors, pass, keys;
\* the status so far; and the entry being converted to the primary format.
Idle == [pc |-> "idle", task |-> "none", key |-> NoKey, value |-> NoValue,
         reserved |-> <<>>, written |-> 0, then |-> "none",
         gc |-> NoSector, caller |-> "none", gcCount |-> 0,
         cursor |-> 0, pass |-> 0, todo |-> {}, heavy |-> FALSE, converted |-> FALSE,
         status |-> "OK", source |-> <<0, 0>>]
Off == [Idle EXCEPT !.pc = "off"]

Returning(status) == [Idle EXCEPT !.pc = "return", !.task = op.task, !.key = op.key,
                                  !.value = op.value, !.status = status]

FirstError(status) == IF op.status = "OK" THEN status ELSE op.status

Return ==
    /\ op.pc = "return"
    /\ op' = Idle
    /\ UNCHANGED <<options, flash, ram, primary, used>>

\* Back in one of the loops, with no entry in hand.
Settled(pc) == [op EXCEPT !.pc = pc, !.key = NoKey, !.reserved = <<>>, !.written = 0,
                          !.then = "none", !.gc = NoSector, !.caller = "none",
                          !.gcCount = 0, !.source = <<0, 0>>]

\* A step that reserves, writes or erases ended with an error.  A Put or
\* Delete reports it, EnsureEntryRedundancy goes on with the next key, and
\* maintenance gives up converting entries but still collects garbage.
Failed(status) ==
    CASE op.then = "write" -> Returning(status)
      [] op.then = "fill" -> [Settled("redundancy") EXCEPT !.status = FirstError(status)]
      [] op.then = "convert" ->
            [Settled("update") EXCEPT !.todo = {}, !.converted = FALSE,
                                      !.status = FirstError(status)]

\* GarbageCollectSector was called by one of these and is done.
Collected(status) ==
    LET done == [op EXCEPT !.gc = NoSector, !.caller = "none"]
        keep == IF op.status \in {"OK", "RESOURCE_EXHAUSTED"} /\ status # "OK" THEN status
                ELSE op.status
    IN  CASE op.caller = "reserve" /\ status = "OK" ->
                [done EXCEPT !.pc = "reserve", !.gcCount = IF @ > SectorCount + 2 THEN @ ELSE @ + 1]
          [] op.caller = "reserve" /\ status # "OK" -> Failed(status)
          [] op.caller = "repair" -> [done EXCEPT !.pc = "repair", !.status = keep]
          [] op.caller = "free" -> [done EXCEPT !.pc = "redundancy", !.todo = Cached,
                                                !.status = FirstError(status)]
          [] op.caller = "sweep" /\ status = "OK" -> [done EXCEPT !.pc = "sweep"]
          [] op.caller = "sweep" /\ status # "OK" -> Returning(FirstError(status))
          [] op.caller = "partial" -> Returning(status)

\* Mutant of CollectSector: the sector is erased with valid entries in it.
EraseAtOnce(s, caller) == [op EXCEPT !.gc = s, !.caller = caller, !.pc = "erase"]

\* GarbageCollectSector(s): entries are relocated only if there are any.
CollectSector(s, caller) ==
    [op EXCEPT !.gc = s, !.caller = caller,
               !.pc = IF sectors[s].valid = 0 THEN "erase" ELSE "relocate"]

-----------------------------------------------------------------------------
(* Flash operations                                                        *)

\* The partition after an entry is programmed at an address.  Programming
\* what is not erased leaves neither entry.
Programmed(a, e) ==
    [flash EXCEPT ![a[1]] = IF a[2] \in DOMAIN @ THEN [@ EXCEPT ![a[2]] = Corrupt]
                            ELSE Append(@, e)]

\* The write fails half-way or the verification behind it does; with "written"
\* the entry is complete all the same.  MarkSectorCorruptIfNotOk.
ProgramFails(a, e) ==
    /\ used.faults < MaxFaults
    /\ \/ "torn" \in Faults /\ flash' \in {flash, Programmed(a, Corrupt)}
       \/ "written" \in Faults /\ flash' = Programmed(a, e)
    /\ sectors' = [sectors EXCEPT ![a[1]] = MarkCorrupt(@)]
    /\ error' = TRUE
    /\ used' = [used EXCEPT !.faults = @ + 1]
    /\ UNCHANGED <<options, cache, init, primary>>

ProgramSucceeds(a, e, stale) ==
    /\ flash' = Programmed(a, e)
    /\ sectors' = Accounted(a[1], stale)
    /\ UNCHANGED <<options, init, error, primary, used>>

-----------------------------------------------------------------------------
(* Put and Delete                                                          *)

\* CheckWriteOperation lets a write through only if the store is ready.
CallWrite(k, v) ==
    /\ op.pc = "idle"
    /\ init = "ready"
    /\ lastTxn < MaxTransactions
    /\ op' = [Idle EXCEPT !.pc = "find", !.task = "Write", !.key = k, !.value = v]
    /\ UNCHANGED <<options, flash, ram, primary, used>>

PutBytes(k, v) == CallWrite(k, v)
Delete(k) == CallWrite(k, Tombstone)

\* What a write does before it looks for space.  Deleting what is not there
\* is an error, writing what is there already needs no write.
FindExisting ==
    /\ op.pc = "find"
    /\ LET d == cache[op.key]
           absent == d = NoEntry \/ d.value = Tombstone
       IN  op' = CASE op.value = Tombstone /\ absent -> Returning("NOT_FOUND")
                   [] op.value # Tombstone /\ d = NoEntry /\ Cardinality(Cached) >= MaxEntries ->
                        Returning("RESOURCE_EXHAUSTED")
                   [] op.value # Tombstone /\ d # NoEntry /\ d.value = op.value -> Returning("OK")
                   [] OTHER -> [op EXCEPT !.pc = "reserve", !.then = "write"]
    /\ UNCHANGED <<options, flash, ram, primary, used>>

CopiesNeeded == IF op.then = "fill" THEN Len(cache[op.key].addresses) + 1
                ELSE options.redundancy

\* Mutant of GcLimitReached: the loop has no limit.
NoGcLimit == FALSE

\* The garbage collection limit: two rounds more than there are sectors.
GcLimitReached == op.gcCount > SectorCount + 2

\* Mutant of ReservedSectors: sectors reserved for other copies are not avoided.
NoSectorReserved == {}

\* The sectors in which a copy of the entry at hand already has its place.
ReservedSectors == SectorsOf(op.reserved)

AutoGarbageCollect ==
    \/ options.gcOnWrite = "kAsManySectorsNeeded"
    \/ options.gcOnWrite = "kOneSector" /\ op.gcCount = 0

\* GetSectorForWrite, one round of its loop: find space, or collect a sector.
GetSectorForWrite ==
    /\ op.pc = "reserve"
    /\ LET skip == ReservedSectors
           found == Find("append", skip)
           garbage == FindSectorToGarbageCollect(skip)
           reserved == Append(op.reserved, NextWritableAddress(found.sector))
       IN  /\ lastNew' = found.lastNew
           /\ op' = IF GcLimitReached THEN Failed("RESOURCE_EXHAUSTED")
                    ELSE IF found.sector # NoSector
                    THEN [op EXCEPT !.reserved = reserved, !.gcCount = 0,
                            !.pc = IF Len(reserved) < CopiesNeeded THEN "reserve" ELSE op.then]
                    ELSE IF AutoGarbageCollect /\ garbage # NoSector
                    THEN CollectSector(garbage, "reserve")
                    ELSE Failed("RESOURCE_EXHAUSTED")
    /\ UNCHANGED <<options, flash, cache, sectors, lastTxn, init, error, primary, used>>

NewTransactionId == lastTxn + 1

\* Mutant of WriteEntry: the id is burnt only if the write succeeds.
WriteEntryKeepsId ==
    /\ op.pc = "write"
    /\ op.written = 0
    /\ UNCHANGED lastNew
    /\ LET a == op.reserved[1]
           e == [key |-> op.key, value |-> op.value, txn |-> NewTransactionId, format |-> primary]
       IN  \/ /\ ProgramSucceeds(a, e, SectorsOf(cache[op.key].addresses))
              /\ lastTxn' = NewTransactionId
              /\ cache' = [cache EXCEPT ![op.key] =
                    [value |-> op.value, txn |-> NewTransactionId, addresses |-> <<a>>]]
              /\ op' = IF options.redundancy = 1 THEN Returning("OK")
                       ELSE [op EXCEPT !.written = 1]
           \/ /\ ProgramFails(a, e)
              /\ UNCHANGED lastTxn
              /\ op' = Returning("DATA_LOSS")

\* The first copy: CreateEntry burns a transaction id whatever happens, and
\* the descriptor changes once the entry is in flash.
WriteEntry ==
    /\ op.pc = "write"
    /\ op.written = 0
    /\ lastTxn' = NewTransactionId
    /\ UNCHANGED lastNew
    /\ LET a == op.reserved[1]
           e == [key |-> op.key, value |-> op.value, txn |-> NewTransactionId, format |-> primary]
       IN  \/ /\ ProgramSucceeds(a, e, SectorsOf(cache[op.key].addresses))
              /\ cache' = [cache EXCEPT ![op.key] =
                    [value |-> op.value, txn |-> NewTransactionId, addresses |-> <<a>>]]
              /\ op' = IF options.redundancy = 1 THEN Returning("OK")
                       ELSE [op EXCEPT !.written = 1]
           \/ /\ ProgramFails(a, e)
              /\ op' = Returning("DATA_LOSS")

\* The other copies.
WriteCopy ==
    /\ op.pc = "write"
    /\ op.written > 0
    /\ UNCHANGED <<lastTxn, lastNew>>
    /\ LET a == op.reserved[op.written + 1]
           e == [key |-> op.key, value |-> op.value, txn |-> lastTxn, format |-> primary]
       IN  \/ /\ ProgramSucceeds(a, e, {})
              /\ cache' = [cache EXCEPT ![op.key].addresses = Append(@, a)]
              /\ op' = IF op.written + 1 = options.redundancy THEN Returning("OK")
                       ELSE [op EXCEPT !.written = @ + 1]
           \/ /\ ProgramFails(a, e)
              /\ op' = Returning("DATA_LOSS")

-----------------------------------------------------------------------------
(* Garbage collection                                                      *)

InCollected(k) == {i \in DOMAIN cache[k].addresses : cache[k].addresses[i][1] = op.gc}

\* RelocateEntry, for one address in the sector.
RelocateEntry(k) ==
    /\ op.pc = "relocate"
    /\ InCollected(k) # {}
    /\ UNCHANGED lastTxn
    /\ LET found == Find("gc", SectorsOf(cache[k].addresses) \cup ReservedSectors)
           i == CHOOSE j \in InCollected(k) : TRUE
           a == NextWritableAddress(found.sector)
           e == SlotAt(cache[k].addresses[1])
       IN  /\ lastNew' = found.lastNew
           /\ \/ /\ found.sector = NoSector
                 /\ op' = Collected("RESOURCE_EXHAUSTED")
                 /\ UNCHANGED <<options, flash, cache, sectors, init, error, primary, used>>
              \/ /\ found.sector # NoSector
                 /\ ProgramSucceeds(a, e, {op.gc})
                 /\ cache' = [cache EXCEPT ![k].addresses[i] = a]
                 /\ UNCHANGED op
              \/ /\ found.sector # NoSector
                 /\ ProgramFails(a, e)
                 /\ op' = Collected("DATA_LOSS")

\* The relocation loop is through.
Relocated ==
    /\ op.pc = "relocate"
    /\ \A k \in Keys : InCollected(k) = {}
    /\ op' = IF sectors[op.gc].valid # 0 THEN Collected("INTERNAL") ELSE [op EXCEPT !.pc = "erase"]
    /\ UNCHANGED <<options, flash, ram, primary, used>>

\* An interrupted erase may leave any of the entries.
Remains(slots) ==
    {[i \in DOMAIN slots |-> IF i \in lost THEN Corrupt ELSE slots[i]] :
        lost \in SUBSET (DOMAIN slots)} \cup {<<>>}

EraseSector ==
    /\ op.pc = "erase"
    /\ UNCHANGED <<options, cache, lastNew, lastTxn, init, error, primary>>
    /\ \/ /\ Empty(op.gc)
          /\ op' = Collected("OK")
          /\ UNCHANGED <<flash, sectors, used>>
       \/ /\ ~Empty(op.gc)
          /\ flash' = [flash EXCEPT ![op.gc] = <<>>]
          /\ sectors' = [sectors EXCEPT ![op.gc].writable = Slots]
          /\ op' = Collected("OK")
          /\ UNCHANGED used
       \/ /\ ~Empty(op.gc)
          /\ "erase" \in Faults /\ used.faults < MaxFaults
          /\ \E slots \in Remains(flash[op.gc]) : flash' = [flash EXCEPT ![op.gc] = slots]
          /\ sectors' = [sectors EXCEPT ![op.gc] = MarkCorrupt(@)]
          /\ used' = [used EXCEPT !.faults = @ + 1]
          /\ op' = Collected("INTERNAL")

-----------------------------------------------------------------------------
(* Repair: FixErrors                                                       *)

FixErrors(task) == [Idle EXCEPT !.pc = "repair", !.task = task, !.pass = 1]

\* RepairCorruptSectors: two passes at most, a pass over all corrupt sectors
\* even if one of them fails.
RepairCorruptSectors ==
    /\ op.pc = "repair"
    /\ LET corrupt == {s \in Sectors : s >= op.cursor /\ IsCorrupt(s)} IN
       op' = IF corrupt # {}
             THEN LET s == CHOOSE t \in corrupt : \A u \in corrupt : t <= u
                  IN  [CollectSector(s, "repair") EXCEPT !.cursor = s + 1]
             ELSE IF op.status # "OK" /\ op.pass < 2
             THEN [op EXCEPT !.cursor = 0, !.pass = 2,
                             !.status = IF @ = "RESOURCE_EXHAUSTED" THEN "OK" ELSE @]
             ELSE [op EXCEPT !.pc = "free", !.cursor = 0, !.pass = 0]
    /\ UNCHANGED <<options, flash, ram, primary, used>>

EnsureFreeSectorExists ==
    /\ op.pc = "free"
    /\ LET garbage == FindSectorToGarbageCollect({})
           onward == [op EXCEPT !.pc = "redundancy", !.todo = Cached]
       IN  op' = IF \E s \in Sectors : Empty(s) THEN onward
                 ELSE IF garbage = NoSector THEN [onward EXCEPT !.status = FirstError("NOT_FOUND")]
                 ELSE CollectSector(garbage, "free")
    /\ UNCHANGED <<options, flash, ram, primary, used>>

MissingCopies(keys) == {k \in keys : Len(cache[k].addresses) < options.redundancy}

\* EnsureEntryRedundancy takes the next key that misses copies.
EnsureEntryRedundancy(k) ==
    /\ op.pc = "redundancy"
    /\ k \in MissingCopies(op.todo)
    /\ op' = [op EXCEPT !.pc = "reserve", !.then = "fill", !.key = k, !.todo = @ \ {k},
                        !.reserved = cache[k].addresses]
    /\ UNCHANGED <<options, flash, ram, primary, used>>

\* AddRedundantEntries: one more copy at the address found for it.
AddRedundantEntry ==
    /\ op.pc = "fill"
    /\ UNCHANGED <<lastTxn, lastNew>>
    /\ LET a == Last(op.reserved)
           e == SlotAt(op.reserved[1])
       IN  \/ /\ ProgramSucceeds(a, e, {})
              /\ cache' = [cache EXCEPT ![op.key].addresses = Append(@, a)]
              /\ op' = IF Len(op.reserved) < options.redundancy THEN [op EXCEPT !.pc = "reserve"]
                       ELSE Settled("redundancy")
           \/ /\ ProgramFails(a, e)
              /\ op' = Failed("DATA_LOSS")

\* The end of FixErrors and what comes behind it.
ErrorsFixed ==
    /\ op.pc = "redundancy"
    /\ MissingCopies(op.todo) = {}
    /\ IF op.status = "OK"
       THEN /\ error' = FALSE
            /\ init' = "ready"
            /\ op' = CASE op.task = "Init" -> Returning("OK")
                       [] op.task = "FullMaintenance" -> [op EXCEPT !.pc = "update", !.todo = Cached]
                       [] op.task = "PartialMaintenance" -> [op EXCEPT !.pc = "partial", !.todo = {}]
       ELSE /\ op' = Returning(IF op.task = "Init" THEN "DATA_LOSS" ELSE op.status)
            /\ UNCHANGED <<error, init>>
    /\ UNCHANGED <<options, flash, cache, sectors, lastNew, lastTxn, primary, used>>

-----------------------------------------------------------------------------
(* Init and maintenance                                                    *)

\* Init() after power on; the firmware may have a new primary format by now.
Boot ==
    /\ op.pc = "off"
    /\ InitializeMetadata(0, FALSE)
    /\ primary' \in {primary} \cup (IF Upgrade THEN {"new"} ELSE {})
    /\ init' = IF error' THEN "maintenance" ELSE "ready"
    /\ op' = IF ~error' THEN [Idle EXCEPT !.pc = "return", !.task = "Init"]
             ELSE IF options.recovery = "kManual"
             THEN [Idle EXCEPT !.pc = "return", !.task = "Init", !.status = "DATA_LOSS"]
             ELSE FixErrors("Init")
    /\ UNCHANGED <<options, flash, used>>

\* CheckForErrors
ErrorsFound == error \/ (\E s \in Sectors : IsCorrupt(s))
                     \/ (options.redundancy > 1 /\ MissingCopies(Cached) # {})

Maintenance(task, repairs, heavy) ==
    /\ op.pc = "idle"
    /\ used.maintenance < MaxMaintenance
    /\ Upgrade => lastTxn + Cardinality(Keys) <= MaxTransactions
    /\ used' = [used EXCEPT !.maintenance = @ + 1]
    /\ IF ErrorsFound /\ repairs
       THEN /\ InitializeMetadata(lastTxn, TRUE)
            /\ op' = [FixErrors(task) EXCEPT !.heavy = heavy]
       ELSE /\ error' = ErrorsFound
            /\ op' = [Idle EXCEPT !.pc = IF task = "FullMaintenance" THEN "update" ELSE "partial",
                                  !.task = task, !.heavy = heavy,
                                  !.todo = IF task = "FullMaintenance" THEN Cached ELSE {}]
            /\ UNCHANGED <<cache, sectors, lastNew, lastTxn>>
    /\ UNCHANGED <<options, flash, init, primary>>

FullMaintenance == Maintenance("FullMaintenance", TRUE, FALSE)
HeavyMaintenance == Maintenance("FullMaintenance", TRUE, TRUE)
PartialMaintenance ==
    Maintenance("PartialMaintenance", options.recovery # "kManual", FALSE)

\* UpdateEntriesToPrimaryFormat reads the next entry in an older format ...
UpdateEntry(k) ==
    /\ op.pc = "update"
    /\ k \in op.todo
    /\ SlotAt(cache[k].addresses[1]).format # primary
    /\ lastTxn' = lastTxn + 1
    /\ op' = [op EXCEPT !.pc = "reserve", !.then = "convert", !.key = k, !.todo = @ \ {k},
                        !.source = cache[k].addresses[1], !.converted = TRUE]
    /\ UNCHANGED <<options, flash, cache, sectors, lastNew, init, error, primary, used>>

\* ... and once space is reserved copies its key and value from where the
\* entry was then.
ConvertEntry ==
    /\ op.pc = "convert"
    /\ UNCHANGED <<lastTxn, lastNew>>
    /\ LET a == op.reserved[op.written + 1]
           d == cache[op.key]
           intact == /\ Readable(op.source)
                     /\ SlotAt(op.source).key = op.key /\ SlotAt(op.source).value = d.value
           e == IF intact
                THEN [key |-> op.key, value |-> d.value, txn |-> lastTxn, format |-> primary]
                ELSE Corrupt
       IN  \/ /\ intact \/ ~options.verify
              /\ ProgramSucceeds(a, e, IF op.written = 0 THEN SectorsOf(d.addresses) ELSE {})
              /\ cache' = [cache EXCEPT ![op.key] =
                    [value |-> d.value, txn |-> lastTxn,
                     addresses |-> IF op.written = 0 THEN <<a>> ELSE Append(d.addresses, a)]]
              /\ op' = IF op.written + 1 = options.redundancy THEN Settled("update")
                       ELSE [op EXCEPT !.written = @ + 1]
           \/ /\ ~intact /\ options.verify
              /\ flash' = Programmed(a, e)
              /\ sectors' = [sectors EXCEPT ![a[1]] = MarkCorrupt(@)]
              /\ error' = TRUE
              /\ op' = Failed("DATA_LOSS")
              /\ UNCHANGED <<options, cache, init, primary, used>>
           \/ /\ ProgramFails(a, e)
              /\ op' = Failed("DATA_LOSS")

\* GetStorageStats().in_use_bytes against kGcUsageThresholdPercentage.
OverUsageThreshold ==
    MapThenSumSet(ValidBytes, Sectors) > (SectorCount * Slots * 70) \div 100

\* The entries are converted; a full maintenance collects garbage next.
UpdateDone ==
    /\ op.pc = "update"
    /\ \A k \in op.todo : SlotAt(cache[k].addresses[1]).format = primary
    /\ op' = [op EXCEPT !.pc = "sweep", !.todo = {}, !.cursor = lastNew, !.pass = 0,
                        !.heavy = @ \/ OverUsageThreshold \/ op.converted]
    /\ UNCHANGED <<options, flash, ram, primary, used>>

\* The loop of FullMaintenanceHelper over the sectors.
Sweep ==
    /\ op.pc = "sweep"
    /\ LET at(j) == (op.cursor + j) % SectorCount
           j == First({i \in (op.pass + 1)..SectorCount :
                         /\ Recoverable(at(i)) > 0
                         /\ op.heavy \/ ValidBytes(at(i)) = 0})
       IN  op' = IF j = 0 THEN Returning(op.status)
                 ELSE [CollectSector(at(j), "sweep") EXCEPT !.pass = j]
    /\ UNCHANGED <<options, flash, ram, primary, used>>

\* PartialMaintenance collects one sector.
GarbageCollect ==
    /\ op.pc = "partial"
    /\ LET garbage == FindSectorToGarbageCollect({})
       IN  op' = IF garbage = NoSector THEN Returning("NOT_FOUND")
                 ELSE CollectSector(garbage, "partial")
    /\ UNCHANGED <<options, flash, ram, primary, used>>

-----------------------------------------------------------------------------
(* The store                                                               *)

AllErased == [s \in Sectors |-> [writable |-> Slots, valid |-> 0]]

\* Everything but the flash is gone.
PowerLoss ==
    /\ op.pc # "off"
    /\ used.losses < MaxPowerLosses
    /\ used' = [used EXCEPT !.losses = @ + 1]
    /\ cache' = NothingCached /\ sectors' = AllErased
    /\ lastNew' = 0 /\ lastTxn' = 0
    /\ init' = "none" /\ error' = FALSE
    /\ op' = Off
    /\ UNCHANGED <<options, flash, primary>>

Init ==
    /\ options \in [redundancy : Redundancies, gcOnWrite : GcModes,
                    recovery : Recoveries, verify : VerifyModes]
    /\ flash = [s \in Sectors |-> <<>>]
    /\ cache = NothingCached /\ sectors = AllErased
    /\ lastNew = 0 /\ lastTxn = 0
    /\ init = "none" /\ error = FALSE
    /\ primary = IF Upgrade THEN "old" ELSE "new"
    /\ op = Off
    /\ used = [faults |-> 0, losses |-> 0, maintenance |-> 0]

\* What the store does on its own once it is called.
Step ==
    \/ FindExisting
    \/ GetSectorForWrite
    \/ WriteEntry
    \/ WriteCopy
    \/ \E k \in Keys : RelocateEntry(k)
    \/ Relocated
    \/ EraseSector
    \/ RepairCorruptSectors
    \/ EnsureFreeSectorExists
    \/ \E k \in Keys : EnsureEntryRedundancy(k)
    \/ AddRedundantEntry
    \/ ErrorsFixed
    \/ \E k \in Keys : UpdateEntry(k)
    \/ ConvertEntry
    \/ UpdateDone
    \/ Sweep
    \/ GarbageCollect
    \/ Return

Next ==
    \/ Boot
    \/ \E k \in Keys, v \in Values : PutBytes(k, v)
    \/ \E k \in Keys : Delete(k)
    \/ FullMaintenance
    \/ HeavyMaintenance
    \/ PartialMaintenance
    \/ Step
    \/ PowerLoss

Spec == Init /\ [][Next]_vars

\* A call is synchronous: its thread runs until it returns.
FairSpec == Spec /\ WF_vars(Step)

-----------------------------------------------------------------------------
(* Properties                                                              *)

\* What the next Init() will find for a key: the newest entry in flash.
Recovered(k) ==
    LET entries == {SlotAt(a) : a \in {b \in ReadableAddresses : SlotAt(b).key = k}}
        newest == {e \in entries : \A other \in entries : other.txn <= e.txn}
        value == (CHOOSE e \in newest : TRUE).value
    IN  IF newest = {} \/ value = Tombstone THEN "absent" ELSE value

Content(value) == IF value \in {Tombstone, NoValue} THEN "absent" ELSE value

Abstract == INSTANCE AtomicMap WITH
    Contents <- Values \cup {"absent"},
    store <- [k \in Keys |-> Recovered(k)],
    request <-
        IF op.task # "Write"
        THEN [key |-> "none", content |-> "none", status |-> "none"]
        ELSE [key |-> op.key, content |-> Content(op.value),
              status |-> IF op.pc # "return" THEN "pending"
                         ELSE IF op.status = "OK" THEN "OK" ELSE "error"]

\* The store is an atomic map that survives power losses (docs.rst: "no
\* windows of vulnerability"): what Init() will find changes only by the write
\* in progress, at one instant, and that has happened when a write reports OK.
\* Garbage collection, repair, maintenance and boot change nothing.
IsAtomicMap == Abstract!Spec

\* What Get() reads through the cache is what Init() will find, at any step
\* of any operation: the copies a descriptor lists hold its newest entry.
CacheMatchesFlash ==
    init # "none" =>
        \A k \in Keys :
            /\ Content(cache[k].value) = Recovered(k)
            /\ \A i \in DOMAIN cache[k].addresses :
                LET a == cache[k].addresses[i]
                IN  /\ Readable(a)
                    /\ SlotAt(a).key = k
                    /\ SlotAt(a).txn = cache[k].txn

\* An entry has no more copies than the redundancy asks for, and they are
\* spread over sectors, so that losing one sector does not lose two of them.
CopiesInDistinctSectors ==
    \A k \in Cached :
        /\ Cardinality(SectorsOf(cache[k].addresses)) = Len(cache[k].addresses)
        /\ Len(cache[k].addresses) <= options.redundancy

\* Sector accounting: the valid bytes of a sector are those of the cached
\* entries in it, and where a sector is said to be writable the flash is erased.
AccountingMatchesFlash ==
    init # "none" =>
        \A s \in Sectors :
            /\ sectors[s].valid = Cardinality({k \in Keys : s \in SectorsOf(cache[k].addresses)})
            /\ ~IsCorrupt(s) => Writable(s) = Slots - Len(flash[s])

\* CreateEntry burns transaction ids so that two different entries never
\* share one, whatever failed and however often the power went.
TransactionIdsAreUnique ==
    LET entries == {SlotAt(a) : a \in ReadableAddresses}
    IN  \A e, f \in entries : e.txn = f.txn => e.key = f.key /\ e.value = f.value

\* sectors.h: "Maintains the invariant that there is always at least 1 empty
\* sector".  A store that is ready and has found no error has a free sector to
\* collect garbage into.
FreeSectorKept ==
    (op.pc = "idle" /\ init = "ready" /\ ~error /\ \A s \in Sectors : ~IsCorrupt(s)) =>
        \E s \in Sectors : Empty(s)

\* Every call returns: the garbage collection loop of GetSectorForWrite does
\* not go round for ever on a store that is full.
EveryCallReturns == op.pc \notin {"idle", "off"} ~> op.pc \in {"idle", "off"}

=============================================================================
