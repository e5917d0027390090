------------------------------- MODULE WorkQueue -------------------------------
(***************************************************************************)
(* pw_work_queue: threads and interrupts push work items into a bounded     *)
(* queue, one worker thread runs them, and RequestStop lets it finish.  The *)
(* worker sleeps on the ThreadNotification of module ThreadNotification, so *)
(* pushes also fall between the steps of its acquire().                     *)
(***************************************************************************)
EXTENDS ThreadNotification, Naturals, Sequences

CONSTANTS
    WqCapacity,    \* entries of queue_storage
    MaxWorkItems   \* bound: items the clients push

ASSUME WqConstants == WqCapacity \in Nat \ {0} /\ MaxWorkItems \in Nat

VARIABLES
    wqQueue,         \* circular_buffer_; items are numbered as they are pushed
    wqStop,          \* stop_requested_
    wqMaxUsed,       \* max_queue_used_
    wqMinRemaining,  \* min_queue_remaining_
    wqPc,            \* where Run() is
    wqItem,          \* possible_work_item, 0 when there is none
    wqRemaining,     \* Run()'s work_remaining
    wqStopSeen,      \* Run()'s stop_requested
    wqPushed,        \* items accepted so far
    wqRun            \* the items that have been run, in order

wqOwnVars == <<wqQueue, wqStop, wqMaxUsed, wqMinRemaining, wqPc, wqItem,
               wqRemaining, wqStopSeen, wqPushed, wqRun>>

WqInit ==
    /\ wqQueue = <<>>
    /\ wqStop = FALSE
    /\ wqMaxUsed = 0
    /\ wqMinRemaining = WqCapacity
    /\ wqPc = "acquire"
    /\ wqItem = 0
    /\ wqRemaining = FALSE
    /\ wqStopSeen = FALSE
    /\ wqPushed = 0
    /\ wqRun = <<>>

(* InternalPushWork; a refused push (stopping, or full) changes nothing.    *)
(* The low-water mark is set from the entries, as the code does.            *)
InternalPushWork ==
    /\ wqPushed < MaxWorkItems
    /\ ~wqStop
    /\ Len(wqQueue) < WqCapacity
    /\ wqPushed' = wqPushed + 1
    /\ wqQueue' = Append(wqQueue, wqPushed')
    /\ LET entries == Len(wqQueue')
           remaining == WqCapacity - entries
       IN  /\ wqMaxUsed' = IF entries > wqMaxUsed THEN entries ELSE wqMaxUsed
           /\ wqMinRemaining' =
                IF remaining < wqMinRemaining THEN entries ELSE wqMinRemaining
    /\ NtRelease
    /\ UNCHANGED <<wqStop, wqPc, wqItem, wqRemaining, wqStopSeen, wqRun>>

RequestStop ==
    /\ wqStop' = TRUE
    /\ NtRelease
    /\ UNCHANGED <<wqQueue, wqMaxUsed, wqMinRemaining, wqPc, wqItem,
                   wqRemaining, wqStopSeen, wqPushed, wqRun>>

(* Run(): work_notification_.acquire(), step by step. *)
WqAcquire ==
    /\ wqPc = "acquire"
    /\ \/ NtReturnAtOnce(FALSE)
       \/ NtBlock(FALSE)
       \/ NtWake
       \/ NtLeave
    /\ wqPc' = IF ntResult' = "acquired" /\ ntPc' = "idle"
               THEN "pop" ELSE "acquire"
    /\ UNCHANGED <<wqQueue, wqStop, wqMaxUsed, wqMinRemaining, wqItem,
                   wqRemaining, wqStopSeen, wqPushed, wqRun>>

(* Run(): the locked part of the drain loop. *)
WqPop ==
    /\ wqPc = "pop"
    /\ wqItem' = IF wqQueue = <<>> THEN 0 ELSE Head(wqQueue)
    /\ wqQueue' = IF wqQueue = <<>> THEN <<>> ELSE Tail(wqQueue)
    /\ wqRemaining' = (wqQueue' # <<>>)
    /\ wqStopSeen' = wqStop
    /\ wqPc' = "work"
    /\ UNCHANGED <<ntVars, wqStop, wqMaxUsed, wqMinRemaining, wqPushed, wqRun>>

(* Where the loop goes once an item has run. *)
AfterWork ==
    IF wqRemaining THEN "pop" ELSE IF wqStopSeen THEN "returned" ELSE "acquire"

\* Mutant of WqWork: the stop request is read when the queue looks drained,
\* not together with the last pop.
WqWorkReadsStopLate ==
    /\ wqPc = "work"
    /\ wqRun' = IF wqItem = 0 THEN wqRun ELSE Append(wqRun, wqItem)
    /\ wqPc' = IF wqRemaining THEN "pop"
               ELSE IF wqStop THEN "returned" ELSE "acquire"
    /\ UNCHANGED <<ntVars, wqQueue, wqStop, wqMaxUsed, wqMinRemaining, wqItem,
                   wqRemaining, wqStopSeen, wqPushed>>

(* Run(): the item runs outside the lock, then the loop decides. *)
WqWork ==
    /\ wqPc = "work"
    /\ wqRun' = IF wqItem = 0 THEN wqRun ELSE Append(wqRun, wqItem)
    /\ wqPc' = AfterWork
    /\ UNCHANGED <<ntVars, wqQueue, wqStop, wqMaxUsed, wqMinRemaining, wqItem,
                   wqRemaining, wqStopSeen, wqPushed>>

WqRun == WqAcquire \/ WqPop \/ WqWork

WqNext == InternalPushWork \/ RequestStop \/ WqRun

\* What has run is the first so many items, in the order of their pushes.
RunInOrder == wqRun = [i \in 1..Len(wqRun) |-> i]

(* Every item PushWork accepts is run, exactly once and in the order of the *)
(* pushes, also when the stop request overtakes the worker and when a push  *)
(* falls between the steps of its acquire().                                *)
AcceptedWorkIsRun ==
    /\ []RunInOrder
    /\ \A n \in 1..MaxWorkItems : (wqPushed = n) ~> (Len(wqRun) >= n)
=============================================================================
