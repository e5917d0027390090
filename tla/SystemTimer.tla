------------------------------ MODULE SystemTimer ------------------------------
(***************************************************************************)
(* pw_chrono_freertos: a one-shot SystemTimer on top of a FreeRTOS software *)
(* timer.  Its state and deadline change under the scheduler lock; the      *)
(* FreeRTOS timer changes only when the timer service task works through    *)
(* the command queue, so an expiry can come before the commands that would  *)
(* have prevented it.                                                       *)
(*                                                                         *)
(* Times are kept relative to now: a deadline or an expiry is the number of *)
(* ticks left, 0 once reached, and a queued start command carries the ticks *)
(* since it was sent.                                                       *)
(***************************************************************************)
EXTENDS Naturals, Sequences

CONSTANTS
    kMaxTimeout,       \* the longest FreeRTOS timeout
    TickTypeModulus,   \* 2 ^ the width of TickType_t
    Delays,            \* bound: how far ahead a caller's deadline lies
    TimerQueueLength,  \* entries of the FreeRTOS timer command queue
    MaxTimerCalls      \* bound: InvokeAt, Cancel and destructor calls

ASSUME TimerConstants ==
    /\ kMaxTimeout \in Nat \ {0}
    /\ TickTypeModulus \in Nat /\ TickTypeModulus > kMaxTimeout
    /\ Delays \subseteq Nat /\ TimerQueueLength \in Nat /\ MaxTimerCalls \in Nat

VARIABLES
    tmState,      \* native_type_.state
    tmDeadline,   \* native_type_.expiry_deadline
    tmQueue,      \* the timer command queue
    tmActive,     \* the FreeRTOS timer is active
    tmPeriod,     \* its period
    tmExpiry,     \* ticks until it expires
    tmCallback,   \* the user's callback: "none", "due" (lock released), "running"
    tmLife,       \* "alive", "destructing", "destroyed"
    tmOwed,       \* a callback is scheduled and neither begun nor cancelled
    tmCalls       \* calls made

tmVars == <<tmState, tmDeadline, tmQueue, tmActive, tmPeriod, tmExpiry,
            tmCallback, tmLife, tmOwed, tmCalls>>

kMinTimerPeriod == 1

ChangePeriod(period) == [op |-> "change_period", ticks |-> period]
Start == [op |-> "start", ticks |-> 0]
Stop == [op |-> "stop", ticks |-> 0]
Delete == [op |-> "delete", ticks |-> 0]

Least(a, b) == IF a < b THEN a ELSE b
Less(a, b) == IF a > b THEN a - b ELSE 0

TmInit ==
    /\ tmState = "kCancelled"
    /\ tmDeadline = 0
    /\ tmQueue = <<>>
    /\ tmActive = FALSE
    /\ tmPeriod = kMinTimerPeriod
    /\ tmExpiry = 0
    /\ tmCallback = "none"
    /\ tmLife = "alive"
    /\ tmOwed = FALSE
    /\ tmCalls = 0

(* The queue has room for a call's two commands and for the two that an     *)
(* early expiry sends: an overflow crashes the program.                     *)
MayCall ==
    /\ tmLife = "alive"
    /\ tmCalls < MaxTimerCalls
    /\ Len(tmQueue) + 4 <= TimerQueueLength

(* The period InvokeAt asks for.  std::clamp is given the minimum as its    *)
(* value and the time left as the lower bound, so a time left beyond        *)
(* kMaxTimeout is not clamped but truncated to TickType_t.                  *)
InvokePeriod(delay) ==
    (IF delay > kMinTimerPeriod THEN delay ELSE kMinTimerPeriod)
        % TickTypeModulus

\* Mutant of InvokeAt: a timer that is still active is not started again.
InvokeAtTrustsActive(delay) ==
    /\ MayCall
    /\ tmDeadline' = delay
    /\ tmQueue' = IF tmActive THEN tmQueue
                  ELSE tmQueue \o <<ChangePeriod(InvokePeriod(delay)), Start>>
    /\ tmState' = "kScheduled"
    /\ tmOwed' = TRUE
    /\ tmCalls' = tmCalls + 1
    /\ UNCHANGED <<tmActive, tmPeriod, tmExpiry, tmCallback, tmLife>>

(* InvokeAt, with a timestamp that lies `delay` ticks ahead. *)
InvokeAt(delay) ==
    /\ MayCall
    /\ tmDeadline' = delay
    /\ tmQueue' = Append(tmQueue, ChangePeriod(InvokePeriod(delay)))
                      \o (IF tmState = "kCancelled" THEN <<Start>> ELSE <<>>)
    /\ tmState' = "kScheduled"
    /\ tmOwed' = TRUE
    /\ tmCalls' = tmCalls + 1
    /\ UNCHANGED <<tmActive, tmPeriod, tmExpiry, tmCallback, tmLife>>

Cancel ==
    /\ MayCall
    /\ tmState' = "kCancelled"
    /\ tmQueue' = Append(tmQueue, Stop)
    /\ tmOwed' = FALSE
    /\ tmCalls' = tmCalls + 1
    /\ UNCHANGED <<tmDeadline, tmActive, tmPeriod, tmExpiry, tmCallback, tmLife>>

(* ~SystemTimer: Cancel(), the queued deletion, and the busy wait. *)
Destroy ==
    /\ MayCall
    /\ tmState' = "kCancelled"
    /\ tmQueue' = tmQueue \o <<Stop, Delete>>
    /\ tmOwed' = FALSE
    /\ tmLife' = "destructing"
    /\ tmCalls' = tmCalls + 1
    /\ UNCHANGED <<tmDeadline, tmActive, tmPeriod, tmExpiry, tmCallback>>

FinishDestroy ==
    /\ tmLife = "destructing"
    /\ ~tmActive
    /\ tmLife' = "destroyed"
    /\ UNCHANGED <<tmState, tmDeadline, tmQueue, tmActive, tmPeriod, tmExpiry,
                   tmCallback, tmOwed, tmCalls>>

(* The timer service task is between two jobs.  What it does with the       *)
(* memory of a destroyed timer is beyond this model.                        *)
ServiceIsFree == tmCallback = "none" /\ tmLife # "destroyed"

(* The timer service task carries out a command. *)
ServiceCommand ==
    /\ ServiceIsFree
    /\ tmQueue # <<>>
    /\ \E command \in {Head(tmQueue)} :
        /\ tmQueue' = Tail(tmQueue)
        /\ tmActive' = (command.op \in {"change_period", "start"})
        /\ tmPeriod' =
             IF command.op = "change_period" THEN command.ticks ELSE tmPeriod
        /\ tmExpiry' = CASE command.op = "change_period" -> command.ticks
                         [] command.op = "start" -> Less(tmPeriod, command.ticks)
                         [] OTHER -> 0
    /\ UNCHANGED <<tmState, tmDeadline, tmCallback, tmLife, tmOwed, tmCalls>>

(* HandleTimerCallback, under the scheduler lock: nothing for a cancelled   *)
(* timer, the user's callback once the deadline is met, a new period else.  *)
HandleTimerCallback ==
    /\ ServiceIsFree
    /\ tmActive
    /\ tmExpiry = 0
    /\ tmActive' = FALSE
    /\ \/ /\ tmState = "kCancelled"
          /\ UNCHANGED <<tmState, tmCallback, tmQueue>>
       \/ /\ tmState = "kScheduled"
          /\ tmDeadline = 0
          /\ tmState' = "kCancelled"
          /\ tmCallback' = "due"
          /\ UNCHANGED tmQueue
       \/ /\ tmState = "kScheduled"
          /\ tmDeadline > 0
          /\ tmQueue' = tmQueue \o
               <<ChangePeriod(Least(kMaxTimeout, tmDeadline)), Start>>
          /\ UNCHANGED <<tmState, tmCallback>>
    /\ tmOwed' = (tmOwed /\ tmCallback' = "none")
    /\ UNCHANGED <<tmDeadline, tmPeriod, tmExpiry, tmLife, tmCalls>>

(* The user's callback, which the service task calls without the lock and   *)
(* during which any call may be made, by the callback itself too.           *)
BeginCallback ==
    /\ tmCallback = "due"
    /\ tmLife # "destroyed"
    /\ tmCallback' = "running"
    /\ UNCHANGED <<tmState, tmDeadline, tmQueue, tmActive, tmPeriod, tmExpiry,
                   tmLife, tmOwed, tmCalls>>

EndCallback ==
    /\ tmCallback = "running"
    /\ tmCallback' = "none"
    /\ UNCHANGED <<tmState, tmDeadline, tmQueue, tmActive, tmPeriod, tmExpiry,
                   tmLife, tmOwed, tmCalls>>

(* A tick; a period is shorter than TickTypeModulus, so no older start     *)
(* command need be told apart.                                              *)
Tick ==
    /\ tmLife # "destroyed"
    /\ tmDeadline' = Less(tmDeadline, 1)
    /\ tmExpiry' = Less(tmExpiry, 1)
    /\ tmQueue' = [i \in DOMAIN tmQueue |->
                     IF tmQueue[i].op = "start"
                     THEN [tmQueue[i] EXCEPT !.ticks = Least(TickTypeModulus, @ + 1)]
                     ELSE tmQueue[i]]
    /\ UNCHANGED <<tmState, tmActive, tmPeriod, tmCallback, tmLife, tmOwed,
                   tmCalls>>

TmService == ServiceCommand \/ HandleTimerCallback \/ BeginCallback \/ EndCallback

TmNext ==
    \/ \E delay \in Delays : InvokeAt(delay)
    \/ Cancel
    \/ Destroy
    \/ FinishDestroy
    \/ TmService
    \/ Tick

(* A callback that was scheduled and not cancelled does run, although the   *)
(* deadline may lie beyond what FreeRTOS can time, may be moved while the   *)
(* timer expires, and although a stop may still be in the command queue;    *)
(* and no callback is decided on that was cancelled, already given, or not  *)
(* yet due.                                                                 *)
TimerKeepsAppointments ==
    /\ [][tmCallback' = "due" => tmCallback = "due" \/ (tmOwed /\ tmDeadline = 0)]_tmVars
    /\ tmOwed ~> (~tmOwed)
=============================================================================
