-------------------------- MODULE ThreadNotification --------------------------
(***************************************************************************)
(* pw_sync_freertos: ThreadNotification and TimedThreadNotification, one    *)
(* waiting task and any number of releasers (tasks and interrupts).         *)
(*                                                                         *)
(* The native handle is a pair (notified, blocked_thread), guarded by       *)
(* critical sections; the blocked task sleeps on the notification state of  *)
(* its own task control block, which is FreeRTOS's (ntTcb).  A release can  *)
(* fall between any two critical sections of the acquiring task.            *)
(***************************************************************************)

VARIABLES
    ntNotified,   \* native_type_.notified
    ntBlocked,    \* native_type_.blocked_thread # nullptr
    ntTcb,        \* the task's notification state is pending
    ntPc,         \* where the acquiring task is
    ntResult      \* what its last call returned

ntVars == <<ntNotified, ntBlocked, ntTcb, ntPc, ntResult>>

NtInit ==
    /\ ntNotified = FALSE
    /\ ntBlocked = FALSE
    /\ ntTcb = FALSE
    /\ ntPc = "idle"
    /\ ntResult = "none"

(* The entry checks: nobody else blocks here, and the last call left no     *)
(* notification pending in the task control block.                          *)
Checked(result) == IF ntBlocked \/ ntTcb THEN "crashed" ELSE result

(* release(), from a task or from an interrupt. *)
NtRelease ==
    /\ ntNotified' = TRUE
    /\ ntTcb' = (ntTcb \/ ntBlocked)
    /\ ntBlocked' = FALSE
    /\ UNCHANGED <<ntPc, ntResult>>

(* The first critical section of a call that need not block: it is notified *)
(* already or, for a timed call, its deadline has been reached.             *)
NtReturnAtOnce(due) ==
    /\ ntPc = "idle"
    /\ ntNotified \/ due
    /\ ntResult' = Checked(IF ntNotified THEN "acquired" ELSE "timed_out")
    /\ ntNotified' = FALSE
    /\ UNCHANGED <<ntBlocked, ntTcb, ntPc>>

(* The first critical section of a call that blocks. *)
NtBlock(timed) ==
    /\ ntPc = "idle"
    /\ ~ntNotified
    /\ ntResult' = Checked("none")
    /\ ntBlocked' = TRUE
    /\ ntPc' = IF timed THEN "timed_wait" ELSE "wait"
    /\ UNCHANGED <<ntNotified, ntTcb>>

(* WaitForNotification returns pdTRUE, and FreeRTOS clears the state it     *)
(* waited for.  (A spurious pdFALSE only goes round the loop again.)        *)
NtWake ==
    /\ ntPc \in {"wait", "timed_wait"}
    /\ ntTcb
    /\ ntTcb' = FALSE
    /\ ntPc' = IF ntPc = "wait" THEN "leave" ELSE "timed_leave"
    /\ UNCHANGED <<ntNotified, ntBlocked, ntResult>>

(* A timed call finds its deadline reached. *)
NtExpire ==
    /\ ntPc = "timed_wait"
    /\ ntPc' = "timed_leave"
    /\ UNCHANGED <<ntNotified, ntBlocked, ntTcb, ntResult>>

(* acquire()'s last critical section: it does not look at the flag. *)
NtLeave ==
    /\ ntPc = "leave"
    /\ ntNotified' = FALSE
    /\ ntResult' = "acquired"
    /\ ntPc' = "idle"
    /\ UNCHANGED <<ntBlocked, ntTcb>>

\* Mutant of NtLeaveTimed: the pending task notification is not cleared.
NtLeaveTimedPending ==
    /\ ntPc = "timed_leave"
    /\ ntResult' = IF ntNotified THEN "acquired" ELSE "timed_out"
    /\ ntNotified' = FALSE
    /\ ntBlocked' = FALSE
    /\ ntPc' = "idle"
    /\ UNCHANGED ntTcb

(* try_acquire_until()'s last critical section: a release that came after   *)
(* the time-out still counts.                                               *)
NtLeaveTimed ==
    /\ ntPc = "timed_leave"
    /\ ntTcb' = FALSE
    /\ ntResult' = IF ntNotified THEN "acquired" ELSE "timed_out"
    /\ ntNotified' = FALSE
    /\ ntBlocked' = FALSE
    /\ ntPc' = "idle"

(* One task that calls acquire() and try_acquire_until(), and releasers. *)
NtNext ==
    \/ NtRelease
    \/ \E due \in BOOLEAN : NtReturnAtOnce(due)
    \/ \E timed \in BOOLEAN : NtBlock(timed)
    \/ NtWake
    \/ NtExpire
    \/ NtLeave
    \/ NtLeaveTimed

(* The notification implements a latched flag: no release is lost between   *)
(* the critical sections of an acquire or of a timed acquire that gives up, *)
(* acquire() returns only after a release nobody else took, and the entry   *)
(* checks never fail.                                                       *)
Flag == INSTANCE BinaryNotification
            WITH notified <- ntNotified, result <- ntResult
NotificationIsLatchedFlag == Flag!Spec
=============================================================================
