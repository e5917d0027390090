-------------------------- MODULE BinaryNotification --------------------------
(* What pw::sync::ThreadNotification and TimedThreadNotification promise:   *)
(* a flag that release() latches (several releases count as one), that a    *)
(* successful acquire takes, and that a timed acquire reports as absent     *)
(* only when it is absent at that moment.                                   *)

VARIABLES notified, result

Init ==
    /\ notified = FALSE
    /\ result = "none"

Release ==
    /\ notified' = TRUE
    /\ UNCHANGED result

Call ==
    /\ result' = "none"
    /\ UNCHANGED notified

Acquire ==
    /\ notified
    /\ notified' = FALSE
    /\ result' = "acquired"

TimeOut ==
    /\ ~notified
    /\ result' = "timed_out"
    /\ UNCHANGED notified

Next == Release \/ Call \/ Acquire \/ TimeOut

Spec == Init /\ [][Next]_<<notified, result>>
=============================================================================
