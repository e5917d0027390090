------------------------------ MODULE AtomicMap ------------------------------
(***************************************************************************)
(* What a KeyValueStore promises its caller: one write at a time takes     *)
(* effect as a whole or not at all, a write that reports OK has taken      *)
(* effect, and nothing else - garbage collection, repair, maintenance, a   *)
(* loss of power, the next Init() - changes what the store holds.          *)
(***************************************************************************)
CONSTANTS Keys, Contents

VARIABLES
    store,      \* key -> what a Get would find once the power is back
    request     \* the Put or Delete in progress

vars == <<store, request>>

NoRequest == [key |-> "none", content |-> "none", status |-> "none"]

Pending == request # NoRequest /\ request.status = "pending"

Init ==
    /\ store \in [Keys -> Contents]
    /\ request = NoRequest

Invoke ==
    /\ request = NoRequest
    /\ \E k \in Keys, c \in Contents :
        request' = [key |-> k, content |-> c, status |-> "pending"]
    /\ UNCHANGED store

TakeEffect ==
    /\ Pending
    /\ store' = [store EXCEPT ![request.key] = request.content]
    /\ request' \in {request, [request EXCEPT !.status = "OK"], [request EXCEPT !.status = "error"]}

Finish ==
    /\ Pending
    /\ \/ /\ store[request.key] = request.content
          /\ request' = [request EXCEPT !.status = "OK"]
       \/ request' = [request EXCEPT !.status = "error"]
    /\ UNCHANGED store

\* The caller has its answer, or the power went away before there was one.
Forget ==
    /\ request # NoRequest
    /\ request' = NoRequest
    /\ UNCHANGED store

Next == Invoke \/ TakeEffect \/ Finish \/ Forget

Spec == Init /\ [][Next]_vars

=============================================================================
