-------------------------------- MODULE Platform --------------------------------
(***************************************************************************)
(* The FreeRTOS platform layer and the services above it, for TLC: the      *)
(* initial state picks one subject, and only its module takes steps, so the *)
(* state spaces of the subjects add up instead of multiplying.  The work    *)
(* queue runs on the notification of its own module; the update service     *)
(* takes from the work queue that an accepted item is run, once.            *)
(***************************************************************************)
EXTENDS WorkQueue, SystemTimer, FreeRtosThread, FreeListHeap, SoftwareUpdate

MCBucketSizes == <<4, 8>>

(* Bundles for the update service: one that is good and brings version 1,   *)
(* one that rotates the root, brings version 2 and leaves out a payload the *)
(* device has, one that is signed by a stranger, and one of an old version  *)
(* with a payload left out.                                                 *)
Signed(keys) == [i \in DOMAIN keys |-> [key |-> keys[i], good |-> TRUE]]

MCRoot(version, key) ==
    [version |-> version, rootKeys |-> {key}, rootThreshold |-> 1,
     targetsKeys |-> {"targets"}, targetsThreshold |-> 1]

MCFiles == {[name |-> "app", length |-> 1, hash |-> "a"],
            [name |-> "model", length |-> 1, hash |-> "m"]}

MCPayloads(names) ==
    [n \in names |-> [length |-> 1, hash |-> IF n = "app" THEN "a" ELSE "m"]]

MCBundle(root, rootKeys, version, targetsKey, names) ==
    [root |-> root, rootSignatures |-> Signed(rootKeys),
     targets |-> [version |-> version, signatures |-> Signed(<<targetsKey>>),
                  files |-> MCFiles],
     payloads |-> MCPayloads(names)]

MCFactoryRoot == MCRoot(1, "root1")

MCBundles ==
    {MCBundle(None, <<>>, 1, "targets", {"app", "model"}),
     MCBundle(MCRoot(2, "root2"), <<"root1", "root2">>, 2, "targets", {"app"}),
     MCBundle(None, <<>>, 2, "stranger", {"app", "model"}),
     MCBundle(MCFactoryRoot, <<"root1">>, 1, "targets", {"app"})}

VARIABLE subject

platformVars == <<subject, ntVars, wqOwnVars, tmVars, thVars, heapVars,
                  suVars>>

Subjects ==
    {"notification", "work_queue", "timer", "thread", "heap", "update"}

Init ==
    /\ subject \in Subjects
    /\ NtInit
    /\ WqInit
    /\ TmInit
    /\ ThInit
    /\ HeapInit
    /\ SuInit

(* A step of one subject leaves the others' state alone. *)
NotificationOnly ==
    UNCHANGED <<subject, wqOwnVars, tmVars, thVars, heapVars, suVars>>
WorkQueueOnly == UNCHANGED <<subject, tmVars, thVars, heapVars, suVars>>
TimerOnly == UNCHANGED <<subject, ntVars, wqOwnVars, thVars, heapVars, suVars>>
ThreadOnly == UNCHANGED <<subject, ntVars, wqOwnVars, tmVars, heapVars, suVars>>
HeapOnly == UNCHANGED <<subject, ntVars, wqOwnVars, tmVars, thVars, suVars>>
UpdateOnly == UNCHANGED <<subject, ntVars, wqOwnVars, tmVars, thVars, heapVars>>

Next ==
    \/ subject = "notification" /\ NtNext /\ NotificationOnly
    \/ subject = "work_queue" /\ WqNext /\ WorkQueueOnly
    \/ subject = "timer" /\ TmNext /\ TimerOnly
    \/ subject = "thread" /\ ThNext /\ ThreadOnly
    \/ subject = "heap" /\ HeapNext /\ HeapOnly
    \/ subject = "update" /\ SuNext /\ UpdateOnly

(* The worker thread and the timer service task are scheduled, work items   *)
(* and callbacks return, and time passes.                                   *)
Fairness ==
    /\ WF_platformVars(subject = "work_queue" /\ WqRun /\ WorkQueueOnly)
    /\ WF_platformVars(subject = "timer" /\ TmService /\ TimerOnly)
    /\ WF_platformVars(subject = "timer" /\ Tick /\ TimerOnly)

Spec == Init /\ [][Next]_platformVars /\ Fairness
=============================================================================
