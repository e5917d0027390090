---------------------------- MODULE FreeRtosThread ----------------------------
(***************************************************************************)
(* pw_thread_freertos: the life of a Thread, its Context and its task.  The *)
(* creator constructs the Thread and then joins or detaches it; the task    *)
(* runs the user's function and ends in ThreadEntryPoint.  Whoever comes    *)
(* last cleans the context up: the task when it finds itself detached, the  *)
(* creator otherwise.  A static context may be used again after a join.     *)
(***************************************************************************)
EXTENDS Naturals

CONSTANT MaxThreads   \* bound: threads constructed

ASSUME ThreadConstants == MaxThreads \in Nat

VARIABLES
    thCreator,    \* where the creator is
    thDynamic,    \* dynamically_allocated_
    thTaskHandle, \* task_handle_ # nullptr
    thDetached,   \* detached_
    thDone,       \* thread_done_
    thEvents,     \* the join event group: "none", "clear", "done" or "deleted"
    thTask,       \* where the task is
    thCleanups,   \* how often this thread's context has been cleaned up
    thCreated     \* threads constructed

thVars == <<thCreator, thDynamic, thTaskHandle, thDetached, thDone, thEvents,
            thTask, thCleanups, thCreated>>

ThInit ==
    /\ thCreator = "none"
    /\ thDynamic = FALSE
    /\ thTaskHandle = FALSE
    /\ thDetached = FALSE
    /\ thDone = FALSE
    /\ thEvents = "none"
    /\ thTask = "none"
    /\ thCleanups = 0
    /\ thCreated = 0

(* Thread(): the context is reset, the event group and the task created; a  *)
(* new task may run, to its end even, before its handle is stored.  (A      *)
(* detached static context may never be used again, a dynamic one is new.)  *)
CreateThread(dynamic) ==
    /\ thCreator \in {"none", "joined"} \/ (thCreator = "detached" /\ dynamic)
    /\ thTask \in {"none", "deleted"}
    /\ thCreated < MaxThreads
    /\ thCreator' = "creating"
    /\ thDynamic' = dynamic
    /\ thDetached' = FALSE
    /\ thDone' = FALSE
    /\ thEvents' = "clear"
    /\ thTask' = "running"
    /\ thCleanups' = 0
    /\ thCreated' = thCreated + 1
    /\ UNCHANGED thTaskHandle

StoreTaskHandle ==
    /\ thCreator = "creating"
    /\ thTaskHandle' = TRUE
    /\ thCreator' = "joinable"
    /\ UNCHANGED <<thDynamic, thDetached, thDone, thEvents, thTask, thCleanups,
                   thCreated>>

(* The clean-up both sides share: the handle is dropped, the event group    *)
(* deleted and a dynamic context freed.                                     *)
CleanUp ==
    /\ thTaskHandle' = FALSE
    /\ thEvents' = "deleted"
    /\ thCleanups' = thCleanups + 1

\* Mutant of TaskEnds: the task does not look whether it has been detached.
TaskEndsUnaware ==
    /\ thTask = "running"
    /\ thDone' = TRUE
    /\ thTask' = "set_bits"
    /\ UNCHANGED <<thTaskHandle, thEvents, thCleanups>>
    /\ UNCHANGED <<thCreator, thDynamic, thDetached, thCreated>>

(* ThreadEntryPoint, once the user's function has returned: the section     *)
(* with the scheduler suspended.                                            *)
TaskEnds ==
    /\ thTask = "running"
    /\ \/ /\ thDetached
          /\ CleanUp
          /\ thTask' = "deletes_itself"
          /\ UNCHANGED thDone
       \/ /\ ~thDetached
          /\ thDone' = TRUE
          /\ thTask' = "set_bits"
          /\ UNCHANGED <<thTaskHandle, thEvents, thCleanups>>
    /\ UNCHANGED <<thCreator, thDynamic, thDetached, thCreated>>

(* The event group that wakes join() is set outside that section. *)
TaskSetsBits ==
    /\ thTask = "set_bits"
    /\ thEvents' = IF thEvents = "clear" THEN "done" ELSE "corrupted"
    /\ thTask' = "suspended"
    /\ UNCHANGED <<thCreator, thDynamic, thTaskHandle, thDetached, thDone,
                   thCleanups, thCreated>>

TaskDeletesItself ==
    /\ thTask = "deletes_itself"
    /\ thTask' = "deleted"
    /\ UNCHANGED <<thCreator, thDynamic, thTaskHandle, thDetached, thDone,
                   thEvents, thCleanups, thCreated>>

(* detach(): the flag is set and thread_done read while the task cannot     *)
(* run. *)
Detach ==
    /\ thCreator = "joinable"
    /\ thDetached' = TRUE
    /\ thCreator' = IF thDone THEN "terminate" ELSE "detached"
    /\ UNCHANGED <<thDynamic, thTaskHandle, thDone, thEvents, thTask,
                   thCleanups, thCreated>>

(* TerminateThread, called by detach() on a task that is done. *)
TerminateDetached ==
    /\ thCreator = "terminate"
    /\ thTask' = "deleted"
    /\ CleanUp
    /\ thCreator' = "detached"
    /\ UNCHANGED <<thDynamic, thDetached, thDone, thCreated>>

(* join(): waits for the bit, clears it, terminates the task. *)
Join ==
    /\ thCreator = "joinable"
    /\ thEvents = "done"
    /\ thTask' = "deleted"
    /\ CleanUp
    /\ thCreator' = "joined"
    /\ UNCHANGED <<thDynamic, thDetached, thDone, thCreated>>

ThNext ==
    \/ \E dynamic \in BOOLEAN : CreateThread(dynamic)
    \/ StoreTaskHandle
    \/ TaskEnds
    \/ TaskSetsBits
    \/ TaskDeletesItself
    \/ Detach
    \/ TerminateDetached
    \/ Join

(* Whatever the order in which a task ends and its creator joins or         *)
(* detaches it: its context is cleaned up exactly once, not before the      *)
(* user's function has returned, and neither side touches the event group   *)
(* or looks for the handle afterwards.                                      *)
ContextCleanedUpOnce ==
    /\ thCleanups <= 1
    /\ thCleanups = 1 => thTask \notin {"running", "set_bits", "suspended"}
    /\ thCreator \in {"detached", "joined"} /\ thTask \in {"suspended", "deleted"}
         => thCleanups = 1
    /\ thCreator = "joinable" => thCleanups = 0 /\ thTaskHandle
    /\ thEvents # "corrupted"
=============================================================================
