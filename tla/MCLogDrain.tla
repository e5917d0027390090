----------------------------- MODULE MCLogDrain -----------------------------
(***************************************************************************)
(* Small instances of LogDrain: kinds of entries with a size, a level, a   *)
(* flag and a module, and a filter that drops one of them.                 *)
(***************************************************************************)
EXTENDS LogDrain

\* "noise" is dropped by the filter, "warn" is longer than "info"; "long" does
\* not fit the packet and "huge" not the buffer for one entry.
MCSizeOf(kind) ==
  CASE kind \in {"info", "noise"} -> 2 [] kind = "warn" -> 3 [] kind = "long" -> 4 [] kind = "huge" -> 5
MCLevelOf(kind) == IF kind = "noise" THEN 1 ELSE 2
MCFlagsOf(kind) == IF kind = "warn" THEN {"flag"} ELSE {}
MCModuleOf(kind) == IF kind = "noise" THEN "noisy" ELSE "main"

MCRules ==
  <<[level |-> 1, flags |-> {}, module |-> "", action |-> "inactive"],
    [level |-> 1, flags |-> {"flag"}, module |-> "", action |-> "keep"],
    [level |-> 1, flags |-> {}, module |-> "noisy", action |-> "drop"]>>
=============================================================================
