----------------------------- MODULE AtomicDisk -----------------------------
(***************************************************************************)
(* What the logging layer of xv6 promises to the file system: system calls *)
(* change a volatile view of the blocks; now and then, when no call is in  *)
(* progress, the whole view becomes durable in one step; a crash brings    *)
(* back the durable blocks. So the updates of a call survive a crash all   *)
(* together or not at all.                                                 *)
(***************************************************************************)
CONSTANTS Procs, Blocks, Values

VARIABLES durable,  \* block contents a crash leaves
          view,     \* block contents the running system sees
          active    \* processes inside a system call

vars == <<durable, view, active>>

Init == \E d \in [Blocks -> Values] : durable = d /\ view = d /\ active = {}

Begin(p) == p \notin active /\ active' = active \cup {p} /\ UNCHANGED <<durable, view>>

Write(p) ==
  /\ p \in active
  /\ \E b \in Blocks, v \in Values : view' = [view EXCEPT ![b] = v]
  /\ UNCHANGED <<durable, active>>

End(p) == p \in active /\ active' = active \ {p} /\ UNCHANGED <<durable, view>>

Commit == active = {} /\ durable' = view /\ UNCHANGED <<view, active>>

Crash == view' = durable /\ active' = {} /\ UNCHANGED durable

Next == (\E p \in Procs : Begin(p) \/ Write(p) \/ End(p)) \/ Commit \/ Crash

Spec == Init /\ [][Next]_vars
=============================================================================
