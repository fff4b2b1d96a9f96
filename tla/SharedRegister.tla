--------------------------- MODULE SharedRegister ---------------------------
(***************************************************************************)
(* What one seqlocked region of the shared-memory segment promises its     *)
(* single writer and its single reader: the region behaves as one atomic   *)
(* register.  A write replaces the whole register in one step; a read      *)
(* replaces the reader's snapshot by the register's contents of that       *)
(* moment, or leaves the snapshot alone when the region was never stable.  *)
(***************************************************************************)
CONSTANT Snapshot       \* the values the region can hold

VARIABLES
    register,           \* the contents of the region
    held                \* the reader's last known-good snapshot

vars == <<register, held>>

TypeOK ==
    /\ register \in Snapshot
    /\ held \in Snapshot

Init ==
    /\ register \in Snapshot
    /\ held = register

Write ==
    /\ register' \in Snapshot
    /\ UNCHANGED held

Read ==
    /\ held' = register
    /\ UNCHANGED register

Next == Write \/ Read

Spec == Init /\ [][Next]_vars

=============================================================================
