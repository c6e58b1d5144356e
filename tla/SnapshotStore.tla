---------------------------- MODULE SnapshotStore ----------------------------
(***************************************************************************)
(* What the session store's file promises (SessionStorage, session-state.ts *)
(* and session-state-file.ts): the store moves on in memory, the disk       *)
(* catches up with some state the store was in, never goes back, and a      *)
(* restart takes up what the disk holds.  States are numbered in the order  *)
(* the store was in them.                                                   *)
(***************************************************************************)
EXTENDS Naturals

VARIABLES mem, disk

Init == mem = 0 /\ disk = 0

Save == mem' = mem + 1 /\ UNCHANGED disk

Land == disk' \in (disk + 1)..mem /\ UNCHANGED mem

Restart == mem' = disk /\ UNCHANGED disk

Next == Save \/ Land \/ Restart

Spec == Init /\ [][Next]_<<mem, disk>>

=============================================================================
