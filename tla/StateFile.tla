------------------------------ MODULE StateFile ------------------------------
(***************************************************************************)
(* The session store's file (FileSessionStorage, session-state-file.ts):    *)
(* saves are debounced into one write at a time, staged and renamed on the  *)
(* thread pool while the loop goes on, and a synchronous flush lands beside *)
(* it.  The states of the store are numbered as it takes them; the write    *)
(* under way is the phase of its next step.                                 *)
(***************************************************************************)
EXTENDS Integers

CONSTANTS
    None,
    MayRefuse,      \* whether the disk may refuse an operation
    MaxSaves,       \* bound: the states the store is in
    MaxFlushes      \* bound: the flushes that land in one process

ASSUME FileAssumption ==
    /\ None \notin Int
    /\ MayRefuse \in BOOLEAN /\ MaxSaves \in Nat /\ MaxFlushes \in Nat

VARIABLES
    up,             \* whether the daemon runs
    open,           \* whether the store still persists
    mem,            \* the store's state
    pending,        \* the state not yet durably written, or None
    timer,          \* whether the debounce is armed
    write,          \* the debounced write
    tmp,            \* the state in its staged file, or None
    disk,           \* the state in the file
    generation,
    refused         \* auxiliary: the disk refused something since the last save

vars == <<up, open, mem, pending, timer, write, tmp, disk, generation, refused>>
loop == <<up, open, mem, pending, timer, generation>>

States == 0..MaxSaves
Phases == {"stage", "sync", "rename", "landed", "missing", "remove",
           "over"}
NoWrite == [phase |-> "none", snapshot |-> None, gen |-> 0]
Writes == {NoWrite} \cup
          [phase : Phases, snapshot : States, gen : 0..MaxFlushes]

Writing == write.phase # "none"
Goes(ph) == write' = [write EXCEPT !.phase = ph]
Current == write.gen = generation

-----------------------------------------------------------------------------
\* A store built over the file persists what it hydrated.
Init == /\ up = TRUE /\ open = TRUE /\ mem = 0 /\ pending = 0 /\ timer = TRUE
        /\ write = NoWrite /\ tmp = None /\ disk = 0 /\ generation = 0
        /\ refused = FALSE

\* save: the newest state, and the debounce unless one is armed or writing.
Save ==
    /\ up /\ open /\ mem < MaxSaves
    /\ mem' = mem + 1 /\ pending' = mem + 1
    /\ timer' = (timer \/ ~Writing)
    /\ refused' = FALSE
    /\ UNCHANGED <<up, open, write, tmp, disk, generation>>

\* The debounce fires and the write begins.
Fire ==
    /\ up /\ timer
    /\ timer' = FALSE
    /\ write' = IF pending = None THEN write
                ELSE [phase |-> "stage", snapshot |-> pending, gen |-> generation]
    /\ UNCHANGED <<up, open, mem, pending, tmp, disk, generation, refused>>

\* The thread pool makes the staged file and fills it,
Stage ==
    /\ up /\ write.phase = "stage"
    /\ \/ tmp' = write.snapshot /\ Goes("sync") /\ UNCHANGED refused
       \/ MayRefuse /\ UNCHANGED tmp /\ Goes("over") /\ refused' = TRUE
    /\ UNCHANGED <<loop, disk>>

\* and once it is synced the loop asks whether a flush came first.
Synced ==
    /\ up /\ write.phase = "sync"
    /\ \/ Goes(IF Current THEN "rename" ELSE "remove") /\ UNCHANGED refused
       \/ MayRefuse /\ Goes("over") /\ refused' = TRUE
    /\ UNCHANGED <<loop, tmp, disk>>

\* The thread pool renames whatever is staged by then.
Rename ==
    /\ up /\ write.phase = "rename"
    /\ \/ /\ tmp # None
          /\ disk' = tmp /\ tmp' = None /\ Goes("landed") /\ UNCHANGED refused
       \/ tmp = None /\ Goes("missing") /\ UNCHANGED <<disk, tmp, refused>>
       \/ /\ MayRefuse /\ Goes("over") /\ refused' = TRUE
          /\ UNCHANGED <<disk, tmp>>
    /\ UNCHANGED loop

\* Mutant: a superseded write that landed returns before it is over.
LandedReturns ==
    /\ up /\ write.phase = "landed"
    /\ pending' = IF Current /\ pending = write.snapshot THEN None ELSE pending
    /\ Goes(IF Current THEN "over" ELSE "landed")
    /\ UNCHANGED <<up, open, mem, timer, tmp, disk, generation, refused>>

\* The loop hears of the rename: what it wrote is durable, unless a flush
\* superseded it.
Landed ==
    /\ up /\ write.phase = "landed"
    /\ pending' = IF Current /\ pending = write.snapshot THEN None ELSE pending
    /\ Goes("over")
    /\ UNCHANGED <<up, open, mem, timer, tmp, disk, generation, refused>>

\* A rename that found nothing was superseded, or failed.
Missing ==
    /\ up /\ write.phase = "missing"
    /\ Goes(IF Current THEN "over" ELSE "remove")
    /\ UNCHANGED <<loop, tmp, disk, refused>>

\* The superseded write's staged file goes.
RemoveStaged ==
    /\ up /\ write.phase = "remove"
    /\ tmp' = None \/ (MayRefuse /\ UNCHANGED tmp)
    /\ Goes("over")
    /\ UNCHANGED <<loop, disk, refused>>

\* The write is over: a state saved meanwhile is written next.
Over ==
    /\ up /\ write.phase = "over"
    /\ write' = NoWrite
    /\ timer' = (timer \/ pending \notin {None, write.snapshot})
    /\ UNCHANGED <<up, open, mem, pending, tmp, disk, generation, refused>>

\* Mutant: a flush writes in place, and one refused half way leaves the file
\* of a first boot.
FlushInPlace ==
    /\ up /\ open
    /\ timer' = FALSE
    /\ \/ pending = None /\ UNCHANGED <<pending, tmp, disk, generation, refused>>
       \/ /\ pending # None /\ generation < MaxFlushes
          /\ tmp' = None /\ disk' = pending /\ generation' = generation + 1
          /\ pending' = None /\ UNCHANGED refused
       \/ /\ pending # None /\ MayRefuse
          /\ tmp' \in {tmp, None} /\ refused' = TRUE /\ disk' \in {disk, 0}
          /\ UNCHANGED <<pending, generation>>
    /\ open' \in {TRUE, FALSE}
    /\ UNCHANGED <<up, mem, write>>

\* flush: synchronous, from the store or from its close, after which the store
\* persists no more.  The disk may refuse it before the staged file went or after.
Flush ==
    /\ up /\ open
    /\ timer' = FALSE
    /\ \/ pending = None /\ UNCHANGED <<pending, tmp, disk, generation, refused>>
       \/ /\ pending # None /\ generation < MaxFlushes
          /\ tmp' = None /\ disk' = pending /\ generation' = generation + 1
          /\ pending' = None /\ UNCHANGED refused
       \/ /\ pending # None /\ MayRefuse
          /\ tmp' \in {tmp, None} /\ refused' = TRUE
          /\ UNCHANGED <<pending, disk, generation>>
    /\ open' \in {TRUE, FALSE}
    /\ UNCHANGED <<up, mem, write>>

\* The process ends, in the middle of anything; the staged name was its own.
Crash ==
    /\ up
    /\ up' = FALSE /\ open' = FALSE
    /\ mem' = disk /\ pending' = None /\ timer' = FALSE
    /\ write' = NoWrite /\ tmp' = None /\ generation' = 0 /\ refused' = FALSE
    /\ UNCHANGED disk

\* The next daemon hydrates from the file and persists what it took up.
Restart ==
    /\ ~up
    /\ up' = TRUE /\ open' = TRUE
    /\ pending' = mem /\ timer' = TRUE
    /\ UNCHANGED <<mem, write, tmp, disk, generation, refused>>

Pool == Stage \/ Rename
Loop == Fire \/ Synced \/ Landed \/ Missing \/ RemoveStaged \/ Over

Next == Save \/ Pool \/ Loop \/ Flush \/ Crash \/ Restart

Spec == Init /\ [][Next]_vars

\* The timer fires and what the thread pool was given ends.
FairSpec == Spec /\ WF_vars(Pool \/ Loop)

-----------------------------------------------------------------------------
\* The store, its file, the staged file and the write under way have their types.
TypeOK == /\ up \in BOOLEAN /\ open \in BOOLEAN
          /\ mem \in States /\ pending \in States \cup {None}
          /\ timer \in BOOLEAN /\ write \in Writes
          /\ tmp \in States \cup {None} /\ disk \in States
          /\ generation \in 0..MaxFlushes /\ refused \in BOOLEAN

\* What the store is promised of its file: however a debounced write, a flush
\* and a crash interleave, the disk only ever moves on, to a state the store was
\* in since it took the file up.
Store == INSTANCE SnapshotStore WITH mem <- mem, disk <- disk
KeepsItsPromise == Store!Spec

\* pending is the state not yet durably written: with none, the file is the
\* store, and stays it whatever older write is still under way.
NothingForgotten == up /\ pending = None => disk = mem

\* A state waits for another save only if the disk refused one since: no
\* flush, save or write under way leaves it with neither a timer nor a write.
WaitsOnlyIfRefused ==
    up /\ pending # None => timer \/ Writing \/ refused

\* A state the store was in reaches the file, it or a later one, unless the disk
\* refuses or the daemon ends.
Lands == \A n \in States :
            (up /\ pending = n) ~> (disk >= n \/ refused \/ ~up)

=============================================================================
