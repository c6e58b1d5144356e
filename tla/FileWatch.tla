----------------------------- MODULE FileWatch -----------------------------
(***************************************************************************)
(* How the daemon hears of a file's change: the directory watches it       *)
(* shares (watchers.ts), the paths that follow their folder as it comes    *)
(* and goes (source-runs.ts), and the probe that tells whether the OS      *)
(* still delivers events (file-events.ts), whose silence is caught up.     *)
(*                                                                         *)
(* The paths are files of one folder, "below", which may be removed, made  *)
(* again or replaced; while it is gone they are watched for in the folder  *)
(* above it.  A watch hears the folder it was opened on (inotify).  A turn *)
(* of the daemon finds where a path can change, reads which folder that    *)
(* is, opens the watch and has the path read: nothing else of the daemon   *)
(* runs meanwhile, but the folder may come, go or be replaced between two  *)
(* of those calls.  What a path is told of, its source reads               *)
(* (KeyedSource).                                                          *)
(***************************************************************************)
EXTENDS Integers, FiniteSets

CONSTANTS
    Paths,          \* the watched files
    Probe,          \* the probe file's holder
    StallAfter,     \* the unreported probes that are a stall
    MaxEdits,       \* bound: changes on disk
    MaxFaults,      \* bound: outages, refusals, errors and failed writes
    MaxBoth         \* bound: both together

ASSUME FileWatchAssumption ==
    /\ IsFiniteSet(Paths) /\ Probe \notin Paths
    /\ {"self", "below"} \cap (Paths \cup {Probe}) = {}    \* what else events name
    /\ StallAfter \in Nat \ {0} /\ {MaxEdits, MaxFaults, MaxBoth} \subseteq Nat

VARIABLES
    inode, content,     \* the folder below, 0 when gone, and what its files read
    found,              \* the folder a turn that began before the last change found
    flowing,            \* whether the OS delivers file events
    refuses,            \* whether it refuses a new watch
    probeFolder,        \* whether the probe's folder is there
    dirs, slots,        \* the directory watches, and each holder's watch
    seen, told,         \* what each path read last, and the fault it showed
    delivery, probing,  \* what the probes say, and whether there are any
    writing,            \* the probe under way
    edits, faults,
    lost                \* auxiliary: whether an outage took word of each path, or a
                        \* folder was made too early for the watch opened for it

disk == <<inode, content, edits>>
os == <<flowing, refuses, probeFolder, faults>>
daemon == <<dirs, slots, seen, told, delivery, probing, writing>>
watchVars == <<disk, os, daemon, found, lost>>

Holders == Paths \cup {Probe}
Dirs == {"above", "below", "probe"}

Bound(x) == CASE x = "below" -> inode
              [] x = "probe" -> IF probeFolder THEN 1 ELSE 0
              [] OTHER -> 1

Closed == [state |-> "closed", bound |-> 0, events |-> {}]
Deaf(d) == d.state \in {"refused", "failed"}

-----------------------------------------------------------------------------
(* The registry, as r: its directory watches and its holders' slots.       *)

Registry == [dirs |-> dirs, slots |-> slots]

\* A debounce window keeps the strongest of what it saw.
Folded(window, next) ==
    IF next = "failed" \/ window = "none" THEN next
    ELSE IF window = "changed" THEN next ELSE window

Listeners(r, x) == {h \in Holders : r.slots[h].dir = x}

Fire(r, holders, what) ==
    [r EXCEPT !.slots = [h \in Holders |->
        IF h \in holders THEN [r.slots[h] EXCEPT !.window = Folded(@, what)]
        ELSE r.slots[h]]]

Tell(r, x, what) == Fire(r, Listeners(r, x), what)

Opened(x) == IF refuses \/ Bound(x) = 0 THEN [Closed EXCEPT !.state = "refused"]
             ELSE [Closed EXCEPT !.state = "listening", !.bound = Bound(x)]

\* Mutant: a directory that listens again says nothing.
SaysFault(was, now) ==
    IF now.state = "listening" \/ was.state = "refused" THEN "none" ELSE "failed"

\* What a slot hears of its directory's opening again; the same deafness again is
\* nothing to tell.
Says(was, now) == IF now.state = "listening" THEN "unknown"
                  ELSE IF was.state = "refused" THEN "none" ELSE "failed"

\* Mutant: a deaf directory is never opened again.
AmissMoved(x, d) == d.state = "listening" /\ Bound(x) \notin {0, d.bound}

\* A directory watch names the folder at its path: one that is deaf, or bound to
\* another folder than the one there, is opened again.
Amiss(x, d) == \/ Deaf(d)
               \/ d.state = "listening" /\ Bound(x) \notin {0, d.bound}

Judged(r, xs) ==
    LET again == {x \in xs : Amiss(x, r.dirs[x])}
        Hearing(h) == r.slots[h].dir \in again
                      /\ Says(r.dirs[r.slots[h].dir], Opened(r.slots[h].dir)) # "none"
    IN [dirs |-> [x \in Dirs |-> IF x \in again THEN Opened(x) ELSE r.dirs[x]],
        slots |-> [h \in Holders |->
            IF Hearing(h)
            THEN [r.slots[h] EXCEPT !.window =
                    Folded(@, Says(r.dirs[r.slots[h].dir], Opened(r.slots[h].dir)))]
            ELSE r.slots[h]]]

\* A directory watch goes with the last slot on it.
Swept(r) == [r EXCEPT !.dirs = [x \in Dirs |-> IF Listeners(r, x) = {} THEN Closed
                                               ELSE r.dirs[x]]]

\* Where a path can change if the folder found is i and named as b: the slot that
\* takes.  A folder that binds nothing by then (bound 0) takes none.
Derived(i, b) == IF i = 0 THEN [dir |-> "above", bound |-> 1, window |-> "none"]
                          ELSE [dir |-> "below", bound |-> b, window |-> "none"]

\* What a turn may derive, of the folder there now and the one before the last
\* change, if it found that: the change came before or after it was named.
Now == {Derived(inode, inode)}
Derivations == {Derived(found, found), Derived(found, inode)} \cup Now

\* The paths whose watch is another than the slot at acquire it, and let the held
\* one go.
Followed(r, ps, at) ==
    LET movers == {p \in ps : /\ at.bound # 0
                              /\ r.slots[p].dir # at.dir \/ r.slots[p].bound # at.bound}
        taken == IF r.dirs[at.dir].state # "closed" THEN Judged(r, {at.dir})
                 ELSE [r EXCEPT !.dirs[at.dir] = Opened(at.dir)]
    IN IF movers = {} THEN r
       ELSE Swept([taken EXCEPT !.slots = [h \in Holders |->
                      IF h \in movers THEN at ELSE taken.slots[h]]])

Forgoing(r, h) ==
    Swept([r EXCEPT !.slots[h] = [dir |-> "none", bound |-> 0, window |-> "none"]])

\* A path read with the folder there, and left watching for it to be made.
Overtaken(r, p) == r.slots[p].dir = "above" /\ inode # 0

\* The state the daemon is left in: what the paths in read are told to read,
\* and those in said show their fault again.
Left(r, read, said) ==
    /\ dirs' = r.dirs /\ slots' = r.slots
    /\ seen' = [p \in Paths |-> IF p \in read THEN content[p] ELSE seen[p]]
    /\ told' = [p \in Paths |-> IF p \in said THEN Deaf(r.dirs[r.slots[p].dir]) ELSE told[p]]
    /\ lost' = [p \in Paths |-> IF p \notin read THEN lost[p]
                               ELSE IF ~Overtaken(r, p) THEN "no"
                               ELSE IF flowing THEN "short" ELSE lost[p]]
    /\ found' = inode

-----------------------------------------------------------------------------
(* The disk and the OS.                                                    *)

\* An event named n reaches the watch on x, or is lost.
Emit(ds, x, n) ==
    IF flowing /\ ds[x].state = "listening" /\ ds[x].bound = Bound(x)
    THEN [ds EXCEPT ![x].events = @ \cup {n}] ELSE ds

\* The files read as content says; a file that is not there reads as 0.  A turn
\* may have begun before.
Changed(now, files) ==
    /\ edits < MaxEdits /\ edits + faults < MaxBoth /\ edits' = edits + 1
    /\ content' = now /\ found' \in {inode, inode'}
    /\ lost' = [p \in Paths |-> IF p \in files /\ ~flowing THEN "lost" ELSE lost[p]]

Files(n) == [p \in Paths |-> n]

OnDisk == UNCHANGED <<os, slots, seen, told, delivery, probing, writing>>

Write(p) ==
    /\ inode # 0 /\ UNCHANGED inode /\ Changed([content EXCEPT ![p] = edits + 1], {p})
    /\ dirs' = Emit(dirs, "below", p) /\ OnDisk

Remove ==
    /\ inode # 0 /\ inode' = 0 /\ Changed(Files(0), Paths)
    /\ dirs' = Emit(Emit(dirs, "below", "self"), "above", "below") /\ OnDisk

\* Made empty, or renamed into place with its files.
Make ==
    /\ inode = 0 /\ inode' = edits + 2
    /\ \E n \in {0, edits + 1} : Changed(Files(n), Paths)
    /\ dirs' = Emit(dirs, "above", "below") /\ OnDisk

\* A folder above is renamed away, and another tree may be put at its path.
Replace ==
    /\ inode # 0
    /\ \/ inode' = 0 /\ Changed(Files(0), Paths)
       \/ inode' = edits + 2 /\ Changed(Files(edits + 1), Paths)
    /\ UNCHANGED dirs /\ OnDisk

Fault == faults < MaxFaults /\ edits + faults < MaxBoth /\ faults' = faults + 1

Silent == dirs["probe"].events = {} /\ slots[Probe].window = "none"

\* A span is open, or about to be: the probes no one heard are the stall the next
\* period finds, or the watch that could hear them failed.
Span == \/ delivery.missed \/ slots[Probe].window = "failed"
        \/ delivery.unreported >= StallAfter /\ writing # "out" /\ Silent

\* An outage that ends before it is a stall took what it took for good.
Flow ==
    /\ IF flowing THEN Fault /\ UNCHANGED lost
       ELSE /\ UNCHANGED faults
            /\ lost' = IF Span THEN lost
                       ELSE [p \in Paths |-> IF lost[p] = "lost" THEN "short" ELSE lost[p]]
    /\ flowing' = ~flowing /\ found' = inode
    /\ UNCHANGED <<disk, refuses, probeFolder, daemon>>

Refuse ==
    /\ refuses' = ~refuses /\ found' = inode /\ (IF refuses THEN UNCHANGED faults ELSE Fault)
    /\ UNCHANGED <<disk, flowing, probeFolder, daemon, lost>>

RemoveProbeFolder ==
    /\ probeFolder /\ Fault /\ probeFolder' = FALSE /\ found' = inode
    /\ UNCHANGED <<disk, flowing, refuses, daemon, lost>>

Still == UNCHANGED <<disk, os>>
NotProbes == UNCHANGED <<delivery, probing, writing>>

\* A watch's handle reports an error, and delivers nothing more.
Error(x) ==
    /\ dirs[x].state = "listening" /\ Fault
    /\ Left(Tell([Registry EXCEPT !.dirs[x] = [Closed EXCEPT !.state = "failed"]], x, "failed"),
            {}, {})
    /\ NotProbes /\ UNCHANGED <<disk, flowing, refuses, probeFolder>>

-----------------------------------------------------------------------------
(* What the daemon hears.                                                  *)

\* An event fires the slots whose filter has its name, or all of them when the
\* OS names none or the folder is no longer the one the handle bound.
Hear(x, n) ==
    LET r == [Registry EXCEPT !.dirs[x].events = @ \ {n}]
        moved == n = "self" /\ Bound(x) # dirs[x].bound
        named == Fire(r, IF moved \/ n = "below" THEN Listeners(r, x)
                         ELSE Listeners(r, x) \cap {n}, "changed")
    IN /\ n \in dirs[x].events
       /\ \E q \in {IF moved THEN Judged(named, {x}) ELSE named}
                  \cup (IF n = "self" THEN {} ELSE {Tell(r, x, "unknown")}) : Left(q, {}, {})
       /\ Still /\ NotProbes

\* A window closes: the path follows its folder, and is read unless it was not
\* there before and is not now.
PathHears(p) ==
    /\ slots[p].window # "none"
    /\ \E at \in Derivations :
       \E now \in {Followed([Registry EXCEPT !.slots[p].window = "none"], {p}, at)} :
         Left(now, IF /\ slots[p].window # "failed" /\ slots[p].dir # "below"
                      /\ now.slots[p].dir # "below" THEN {} ELSE {p}, {p})
    /\ Still /\ NotProbes

\* Mutant: every path follows its folder, and those that stay are not read.
NoticedMoves(r, ats) == \E at \in ats : \E q \in {Followed(r, Paths, at)} :
                           Left(q, {p \in Paths : q.slots[p] # r.slots[p]}, Paths)

\* Delivery moved, or a span closed: every path follows its folder and is read.
Noticed(r, ats) == \E at \in ats : \E q \in {Followed(r, Paths, at)} : Left(q, Paths, Paths)

\* The instrument ends, and its watch with it.
Ended(r, ats) ==
    /\ probing' = FALSE
    /\ delivery' = [kind |-> "unmeasured", unreported |-> 0, missed |-> TRUE]
    /\ Noticed(Forgoing(r, Probe), ats)

Delivered == [kind |-> "delivering", unreported |-> 0, missed |-> FALSE]

\* What the probe's watch reports proves delivery, and closes a span.
ProbeHears ==
    LET window == slots[Probe].window
        r == [Registry EXCEPT !.slots[Probe].window = "none"]
    IN /\ probing /\ window # "none"
       /\ IF window = "failed" THEN Ended(r, Derivations)
          ELSE /\ delivery' = Delivered /\ UNCHANGED probing
               /\ IF delivery.missed THEN Noticed(r, Derivations) ELSE Left(r, {}, {})
       /\ Still /\ UNCHANGED writing

\* A period: every directory is judged, then the probe's folder, then the probes
\* still unreported, and the next is written.  A period is far longer than what
\* it takes a delivered event to be heard and a probe to be written.  It judges
\* before it derives, and the folder stands still in between here.
Period ==
    LET stalls == delivery.kind = "delivering" /\ delivery.unreported >= StallAfter
    IN /\ writing = "none"
       /\ Silent
       /\ \E r \in {Judged(Registry, Dirs)} :
          IF probing /\ ~probeFolder THEN Ended(r, Now) /\ UNCHANGED writing
          ELSE /\ UNCHANGED probing
               /\ writing' = IF probing THEN "out" ELSE writing
               /\ delivery' = IF ~probing THEN delivery
                              ELSE IF stalls THEN [kind |-> "stalled", unreported |-> 0, missed |-> TRUE]
                              ELSE IF delivery.kind = "delivering"
                                   THEN [delivery EXCEPT !.unreported = @ + 1] ELSE delivery
               /\ IF probing /\ stalls THEN Noticed(r, Now) ELSE Left(r, {}, {})
       /\ Still

\* The probe's bytes land, before the daemon hears that they did.
Lands ==
    /\ writing = "out" /\ probeFolder
    /\ writing' = "landed" /\ dirs' = Emit(dirs, "probe", Probe)
    /\ Still /\ found' = inode /\ UNCHANGED <<slots, seen, told, delivery, probing, lost>>

\* A write that ends while delivery is unmeasured measures again.
Written ==
    /\ writing = "landed" /\ writing' = "none"
    /\ IF probing /\ delivery.kind = "unmeasured"
         THEN /\ delivery' = [delivery EXCEPT !.kind = "delivering", !.unreported = 1]
              /\ Noticed(Registry, Derivations)
         ELSE Left(Registry, {}, {}) /\ UNCHANGED delivery
    /\ Still /\ UNCHANGED probing

\* A write that fails tests no watch.
WriteFails ==
    /\ writing = "out" /\ writing' = "none"
    /\ IF probeFolder THEN Fault ELSE UNCHANGED faults
    /\ IF probing /\ delivery.kind # "unmeasured"
         THEN /\ delivery' = [kind |-> "unmeasured", unreported |-> 0, missed |-> TRUE]
              /\ Noticed(Registry, Derivations)
         ELSE Left(Registry, {}, {}) /\ UNCHANGED delivery
    /\ UNCHANGED <<disk, flowing, refuses, probeFolder, probing>>

-----------------------------------------------------------------------------
\* A daemon whose watches are open, before its first probe.
WatchInit ==
    /\ inode \in {0, 1} /\ content = [p \in Paths |-> 0] /\ edits = 0
    /\ flowing = TRUE /\ refuses = FALSE /\ probeFolder = TRUE /\ faults = 0
    /\ found = inode
    /\ slots = [h \in Holders |-> IF h = Probe
                                 THEN [dir |-> "probe", bound |-> 1, window |-> "none"]
                                 ELSE Derived(inode, inode)]
    /\ dirs = [x \in Dirs |-> IF x \in {"probe", Derived(inode, inode).dir}
                              THEN [state |-> "listening", bound |-> Bound(x), events |-> {}]
                              ELSE Closed]
    /\ seen = content /\ told = [p \in Paths |-> FALSE]
    /\ delivery = Delivered /\ probing = TRUE /\ writing = "none"
    /\ lost = [p \in Paths |-> "no"]

Hearing(x) == \E n \in dirs[x].events : Hear(x, n)
PathsHear == Hearing("above") \/ Hearing("below") \/ \E p \in Paths : PathHears(p)
Probing == Hearing("probe") \/ ProbeHears \/ Lands \/ Written \/ WriteFails

WatchNext ==
    \/ \E p \in Paths : Write(p)
    \/ Remove \/ Make \/ Replace
    \/ Flow \/ Refuse \/ RemoveProbeFolder
    \/ \E x \in Dirs : Error(x)
    \/ PathsHear \/ Probing \/ Period

WatchSpec == WatchInit /\ [][WatchNext]_watchVars

\* What the OS delivered is heard; the period runs, and what it wrote ends before
\* the next.
WatchFairSpec ==
    WatchSpec /\ WF_watchVars(PathsHear) /\ WF_watchVars(Period \/ Probing)

-----------------------------------------------------------------------------
\* A folder gone with an ancestor renamed away tells no one (inotify), and the
\* watch on it waits for a folder to come back to its path.
GoneUntold(p) == inode = 0 /\ slots[p].dir = "below"

\* What will have a path read again: its window, an event of its folder on its
\* way, a directory judged or opened again at the next period, or a span that
\* closing catches up.
Owed(p) ==
    LET x == slots[p].dir IN
    \/ slots[p].window # "none"
    \/ dirs[x].events \cap {p, "below", "self"} # {}
    \/ Deaf(dirs[x]) \/ Bound(x) # dirs[x].bound
    \/ Span

\* A change no one has read yet is owed a read, unless the OS delivers nothing
\* now, or lost it in an outage too short for the probes to see, or the path
\* watches for a folder made while it was opening that watch.
UnreadIsOwed ==
    \A p \in Paths :
       seen[p] # content[p] => ~flowing \/ lost[p] = "short" \/ Owed(p)

\* A path shows a fault of its watch exactly while it has one, or is about to
\* hear that that changed: a folder that listens again clears it.
FaultIsTold ==
    \A p \in Paths :
       told[p] # Deaf(dirs[slots[p].dir]) => slots[p].window # "none"

\* Every change is read at last, once the OS delivers and opens watches again: for a
\* directory it closed or never opened, one that was replaced, made or gone while
\* its watch was opened, and what a stall took, for as long as there are probes.
ReadAtLast ==
    (\E p \in Paths : seen[p] # content[p])
       ~> \A p \in Paths :
             \/ seen[p] = content[p] \/ ~flowing \/ refuses \/ GoneUntold(p)
             \/ lost[p] = "short" \/ (lost[p] = "lost" /\ ~probing)

=============================================================================
