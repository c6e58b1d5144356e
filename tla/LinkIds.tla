------------------------------ MODULE LinkIds ------------------------------
(***************************************************************************)
(* The ids a tmux status line's links are drawn under.  A home's counter   *)
(* (link-id-allocator.ts) reserves blocks of ids in a file before it       *)
(* issues any; each line's table (link-ids.ts) keeps the ids of the links  *)
(* it drew last, and drops the oldest over a cap once a frame is drawn.    *)
(* A row outlives the daemon that drew it, so a click may bring back any   *)
(* id ever drawn.                                                          *)
(***************************************************************************)
EXTENDS Integers, FiniteSets, Sequences

CONSTANTS
    Lines,          \* the sessions' status lines
    Links,          \* what a range may run
    Cap,            \* how many links a table keeps beyond its frame
    Block,          \* the ids reserved at once
    LastCount,      \* the last count the file's reader accepts
    Junk,           \* what the file holds when it holds no count
    MaxEdits        \* bound: the times someone edits the file

ASSUME LinkAssumption ==
    /\ IsFiniteSet(Links) /\ Cap \in Nat /\ Block \in Nat \ {0}
    /\ LastCount \in Nat /\ Junk \notin Int /\ MaxEdits \in Nat
    /\ "none" \notin Lines

VARIABLES
    count,      \* the file: the next id no process has reserved, or Junk
    state,      \* the allocator: ready, faulted with its retry, or closed
    reserved,   \* the end of the last block this process reserved
    table,      \* each line's ids, least recently drawn first
    frame,      \* the ids each line's last frame drew
    drawing,    \* the frame being drawn: its line, its links left, its ids
    shown,      \* auxiliary: the ids rows may still carry, with their links
    edits

vars == <<count, state, reserved, table, frame, drawing, shown, edits>>

Ready(n) == [kind |-> "ready", next |-> n, armed |-> FALSE]
Faulted == [kind |-> "faulted", next |-> 0, armed |-> TRUE]
Closed == [kind |-> "closed", next |-> 0, armed |-> FALSE]
NoFrame == [line |-> "none", left |-> {}, got |-> {}]

Named(id, link) == [id |-> id, link |-> link]
InTable(l, link) == \E i \in DOMAIN table[l] : table[l][i].link = link
Later(a, b) == IF a < b THEN b ELSE a

\* The names no count or block protects any more: a file someone removed or
\* lowered starts again below them.
Forgotten(file, end) ==
    {n \in shown : file # Junk /\ n.id >= Later(file, end)}

-----------------------------------------------------------------------------
Init == /\ count = 0 /\ state = Ready(0) /\ reserved = 0
        /\ table = [l \in Lines |-> <<>>] /\ frame = [l \in Lines |-> {}]
        /\ drawing = NoFrame /\ shown = {} /\ edits = 0

\* Mutant: a block starts where the file says, whatever this process reserved.
BaseOfFile == count

\* Where the next block starts: the file's count or the last block's end,
\* whichever is later.
Base == Later(count, reserved)

\* Whether a block fits below the last count the file's reader accepts.
Fits == count # Junk /\ Base + Block <= LastCount

\* One attempt at a block, written before any of it is issued: some of it is
\* issued at once.  Without a fit, or if the disk refuses, it faults.
Reserves(issued) ==
    /\ Fits
    /\ count' = Base + Block /\ reserved' = Base + Block
    /\ state' = Ready(Base + issued)
Faults == state' = Faulted /\ UNCHANGED <<count, reserved>>

\* Drawn, a link's name is its table's last; t is the table without it.
DrawnAs(l, t, link, id) ==
    /\ table' = [table EXCEPT ![l] = Append(t, Named(id, link))]
    /\ drawing' = [drawing EXCEPT !.left = @ \ {link}, !.got = @ \cup {Named(id, link)}]
DrawnBare(link) ==
    drawing' = [drawing EXCEPT !.left = @ \ {link}] /\ UNCHANGED table

\* A frame is drawn in one turn, link by link.
StartFrame(l, S) ==
    /\ drawing = NoFrame
    /\ drawing' = [line |-> l, left |-> S, got |-> {}]
    /\ UNCHANGED <<count, state, reserved, table, frame, shown, edits>>

\* A link the table holds keeps its id.
Reuse(l, link) ==
    /\ \E i \in DOMAIN table[l] :
          /\ table[l][i].link = link
          /\ DrawnAs(l, SubSeq(table[l], 1, i - 1) \o SubSeq(table[l], i + 1, Len(table[l])),
                     link, table[l][i].id)
    /\ UNCHANGED <<count, state, reserved>>

\* A new one is given the next id, out of a new block when this one is spent, or
\* none while there is none to give.
Mint(l, link) ==
    /\ ~InTable(l, link)
    /\ \/ /\ state.kind = "ready" /\ state.next # reserved
          /\ DrawnAs(l, table[l], link, state.next)
          /\ state' = Ready(state.next + 1) /\ UNCHANGED <<count, reserved>>
       \/ /\ state.kind = "ready" /\ state.next = reserved
          /\ \/ Reserves(1) /\ DrawnAs(l, table[l], link, Base)
             \/ Faults /\ DrawnBare(link)
       \/ /\ state.kind # "ready"
          /\ DrawnBare(link) /\ UNCHANGED <<count, state, reserved>>

RangeOf(link) ==
    /\ link \in drawing.left
    /\ Reuse(drawing.line, link) \/ Mint(drawing.line, link)
    /\ UNCHANGED <<frame, shown, edits>>

LastOf(t, n) == SubSeq(t, Later(1, Len(t) - n + 1), Len(t))

\* Mutant: the frame's own links go too.
KeptToCap(l) == LastOf(table[l], Cap)

\* The least recently drawn go while the table is over its cap, down to the
\* first link of this frame; the frame's own are its last, being just drawn.
Kept(l) == LastOf(table[l], Later(Cap, Cardinality(drawing.got)))

EndFrame ==
    /\ drawing # NoFrame /\ drawing.left = {}
    /\ table' = [table EXCEPT ![drawing.line] = Kept(drawing.line)]
    /\ frame' = [frame EXCEPT ![drawing.line] = drawing.got]
    /\ shown' = shown \cup drawing.got
    /\ drawing' = NoFrame
    /\ UNCHANGED <<count, state, reserved, edits>>

\* The line's last subscriber leaves, and its table with it.
Leave(l) ==
    /\ drawing = NoFrame /\ table[l] # <<>>
    /\ table' = [table EXCEPT ![l] = <<>>] /\ frame' = [frame EXCEPT ![l] = {}]
    /\ UNCHANGED <<count, state, reserved, drawing, shown, edits>>

\* Mutant: a retry that fails again arms no other.
RetryOnce ==
    /\ drawing = NoFrame /\ state.armed
    /\ \/ Reserves(0)
       \/ state' = [Faulted EXCEPT !.armed = FALSE] /\ UNCHANGED <<count, reserved>>
    /\ UNCHANGED <<table, frame, drawing, shown, edits>>

\* The fault's timer tries the file again.
Retry ==
    /\ drawing = NoFrame /\ state.armed
    /\ Reserves(0) \/ Faults
    /\ UNCHANGED <<table, frame, drawing, shown, edits>>

CloseIds ==
    /\ drawing = NoFrame /\ state.kind # "closed"
    /\ state' = Closed
    /\ UNCHANGED <<count, reserved, table, frame, drawing, shown, edits>>

\* The process ends, in the middle of a frame or not, and the next one starts:
\* only the file outlives it.
Restart ==
    /\ state' = Ready(0) /\ reserved' = 0
    /\ table' = [l \in Lines |-> <<>>] /\ frame' = [l \in Lines |-> {}]
    /\ drawing' = NoFrame
    /\ shown' = shown \ Forgotten(count, 0)
    /\ UNCHANGED <<count, edits>>

\* Someone removes the file, lowers or raises its count, or spoils it.
Edit ==
    /\ edits < MaxEdits /\ edits' = edits + 1
    /\ drawing = NoFrame
    /\ count' \in (0..LastCount) \cup {Junk}
    /\ shown' = shown \ Forgotten(count', reserved)
    /\ UNCHANGED <<state, reserved, table, frame, drawing>>

Next == \/ \E l \in Lines, S \in SUBSET Links : StartFrame(l, S)
        \/ \E link \in Links : RangeOf(link)
        \/ EndFrame \/ Retry \/ CloseIds \/ Restart \/ Edit
        \/ \E l \in Lines : Leave(l)

Spec == Init /\ [][Next]_vars

\* A frame begun is drawn, the timer fires, and the disk does not refuse for ever.
FairSpec == /\ Spec
            /\ WF_vars((\E link \in Links : RangeOf(link)) \/ EndFrame)
            /\ WF_vars(Retry) /\ SF_vars(Retry /\ state'.kind = "ready")

-----------------------------------------------------------------------------
\* A click runs the link its cell shows or nothing: no row, however old, carries
\* an id that a frame drew for another link since, whichever restarts, faults,
\* evictions and edits came between.
OneLinkPerId == \A m, n \in shown : m.id = n.id => m.link = n.link

\* A link the last frame drew keeps its id for the next: a row of more links
\* than the cap keeps every id it draws.
FrameIsHeld ==
    \A l \in Lines : \A n \in frame[l] :
       drawing.line # l => \E i \in DOMAIN table[l] : table[l][i] = n

\* Ids come back by themselves once the file can hold a block.
FaultClears ==
    state.kind = "faulted" /\ Fits ~> state.kind # "faulted" \/ ~Fits

=============================================================================
