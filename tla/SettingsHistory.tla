--------------------------- MODULE SettingsHistory ---------------------------
(***************************************************************************)
(* The undo history of every settings change (settings-history.ts) over the *)
(* session picks and config files it changes.  A step is one click: the     *)
(* function from what it changed to the values before and after.  Files are *)
(* shared by the sessions and edited by hand; picks are a session's own and *)
(* reach the disk later than the history does.  A click's turn reads the    *)
(* files first and writes them later, and nothing keeps an editor from      *)
(* saving one in between: what it saved is overwritten.                     *)
(***************************************************************************)
EXTENDS Naturals, FiniteSets, SequencesExt

CONSTANTS
    Sessions, Files, Values,
    Picks,              \* the settings keys of each session
    Unset,              \* the value everything starts at
    MaxSteps,           \* MAX_STEPS
    MaxSessions,        \* MAX_SESSIONS
    MaxChanges,         \* MAX_BYTES, a change standing for its bytes
    MayNotSave,         \* whether the disk may refuse a save
    Editors,            \* bound: the sessions whose edit mode opens
    Clicked,            \* bound: the values a click writes
    Hands,              \* bound: the values a hand edit leaves in a file
    MaxUpsets           \* bound: hand edits, failed saves and lost picks

ASSUME HistoryAssumption ==
    /\ MaxSteps \in Nat \ {0} /\ MaxSessions \in Nat \ {0} /\ MaxChanges \in Nat \ {0}
    /\ Unset \in Values /\ Editors \subseteq Sessions /\ Clicked \subseteq Values /\ Hands \subseteq Values
    /\ MaxUpsets \in Nat /\ MayNotSave \in BOOLEAN
    /\ "nobody" \notin Sessions     \* who makes a change nobody records

VARIABLES
    val,                \* what each target holds
    edit,               \* whether each session's edit mode is open
    hist,               \* the history of each session
    order,              \* the sessions with one, least recently changed first
    seen,               \* what the turn under way read in the files, or NotRead
    opened,             \* auxiliary: values and past where each savepoint stands
    touched,            \* auxiliary: what of each session's something else changed,
                        \* or the byte bound cut from its redo steps
    upsets              \* auxiliary: the changes nobody recorded

historyVars == <<val, edit, hist, order, seen, opened, touched, upsets>>

Targets == Picks \cup Files
Reach(s) == {p \in Picks : p[1] = s} \cup Files

NoSavepoint == [at |-> 0, net |-> <<>>, below |-> <<>>, here |-> FALSE]
Savepoint(at, net, below) == [at |-> at, net |-> net, below |-> below, here |-> TRUE]
NoHistory == [past |-> <<>>, future |-> <<>>, sp |-> NoSavepoint]
NoMark == [val |-> <<>>, past |-> <<>>]
NotRead == <<>>

\* What the turn under way takes a target to hold.
Seen(t) == IF t \in Files THEN seen[t] ELSE val[t]

-----------------------------------------------------------------------------
\* The stack.

Capped(steps) ==
    SubSeq(steps, IF Len(steps) > MaxSteps THEN Len(steps) - MaxSteps + 1 ELSE 1, Len(steps))

DropFirst(steps, n) == SubSeq(steps, n + 1, Len(steps))

\* The next count steps a redo would take, in the order it would take them.
Redone(future, count) ==
    Reverse(DropFirst(future, IF count >= Len(future) THEN 0 ELSE Len(future) - count))

\* A target's net change keeps its first before and takes each later after, and
\* leaves when it is back where it started.
WithNet(net, step) ==
    LET merged == [t \in DOMAIN net \cup DOMAIN step |->
                      [before |-> IF t \in DOMAIN net THEN net[t].before ELSE step[t].before,
                       after  |-> IF t \in DOMAIN step THEN step[t].after ELSE net[t].after]]
    IN  Restrict(merged, {t \in DOMAIN merged : merged[t].before # merged[t].after})

Reversed(step) ==
    [t \in DOMAIN step |-> [before |-> step[t].after, after |-> step[t].before]]

\* The savepoint once `dropped` steps left the front of past and a step landed.
SavepointAfter(sp, dropped, step) ==
    IF ~sp.here THEN NoSavepoint
    ELSE Savepoint(IF sp.at > dropped THEN sp.at - dropped ELSE 0,
                   WithNet(sp.net, step), sp.below)

\* A fresh step abandons what was undone; the savepoint keeps what of it was
\* from before edit mode.
AfterAppend(h, step) ==
    LET all == Append(h.past, step)
        below == IF h.sp.at > Len(h.past) THEN h.sp.at - Len(h.past) ELSE 0
        held == Savepoint(IF h.sp.at < Len(h.past) THEN h.sp.at ELSE Len(h.past),
                          h.sp.net, Redone(h.future, below) \o h.sp.below)
    IN  [past |-> Capped(all), future |-> <<>>,
         sp |-> SavepointAfter(IF h.sp.here THEN held ELSE NoSavepoint,
                               Len(all) - Len(Capped(all)), step)]

\* Mutant: an undone step joins the net change the way it was made.
UndoJoinsForward(h) ==
    [past |-> Front(h.past), future |-> Capped(Append(h.future, Last(h.past))),
     sp |-> SavepointAfter(h.sp, 0, Last(h.past))]

AfterUndo(h) ==
    [past |-> Front(h.past), future |-> Capped(Append(h.future, Last(h.past))),
     sp |-> SavepointAfter(h.sp, 0, Reversed(Last(h.past)))]

AfterRedo(h) ==
    LET all == Append(h.past, Last(h.future))
    IN  [past |-> Capped(all), future |-> Front(h.future),
         sp |-> SavepointAfter(h.sp, Len(all) - Len(Capped(all)), Last(h.future))]

\* Mutant: what a fresh step abandoned is not given back.
PastAtWithoutBelow(h) ==
    LET kept == SubSeq(h.past, 1, IF h.sp.at < Len(h.past) THEN h.sp.at ELSE Len(h.past))
    IN  kept \o Redone(h.future, h.sp.at - Len(kept))

\* The stack as it stood when edit mode opened.
PastAt(h) ==
    LET kept == SubSeq(h.past, 1, IF h.sp.at < Len(h.past) THEN h.sp.at ELSE Len(h.past))
    IN  kept \o Redone(h.future, h.sp.at - Len(kept)) \o h.sp.below

\* Opening takes the savepoint at the stack as it stands, closing releases it.
WithToggle(h, was, is) ==
    [h EXCEPT !.sp = CASE is /\ ~was -> Savepoint(Len(h.past), <<>>, <<>>)
                       [] was /\ ~is -> NoSavepoint
                       [] OTHER -> h.sp]

Spared(step, gone) == Restrict(step, DOMAIN step \ gone)
Without(steps, gone) ==
    SelectSeq([i \in DOMAIN steps |-> Spared(steps[i], gone)], LAMBDA st : DOMAIN st # {})

\* Mutant: a refused step forgets the stale targets of its own stack only.
DroppedFromPast(h, gone) == [h EXCEPT !.past = Without(@, gone),
                                      !.sp.net = Spared(@, gone)]

\* What a refused step leaves of a history: nothing of the stale targets.
Dropped(h, gone) ==
    [past |-> Without(h.past, gone), future |-> Without(h.future, gone),
     sp |-> IF ~h.sp.here THEN NoSavepoint ELSE
            LET stack == h.past \o Reverse(h.future)
                n == IF h.sp.at < Len(stack) THEN h.sp.at ELSE Len(stack)
            IN  Savepoint(Len(Without(SubSeq(stack, 1, n), gone)),
                          Spared(h.sp.net, gone), Without(h.sp.below, gone))]

-----------------------------------------------------------------------------
\* The bounds the histories share.

\* Every change a history holds, by where it holds it.
Held(h) ==
    LET in(stack, steps) ==
            UNION {{<<stack, i>>} \X DOMAIN steps[i] : i \in DOMAIN steps}
    IN  in("past", h.past) \cup in("future", h.future)
        \cup in("net", <<h.sp.net>>) \cup in("below", h.sp.below)

Weight(h) == Cardinality(Held(h))

\* A lone history over the bound loses its oldest steps, past before future.
WithoutOldest(h, n) ==
    LET p == IF n < Len(h.past) THEN n ELSE Len(h.past)
    IN  [past |-> DropFirst(h.past, p), future |-> DropFirst(h.future, n - p),
         sp |-> SavepointAfter(h.sp, p, <<>>)]

\* Memory and file once a session's history changed: it is the most recent one,
\* and the least recent go until the others fit.
Put(hs, ord, s, h) ==
    LET others == SelectSeq(ord, LAMBDA x : x # s)
        next == IF h = NoHistory THEN others ELSE Append(others, s)
        now == [hs EXCEPT ![s] = h]
        weight(o) == Cardinality(UNION {{x} \X Held(now[x]) : x \in ToSet(o)})
        kept == DropFirst(next, Min({n \in 0..Len(next) :
                    /\ Len(next) - n <= MaxSessions
                    /\ Len(next) - n <= 1 \/ weight(DropFirst(next, n)) <= MaxChanges}))
        last == now[kept[1]]
        cuts == {n \in 0..(Len(last.past) + Len(last.future)) :
                    Weight(WithoutOldest(last, n)) <= MaxChanges}
        all == [x \in Sessions |-> IF Contains(kept, x) THEN now[x] ELSE NoHistory]
    IN  IF Len(kept) # 1 \/ Weight(last) <= MaxChanges THEN [hist |-> all, order |-> kept]
        ELSE IF cuts = {}
             THEN [hist |-> [x \in Sessions |-> NoHistory], order |-> <<>>]
             ELSE [hist |-> [all EXCEPT ![kept[1]] = WithoutOldest(last, Min(cuts))],
                   order |-> kept]

-----------------------------------------------------------------------------
\* What the observers of the properties see of a step: `by` recorded what moved,
\* and forgot what `gone` says of itself; everyone else sees it moved.
Observed(by, gone, lost) ==
    LET moved == {t \in Targets : val'[t] # val[t]}
    IN  touched' = [x \in Sessions |->
            IF hist'[x] = NoHistory THEN {}
            ELSE IF x = by THEN (touched[x] \ gone) \cup lost
            ELSE touched[x] \cup (moved \cap Reach(x))]

Marks(mark) == opened' = [x \in Sessions |-> IF hist'[x].sp.here THEN mark[x] ELSE NoMark]

MarkNow(s) == [val |-> Restrict(val', Reach(s)), past |-> hist'[s].past]

\* The history put, in memory and on disk at once.
Puts(s, h, gone) ==
    /\ \E held \in {h} : \E put \in {Put(hist, order, s, held)} :
          LET cut == Len(held.future) - Len(put.hist[s].future)
          IN  /\ hist' = put.hist /\ order' = put.order
              /\ Observed(s, gone, UNION {DOMAIN held.future[i] : i \in 1..cut})
    /\ UNCHANGED upsets

\* What moved was recorded by nobody.
Unrecorded == /\ upsets < MaxUpsets /\ upsets' = upsets + 1
              /\ UNCHANGED <<hist, order, opened>>
              /\ Observed("nobody", {}, {})

-----------------------------------------------------------------------------
HistoryInit ==
    /\ val = [t \in Targets |-> Unset] /\ edit = [s \in Sessions |-> FALSE]
    /\ hist = [s \in Sessions |-> NoHistory] /\ order = <<>> /\ seen = NotRead
    /\ opened = [s \in Sessions |-> NoMark] /\ touched = [s \in Sessions |-> {}]
    /\ upsets = 0

\* A click's turn begins: it reads every file it may write.  Nothing else of the
\* daemon runs until it ends.
Reads == /\ seen = NotRead /\ seen' = Restrict(val, Files)
         /\ UNCHANGED <<val, edit, hist, order, opened, touched, upsets>>

TurnEnds == seen # NotRead /\ seen' = NotRead

\* A click's handler changes some targets and perhaps the edit-mode key, and its
\* journal commits the changes as one step; a commit that cannot be saved leaves
\* what landed unrecorded.
Click(s) ==
    \E T \in SUBSET Reach(s), toggles \in BOOLEAN :
      \E to \in [T -> Clicked] :
        LET step == [t \in T |-> [before |-> Seen(t), after |-> to[t]]]
            appended == IF T = {} THEN hist[s] ELSE AfterAppend(hist[s], step)
        IN  /\ TurnEnds
            /\ T # {} \/ toggles
            /\ toggles => s \in Editors
            /\ \A t \in T : to[t] # Seen(t)
            /\ val' = [t \in Targets |-> IF t \in T THEN to[t] ELSE val[t]]
            /\ edit' = [edit EXCEPT ![s] = (@ # toggles)]
            /\ \/ /\ Puts(s, WithToggle(appended, edit[s], edit'[s]), {})
                  /\ Marks(IF toggles /\ edit'[s] THEN [opened EXCEPT ![s] = MarkNow(s)]
                                                  ELSE opened)
               \/ MayNotSave /\ Unrecorded

\* What a turn that fails leaves of a step: some of it as written, some put back
\* over whatever was there, the rest never reached.
Fails(step) ==
    \E T, B \in SUBSET DOMAIN step :
      /\ T \cap B = {} /\ (T \cup B) \cap Files # {}
      /\ val' = [t \in Targets |-> IF t \in T THEN step[t].after
                                 ELSE IF t \in B THEN step[t].before ELSE val[t]]
      /\ MayNotSave /\ Unrecorded

Written(step) == val' = [t \in Targets |-> IF t \in DOMAIN step THEN step[t].after ELSE val[t]]

\* A step lands whole with the history that records it, unless a target no longer
\* read as it promised: then nothing is written, and the history forgets that
\* target.  Refused its save, it is put back; refused that too, it is left half
\* applied, from a file on.  What is written is not compared again.
Apply(s, step, then) ==
    LET stale == {t \in DOMAIN step : Seen(t) # step[t].before}
    IN  /\ TurnEnds
        /\ \/ /\ stale # {}
              /\ UNCHANGED val
              /\ Puts(s, Dropped(hist[s], stale), stale)
              /\ Marks([opened EXCEPT ![s] =
                     IF @ = NoMark THEN @
                     ELSE [val |-> [t \in Reach(s) |-> IF t \in stale THEN val[t] ELSE @.val[t]],
                           past |-> Without(@.past, stale)]])
           \/ stale = {} /\ Written(step) /\ Puts(s, then, {}) /\ Marks(opened)
           \/ stale = {} /\ Fails(step)

Undo(s) == /\ hist[s].past # <<>>
           /\ Apply(s, Reversed(Last(hist[s].past)), AfterUndo(hist[s]))
           /\ UNCHANGED edit

Redo(s) == /\ hist[s].future # <<>>
           /\ Apply(s, Last(hist[s].future), AfterRedo(hist[s]))
           /\ UNCHANGED edit

\* Cancel: everything the net change still reads as its own goes back, the stack
\* takes the shape it had, and the savepoint stands there anew.
Rewind(s) ==
    LET h == hist[s]
        stale == {t \in DOMAIN h.sp.net : Seen(t) # h.sp.net[t].after}
        past == Capped(Without(PastAt(h), stale))
        back == Reversed(Spared(h.sp.net, stale))
    IN  /\ TurnEnds
        /\ h.sp.here
        /\ \/ /\ Written(back)
              /\ Puts(s, [past |-> past, future |-> <<>>,
                          sp |-> Savepoint(Len(past), <<>>, <<>>)], stale)
              /\ Marks([opened EXCEPT ![s] = MarkNow(s)])
           \/ Fails(back)
        /\ UNCHANGED edit

HandEdit(f) ==
    /\ \E v \in Hands \ {val[f]} : val' = [val EXCEPT ![f] = v]
    /\ UNCHANGED <<edit, seen>>
    /\ Unrecorded

\* A daemon that ends takes the latest picks with it: the next one takes up the
\* history, which is saved with every step, and picks that reached the disk
\* earlier, here any.
TakeUp ==
    /\ \E older \in [Picks -> Clicked], was \in [Editors -> BOOLEAN] :
          /\ val' = [t \in Targets |-> IF t \in Picks THEN older[t] ELSE val[t]]
          /\ edit' = [s \in Sessions |-> s \in Editors /\ was[s]]
    /\ seen' = NotRead
    /\ Unrecorded

HistoryNext ==
    \/ Reads
    \/ \E s \in Sessions : Click(s) \/ Undo(s) \/ Redo(s) \/ Rewind(s)
    \/ \E f \in Files : HandEdit(f)
    \/ TakeUp

HistorySpec == HistoryInit /\ [][HistoryNext]_historyVars

-----------------------------------------------------------------------------
\* While edit mode is open the net change names exactly the targets that differ
\* from when it opened, by the values they held then and hold now: what the menu
\* counts and cancel puts back, whatever clicks, undos and redos led there.
NetTellsTheDifference ==
    \A s \in Sessions : hist[s].sp.here =>
      \A t \in Reach(s) \ touched[s] :
        LET was == opened[s].val[t] IN
        IF val[t] = was THEN t \notin DOMAIN hist[s].sp.net
        ELSE /\ t \in DOMAIN hist[s].sp.net
             /\ hist[s].sp.net[t] = [before |-> was, after |-> val[t]]

\* An undo or a redo is refused only for what something else changed: of every
\* other target, each step a history holds goes on from where the one before it
\* left off, the steps below the present from what they undid and the ones above
\* from what is there now, whatever was clicked, undone, cancelled, refused,
\* trimmed, evicted or taken up since.
Present(t) == [u \in {t} |-> [before |-> val[t], after |-> val[t]]]
Line(s, t) == SelectSeq(hist[s].past \o <<Present(t)>> \o Reverse(hist[s].future),
                        LAMBDA step : t \in DOMAIN step)

StepsGoOn ==
    \A s \in Sessions : \A t \in Reach(s) \ touched[s] :
      LET line == Line(s, t)
      IN  \A i \in 2..Len(line) : line[i][t].before = line[i - 1][t].after

\* Cancel gives a session back every value edit mode found, but for what something
\* else changed, and of the stack it found the most recent steps.
CancelRestores ==
    [][\A s \in Sessions : hist' # hist /\ edit' = edit /\ Rewind(s) =>
         /\ \A t \in Reach(s) \ touched[s] : val'[t] = opened[s].val[t]
         /\ hist'[s].future = <<>>
         /\ IsSuffix(Without(hist'[s].past, touched[s]),
                     Without(opened[s].past, touched[s]))]_historyVars

=============================================================================
