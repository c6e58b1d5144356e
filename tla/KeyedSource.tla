---------------------------- MODULE KeyedSource ----------------------------
(***************************************************************************)
(* A keyed source's entries (keyed-source.ts): one shared reading per key, *)
(* held by homes (holds.ts), read again by a change, by its period         *)
(* (period.ts) or by a hold's return, abandoned by a supersede, and kept   *)
(* past its holders up to a bound.  One action per turn of the event loop: *)
(* a declaration, a release, a supersede, its resume, a watch's report, a  *)
(* period's timer, a read landing, and the close.                          *)
(*                                                                         *)
(* A value is the version of the world it was read from, so a property can *)
(* say how old it is.                                                      *)
(***************************************************************************)
EXTENDS Integers, FiniteSets

CONSTANTS
    Keys,           \* what the source's entries are keyed by
    Periodic,       \* the keys whose input has a period (`every` is not null)
    Homes,          \* who holds entries
    Wanted,         \* the keys a home's configuration names
    Refreshed,      \* the keys a click's run refreshes: those it supersedes
    MaxEntries,     \* how many entries nothing holds are kept
    MaxWorld,       \* bound: how often what a key names changes
    MaxSupersedes,  \* bound: supersedes of one key outstanding at once
    MaxReads        \* bound: reads of one key out at once, abandoned ones included

ASSUME KeyedSourceAssumption ==
    /\ IsFiniteSet(Keys) /\ Periodic \subseteq Keys /\ Refreshed \subseteq Keys
    /\ Wanted \in [Homes -> SUBSET Keys]
    /\ MaxEntries \in Nat /\ MaxWorld \in Nat
    /\ MaxSupersedes \in Nat
    /\ MaxReads \in Nat /\ MaxReads > 1

VARIABLES
    entry,      \* each key's entry, Blank where none is stored
    order,      \* the Map: <<j, k>> where j was touched no later than k
    reads,      \* the reads out, each with the signal it was handed
    held,       \* the keys each home holds
    moving,     \* the supersedes of each key whose resume is not called yet
    world,      \* the version of what each key names
    unheard,    \* the keys whose watch has a change to report
    closed,
    due         \* auxiliary: the version the key's triggers so far call for

vars == <<entry, order, reads, held, moving, world, unheard, closed, due>>

NoRead == 0
ReadIds == 1..MaxReads

Entries == [settled : BOOLEAN,      \* the reading: an outcome, or pending
            v : 0..MaxWorld,        \* what the outcome was read from
            holders : Nat,
            flight : ReadIds \cup {NoRead},
            changed : BOOLEAN,
            superseding : Nat,
            answered : BOOLEAN,     \* the revisit's: a read has landed
            armed : BOOLEAN]        \* the period's timer is set

Blank == [settled |-> FALSE, v |-> 0, holders |-> 0, flight |-> NoRead,
          changed |-> FALSE, superseding |-> 0, answered |-> FALSE,
          armed |-> FALSE]

Reads == [id : ReadIds, key : Keys, since : 0..MaxWorld, aborted : BOOLEAN]

In(ord) == {k \in Keys : <<k, k>> \in ord}
Without(ord, dropped) == {p \in ord : p[1] \notin dropped /\ p[2] \notin dropped}

Stored(k) == <<k, k>> \in order

Touched(k) == Without(order, {k}) \cup ((In(order) \cup {k}) \X {k})

-----------------------------------------------------------------------------
(* What happens to one entry within a turn.                                *)

FreeIds(k) == ReadIds \ {r.id : r \in {r \in reads : r.key = k}}
NewId(k) == CHOOSE id \in FreeIds(k) : TRUE

Refresh(k, e, by) ==
    IF e.superseding > 0 THEN e
    ELSE IF e.flight # NoRead THEN [e EXCEPT !.changed = @ \/ by = "change"]
    ELSE [e EXCEPT !.flight = NewId(k)]

\* The hold that finds an entry nobody held, read before.
Returns(e) == e.holders = 0 /\ e.answered

\* HoldReturn.hold and Period.hold: the first holder back to an entry that has
\* answered re-reads it, or resumes its period.
Hold(k, e) ==
    LET more == [e EXCEPT !.holders = @ + 1]
    IN  IF ~Returns(e) THEN more
        ELSE IF k \in Periodic THEN [more EXCEPT !.armed = TRUE]
        ELSE Refresh(k, more, "change")

LetGo(e) ==
    [e EXCEPT !.holders = @ - 1, !.armed = @ /\ e.holders > 1]

\* Mutant: the answer of a read a change arrived during is the last one.
StoreForgetsChange(k, e, v) ==
    [e EXCEPT !.flight = NoRead, !.settled = TRUE, !.v = v, !.answered = TRUE,
              !.changed = FALSE, !.armed = k \in Periodic /\ e.holders > 0]

\* Mutant: only a read its home asked for again arms the next visit.
StoreKeepsTimer(k, e, v) ==
    LET landed == [e EXCEPT !.flight = NoRead, !.settled = TRUE, !.v = v,
                            !.answered = TRUE, !.changed = FALSE]
    IN  IF e.changed THEN Refresh(k, landed, "change") ELSE landed

\* store: settle, the revisit's landing, and the re-read a change queued.
Store(k, e, v) ==
    LET landed == [e EXCEPT !.flight = NoRead, !.settled = TRUE, !.v = v,
                            !.answered = TRUE, !.changed = FALSE,
                            !.armed = k \in Periodic /\ e.holders > 0]
    IN  IF e.changed THEN Refresh(k, landed, "change") ELSE landed

\* renew and abandon: pending, with no read out and no change queued.
Superseded(e) ==
    [e EXCEPT !.superseding = @ + 1, !.settled = FALSE, !.flight = NoRead,
              !.changed = FALSE]

-----------------------------------------------------------------------------
(* The bound on what nobody holds.                                         *)

\* Mutant: an entry mid-supersede is dropped like any nobody holds.
ClaimedByHoldersOnly(e) == e.holders > 0

Claimed(e) == e.holders > 0 \/ e.superseding > 0

\* evict's loop: the oldest entries nobody claims, as many as are over the bound.
Victims(es, ord) ==
    LET loose == {k \in In(ord) : ~Claimed(es[k])}
        over == Cardinality(In(ord)) - MaxEntries
    IN  {k \in loose : Cardinality({j \in loose : <<j, k>> \in ord}) <= over}

\* A turn's outcome: the entries as it left them, the flights it aborted, and
\* the read it launched, if it did.
Commit(es, ord, dropped, aborts, out) ==
    LET launched == {k \in Keys : es[k].flight \in FreeIds(k)} \ dropped IN
    /\ entry' = [k \in Keys |-> IF k \in dropped THEN Blank ELSE es[k]]
    /\ order' = Without(ord, dropped)
    /\ reads' =
         {[r EXCEPT !.aborted =
              @ \/ (r.key \in aborts \cup dropped /\ r.id = entry[r.key].flight)] : r \in out}
         \cup {[id |-> es[k].flight, key |-> k, since |-> world[k],
                aborted |-> FALSE] : k \in launched}

-----------------------------------------------------------------------------

Init ==
    /\ entry = [k \in Keys |-> Blank]
    /\ order = {}
    /\ reads = {}
    /\ held = [h \in Homes |-> {}]
    /\ moving = [k \in Keys |-> 0]
    /\ world = [k \in Keys |-> 0]
    /\ unheard = {}
    /\ closed = FALSE
    /\ due = [k \in Keys |-> 0]

\* declare: touch the entry, or create it and ask for its first read; then the
\* home's hold, unless it holds the key already.
Declare(h, k) ==
    /\ ~closed /\ k \in Wanted[h] /\ FreeIds(k) # {}
    /\ LET found == IF Stored(k) THEN entry[k] ELSE Refresh(k, Blank, "first")
           kept == k \in held[h]
           es == [entry EXCEPT ![k] = IF kept THEN found ELSE Hold(k, found)]
       IN  /\ Commit(es, Touched(k), IF kept THEN {} ELSE Victims(es, Touched(k)),
                     {}, reads)
           /\ due' = [due EXCEPT ![k] =
                        IF ~Stored(k) \/ (~kept /\ Returns(found) /\ k \notin Periodic)
                          THEN world[k] ELSE @]
    /\ held' = [held EXCEPT ![h] = @ \cup {k}]
    /\ UNCHANGED <<moving, world, unheard, closed>>

\* A hold's release: a later declaration takes the key no more, or the home
\* closed.  A dropped entry's release reaches nothing.
ReleaseHold(h, k) ==
    /\ k \in held[h]
    /\ held' = [held EXCEPT ![h] = @ \ {k}]
    /\ IF Stored(k)
         THEN LET es == [entry EXCEPT ![k] = LetGo(@)] IN
              Commit(es, order, Victims(es, order), {}, reads)
         ELSE UNCHANGED <<entry, order, reads>>
    /\ UNCHANGED <<moving, world, unheard, closed, due>>

\* supersede: the daemon is changing what the key reads.
Supersede(k) ==
    /\ ~closed /\ k \in Refreshed /\ moving[k] < MaxSupersedes
    /\ moving' = [moving EXCEPT ![k] = @ + 1]
    /\ LET es == [entry EXCEPT ![k] = Superseded(@)] IN
         Commit(es, Touched(k), Victims(es, Touched(k)), {k}, reads)
    /\ UNCHANGED <<held, world, unheard, closed, due>>

\* The closure supersede returned, once: the last one out starts the one fresh
\* read.  A dropped entry has nothing left to read for.
Resume(k) ==
    /\ moving[k] > 0 /\ FreeIds(k) # {}
    /\ moving' = [moving EXCEPT ![k] = @ - 1]
    /\ IF Stored(k) /\ entry[k].superseding > 0
         THEN LET e == [entry[k] EXCEPT !.superseding = @ - 1] IN
              /\ Commit([entry EXCEPT ![k] = Refresh(k, e, "supersede")], order, {}, {},
                        reads)
              /\ due' = [due EXCEPT ![k] = IF e.superseding = 0 THEN world[k] ELSE @]
         ELSE UNCHANGED <<entry, order, reads, due>>
    /\ UNCHANGED <<held, world, unheard, closed>>

\* What a key names changes; its watch will say so.
WorldMoves(k) ==
    /\ world[k] < MaxWorld
    /\ world' = [world EXCEPT ![k] = @ + 1]
    /\ unheard' = unheard \cup {k}
    /\ UNCHANGED <<entry, order, reads, held, moving, closed, due>>

\* heard: the entry's watch, or its owner's `changed`, reports.
Heard(k) ==
    /\ k \in unheard /\ FreeIds(k) # {}
    /\ unheard' = unheard \ {k}
    /\ IF Stored(k) /\ entry[k].holders > 0
         THEN /\ Commit([entry EXCEPT ![k] = Refresh(k, @, "change")], order, {}, {}, reads)
              /\ due' = [due EXCEPT ![k] = world[k]]
         ELSE UNCHANGED <<entry, order, reads, due>>
    /\ UNCHANGED <<held, moving, world, closed>>

\* The period's timer fires.
Tick(k) ==
    /\ entry[k].armed /\ FreeIds(k) # {}
    /\ LET e == [entry[k] EXCEPT !.armed = FALSE] IN
         Commit([entry EXCEPT ![k] = Refresh(k, e, "period")], order, {}, {}, reads)
    /\ UNCHANGED <<held, moving, world, unheard, closed, due>>

\* Mutant: the landing does not ask its signal.
LandUnasked(r) ==
    /\ \E v \in r.since..world[r.key] :
         Commit([entry EXCEPT ![r.key] = Store(r.key, @, v)], order, {}, {},
                reads \ {r})
    /\ UNCHANGED <<held, moving, world, unheard, closed, due>>

\* A read settles.  It may have looked at any instant since it began.  One its
\* owner aborted stores nothing.
Land(r) ==
    /\ entry[r.key].changed => FreeIds(r.key) # {}
    /\ IF r.aborted
         THEN reads' = reads \ {r} /\ UNCHANGED <<entry, order>>
         ELSE \E v \in r.since..world[r.key] :
                Commit([entry EXCEPT ![r.key] = Store(r.key, @, v)], order, {}, {},
                       reads \ {r})
    /\ UNCHANGED <<held, moving, world, unheard, closed, due>>

\* close: every entry is dropped, and no later declaration builds one.
Close ==
    /\ ~closed
    /\ closed' = TRUE
    /\ Commit(entry, order, In(order), {}, reads)
    /\ UNCHANGED <<held, moving, world, unheard, due>>

Next ==
    \/ \E h \in Homes, k \in Keys : Declare(h, k) \/ ReleaseHold(h, k)
    \/ \E k \in Keys :
          Supersede(k) \/ Resume(k) \/ WorldMoves(k) \/ Heard(k) \/ Tick(k)
    \/ \E r \in reads : Land(r)
    \/ Close

Spec == Init /\ [][Next]_vars

\* A read settles (every read is bounded by its launch), a watch reports and a
\* timer fires; nobody is promised to supersede, resume, hold or close.
FairSpec ==
    Spec /\ \A k \in Keys :
        /\ WF_vars(\E r \in reads : r.key = k /\ Land(r))
        /\ WF_vars(Heard(k))
        /\ WF_vars(Tick(k))

-----------------------------------------------------------------------------

\* Every entry, read and hold has its type.
TypeOK ==
    /\ entry \in [Keys -> Entries]
    /\ order \subseteq Keys \X Keys
    /\ reads \subseteq Reads
    /\ held \in [Homes -> SUBSET Keys]
    /\ moving \in [Keys -> 0..MaxSupersedes]
    /\ world \in [Keys -> 0..MaxWorld]
    /\ unheard \subseteq Keys
    /\ closed \in BOOLEAN
    /\ due \in [Keys -> 0..MaxWorld]

HoldersOf(k) == {h \in Homes : k \in held[h]}

\* No read out and no supersede: what the entry shows is what it will show until
\* the next trigger.
Quiet(k) == Stored(k) /\ entry[k].flight = NoRead /\ entry[k].superseding = 0

\* While the daemon changes what a key reads, nothing shows the value from before
\* the change, and no read looks at the world in between.
SupersedeHides ==
    \A k \in Keys :
        ~closed /\ moving[k] > 0
            => ~entry[k].settled /\ \A r \in reads : r.key = k => r.aborted

\* The last change lands: once nothing is out, a key shows a value no older than
\* the last change, supersede or returning hold asked for.
LastChangeLands ==
    \A k \in Keys : Quiet(k) => entry[k].settled /\ entry[k].v >= due[k]

\* A key's value never goes back in time while its entry is kept, supersedes and
\* abandoned reads included.
NeverGoesBack ==
    [][\A k \in Keys : Stored(k) /\ Stored(k)' => entry'[k].v >= entry[k].v]_vars

\* A periodic key some home goes on holding comes to show the world as it is,
\* even where its watch's report was ignored while nobody held it.
HeldCatchesUp ==
    \A k \in Periodic :
        <>[](HoldersOf(k) # {} /\ Stored(k) /\ entry[k].superseding = 0)
            => <>[](entry[k].settled /\ entry[k].v = world[k])

=============================================================================
