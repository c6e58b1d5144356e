---------------------------- MODULE SourceProofs ----------------------------
(***************************************************************************)
(* Proofs about what the sources show, for any keys, homes, paths and      *)
(* bounds.                                                                 *)
(*                                                                         *)
(* KeyedSource: each key has its own story: its entry, its reads out, the  *)
(* supersedes it waits for and the versions of the world.  KeyInv says     *)
(* what they are to each other; a turn tells one key's story further, and  *)
(* drops or leaves the others.                                             *)
(*                                                                         *)
(* FileWatch: each path is at one directory watch.  Caught says what a     *)
(* path that is behind waits on; a turn of the registry keeps that for     *)
(* every path (Keeps), unless the path follows its folder and is read.     *)
(***************************************************************************)
EXTENDS KeyedSource, FileWatch, TLAPS

EntryType == [settled : BOOLEAN, v : Nat, holders : Int,
              flight : ReadIds \cup {NoRead}, changed : BOOLEAN,
              superseding : Nat, answered : BOOLEAN, armed : BOOLEAN]

ReadType == [id : ReadIds, key : Keys, since : Nat, aborted : BOOLEAN]

Typed ==
    /\ entry \in [Keys -> EntryType]
    /\ reads \subseteq ReadType
    /\ moving \in [Keys -> Nat]
    /\ world \in [Keys -> Nat]
    /\ due \in [Keys -> Nat]

Of(R, k) == {r \in R : r.key = k}

\* A read out that will store what it read is the entry's flight, looked no
\* earlier than what the entry shows, and no other read has its number.
Reading(e, R, w) ==
    /\ e.v <= w
    /\ \A r \in R : r.since <= w
    /\ \A r \in R : ~r.aborted => e.flight = r.id /\ e.v <= r.since
    /\ \A r, s \in R : r.id = s.id => r = s
    /\ e.flight # NoRead => \E r \in R : ~r.aborted

\* While it is superseded an entry shows nothing and reads nothing.
Hidden(e) == e.superseding > 0 => ~e.settled /\ e.flight = NoRead

\* What is called for, d, is shown, or is being read, or will be read next.
Answers(e, R, d) ==
    IF e.flight = NoRead THEN e.settled /\ e.v >= d
    ELSE e.changed \/ \A r \in R : ~r.aborted => r.since >= d

KeyInv(k) ==
    /\ Reading(entry[k], Of(reads, k), world[k]) /\ Hidden(entry[k])
    /\ due[k] <= world[k]
    /\ closed \/ entry[k].superseding = moving[k]
    /\ ~Stored(k) => entry[k] = Blank
    /\ Stored(k) /\ entry[k].superseding = 0 => Answers(entry[k], Of(reads, k), due[k])

IInv == Typed /\ \A k \in Keys : KeyInv(k)

\* What every step does to a key.
Onward(k) == KeyInv(k)' /\ (Stored(k) /\ Stored(k)' => entry'[k].v >= entry[k].v)

LEMMA BlankFits == Blank \in EntryType
BY DEF Blank, EntryType

-----------------------------------------------------------------------------
(* The order of the entries.                                               *)

LEMMA TouchedStores ==
    ASSUME NEW k \in Keys, NEW j \in Keys
    PROVE  <<j, j>> \in Touched(k) <=> Stored(j) \/ j = k
BY DEF Touched, Without, In, Stored

LEMMA WithoutDrops ==
    ASSUME NEW ord, NEW dropped, NEW j \in Keys
    PROVE  <<j, j>> \in Without(ord, dropped) <=> <<j, j>> \in ord /\ j \notin dropped
BY DEF Without

\* What may be dropped: keys whose entry no supersede has in hand.
Loose(es, dropped) == dropped \subseteq Keys /\ \A j \in dropped : es[j].superseding = 0

LEMMA VictimsAreLoose ==
    ASSUME NEW es \in [Keys -> EntryType], NEW ord
    PROVE  Loose(es, Victims(es, ord))
<1>1. Victims(es, ord) \subseteq {j \in In(ord) : ~Claimed(es[j])}
  BY DEF Victims
<1>2. ASSUME NEW j \in Victims(es, ord)
      PROVE  j \in Keys /\ es[j].superseding = 0
  <2>1. j \in Keys /\ ~Claimed(es[j])
    BY <1>1 DEF In
  <2>2. es[j].superseding \in Nat
    BY <2>1 DEF EntryType
  <2> QED
    BY <2>1, <2>2 DEF Claimed
<1> QED
  BY <1>2 DEF Loose

-----------------------------------------------------------------------------
(* A turn's outcome.                                                       *)

\* The read a turn begins for key k, if it does.
Begun(k, e) ==
    IF e.flight \in FreeIds(k)
      THEN {[id |-> e.flight, key |-> k, since |-> world[k], aborted |-> FALSE]}
      ELSE {}

\* The reads of R, number n aborted.
Aborting(R, n) == {[r EXCEPT !.aborted = @ \/ r.id = n] : r \in R}

Outcome(es, dropped, aborts, out) ==
    /\ es \in [Keys -> EntryType]
    /\ dropped \subseteq Keys /\ aborts \subseteq Keys /\ out \subseteq reads

LEMMA CommitReads ==
    ASSUME Typed, NEW es, NEW ord, NEW dropped, NEW aborts, NEW out,
           Outcome(es, dropped, aborts, out), Commit(es, ord, dropped, aborts, out)
    PROVE  /\ entry' \in [Keys -> EntryType] /\ reads' \subseteq ReadType
           /\ order' = Without(ord, dropped)
           /\ \A j \in Keys :
                /\ entry'[j] = IF j \in dropped THEN Blank ELSE es[j]
                /\ Of(reads', j) =
                     (IF j \in aborts \cup dropped
                        THEN Aborting(Of(out, j), entry[j].flight)
                        ELSE Of(out, j))
                     \cup (IF j \in dropped THEN {} ELSE Begun(j, es[j]))
<1> DEFINE launched == {k \in Keys : es[k].flight \in FreeIds(k)} \ dropped
           News == {[id |-> es[k].flight, key |-> k, since |-> world[k],
                     aborted |-> FALSE] : k \in launched}
           Mark(r) == [r EXCEPT !.aborted =
                         @ \/ (r.key \in aborts \cup dropped /\ r.id = entry[r.key].flight)]
<1>0. /\ es \in [Keys -> EntryType]
      /\ dropped \subseteq Keys /\ aborts \subseteq Keys /\ out \subseteq reads
  BY DEF Outcome
<1>1. /\ entry' = [k \in Keys |-> IF k \in dropped THEN Blank ELSE es[k]]
      /\ order' = Without(ord, dropped)
      /\ reads' = {Mark(r) : r \in out} \cup News
  BY DEF Commit
<1>2. \A r \in out : Mark(r) \in ReadType /\ Mark(r).key = r.key
  BY <1>0 DEF Typed, ReadType
<1>3. \A k \in launched : /\ k \in Keys \ dropped
                          /\ es[k].flight \in ReadIds /\ es[k].flight \in FreeIds(k)
                          /\ world[k] \in Nat
  BY <1>0 DEF FreeIds, Typed
<1>4. \A x \in News : x \in ReadType
  <2> TAKE x \in News
  <2>1. PICK k \in launched : x = [id |-> es[k].flight, key |-> k, since |-> world[k],
                                   aborted |-> FALSE]
    OBVIOUS
  <2> QED
    BY <2>1, <1>3 DEF ReadType
<1>5. ASSUME NEW j \in Keys
      PROVE  {x \in {Mark(r) : r \in out} : x.key = j} =
               IF j \in aborts \cup dropped
                 THEN Aborting(Of(out, j), entry[j].flight)
                 ELSE Of(out, j)
  <2>1. CASE j \in aborts \cup dropped
    <3>1. \A r \in out : r.key = j =>
             Mark(r) = [r EXCEPT !.aborted = @ \/ r.id = entry[j].flight]
      BY <2>1
    <3> HIDE DEF Mark
    <3> QED
      BY <1>0, <1>2, <2>1, <3>1 DEF Aborting, Of
  <2>2. CASE j \notin aborts \cup dropped
    <3>1. \A r \in out : r.key = j => Mark(r) = r
      BY <1>0, <2>2 DEF Typed, ReadType
    <3> HIDE DEF Mark
    <3> QED
      BY <1>0, <1>2, <2>2, <3>1 DEF Of
  <2> QED
    BY <2>1, <2>2
<1>6. ASSUME NEW j \in Keys
      PROVE  {x \in News : x.key = j} = IF j \in dropped THEN {} ELSE Begun(j, es[j])
  BY <1>0, <1>3 DEF Begun
<1>7. \A j \in Keys : Of(reads', j) = {x \in {Mark(r) : r \in out} : x.key = j}
                                      \cup {x \in News : x.key = j}
  BY <1>1 DEF Of
<1>8. entry' \in [Keys -> EntryType] /\ reads' \subseteq ReadType
  BY <1>0, <1>1, <1>2, <1>4, BlankFits
<1> QED
  BY <1>0, <1>1, <1>5, <1>6, <1>7, <1>8

\* A read of a key has that key's number and no free one.
LEMMA NoReadIsFree ==
    ASSUME NEW k \in Keys
    PROVE  NoRead \notin FreeIds(k) /\ FreeIds(k) \subseteq ReadIds /\ NoRead \notin ReadIds
BY DEF FreeIds, ReadIds, NoRead

LEMMA FlightIsTaken ==
    ASSUME IInv, NEW k \in Keys
    PROVE  entry[k].flight \notin FreeIds(k)
<1>1. CASE entry[k].flight = NoRead
  BY <1>1, NoReadIsFree
<1>2. CASE entry[k].flight # NoRead
  <2>1. PICK r \in Of(reads, k) : r.id = entry[k].flight
    BY <1>2 DEF IInv, KeyInv, Reading
  <2> QED
    BY <2>1 DEF Of, FreeIds
<1> QED
  BY <1>1, <1>2

-----------------------------------------------------------------------------
(* A key the turn drops.                                                   *)

LEMMA DroppedReads ==
    ASSUME NEW e, NEW R \in SUBSET ReadType, NEW w \in Nat, Reading(e, R, w),
           NEW S \in SUBSET R, NEW g, g.flight = NoRead, g.v <= w
    PROVE  Reading(g, Aborting(S, e.flight), w)
<1> DEFINE Mark(r) == [r EXCEPT !.aborted = @ \/ r.id = e.flight]
<1>1. ASSUME NEW r \in S
      PROVE  Mark(r).aborted /\ Mark(r).id = r.id /\ Mark(r).since = r.since
  <2>1. r \in ReadType
    OBVIOUS
  <2>2. /\ Mark(r).aborted = (r.aborted \/ r.id = e.flight)
        /\ Mark(r).id = r.id /\ Mark(r).since = r.since
    BY <2>1 DEF ReadType
  <2>3. r.aborted \/ r.id = e.flight
    BY DEF Reading
  <2> QED
    BY <2>2, <2>3
<1>2. Aborting(S, e.flight) = {Mark(r) : r \in S}
  BY DEF Aborting
<1> HIDE DEF Mark
<1>3. \A q \in Aborting(S, e.flight) :
         \E r \in S : q = Mark(r) /\ q.aborted /\ q.id = r.id /\ q.since = r.since
  BY <1>1, <1>2
<1> QED
  BY <1>3 DEF Reading

LEMMA DroppedGoesOn ==
    ASSUME IInv, NEW es, NEW ord, NEW dropped, NEW aborts, NEW out,
           Outcome(es, dropped, aborts, out), Commit(es, ord, dropped, aborts, out),
           NEW j \in dropped, world' = world, due'[j] <= world[j],
           closed' \/ moving'[j] = 0
    PROVE  Onward(j)
<1>1. Typed /\ j \in Keys /\ out \subseteq reads
  BY DEF IInv, Outcome
<1>2. /\ entry'[j] = Blank /\ order' = Without(ord, dropped)
      /\ Of(reads', j) = Aborting(Of(out, j), entry[j].flight)
  <2>1. Of(reads', j) = (IF j \in aborts \cup dropped
                           THEN Aborting(Of(out, j), entry[j].flight) ELSE Of(out, j))
                        \cup (IF j \in dropped THEN {} ELSE Begun(j, es[j]))
    BY <1>1, CommitReads
  <2>2. /\ order' = Without(ord, dropped)
        /\ entry'[j] = IF j \in dropped THEN Blank ELSE es[j]
    BY <1>1, CommitReads
  <2> QED
    BY <2>1, <2>2
<1>3. <<j, j>> \notin order'
  BY <1>1, <1>2, WithoutDrops
<1>4. /\ Of(out, j) \in SUBSET Of(reads, j) /\ Of(reads, j) \in SUBSET ReadType
      /\ Reading(entry[j], Of(reads, j), world[j]) /\ world[j] \in Nat
  BY <1>1 DEF IInv, Typed, KeyInv, Of
<1>5. Reading(Blank, Of(reads', j), world'[j])
  <2>1. Blank.flight = NoRead /\ Blank.v <= world[j]
    BY <1>4 DEF Blank
  <2> QED
    BY <1>2, <1>4, <2>1, DroppedReads
<1>6. Hidden(Blank) /\ Blank.superseding = 0
  BY DEF Hidden, Blank
<1> QED
  BY <1>2, <1>3, <1>5, <1>6 DEF Onward, KeyInv, Stored

-----------------------------------------------------------------------------
(* A key the turn is not about.                                            *)

LEMMA LeftAlone ==
    ASSUME IInv, NEW j \in Keys, entry'[j] = entry[j], Of(reads', j) = Of(reads, j),
           <<j, j>> \in order' <=> <<j, j>> \in order,
           world'[j] = world[j], due'[j] = due[j], moving'[j] = moving[j],
           closed => closed'
    PROVE  Onward(j)
<1>1. KeyInv(j) /\ entry[j].v \in Nat
  BY DEF IInv, Typed, EntryType
<1>2. closed' \/ entry'[j].superseding = moving'[j]
  BY <1>1 DEF KeyInv
<1>3. KeyInv(j)'
  BY <1>1, <1>2 DEF KeyInv, Stored
<1> QED
  BY <1>1, <1>3 DEF Onward

LEMMA OthersGoOn ==
    ASSUME IInv, NEW k \in Keys, NEW es, NEW ord, NEW dropped, NEW aborts, NEW out,
           Outcome(es, dropped, aborts, out), Commit(es, ord, dropped, aborts, out),
           aborts \subseteq {k}, \A r \in reads \ out : r.key = k,
           NEW j \in Keys \ {k}, es[j] = entry[j], <<j, j>> \in ord <=> <<j, j>> \in order,
           j \in dropped => entry[j].superseding = 0,
           world' = world, due'[j] = due[j], moving'[j] = moving[j], closed => closed'
    PROVE  Onward(j)
<1>1. Typed /\ dropped \subseteq Keys /\ out \subseteq reads
  BY DEF IInv, Outcome
<1>2. KeyInv(j) /\ due[j] <= world[j]
  BY DEF IInv, KeyInv
<1>3. CASE j \in dropped
  <2>1. closed' \/ moving'[j] = 0
    BY <1>2, <1>3 DEF KeyInv
  <2> QED
    BY <1>2, <1>3, <2>1, DroppedGoesOn
<1>4. CASE j \notin dropped
  <2>1. /\ entry'[j] = entry[j] /\ order' = Without(ord, dropped)
        /\ Of(reads', j) = Of(out, j) \cup Begun(j, entry[j])
    BY <1>1, <1>4, CommitReads
  <2>2. Begun(j, entry[j]) = {}
    BY FlightIsTaken DEF Begun
  <2>3. Of(out, j) = Of(reads, j)
    BY <1>1 DEF Of
  <2>4. <<j, j>> \in order' <=> <<j, j>> \in order
    BY <1>4, <2>1, WithoutDrops
  <2> QED
    BY <2>1, <2>2, <2>3, <2>4, LeftAlone
<1> QED
  BY <1>3, <1>4

-----------------------------------------------------------------------------
(* The key the turn is about.                                              *)

\* The reads of k after a turn that leaves its entry as e.
After(k, e, aborts, out) ==
    (IF k \in aborts THEN Aborting(Of(out, k), entry[k].flight) ELSE Of(out, k))
    \cup Begun(k, e)

\* What a turn about k does, k's entry left as e if it keeps it.
Turn(k, e, es, ord, dropped, aborts, out) ==
    /\ k \in Keys /\ e \in EntryType /\ es[k] = e
    /\ \A j \in Keys \ {k} : es[j] = entry[j]
    /\ Outcome(es, dropped, aborts, out) /\ Commit(es, ord, dropped, aborts, out)
    /\ aborts \subseteq {k} /\ \A r \in reads \ out : r.key = k
    /\ \A j \in Keys : <<j, j>> \in ord <=> Stored(j) \/ j = k
    /\ \A j \in dropped : es[j].superseding = 0
    /\ Reading(e, After(k, e, aborts, out), world[k]) /\ Hidden(e)
    /\ e.superseding = 0 => Answers(e, After(k, e, aborts, out), due'[k])
    /\ Stored(k) => e.v >= entry[k].v

\* What it does beside: the world stays, and only k's trigger and moves count.
Beside(k, e) ==
    /\ world' = world /\ (closed => closed')
    /\ \A j \in Keys \ {k} : due'[j] = due[j] /\ moving'[j] = moving[j]
    /\ due' \in [Keys -> Nat] /\ due'[k] <= world[k] /\ moving' \in [Keys -> Nat]
    /\ closed' \/ e.superseding = moving'[k]

LEMMA TurnGoesOn ==
    ASSUME IInv, NEW k, NEW e, NEW es, NEW ord, NEW dropped, NEW aborts, NEW out,
           Turn(k, e, es, ord, dropped, aborts, out), Beside(k, e)
    PROVE  Typed' /\ \A j \in Keys : Onward(j)
<1> USE DEF Turn, Beside
<1>1. Typed /\ dropped \subseteq Keys /\ out \subseteq reads
  BY DEF IInv, Outcome
<1>2. Typed'
  BY <1>1, CommitReads DEF Typed
<1>3. ASSUME NEW j \in Keys \ {k} PROVE Onward(j)
  <2>1. <<j, j>> \in ord <=> <<j, j>> \in order
    BY DEF Stored
  <2> QED
    BY <1>1, <1>3, <2>1, OthersGoOn
<1>4. CASE k \in dropped
  <2>1. closed' \/ moving'[k] = 0
    BY <1>1, <1>4
  <2>2. Onward(k)
    BY <1>4, <2>1, DroppedGoesOn
  <2> QED
    BY <1>2, <1>3, <2>2
<1>5. CASE k \notin dropped
  <2>1. /\ entry'[k] = e /\ order' = Without(ord, dropped)
        /\ Of(reads', k) = After(k, e, aborts, out)
    <3>1. Of(reads', k) = (IF k \in aborts \cup dropped
                             THEN Aborting(Of(out, k), entry[k].flight) ELSE Of(out, k))
                          \cup (IF k \in dropped THEN {} ELSE Begun(k, es[k]))
      BY <1>1, CommitReads
    <3>2. /\ order' = Without(ord, dropped)
          /\ entry'[k] = IF k \in dropped THEN Blank ELSE es[k]
      BY <1>1, CommitReads
    <3> QED
      BY <1>1, <1>5, <3>1, <3>2 DEF After
  <2>2. <<k, k>> \in order'
    BY <1>5, <2>1, WithoutDrops
  <2>3. KeyInv(k)'
    BY <2>1, <2>2 DEF KeyInv, Stored
  <2>4. Onward(k)
    BY <2>1, <2>3 DEF Onward
  <2> QED
    BY <1>2, <1>3, <2>4
<1> QED
  BY <1>4, <1>5

\* A refresh leaves the reads of its key in order, and what is called for is
\* shown or read.
\* What a refresh of k's entry e needs, R its reads out and d what is called for.
Asks(k, e, R, by, d) ==
    /\ k \in Keys /\ FreeIds(k) # {} /\ e \in EntryType /\ e.flight \notin FreeIds(k)
    /\ R \subseteq Of(reads, k) /\ Reading(e, R, world[k]) /\ Hidden(e)
    /\ d \in Nat /\ d <= world[k]
    /\ e.superseding = 0 /\ e.flight # NoRead /\ by # "change" => Answers(e, R, d)

\* What it makes of it.
Asked(k, e, f, R, d) ==
    /\ f \in EntryType /\ Hidden(f)
    /\ f.superseding = e.superseding /\ f.v = e.v
    /\ f.holders = e.holders /\ f.answered = e.answered
    /\ Reading(f, R \cup Begun(k, f), world[k])
    /\ f.superseding = 0 => Answers(f, R \cup Begun(k, f), d)

LEMMA RefreshKeeps ==
    ASSUME Typed, NEW k, NEW e, NEW R, NEW by, NEW d, Asks(k, e, R, by, d)
    PROVE  Asked(k, e, Refresh(k, e, by), R, d)
<1> DEFINE f == Refresh(k, e, by)
<1>0. f = Refresh(k, e, by)
  OBVIOUS
<1> SUFFICES Asked(k, e, f, R, d)
  OBVIOUS
<1> HIDE DEF f
<1> USE DEF Asks
<1>1. /\ world[k] \in Nat /\ R \subseteq ReadType /\ \A r \in R : r.id \notin FreeIds(k)
      /\ e.superseding \in Nat /\ e.v \in Nat
  BY DEF Typed, Of, FreeIds, EntryType
<1>2. CASE e.superseding > 0
  <2>1. f = e /\ Begun(k, f) = {}
    BY <1>0, <1>2 DEF Refresh, Begun
  <2> QED
    BY <1>2, <2>1 DEF Asked
<1>3. CASE e.superseding = 0 /\ e.flight # NoRead
  <2>1. f = [e EXCEPT !.changed = @ \/ by = "change"]
    BY <1>0, <1>3 DEF Refresh
  <2>2. /\ f \in EntryType /\ f.flight = e.flight /\ f.v = e.v /\ f.settled = e.settled
        /\ f.superseding = e.superseding /\ f.changed = (e.changed \/ by = "change")
        /\ f.holders = e.holders /\ f.answered = e.answered
    BY <2>1 DEF EntryType
  <2>3. Begun(k, f) = {}
    BY <2>2 DEF Begun
  <2>4. Reading(f, R, world[k]) /\ Hidden(f)
    BY <1>3, <2>2 DEF Reading, Hidden
  <2>5. Answers(f, R, d)
    BY <1>3, <2>2 DEF Answers
  <2> QED
    BY <2>2, <2>3, <2>4, <2>5 DEF Asked
<1>4. CASE e.superseding = 0 /\ e.flight = NoRead
  <2>1. f = [e EXCEPT !.flight = NewId(k)]
    BY <1>0, <1>4 DEF Refresh
  <2>2. NewId(k) \in FreeIds(k) /\ NewId(k) \in ReadIds
    BY NoReadIsFree DEF NewId
  <2>3. /\ f \in EntryType /\ f.flight = NewId(k) /\ f.v = e.v
        /\ f.superseding = 0 /\ f.holders = e.holders /\ f.answered = e.answered
    BY <1>4, <2>1, <2>2 DEF EntryType
  <2> DEFINE n == [id |-> f.flight, key |-> k, since |-> world[k], aborted |-> FALSE]
  <2>4. Begun(k, f) = {n} /\ f.flight # NoRead
    BY <2>2, <2>3, NoReadIsFree DEF Begun
  <2>5. n.id = f.flight /\ n.since = world[k] /\ ~n.aborted
    OBVIOUS
  <2> HIDE DEF n
  <2>6. \A r \in R : r.aborted
    BY <1>1, <1>4, NoReadIsFree DEF Reading, ReadType
  <2>7. Reading(f, R \cup {n}, world[k])
    <3>1. \A r \in R \cup {n} : r.since <= world[k]
      BY <1>1, <2>5 DEF Reading
    <3>2. \A r \in R \cup {n} : ~r.aborted => f.flight = r.id /\ f.v <= r.since
      BY <1>1, <2>3, <2>5, <2>6 DEF Reading
    <3>3. \A r, s \in R \cup {n} : r.id = s.id => r = s
      BY <1>1, <2>2, <2>3, <2>5 DEF Reading
    <3> QED
      BY <2>3, <2>5, <3>1, <3>2, <3>3 DEF Reading
  <2>8. Answers(f, R \cup {n}, d) /\ Hidden(f)
    BY <2>3, <2>4, <2>5, <2>6 DEF Answers, Hidden
  <2> QED
    BY <1>4, <2>3, <2>4, <2>7, <2>8 DEF Asked
<1> QED
  BY <1>1, <1>2, <1>3, <1>4

-----------------------------------------------------------------------------
(* The actions.                                                            *)

OneChanged(k, e, es) ==
    /\ es \in [Keys -> EntryType] /\ es[k] = e
    /\ \A j \in Keys \ {k} : es[j] = entry[j]

LEMMA OneEntry ==
    ASSUME Typed, NEW k \in Keys, NEW e \in EntryType
    PROVE  OneChanged(k, e, [entry EXCEPT ![k] = e])
BY DEF Typed, OneChanged

\* An entry whose flight is the one it had, or none, begins no read.
LEMMA NothingBegun ==
    ASSUME NEW k, NEW e, e.flight \notin FreeIds(k)
    PROVE  Begun(k, e) = {}
BY DEF Begun

\* A turn that asks for a read of k.
LEMMA RefreshTurn ==
    ASSUME IInv, NEW k, NEW e, NEW by, Asks(k, e, Of(reads, k), by, due'[k]),
           Stored(k) => e.v = entry[k].v, Beside(k, e),
           NEW ord, \A j \in Keys : <<j, j>> \in ord <=> Stored(j) \/ j = k,
           NEW dropped, Loose([entry EXCEPT ![k] = Refresh(k, e, by)], dropped),
           Commit([entry EXCEPT ![k] = Refresh(k, e, by)], ord, dropped, {}, reads)
    PROVE  Typed' /\ \A j \in Keys : Onward(j)
<1> DEFINE f == Refresh(k, e, by)
           es == [entry EXCEPT ![k] = f]
           R == Of(reads, k)
<1>1. Typed /\ k \in Keys
  BY DEF IInv, Asks
<1>2. Asked(k, e, f, R, due'[k])
  BY <1>1, RefreshKeeps
<1>3. Commit(es, ord, dropped, {}, reads) /\ Loose(es, dropped)
  OBVIOUS
<1> HIDE DEF f
<1>4. f \in EntryType
  BY <1>2 DEF Asked
<1>5. OneChanged(k, f, es)
  BY <1>1, <1>4, OneEntry
<1> HIDE DEF es, R
<1>6. After(k, f, {}, reads) = R \cup Begun(k, f)
  BY DEF After, R
<1>7. Turn(k, f, es, ord, dropped, {}, reads)
  <2>1. Outcome(es, dropped, {}, reads)
    BY <1>3, <1>5 DEF Outcome, OneChanged, Loose
  <2>2. Stored(k) => f.v >= entry[k].v
    BY <1>1, <1>2 DEF Asked, Typed, EntryType
  <2>3. /\ Reading(f, After(k, f, {}, reads), world[k]) /\ Hidden(f)
        /\ f.superseding = 0 => Answers(f, After(k, f, {}, reads), due'[k])
    BY <1>2, <1>6 DEF Asked
  <2>4. es[k] = f /\ \A j \in Keys \ {k} : es[j] = entry[j]
    BY <1>5 DEF OneChanged
  <2> QED
    BY <1>1, <1>3, <1>4, <2>1, <2>2, <2>3, <2>4 DEF Turn, Loose
<1>8. Beside(k, f)
  BY <1>2 DEF Beside, Asked
<1> QED
  BY <1>7, <1>8, TurnGoesOn

\* Such a turn that drops nothing and leaves the order.
LEMMA RefreshOnly ==
    ASSUME IInv, NEW k, NEW e, NEW by, Asks(k, e, Of(reads, k), by, due'[k]),
           Stored(k), e.v = entry[k].v, Beside(k, e),
           Commit([entry EXCEPT ![k] = Refresh(k, e, by)], order, {}, {}, reads)
    PROVE  Typed' /\ \A j \in Keys : Onward(j)
<1>1. \A j \in Keys : <<j, j>> \in order <=> Stored(j) \/ j = k
  BY DEF Stored
<1>2. Loose([entry EXCEPT ![k] = Refresh(k, e, by)], {})
  BY DEF Loose
<1> QED
  BY <1>1, <1>2, RefreshTurn

\* What KeyInv gives of a key, before a turn.
LEMMA KeyFacts ==
    ASSUME IInv, NEW k \in Keys
    PROVE  /\ entry[k] \in EntryType /\ Of(reads, k) \subseteq ReadType
           /\ entry[k].flight \notin FreeIds(k) /\ NoRead \notin FreeIds(k)
           /\ world[k] \in Nat /\ due[k] \in Nat /\ moving[k] \in Nat
           /\ entry[k].v \in Nat /\ entry[k].superseding \in Nat
<1>1. entry[k] \in EntryType /\ world[k] \in Nat /\ due[k] \in Nat /\ moving[k] \in Nat
  BY DEF IInv, Typed
<1>2. Of(reads, k) \subseteq ReadType
  BY DEF IInv, Typed, Of
<1> QED
  BY <1>1, <1>2, FlightIsTaken, NoReadIsFree DEF EntryType

\* Every key goes on where a step changes neither the source nor what it reads.
LEMMA AllLeftAlone ==
    ASSUME IInv, UNCHANGED <<entry, order, reads, world, due, moving>>, closed => closed'
    PROVE  Typed' /\ \A j \in Keys : Onward(j)
<1>1. Typed'
  BY DEF IInv, Typed
<1>2. ASSUME NEW j \in Keys PROVE Onward(j)
  <2>1. /\ entry'[j] = entry[j] /\ Of(reads', j) = Of(reads, j)
        /\ <<j, j>> \in order' <=> <<j, j>> \in order
        /\ world'[j] = world[j] /\ due'[j] = due[j] /\ moving'[j] = moving[j]
    OBVIOUS
  <2> QED
    BY <2>1, LeftAlone
<1> QED
  BY <1>1, <1>2

LEMMA TickGoesOn ==
    ASSUME IInv, NEW k \in Keys, Tick(k)
    PROVE  Typed' /\ \A j \in Keys : Onward(j)
<1> DEFINE e == [entry[k] EXCEPT !.armed = FALSE]
           es == [entry EXCEPT ![k] = Refresh(k, e, "period")]
<1>1. /\ entry[k].armed /\ FreeIds(k) # {} /\ Commit(es, order, {}, {}, reads)
      /\ moving' = moving /\ world' = world /\ closed' = closed /\ due' = due
  BY DEF Tick
<1>2. KeyInv(k)
  BY DEF IInv
<1>3. Stored(k)
  <2>1. entry[k] # Blank
    BY <1>1 DEF Blank
  <2> QED
    BY <1>2, <2>1 DEF KeyInv
<1>4. /\ e \in EntryType /\ e.flight = entry[k].flight /\ e.v = entry[k].v
      /\ e.superseding = entry[k].superseding /\ e.settled = entry[k].settled
      /\ e.changed = entry[k].changed
  BY KeyFacts DEF EntryType
<1> HIDE DEF e
<1>5. /\ Reading(e, Of(reads, k), world[k]) /\ Hidden(e)
      /\ e.superseding = 0 => Answers(e, Of(reads, k), due[k])
  BY <1>2, <1>3, <1>4 DEF KeyInv, Reading, Hidden, Answers
<1>6. Asks(k, e, Of(reads, k), "period", due'[k])
  BY <1>1, <1>2, <1>4, <1>5, KeyFacts DEF Asks, KeyInv
<1>7. Beside(k, e)
  BY <1>1, <1>2, <1>4 DEF IInv, Typed, KeyInv, Beside
<1> QED
  BY <1>1, <1>3, <1>4, <1>6, <1>7, RefreshOnly

LEMMA HeardGoesOn ==
    ASSUME IInv, NEW k \in Keys, Heard(k)
    PROVE  Typed' /\ \A j \in Keys : Onward(j)
<1>1. FreeIds(k) # {} /\ moving' = moving /\ world' = world /\ closed' = closed
  BY DEF Heard
<1>2. CASE Stored(k) /\ entry[k].holders > 0
  <2> DEFINE es == [entry EXCEPT ![k] = Refresh(k, entry[k], "change")]
  <2>1. Commit(es, order, {}, {}, reads) /\ due' = [due EXCEPT ![k] = world[k]]
    BY <1>2 DEF Heard
  <2>2. KeyInv(k)
    BY DEF IInv
  <2>3. Reading(entry[k], Of(reads, k), world[k]) /\ Hidden(entry[k])
    BY <2>2 DEF KeyInv
  <2>4. due'[k] = world[k]
    BY <2>1 DEF IInv, Typed
  <2>5. Asks(k, entry[k], Of(reads, k), "change", due'[k])
    BY <1>1, <2>3, <2>4, KeyFacts DEF Asks
  <2>6. Beside(k, entry[k])
    BY <1>1, <2>1, <2>2, <2>4, KeyFacts DEF IInv, Typed, KeyInv, Beside
  <2> QED
    BY <1>1, <1>2, <2>1, <2>5, <2>6, RefreshOnly
<1>3. CASE ~(Stored(k) /\ entry[k].holders > 0)
  <2>1. UNCHANGED <<entry, order, reads, due>>
    BY <1>3 DEF Heard
  <2> QED
    BY <1>1, <2>1, AllLeftAlone
<1> QED
  BY <1>2, <1>3

LEMMA ResumeGoesOn ==
    ASSUME IInv, NEW k \in Keys, Resume(k)
    PROVE  Typed' /\ \A j \in Keys : Onward(j)
<1>1. /\ moving[k] > 0 /\ FreeIds(k) # {} /\ moving' = [moving EXCEPT ![k] = @ - 1]
      /\ world' = world /\ closed' = closed
  BY DEF Resume
<1>2. /\ KeyInv(k) /\ Typed /\ moving' \in [Keys -> Nat] /\ moving'[k] = moving[k] - 1
      /\ \A j \in Keys \ {k} : moving'[j] = moving[j]
  BY <1>1 DEF IInv, Typed
<1>3. CASE Stored(k) /\ entry[k].superseding > 0
  <2> DEFINE e == [entry[k] EXCEPT !.superseding = @ - 1]
  <2>1. /\ Commit([entry EXCEPT ![k] = Refresh(k, e, "supersede")], order, {}, {}, reads)
        /\ due' = [due EXCEPT ![k] = IF e.superseding = 0 THEN world[k] ELSE @]
    BY <1>3 DEF Resume
  <2>2. /\ e \in EntryType /\ e.flight = entry[k].flight /\ e.v = entry[k].v
        /\ e.superseding = entry[k].superseding - 1 /\ e.settled = entry[k].settled
    BY <1>3, KeyFacts DEF EntryType
  <2> HIDE DEF e
  <2>3. /\ Reading(e, Of(reads, k), world[k]) /\ Hidden(e) /\ e.flight = NoRead
    BY <1>2, <1>3, <2>2 DEF KeyInv, Reading, Hidden
  <2>4. /\ due' \in [Keys -> Nat] /\ due'[k] \in {due[k], world[k]}
        /\ \A j \in Keys \ {k} : due'[j] = due[j]
    BY <1>2, <2>1 DEF Typed
  <2>5. due'[k] \in Nat /\ due'[k] <= world[k]
    BY <1>2, <2>4, KeyFacts DEF KeyInv
  <2>6. Asks(k, e, Of(reads, k), "supersede", due'[k])
    BY <1>1, <2>2, <2>3, <2>5, KeyFacts DEF Asks
  <2>7. Beside(k, e)
    BY <1>1, <1>2, <2>2, <2>4, <2>5 DEF KeyInv, Beside
  <2> QED
    BY <1>3, <2>1, <2>2, <2>6, <2>7, RefreshOnly
<1>4. CASE ~(Stored(k) /\ entry[k].superseding > 0)
  <2>1. UNCHANGED <<entry, order, reads, due>>
    BY <1>4 DEF Resume
  <2>2. closed
    <3>1. entry[k].superseding = 0
      BY <1>2, <1>4, KeyFacts DEF KeyInv, Blank
    <3> QED
      BY <1>1, <1>2, <3>1 DEF KeyInv
  <2>3. Typed'
    BY <1>1, <1>2, <2>1 DEF Typed
  <2>4. ASSUME NEW j \in Keys PROVE Onward(j)
    <3>1. KeyInv(j) /\ closed' /\ entry[j].v \in Nat
      BY <1>1, <2>2, KeyFacts DEF IInv
    <3>2. KeyInv(j)'
      BY <1>1, <2>1, <3>1 DEF KeyInv, Of, Stored
    <3> QED
      BY <2>1, <3>1, <3>2 DEF Onward
  <2> QED
    BY <2>3, <2>4
<1> QED
  BY <1>3, <1>4

\* An entry that differs from e in what its readings do not turn on.
Alike(f, e) ==
    /\ f.flight = e.flight /\ f.v = e.v /\ f.settled = e.settled
    /\ f.changed = e.changed /\ f.superseding = e.superseding

\* A turn that only holds or lets go of k's entry.
LEMMA HoldTurn ==
    ASSUME IInv, NEW k \in Keys, NEW f \in EntryType, Alike(f, entry[k]), Stored(k),
           NEW ord, \A j \in Keys : <<j, j>> \in ord <=> Stored(j) \/ j = k,
           NEW dropped, Loose([entry EXCEPT ![k] = f], dropped),
           Commit([entry EXCEPT ![k] = f], ord, dropped, {}, reads),
           world' = world, moving' = moving, closed' = closed, due' = due
    PROVE  Typed' /\ \A j \in Keys : Onward(j)
<1> DEFINE es == [entry EXCEPT ![k] = f]
<1>1. Typed /\ KeyInv(k)
  BY DEF IInv
<1>2. OneChanged(k, f, es)
  BY <1>1, OneEntry
<1>3. Commit(es, ord, dropped, {}, reads) /\ Loose(es, dropped)
  OBVIOUS
<1> HIDE DEF es
<1>4. Outcome(es, dropped, {}, reads)
  BY <1>2, <1>3 DEF Outcome, OneChanged, Loose
<1>5. Begun(k, f) = {}
  BY KeyFacts, NothingBegun DEF Alike
<1>6. After(k, f, {}, reads) = Of(reads, k)
  BY <1>5 DEF After
<1>7. /\ Reading(f, Of(reads, k), world[k]) /\ Hidden(f)
      /\ f.superseding = 0 => Answers(f, Of(reads, k), due[k])
  BY <1>1 DEF KeyInv, Alike, Reading, Hidden, Answers
<1>8. f.v >= entry[k].v
  BY KeyFacts DEF Alike
<1>9. es[k] = f /\ \A j \in Keys \ {k} : es[j] = entry[j]
  BY <1>2 DEF OneChanged
<1>10. Turn(k, f, es, ord, dropped, {}, reads)
  BY <1>3, <1>4, <1>6, <1>7, <1>8, <1>9 DEF Turn, Loose
<1>11. Beside(k, f)
  BY <1>1 DEF Beside, Typed, KeyInv, Alike
<1> QED
  BY <1>10, <1>11, TurnGoesOn

LEMMA LetGoKeeps ==
    ASSUME NEW e \in EntryType
    PROVE  LetGo(e) \in EntryType /\ Alike(LetGo(e), e)
<1> DEFINE b == e.armed /\ e.holders > 1
<1>1. b \in BOOLEAN /\ e.holders - 1 \in Int
  BY DEF EntryType
<1>2. LetGo(e) = [e EXCEPT !.holders = @ - 1, !.armed = b]
  BY DEF LetGo
<1> HIDE DEF b
<1> QED
  BY <1>1, <1>2 DEF EntryType, Alike

LEMMA SupersededHides ==
    ASSUME NEW e \in EntryType
    PROVE  /\ Superseded(e) \in EntryType /\ Superseded(e).flight = NoRead
           /\ Superseded(e).v = e.v /\ Superseded(e).settled = FALSE
           /\ Superseded(e).superseding = e.superseding + 1
<1>1. e.superseding + 1 \in Nat
  BY DEF EntryType
<1> QED
  BY <1>1 DEF Superseded, EntryType

LEMMA ReleaseHoldGoesOn ==
    ASSUME IInv, NEW h \in Homes, NEW k \in Keys, ReleaseHold(h, k)
    PROVE  Typed' /\ \A j \in Keys : Onward(j)
<1>1. moving' = moving /\ world' = world /\ closed' = closed /\ due' = due
  BY DEF ReleaseHold
<1>2. CASE Stored(k)
  <2> DEFINE f == LetGo(entry[k])
             es == [entry EXCEPT ![k] = f]
  <2>1. Commit(es, order, Victims(es, order), {}, reads)
    BY <1>2 DEF ReleaseHold
  <2>2. f \in EntryType /\ Alike(f, entry[k])
    BY KeyFacts, LetGoKeeps
  <2>3. es \in [Keys -> EntryType]
    BY <2>2, OneEntry DEF OneChanged, IInv
  <2>4. Loose(es, Victims(es, order))
    BY <2>3, VictimsAreLoose
  <2>5. \A j \in Keys : <<j, j>> \in order <=> Stored(j) \/ j = k
    BY <1>2 DEF Stored
  <2> HIDE DEF f
  <2> QED
    BY <1>1, <1>2, <2>1, <2>2, <2>4, <2>5, HoldTurn
<1>3. CASE ~Stored(k)
  <2>1. UNCHANGED <<entry, order, reads>>
    BY <1>3 DEF ReleaseHold
  <2> QED
    BY <1>1, <2>1, AllLeftAlone
<1> QED
  BY <1>2, <1>3

LEMMA WorldMovesGoesOn ==
    ASSUME IInv, NEW k \in Keys, WorldMoves(k)
    PROVE  Typed' /\ \A j \in Keys : Onward(j)
<1>1. /\ world' = [world EXCEPT ![k] = @ + 1]
      /\ UNCHANGED <<entry, order, reads, moving, closed, due>>
  BY DEF WorldMoves
<1>2. Typed'
  BY <1>1 DEF IInv, Typed
<1>3. ASSUME NEW j \in Keys PROVE Onward(j)
  <2>1. world[j] \in Nat /\ world'[j] \in Nat /\ world[j] <= world'[j]
    BY <1>1 DEF IInv, Typed
  <2>2. KeyInv(j) /\ entry[j].v \in Nat /\ due[j] \in Nat /\ Of(reads, j) \subseteq ReadType
    BY KeyFacts DEF IInv
  <2>3. Reading(entry[j], Of(reads, j), world'[j])
    <3>1. \A r \in Of(reads, j) : r.since \in Nat
      BY <2>2 DEF ReadType
    <3> QED
      BY <2>1, <2>2, <3>1 DEF KeyInv, Reading
  <2>4. KeyInv(j)'
    BY <1>1, <2>1, <2>2, <2>3 DEF KeyInv, Of, Stored
  <2> QED
    BY <1>1, <2>2, <2>4 DEF Onward
<1> QED
  BY <1>2, <1>3

LEMMA CloseGoesOn ==
    ASSUME IInv, Close
    PROVE  Typed' /\ \A j \in Keys : Onward(j)
<1>1. /\ Commit(entry, order, In(order), {}, reads) /\ closed'
      /\ UNCHANGED <<moving, world, due>>
  BY DEF Close
<1>2. Typed /\ Outcome(entry, In(order), {}, reads)
  BY DEF IInv, Typed, Outcome, In
<1>3. Typed'
  BY <1>1, <1>2, CommitReads DEF Typed
<1>4. ASSUME NEW j \in Keys PROVE Onward(j)
  <2>1. CASE j \in In(order)
    <3>1. due'[j] <= world[j]
      BY <1>1 DEF IInv, KeyInv
    <3> QED
      BY <1>1, <1>2, <2>1, <3>1, DroppedGoesOn
  <2>2. CASE j \notin In(order)
    <3>1. <<j, j>> \notin order
      BY <2>2 DEF In
    <3>2. /\ entry'[j] = entry[j] /\ order' = Without(order, In(order))
          /\ Of(reads', j) = Of(reads, j) \cup Begun(j, entry[j])
      BY <1>1, <1>2, <2>2, CommitReads
    <3>3. Begun(j, entry[j]) = {} /\ <<j, j>> \notin order'
      BY <3>1, <3>2, KeyFacts, NothingBegun, WithoutDrops
    <3> QED
      BY <1>1, <3>1, <3>2, <3>3, LeftAlone
  <2> QED
    BY <2>1, <2>2
<1> QED
  BY <1>3, <1>4

LEMMA SupersedeGoesOn ==
    ASSUME IInv, NEW k \in Keys, Supersede(k)
    PROVE  Typed' /\ \A j \in Keys : Onward(j)
<1> DEFINE f == Superseded(entry[k])
           es == [entry EXCEPT ![k] = f]
           dropped == Victims(es, Touched(k))
<1>1. /\ ~closed /\ moving' = [moving EXCEPT ![k] = @ + 1]
      /\ Commit(es, Touched(k), dropped, {k}, reads)
      /\ UNCHANGED <<world, closed, due>>
  BY DEF Supersede
<1>2. /\ f \in EntryType /\ f.flight = NoRead /\ f.v = entry[k].v /\ ~f.settled
      /\ f.superseding = entry[k].superseding + 1 /\ f.superseding > 0
  <2>1. entry[k] \in EntryType /\ entry[k].superseding \in Nat
    BY KeyFacts
  <2>2. /\ f \in EntryType /\ f.flight = NoRead /\ f.v = entry[k].v
        /\ f.settled = FALSE /\ f.superseding = entry[k].superseding + 1
    BY <2>1, SupersededHides
  <2> HIDE DEF f
  <2> QED
    BY <2>1, <2>2
<1> HIDE DEF f
<1>3. Typed /\ KeyInv(k) /\ OneChanged(k, f, es)
  BY <1>2, OneEntry DEF IInv
<1> HIDE DEF es
<1>4. /\ dropped \subseteq Keys /\ \A j \in dropped : es[j].superseding = 0
      /\ es \in [Keys -> EntryType] /\ es[k] = f /\ \A j \in Keys \ {k} : es[j] = entry[j]
  BY <1>3, VictimsAreLoose DEF OneChanged, Loose
<1> HIDE DEF dropped
<1>5. Outcome(es, dropped, {k}, reads)
  BY <1>4 DEF Outcome
<1>6. After(k, f, {k}, reads) = Aborting(Of(reads, k), entry[k].flight)
  BY <1>2, KeyFacts, NothingBegun DEF After
<1>7. Reading(f, After(k, f, {k}, reads), world[k])
  <2>1. /\ Reading(entry[k], Of(reads, k), world[k]) /\ f.v <= world[k]
        /\ Of(reads, k) \in SUBSET Of(reads, k) /\ Of(reads, k) \in SUBSET ReadType
    BY <1>2, <1>3, KeyFacts DEF KeyInv, Reading
  <2> QED
    BY <1>2, <1>6, <2>1, KeyFacts, DroppedReads
<1>8. Turn(k, f, es, Touched(k), dropped, {k}, reads)
  <2>1. \A j \in Keys : <<j, j>> \in Touched(k) <=> Stored(j) \/ j = k
    BY TouchedStores
  <2>2. f.v >= entry[k].v /\ Hidden(f) /\ f.superseding # 0
    BY <1>2, KeyFacts DEF Hidden
  <2> QED
    BY <1>1, <1>2, <1>4, <1>5, <1>7, <2>1, <2>2 DEF Turn
<1>9. Beside(k, f)
  <2>1. moving' \in [Keys -> Nat] /\ moving'[k] = moving[k] + 1
        /\ \A j \in Keys \ {k} : moving'[j] = moving[j]
    BY <1>1, <1>3 DEF Typed
  <2>2. f.superseding = moving'[k] /\ due' \in [Keys -> Nat] /\ due'[k] <= world[k]
    BY <1>1, <1>2, <1>3, <2>1 DEF Typed, KeyInv
  <2> QED
    BY <1>1, <2>1, <2>2 DEF Beside
<1> QED
  BY <1>8, <1>9, TurnGoesOn

\* The hold of an entry nobody returns to, or of a periodic one, reads nothing.
LEMMA HoldKeeps ==
    ASSUME NEW k, NEW e \in EntryType, ~Returns(e) \/ k \in Periodic
    PROVE  Hold(k, e) \in EntryType /\ Alike(Hold(k, e), e)
<1>1. e.holders + 1 \in Int
  BY DEF EntryType
<1>2. \/ Hold(k, e) = [e EXCEPT !.holders = @ + 1]
      \/ Hold(k, e) = [[e EXCEPT !.holders = @ + 1] EXCEPT !.armed = TRUE]
  BY DEF Hold
<1> QED
  BY <1>1, <1>2 DEF EntryType, Alike

\* A key not stored begins its first read, held from the start or not.
LEMMA FirstRead ==
    ASSUME NEW k, NEW kept \in BOOLEAN
    PROVE  \E e : /\ e \in EntryType /\ Alike(e, Blank)
                  /\ (IF kept THEN Refresh(k, Blank, "first")
                      ELSE Hold(k, Refresh(k, Blank, "first"))) = Refresh(k, e, "first")
<1>1. Refresh(k, Blank, "first") = [Blank EXCEPT !.flight = NewId(k)]
  BY DEF Refresh, Blank
<1>2. CASE kept
  <2>1. Alike(Blank, Blank)
    BY DEF Alike
  <2> QED
    BY <1>2, <2>1, BlankFits
<1>3. CASE ~kept
  <2> DEFINE e == [Blank EXCEPT !.holders = 1]
             f == [Blank EXCEPT !.flight = NewId(k)]
  <2>1. e \in EntryType /\ Alike(e, Blank)
    BY BlankFits DEF EntryType, Alike
  <2>2. ~Returns(f) /\ f.holders = 0
    BY DEF Returns, Blank
  <2>3. Hold(k, f) = [f EXCEPT !.holders = 1]
    <3> HIDE DEF f
    <3>1. Hold(k, f) = [f EXCEPT !.holders = f.holders + 1] /\ f.holders + 1 = 1
      BY <2>2 DEF Hold
    <3> QED
      BY <3>1
  <2>4. [f EXCEPT !.holders = 1] = [e EXCEPT !.flight = NewId(k)]
    BY DEF Blank
  <2>5. e.superseding = 0 /\ e.flight = NoRead
    BY DEF Blank
  <2>6. Refresh(k, e, "first") = [e EXCEPT !.flight = NewId(k)]
    BY <2>5 DEF Refresh
  <2> QED
    BY <1>1, <1>3, <2>1, <2>3, <2>4, <2>6
<1> QED
  BY <1>2, <1>3

LEMMA DeclareGoesOn ==
    ASSUME IInv, NEW h \in Homes, NEW k \in Keys, Declare(h, k)
    PROVE  Typed' /\ \A j \in Keys : Onward(j)
<1> DEFINE base == IF Stored(k) THEN entry[k] ELSE Refresh(k, Blank, "first")
           kept == k \in held[h]
           f == IF kept THEN base ELSE Hold(k, base)
           es == [entry EXCEPT ![k] = f]
           dropped == IF kept THEN {} ELSE Victims(es, Touched(k))
           calls == ~Stored(k) \/ (~kept /\ Returns(base) /\ k \notin Periodic)
<1>1. /\ ~closed /\ FreeIds(k) # {} /\ Commit(es, Touched(k), dropped, {}, reads)
      /\ due' = [due EXCEPT ![k] = IF calls THEN world[k] ELSE @]
      /\ UNCHANGED <<moving, world, closed>>
  BY DEF Declare
<1>2. Typed /\ KeyInv(k)
  BY DEF IInv
<1>3. /\ due' \in [Keys -> Nat] /\ due'[k] = IF calls THEN world[k] ELSE due[k]
      /\ \A j \in Keys \ {k} : due'[j] = due[j]
  BY <1>1, <1>2 DEF Typed
<1>4. due'[k] \in Nat /\ due'[k] <= world[k]
  BY <1>3, <1>2, KeyFacts DEF KeyInv
<1>5. \A j \in Keys : <<j, j>> \in Touched(k) <=> Stored(j) \/ j = k
  BY TouchedStores
<1>6. ASSUME f \in EntryType
      PROVE  Loose(es, dropped)
  <2>1. es \in [Keys -> EntryType]
    BY <1>2, <1>6, OneEntry DEF OneChanged
  <2> HIDE DEF es
  <2>2. Loose(es, {}) /\ Loose(es, Victims(es, Touched(k)))
    BY <2>1, VictimsAreLoose DEF Loose
  <2> QED
    BY <2>2
<1>7. CASE Stored(k) /\ ~calls
  <2>1. f \in EntryType /\ Alike(f, entry[k])
    <3>1. CASE kept
      BY <1>7, <3>1, KeyFacts DEF Alike
    <3>2. CASE ~kept
      BY <1>7, <3>2, KeyFacts, HoldKeeps
    <3> QED
      BY <3>1, <3>2
  <2>2. Loose(es, dropped)
    BY <1>6, <2>1
  <2>3. due' = due
    BY <1>1, <1>2, <1>7 DEF Typed
  <2> HIDE DEF f, dropped
  <2> QED
    BY <1>1, <1>5, <1>7, <2>1, <2>2, <2>3, HoldTurn
<1>8. CASE calls
  <2>1. \E e, by : /\ e \in EntryType /\ f = Refresh(k, e, by)
                   /\ Alike(e, entry[k]) /\ (Stored(k) => by = "change")
    <3>1. CASE Stored(k)
      <4> DEFINE e == [entry[k] EXCEPT !.holders = @ + 1]
      <4>1. e \in EntryType /\ Alike(e, entry[k])
        BY KeyFacts DEF EntryType, Alike
      <4>2. f = Refresh(k, e, "change")
        BY <1>8, <3>1 DEF Hold
      <4> QED
        BY <4>1, <4>2
    <3>2. CASE ~Stored(k)
      <4>1. entry[k] = Blank
        BY <1>2, <3>2 DEF KeyInv
      <4> QED
        BY <3>2, <4>1, FirstRead
    <3> QED
      BY <3>1, <3>2
  <2>2. PICK e, by : /\ e \in EntryType /\ f = Refresh(k, e, by)
                     /\ Alike(e, entry[k]) /\ (Stored(k) => by = "change")
    BY <2>1
  <2>3. e.flight \notin FreeIds(k) /\ e.v = entry[k].v
        /\ e.superseding = entry[k].superseding
    BY <2>2, KeyFacts DEF Alike
  <2>4. Reading(e, Of(reads, k), world[k]) /\ Hidden(e)
    BY <1>2, <2>2 DEF KeyInv, Alike, Reading, Hidden
  <2>5. ~Stored(k) => e.flight = NoRead
    BY <1>2, <2>2 DEF KeyInv, Alike, Blank
  <2>6. Asks(k, e, Of(reads, k), by, due'[k])
    BY <1>1, <1>4, <2>2, <2>3, <2>4, <2>5 DEF Asks
  <2>7. Beside(k, e)
    BY <1>1, <1>2, <1>3, <1>4, <2>3 DEF Beside, Typed, KeyInv
  <2> HIDE DEF f
  <2>8. f \in EntryType
    <3>1. Asked(k, e, Refresh(k, e, by), Of(reads, k), due'[k])
      BY <1>2, <2>6, RefreshKeeps
    <3> QED
      BY <2>2, <3>1 DEF Asked
  <2>9. Loose(es, dropped)
    BY <1>6, <2>8
  <2> HIDE DEF dropped
  <2>10. /\ Commit([entry EXCEPT ![k] = Refresh(k, e, by)], Touched(k), dropped, {}, reads)
         /\ Loose([entry EXCEPT ![k] = Refresh(k, e, by)], dropped)
    BY <1>1, <2>2, <2>9
  <2> QED
    BY <1>5, <2>3, <2>6, <2>7, <2>10, RefreshTurn
<1> QED
  BY <1>7, <1>8

\* The entry a read's answer v leaves, the re-read a change queued aside.
Landed(k, e, v) ==
    [e EXCEPT !.flight = NoRead, !.settled = TRUE, !.v = v, !.answered = TRUE,
              !.changed = FALSE, !.armed = k \in Periodic /\ e.holders > 0]

Shows(f, e, v) ==
    /\ f \in EntryType /\ f.flight = NoRead /\ f.settled = TRUE /\ f.v = v
    /\ f.superseding = e.superseding

LEMMA LandedShows ==
    ASSUME NEW k, NEW e \in EntryType, NEW v \in Nat
    PROVE  Shows(Landed(k, e, v), e, v)
<1> DEFINE b == k \in Periodic /\ e.holders > 0
<1>1. b \in BOOLEAN
  OBVIOUS
<1>2. Landed(k, e, v) = [e EXCEPT !.flight = NoRead, !.settled = TRUE, !.v = v,
                                  !.answered = TRUE, !.changed = FALSE, !.armed = b]
  BY DEF Landed
<1> HIDE DEF b
<1> QED
  BY <1>1, <1>2 DEF EntryType, Shows

\* An aborted read lands nowhere: its key has one read fewer.
LEMMA LandAbortedGoesOn ==
    ASSUME IInv, NEW r \in reads, r.aborted, reads' = reads \ {r},
           UNCHANGED <<entry, order, moving, world, closed, due>>
    PROVE  Typed' /\ \A j \in Keys : Onward(j)
<1>1. Typed'
  BY DEF IInv, Typed
<1>2. ASSUME NEW j \in Keys PROVE Onward(j)
  <2> DEFINE R == Of(reads, j)
             S == Of(reads', j)
  <2>1. KeyInv(j) /\ entry[j].v \in Nat
    BY KeyFacts DEF IInv
  <2>2. S \subseteq R /\ \A q \in R : ~q.aborted => q \in S
    BY DEF Of
  <2>3. Reading(entry[j], R, world[j])
    BY <2>1 DEF KeyInv
  <2>4. Stored(j) /\ entry[j].superseding = 0 => Answers(entry[j], R, due[j])
    BY <2>1 DEF KeyInv
  <2> HIDE DEF R, S
  <2>5. Reading(entry[j], S, world[j])
    BY <2>2, <2>3 DEF Reading
  <2>6. Stored(j) /\ entry[j].superseding = 0 => Answers(entry[j], S, due[j])
    BY <2>2, <2>4 DEF Answers
  <2>7. KeyInv(j)'
    BY <2>1, <2>5, <2>6 DEF S, KeyInv, Stored
  <2> QED
    BY <2>1, <2>7 DEF Onward
<1> QED
  BY <1>1, <1>2

LEMMA LandGoesOn ==
    ASSUME IInv, NEW r \in reads, Land(r)
    PROVE  Typed' /\ \A j \in Keys : Onward(j)
<1> DEFINE k == r.key
<1>1. UNCHANGED <<moving, world, closed, due>> /\ (entry[k].changed => FreeIds(k) # {})
  BY DEF Land
<1>2. Typed /\ k \in Keys /\ r \in Of(reads, k) /\ r.id \in ReadIds /\ r.since \in Nat
  BY DEF IInv, Typed, ReadType, Of
<1>3. CASE r.aborted
  BY <1>1, <1>3, LandAbortedGoesOn DEF Land
<1>4. CASE ~r.aborted
  <2>1. PICK v \in r.since..world[k] :
           Commit([entry EXCEPT ![k] = Store(k, entry[k], v)], order, {}, {}, reads \ {r})
    BY <1>4 DEF Land
  <2> DEFINE e == Landed(k, entry[k], v)
             f == Store(k, entry[k], v)
             es == [entry EXCEPT ![k] = f]
             R == Of(reads \ {r}, k)
  <2>2. v \in Nat /\ r.since <= v /\ v <= world[k]
    BY <1>2, KeyFacts
  <2>3. /\ e \in EntryType /\ e.flight = NoRead /\ e.settled = TRUE /\ e.v = v
        /\ e.superseding = entry[k].superseding
    <3>1. entry[k] \in EntryType
      BY <1>2, KeyFacts
    <3>2. Shows(e, entry[k], v)
      BY <2>2, <3>1, LandedShows
    <3> QED
      BY <3>2 DEF Shows
  <2>4. f = IF entry[k].changed THEN Refresh(k, e, "change") ELSE e
    BY DEF Store, Landed
  <2> HIDE DEF k, e, f
  <2>5. /\ KeyInv(k) /\ Reading(entry[k], Of(reads, k), world[k]) /\ Hidden(entry[k])
    BY <1>2 DEF IInv, KeyInv
  <2>6. entry[k].flight = r.id /\ entry[k].flight # NoRead /\ entry[k].v <= r.since
    BY <1>2, <1>4, <2>5, NoReadIsFree DEF Reading
  <2>7. entry[k].superseding = 0 /\ Stored(k)
    BY <1>2, <2>5, <2>6, KeyFacts DEF Hidden, KeyInv, Blank
  <2>8. R \subseteq Of(reads, k) /\ \A q \in R : q.aborted
    <3>1. ASSUME NEW q \in R, ~q.aborted PROVE FALSE
      <4>1. q \in Of(reads, k) /\ q # r
        BY DEF Of
      <4>2. q.id = r.id
        BY <2>5, <2>6, <3>1, <4>1 DEF Reading
      <4> QED
        BY <1>2, <2>5, <4>1, <4>2 DEF Reading
    <3> QED
      BY <3>1 DEF Of
  <2> HIDE DEF R
  <2>9. Reading(e, R, world[k]) /\ Hidden(e)
    BY <2>2, <2>3, <2>5, <2>7, <2>8 DEF Reading, Hidden
  <2>10. due[k] \in Nat /\ due[k] <= world[k]
    BY <1>2, <2>5, KeyFacts DEF KeyInv
  <2>11. /\ f \in EntryType /\ Hidden(f) /\ f.v = v /\ f.superseding = 0
         /\ Reading(f, R \cup Begun(k, f), world[k])
         /\ Answers(f, R \cup Begun(k, f), due[k])
    <3>1. CASE entry[k].changed
      <4>1. Asks(k, e, R, "change", due[k])
        BY <1>1, <1>2, <2>3, <2>8, <2>9, <2>10, <3>1, NoReadIsFree DEF Asks, k
      <4>2. Asked(k, e, f, R, due[k])
        BY <1>2, <2>4, <3>1, <4>1, RefreshKeeps
      <4> QED
        BY <2>3, <2>7, <4>2 DEF Asked
    <3>2. CASE ~entry[k].changed
      <4>1. f = e /\ Begun(k, f) = {}
        BY <1>2, <2>3, <2>4, <3>2, NoReadIsFree, NothingBegun
      <4>2. R \cup Begun(k, f) = R
        BY <4>1
      <4>3. r.since >= due[k]
        <5>1. Answers(entry[k], Of(reads, k), due[k])
          BY <2>5, <2>7 DEF KeyInv
        <5> QED
          BY <1>2, <1>4, <2>6, <3>2, <5>1 DEF Answers
      <4>4. v >= due[k]
        BY <1>2, <2>2, <2>10, <4>3
      <4>5. Answers(e, R, due[k])
        BY <2>3, <4>4 DEF Answers
      <4> QED
        BY <2>3, <2>7, <2>9, <4>1, <4>2, <4>5
    <3> QED
      BY <3>1, <3>2
  <2>12. OneChanged(k, f, es)
    BY <1>2, <2>11, OneEntry
  <2>13. Commit(es, order, {}, {}, reads \ {r})
    BY <2>1 DEF f
  <2> HIDE DEF es
  <2>14. Outcome(es, {}, {}, reads \ {r})
    BY <2>12 DEF Outcome, OneChanged
  <2>15. After(k, f, {}, reads \ {r}) = R \cup Begun(k, f)
    BY DEF After, R
  <2>16. \A q \in reads \ (reads \ {r}) : q.key = k
    BY DEF k
  <2>17. f.v >= entry[k].v
    BY <1>2, <2>2, <2>6, <2>11, KeyFacts
  <2>18. Turn(k, f, es, order, {}, {}, reads \ {r})
    <3>1. \A j \in Keys : <<j, j>> \in order <=> Stored(j) \/ j = k
      BY <2>7 DEF Stored
    <3>2. /\ Reading(f, After(k, f, {}, reads \ {r}), world[k])
          /\ Answers(f, After(k, f, {}, reads \ {r}), due'[k])
      BY <1>1, <2>11, <2>15
    <3> QED
      BY <1>2, <2>11, <2>12, <2>13, <2>14, <2>16, <2>17, <3>1, <3>2 DEF Turn, OneChanged
  <2>19. Beside(k, f)
    BY <1>1, <1>2, <2>5, <2>7, <2>11 DEF Beside, KeyInv, Typed
  <2> QED
    BY <2>18, <2>19, TurnGoesOn
<1> QED
  BY <1>3, <1>4

-----------------------------------------------------------------------------
(* The invariant, and what it says.                                        *)

LEMMA InitStarts == Init => IInv
<1> SUFFICES ASSUME Init PROVE IInv
  OBVIOUS
<1>1. Typed
  BY BlankFits DEF Init, Typed
<1>2. ASSUME NEW k \in Keys PROVE KeyInv(k)
  <2>1. /\ entry[k] = Blank /\ Of(reads, k) = {} /\ world[k] = 0 /\ due[k] = 0
        /\ moving[k] = 0 /\ ~Stored(k)
    BY DEF Init, Of, Stored
  <2>2. Blank.v = 0 /\ Blank.flight = NoRead /\ Blank.superseding = 0
    BY DEF Blank
  <2> QED
    BY <2>1, <2>2 DEF KeyInv, Reading, Hidden
<1> QED
  BY <1>1, <1>2 DEF IInv

\* Every turn keeps every key's story straight.
LEMMA NextGoesOn ==
    ASSUME IInv, [Next]_vars
    PROVE  IInv' /\ \A j \in Keys : Stored(j) /\ Stored(j)' => entry'[j].v >= entry[j].v
<1>1. ASSUME Typed', \A j \in Keys : Onward(j)
      PROVE  IInv' /\ \A j \in Keys : Stored(j) /\ Stored(j)' => entry'[j].v >= entry[j].v
  BY <1>1 DEF IInv, Onward
<1>2. Typed' /\ \A j \in Keys : Onward(j)
  <2>1. ASSUME NEW h \in Homes, NEW k \in Keys, Declare(h, k) \/ ReleaseHold(h, k)
        PROVE  Typed' /\ \A j \in Keys : Onward(j)
    BY <2>1, DeclareGoesOn, ReleaseHoldGoesOn
  <2>2. ASSUME NEW k \in Keys,
               Supersede(k) \/ Resume(k) \/ WorldMoves(k) \/ Heard(k) \/ Tick(k)
        PROVE  Typed' /\ \A j \in Keys : Onward(j)
    BY <2>2, SupersedeGoesOn, ResumeGoesOn, WorldMovesGoesOn, HeardGoesOn, TickGoesOn
  <2>3. CASE \E r \in reads : Land(r)
    BY <2>3, LandGoesOn
  <2>4. CASE Close
    BY <2>4, CloseGoesOn
  <2>5. CASE UNCHANGED vars
    BY <2>5, AllLeftAlone DEF vars
  <2> QED
    BY <2>1, <2>2, <2>3, <2>4, <2>5 DEF Next
<1> QED
  BY <1>1, <1>2

\* Every turn of the ledger keeps each entry's reads and their answers.
THEOREM Invariance == Spec => []IInv
<1>1. IInv /\ [Next]_vars => IInv'
  BY NextGoesOn
<1> QED
  BY <1>1, InitStarts, PTL DEF Spec

\* While a click's run changes what a key reads (supersede), the bar shows no value
\* from before it, and every read still out has been aborted.
THEOREM SupersedeHidesAlways == Spec => []SupersedeHides
<1>1. IInv => SupersedeHides
  <2> SUFFICES ASSUME IInv, NEW k \in Keys, ~closed, moving[k] > 0
               PROVE  ~entry[k].settled /\ \A r \in reads : r.key = k => r.aborted
    BY DEF SupersedeHides
  <2>1. KeyInv(k)
    BY DEF IInv
  <2>2. ~entry[k].settled /\ entry[k].flight = NoRead
    BY <2>1 DEF KeyInv, Hidden
  <2>3. ASSUME NEW r \in reads, r.key = k, ~r.aborted PROVE FALSE
    <3>1. r \in Of(reads, k) /\ r.id \in ReadIds
      BY <2>3 DEF IInv, Typed, ReadType, Of
    <3> QED
      BY <2>1, <2>2, <2>3, <3>1, NoReadIsFree DEF KeyInv, Reading
  <2> QED
    BY <2>2, <2>3
<1> QED
  BY <1>1, Invariance, PTL

\* Once an entry has no read out (refresh, store), it shows a value no older than
\* the last change, supersede or returning hold asked for.
THEOREM LastChangeLandsAlways == Spec => []LastChangeLands
<1>1. IInv => LastChangeLands
  <2> SUFFICES ASSUME IInv, NEW k \in Keys, Quiet(k)
               PROVE  entry[k].settled /\ entry[k].v >= due[k]
    BY DEF LastChangeLands
  <2>1. KeyInv(k) /\ Stored(k) /\ entry[k].flight = NoRead /\ entry[k].superseding = 0
    BY DEF IInv, Quiet
  <2>2. Answers(entry[k], Of(reads, k), due[k])
    BY <2>1 DEF KeyInv
  <2> QED
    BY <2>1, <2>2 DEF Answers
<1> QED
  BY <1>1, Invariance, PTL

\* However reads land, are aborted by a supersede or are asked for again, a kept
\* entry never shows an older value than it did (store, abandon).
THEOREM NothingGoesBack == Spec => NeverGoesBack
<1>1. IInv /\ [Next]_vars =>
         [\A k \in Keys : Stored(k) /\ Stored(k)' => entry'[k].v >= entry[k].v]_vars
  BY NextGoesOn
<1> QED
  BY <1>1, Invariance, PTL DEF Spec, NeverGoesBack

-----------------------------------------------------------------------------
(* FileWatch: the watches, and what a path waits on.                       *)

EventNames == Holders \cup {"self", "below"}

WatchType == [state : {"closed", "listening", "refused", "failed"}, bound : Nat,
              events : SUBSET EventNames]

SlotType == [dir : Dirs \cup {"none"}, bound : Nat,
             window : {"none", "changed", "unknown", "failed"}]

Registries == [dirs : [Dirs -> WatchType], slots : [Holders -> SlotType]]

\* A directory that listens bound a folder that was there, and one that does not
\* has nothing to deliver.  It hears that its own folder went before anything else
\* is at its path under the same name.
Watching(d, x) ==
    /\ d.state = "listening" => /\ d.bound # 0 /\ d.bound <= edits + 1
                                /\ x # "below" => d.bound = 1
    /\ d.state # "listening" => d.events = {}
    /\ "self" \in d.events => x = "below" /\ inode # d.bound

\* The folder above is the one there always was.
Placed(s) == s.dir = "above" => s.bound = 1

\* A registry the daemon can have: every slot is on a watch that is not closed, and
\* the probe's hears nothing once it failed.
Fit(r) ==
    /\ r \in Registries
    /\ \A x \in Dirs : Watching(r.dirs[x], x)
    /\ \A h \in Holders : r.slots[h].dir # "none" => r.dirs[r.slots[h].dir].state # "closed"
    /\ \A p \in Paths : r.slots[p].dir \in {"above", "below"}
    /\ \A p \in Paths : Placed(r.slots[p])
    /\ r.slots[Probe].dir \in {"probe", "none"}
    /\ r.slots[Probe].window = "failed" => r.slots[Probe].dir = "probe" /\ Deaf(r.dirs["probe"])

WatchesTyped ==
    /\ inode \in Nat /\ edits \in Nat /\ inode <= edits + 1 /\ found \in Nat
    /\ content \in [Paths -> Nat] /\ seen \in [Paths -> Nat]
    /\ {flowing, refuses, probeFolder, probing} \subseteq BOOLEAN
    /\ told \in [Paths -> BOOLEAN] /\ lost \in [Paths -> {"no", "lost", "short"}]
    /\ delivery \in [kind : {"delivering", "stalled", "unmeasured"}, unreported : Nat,
                     missed : BOOLEAN]

\* What has a path read again short of a span: Owed, in the registry r.
Awaits(r, p) ==
    LET d == r.dirs[r.slots[p].dir] IN
    \/ r.slots[p].window # "none"
    \/ d.events \cap {p, "below", "self"} # {}
    \/ Deaf(d) \/ Bound(r.slots[p].dir) # d.bound

Faulty(r, p) == Deaf(r.dirs[r.slots[p].dir])

\* What a path has to be told of its folder and its files.
Behind(p) == seen[p] # content[p] \/ (slots[p].dir = "above" /\ inode # 0)

Caught(p) ==
    /\ flowing /\ lost[p] = "lost" => Span
    /\ lost[p] = "no" /\ Behind(p) => Awaits(Registry, p)
    /\ lost[p] = "no" /\ slots[p].dir = "above" => seen[p] = 0
    /\ inode = 0 => content[p] = 0
    /\ slots[p].window = "none" => told[p] = Faulty(Registry, p)

\* Whoever has no measure of delivery has a span open.
Measured == /\ delivery.kind = "delivering" \/ delivery.missed
            /\ probing \/ delivery.missed

\* A folder made since a turn found none there is about to be heard of by a watch
\* that was open by then, or an outage took word of it.
Glimpsed ==
    found = 0 /\ inode # 0 =>
      IF flowing THEN dirs["above"].state = "listening" => "below" \in dirs["above"].events
      ELSE \A p \in Paths : lost[p] # "no"

WatchInv == /\ Fit(Registry) /\ WatchesTyped /\ Measured /\ Glimpsed
            /\ \A p \in Paths : Caught(p)

-----------------------------------------------------------------------------
\* What a turn leaves a path it neither moves nor reads.
Keeps(r, q, p) ==
    /\ q.slots[p].dir = r.slots[p].dir
    /\ Awaits(r, p) => Awaits(q, p)
    /\ q.slots[p].window = "none" =>
         r.slots[p].window = "none" /\ Faulty(q, p) = Faulty(r, p)

\* What a turn leaves the probe it does not touch.
Rests(r, q) == /\ q.slots[Probe] = r.slots[Probe]
               /\ q.dirs["probe"].events \subseteq r.dirs["probe"].events

LEMMA FoldedIs ==
    ASSUME NEW w \in {"none", "changed", "unknown", "failed"},
           NEW what \in {"changed", "unknown", "failed"}
    PROVE  /\ Folded(w, what) \in {"changed", "unknown", "failed"}
           /\ Folded(w, what) = "failed" => "failed" \in {w, what}
BY DEF Folded

LEMMA OpenedIs ==
    ASSUME WatchesTyped, NEW x \in Dirs
    PROVE  /\ Opened(x) \in WatchType /\ Watching(Opened(x), x)
           /\ Opened(x).state \in {"listening", "refused"} /\ Opened(x).events = {}
           /\ Opened(x).state = "listening" => Opened(x).bound = Bound(x)
<1>1. Bound(x) \in Nat /\ Bound(x) <= edits + 1 /\ (x # "below" => Bound(x) \in {0, 1})
  BY DEF WatchesTyped, Bound, Dirs
<1> DEFINE b == Bound(x)
<1> HIDE DEF b
<1>2. CASE refuses \/ b = 0
  <2>1. Opened(x) = [state |-> "refused", bound |-> 0, events |-> {}]
    BY <1>2 DEF Opened, Closed, b
  <2> QED
    BY <2>1 DEF WatchType, Watching
<1>3. CASE ~(refuses \/ b = 0)
  <2>1. Opened(x) = [state |-> "listening", bound |-> b, events |-> {}]
    BY <1>3 DEF Opened, Closed, b
  <2>2. b \in Nat /\ b <= edits + 1 /\ (x # "below" => b \in {0, 1})
    BY <1>1 DEF b
  <2>3. Watching([state |-> "listening", bound |-> b, events |-> {}], x)
    BY <1>3, <2>2 DEF Watching
  <2> QED
    BY <2>1, <2>2, <2>3 DEF WatchType, b
<1> QED
  BY <1>2, <1>3

LEMMA SaysIs ==
    ASSUME WatchesTyped, NEW x \in Dirs, NEW d \in WatchType, Amiss(x, d)
    PROVE  /\ Says(d, Opened(x)) \in {"none", "unknown", "failed"}
           /\ Says(d, Opened(x)) = "none" => Deaf(d) /\ Deaf(Opened(x))
           /\ Says(d, Opened(x)) = "failed" => Deaf(Opened(x))
BY OpenedIs DEF Says, Deaf, Amiss, WatchType

LEMMA FireFits ==
    ASSUME NEW r, Fit(r), NEW hs, NEW what \in {"changed", "unknown", "failed"},
           what = "failed" /\ Probe \in hs =>
               r.slots[Probe].dir = "probe" /\ Deaf(r.dirs["probe"])
    PROVE  LET q == Fire(r, hs, what) IN
           /\ Fit(q) /\ q.dirs = r.dirs
           /\ \A h \in Holders : q.slots[h].dir = r.slots[h].dir
           /\ Probe \notin hs => Rests(r, q)
           /\ what = "failed" => \A h \in hs \cap Holders : q.slots[h].window = "failed"
           /\ \A p \in Paths : Keeps(r, q, p) /\ (p \in hs => q.slots[p].window # "none")
<1> DEFINE q == Fire(r, hs, what)
           new(h) == IF h \in hs THEN [r.slots[h] EXCEPT !.window = Folded(@, what)]
                     ELSE r.slots[h]
           ss == [h \in Holders |-> new(h)]
<1>1. r = [dirs |-> r.dirs, slots |-> r.slots] /\ r.dirs \in [Dirs -> WatchType]
      /\ r.slots \in [Holders -> SlotType]
  BY DEF Fit, Registries
<1>2. q = [dirs |-> r.dirs, slots |-> ss]
  BY <1>1 DEF Fire
<1>3. ASSUME NEW h \in Holders
      PROVE  /\ new(h) \in SlotType /\ new(h).dir = r.slots[h].dir
             /\ new(h).bound = r.slots[h].bound
             /\ h \notin hs => new(h) = r.slots[h]
             /\ h \in hs => new(h).window # "none"
             /\ r.slots[h].window # "none" => new(h).window # "none"
             /\ h \in hs /\ what = "failed" => new(h).window = "failed"
             /\ new(h).window = "failed" =>
                   r.slots[h].window = "failed" \/ (h \in hs /\ what = "failed")
  <2>1. r.slots[h] \in SlotType
    BY <1>1
  <2>2. PICK s \in SlotType : s = r.slots[h]
    BY <2>1
  <2>3. Folded(s.window, what) \in {"changed", "unknown", "failed"}
        /\ (Folded(s.window, what) = "failed" => "failed" \in {s.window, what})
    BY FoldedIs DEF SlotType
  <2> QED
    BY <2>2, <2>3 DEF SlotType, Folded
<1> HIDE DEF new
<1>4. q.dirs = r.dirs /\ q.slots = ss /\ ss \in [Holders -> SlotType]
      /\ \A h \in Holders : ss[h] = new(h)
  BY <1>2, <1>3
<1>5. Probe \in Holders /\ Paths \subseteq Holders
  BY DEF Holders
<1> HIDE DEF ss, q
<1>6. Fit(q)
  <2>1. q \in Registries
    BY <1>1, <1>2, <1>4 DEF Registries
  <2>2. \A p \in Paths : Placed(q.slots[p])
    BY <1>3, <1>4, <1>5 DEF Fit, Placed
  <2> QED
    BY <1>3, <1>4, <1>5, <2>1, <2>2 DEF Fit
<1>7. ASSUME NEW p \in Paths PROVE Keeps(r, q, p) /\ (p \in hs => q.slots[p].window # "none")
  BY <1>3, <1>4, <1>5 DEF Keeps, Awaits, Faulty
<1>8. Probe \notin hs => Rests(r, q)
  BY <1>3, <1>4, <1>5 DEF Rests
<1>9. what = "failed" => \A h \in hs \cap Holders : q.slots[h].window = "failed"
  BY <1>3, <1>4
<1> QED
  BY <1>3, <1>4, <1>6, <1>7, <1>8, <1>9 DEF q

LEMMA JudgedFits ==
    ASSUME WatchesTyped, NEW r, Fit(r), NEW xs \in SUBSET Dirs,
           "probe" \in xs => r.slots[Probe].window # "failed"
    PROVE  LET q == Judged(r, xs) IN
           /\ Fit(q)
           /\ \A h \in Holders : q.slots[h].dir = r.slots[h].dir
           /\ \A x \in Dirs : r.dirs[x].state # "closed" => q.dirs[x].state # "closed"
           /\ "probe" \notin xs => Rests(r, q)
           /\ \A p \in Paths : Keeps(r, q, p)
<1> DEFINE again == {x \in xs : Amiss(x, r.dirs[x])}
           at(h) == r.slots[h].dir
           says(h) == Says(r.dirs[at(h)], Opened(at(h)))
           dir(x) == IF x \in again THEN Opened(x) ELSE r.dirs[x]
           slot(h) == IF at(h) \in again /\ says(h) # "none"
                        THEN [r.slots[h] EXCEPT !.window = Folded(@, says(h))]
                        ELSE r.slots[h]
           ds == [x \in Dirs |-> dir(x)]
           ss == [h \in Holders |-> slot(h)]
           q == [dirs |-> ds, slots |-> ss]
<1>1. Judged(r, xs) = q
  BY DEF Judged
<1>2. r \in Registries /\ r.dirs \in [Dirs -> WatchType] /\ r.slots \in [Holders -> SlotType]
  BY DEF Fit, Registries
<1>3. ASSUME NEW x \in Dirs
      PROVE  /\ dir(x) \in WatchType /\ Watching(dir(x), x)
             /\ x \in again => dir(x) = Opened(x) /\ dir(x).state # "closed"
             /\ x \notin again => dir(x) = r.dirs[x]
  BY <1>2, OpenedIs DEF Fit
<1>4. ASSUME NEW h \in Holders
      PROVE  /\ slot(h) \in SlotType /\ slot(h).dir = at(h)
             /\ slot(h).bound = r.slots[h].bound
             /\ at(h) \notin again => slot(h) = r.slots[h]
             /\ slot(h).window = "none" => r.slots[h].window = "none"
             /\ at(h) \in again =>
                  /\ slot(h).window = "none" => Deaf(r.dirs[at(h)]) /\ Deaf(Opened(at(h)))
                  /\ slot(h).window = "failed" =>
                       r.slots[h].window = "failed" \/ Deaf(Opened(at(h)))
  <2>1. r.slots[h] \in SlotType
    BY <1>2
  <2>2. PICK s \in SlotType : s = r.slots[h]
    BY <2>1
  <2>3. CASE at(h) \notin again
    BY <2>1, <2>3
  <2>4. CASE at(h) \in again
    <3>1. at(h) \in Dirs /\ r.dirs[at(h)] \in WatchType /\ Amiss(at(h), r.dirs[at(h)])
      BY <1>2, <2>4
    <3>2. /\ says(h) \in {"none", "unknown", "failed"}
          /\ says(h) = "none" => Deaf(r.dirs[at(h)]) /\ Deaf(Opened(at(h)))
          /\ says(h) = "failed" => Deaf(Opened(at(h)))
      BY <3>1, SaysIs
    <3> HIDE DEF says, again, at
    <3>3. CASE says(h) = "none"
      BY <2>1, <2>4, <3>2, <3>3 DEF at
    <3>4. CASE says(h) # "none"
      <4>1. Folded(s.window, says(h)) \in {"changed", "unknown", "failed"}
            /\ (Folded(s.window, says(h)) = "failed" => "failed" \in {s.window, says(h)})
        BY <3>2, <3>4, FoldedIs DEF SlotType
      <4>2. slot(h) = [s EXCEPT !.window = Folded(s.window, says(h))]
        BY <2>2, <2>4, <3>4
      <4>3. slot(h) \in SlotType /\ slot(h).dir = s.dir /\ slot(h).bound = s.bound
            /\ slot(h).window = Folded(s.window, says(h))
        BY <4>1, <4>2 DEF SlotType
      <4> HIDE DEF slot
      <4> QED
        BY <2>2, <2>4, <3>2, <4>1, <4>3 DEF at
    <3> QED
      BY <3>3, <3>4
  <2> QED
    BY <2>3, <2>4
<1> HIDE DEF dir, slot, again
<1>5. Probe \in Holders /\ Paths \subseteq Holders /\ "probe" \in Dirs
  BY DEF Holders, Dirs
<1>6. q \in Registries /\ q.dirs = ds /\ q.slots = ss
      /\ (\A x \in Dirs : ds[x] = dir(x)) /\ (\A h \in Holders : ss[h] = slot(h))
  BY <1>3, <1>4 DEF Registries
<1> HIDE DEF ds, ss, q
<1>7. \A x \in Dirs : r.dirs[x].state # "closed" => q.dirs[x].state # "closed"
  BY <1>3, <1>6
<1>8. \A h \in Holders : /\ q.slots[h].dir = r.slots[h].dir
                        /\ q.slots[h].bound = r.slots[h].bound
  BY <1>4, <1>6
<1>9. again \subseteq xs
  BY DEF again
<1>10. Fit(q)
  <2>1. q.slots[Probe].window = "failed" => q.slots[Probe].dir = "probe" /\ Deaf(q.dirs["probe"])
    <3>1. r.slots[Probe].window = "failed" => at(Probe) = "probe" /\ Deaf(r.dirs["probe"])
      BY DEF Fit
    <3>2. at(Probe) \in {"probe", "none"} /\ "none" \notin again
      BY <1>9 DEF Fit, Dirs
    <3>3. CASE "probe" \in again
      BY <1>3, <1>4, <1>5, <1>6, <1>9, <3>1, <3>2, <3>3
    <3>4. CASE "probe" \notin again
      BY <1>3, <1>4, <1>5, <1>6, <1>9, <3>1, <3>2, <3>4
    <3> QED
      BY <3>3, <3>4
  <2>2. \A x \in Dirs : Watching(q.dirs[x], x)
    BY <1>3, <1>6
  <2>3. \A h \in Holders : q.slots[h].dir # "none" => q.dirs[q.slots[h].dir].state # "closed"
    <3> SUFFICES ASSUME NEW h \in Holders, r.slots[h].dir # "none"
                 PROVE  q.dirs[r.slots[h].dir].state # "closed"
      BY <1>8
    <3>1. r.slots[h].dir \in Dirs
      BY <1>2 DEF SlotType
    <3> QED
      BY <1>7, <3>1 DEF Fit
  <2>4. \A p \in Paths : Placed(q.slots[p])
    BY <1>5, <1>8 DEF Fit, Placed
  <2> QED
    BY <1>5, <1>6, <1>8, <2>1, <2>2, <2>3, <2>4 DEF Fit
<1>11. "probe" \notin xs => Rests(r, q)
  BY <1>3, <1>4, <1>5, <1>6, <1>9 DEF Rests, Fit, Dirs
<1>12. ASSUME NEW p \in Paths PROVE Keeps(r, q, p)
  <2>1. at(p) \in Dirs /\ p \in Holders
    BY <1>5 DEF Fit, Dirs
  <2>2. q.dirs[at(p)] = dir(at(p)) /\ q.slots[p] = slot(p) /\ q.slots[p].dir = at(p)
    BY <1>4, <1>6, <2>1
  <2>3. CASE at(p) \in again
    BY <1>3, <1>4, <2>1, <2>2, <2>3 DEF Keeps, Awaits, Faulty, Deaf
  <2>4. CASE at(p) \notin again
    BY <1>3, <1>4, <2>1, <2>2, <2>4 DEF Keeps, Awaits, Faulty
  <2> QED
    BY <2>3, <2>4
<1> QED
  BY <1>1, <1>7, <1>8, <1>10, <1>11, <1>12

LEMMA SweptFits ==
    ASSUME NEW r, Fit(r)
    PROVE  LET q == Swept(r) IN
           /\ Fit(q) /\ q.slots = r.slots /\ Rests(r, q)
           /\ \A p \in Paths : q.dirs[r.slots[p].dir] = r.dirs[r.slots[p].dir]
<1> DEFINE ds == [x \in Dirs |-> IF Listeners(r, x) = {} THEN Closed ELSE r.dirs[x]]
           q == [dirs |-> ds, slots |-> r.slots]
<1>1. r \in Registries /\ r = [dirs |-> r.dirs, slots |-> r.slots]
      /\ r.dirs \in [Dirs -> WatchType] /\ r.slots \in [Holders -> SlotType]
  BY DEF Fit, Registries
<1>2. Swept(r) = q
  BY <1>1 DEF Swept
<1>3. Closed \in WatchType /\ (\A x \in Dirs : Watching(Closed, x)) /\ Closed.events = {}
  BY DEF Closed, WatchType, Watching
<1>4. q \in Registries /\ q.dirs = ds /\ q.slots = r.slots
  BY <1>1, <1>3 DEF Registries
<1> HIDE DEF q
<1>5. ASSUME NEW h \in Holders, r.slots[h].dir \in Dirs
      PROVE  q.dirs[r.slots[h].dir] = r.dirs[r.slots[h].dir]
  BY <1>4, <1>5 DEF Listeners
<1>6. Probe \in Holders /\ Paths \subseteq Holders /\ "probe" \in Dirs
  BY DEF Holders, Dirs
<1>7. Fit(q)
  <2>1. \A x \in Dirs : Watching(q.dirs[x], x)
    BY <1>3, <1>4 DEF Fit
  <2>2. \A h \in Holders : q.slots[h].dir # "none" => q.dirs[q.slots[h].dir].state # "closed"
    <3> SUFFICES ASSUME NEW h \in Holders, r.slots[h].dir # "none"
                 PROVE  q.dirs[r.slots[h].dir].state # "closed"
      BY <1>4
    <3>1. r.slots[h].dir \in Dirs
      BY <1>1 DEF SlotType
    <3> QED
      BY <1>5, <3>1 DEF Fit
  <2>3. q.slots[Probe].window = "failed" => q.slots[Probe].dir = "probe" /\ Deaf(q.dirs["probe"])
    BY <1>4, <1>5, <1>6 DEF Fit
  <2> QED
    BY <1>4, <2>1, <2>2, <2>3 DEF Fit
<1> QED
  BY <1>2, <1>3, <1>4, <1>5, <1>6, <1>7 DEF Fit, Rests, Dirs

LEMMA KeepsAlong ==
    ASSUME NEW r, NEW t, NEW q, NEW p \in Paths, Keeps(r, t, p),
           q.slots[p] = t.slots[p], q.dirs[t.slots[p].dir] = t.dirs[t.slots[p].dir]
    PROVE  Keeps(r, q, p)
BY DEF Keeps, Awaits, Faulty

LEMMA TakenFits ==
    ASSUME WatchesTyped, NEW r, Fit(r), NEW x \in {"above", "below"}
    PROVE  LET t == IF r.dirs[x].state # "closed" THEN Judged(r, {x})
                    ELSE [r EXCEPT !.dirs[x] = Opened(x)]
           IN  /\ Fit(t) /\ t.dirs[x].state # "closed" /\ Rests(r, t)
               /\ \A h \in Holders : t.slots[h].dir = r.slots[h].dir
               /\ \A p \in Paths : Keeps(r, t, p)
<1>1. x \in Dirs /\ x # "probe" /\ {x} \in SUBSET Dirs
  BY DEF Dirs
<1>2. CASE r.dirs[x].state # "closed"
  BY <1>1, <1>2, JudgedFits
<1>3. CASE r.dirs[x].state = "closed"
  <2> DEFINE ds == [r.dirs EXCEPT ![x] = Opened(x)]
             t == [dirs |-> ds, slots |-> r.slots]
  <2>1. r \in Registries /\ r = [dirs |-> r.dirs, slots |-> r.slots]
        /\ r.dirs \in [Dirs -> WatchType] /\ r.slots \in [Holders -> SlotType]
    BY DEF Fit, Registries
  <2>2. [r EXCEPT !.dirs[x] = Opened(x)] = t
    BY <2>1
  <2>3. Opened(x) \in WatchType /\ Watching(Opened(x), x) /\ Opened(x).state # "closed"
    BY <1>1, OpenedIs
  <2>4. ds \in [Dirs -> WatchType] /\ ds[x] = Opened(x)
        /\ \A y \in Dirs : y # x => ds[y] = r.dirs[y]
    BY <1>1, <2>1, <2>3
  <2>5. t \in Registries /\ t.dirs = ds /\ t.slots = r.slots
    BY <2>1, <2>4 DEF Registries
  <2> HIDE DEF t, ds
  <2>6. ASSUME NEW h \in Holders, r.slots[h].dir # "none"
        PROVE  r.slots[h].dir \in Dirs /\ ds[r.slots[h].dir] = r.dirs[r.slots[h].dir]
               /\ r.dirs[r.slots[h].dir].state # "closed"
    <3>1. r.slots[h].dir \in Dirs /\ r.dirs[r.slots[h].dir].state # "closed"
      BY <2>1, <2>6 DEF Fit, SlotType
    <3> QED
      BY <1>3, <2>4, <3>1
  <2>7. Probe \in Holders /\ Paths \subseteq Holders /\ "probe" \in Dirs
    BY DEF Holders, Dirs
  <2>8. Fit(t)
    <3>1. \A y \in Dirs : Watching(t.dirs[y], y)
      BY <2>3, <2>4, <2>5 DEF Fit
    <3>2. \A h \in Holders : t.slots[h].dir # "none" => t.dirs[t.slots[h].dir].state # "closed"
      BY <2>5, <2>6
    <3>3. t.slots[Probe].window = "failed" =>
             t.slots[Probe].dir = "probe" /\ Deaf(t.dirs["probe"])
      BY <2>5, <2>6, <2>7 DEF Fit
    <3> QED
      BY <2>5, <3>1, <3>2, <3>3 DEF Fit
  <2>9. Rests(r, t)
    BY <1>1, <2>4, <2>5, <2>7 DEF Rests
  <2>10. ASSUME NEW p \in Paths PROVE Keeps(r, t, p)
    <3>1. r.slots[p].dir # "none"
      BY DEF Fit
    <3> QED
      BY <2>5, <2>6, <2>7, <3>1 DEF Keeps, Awaits, Faulty
  <2> QED
    BY <1>3, <2>2, <2>3, <2>4, <2>5, <2>8, <2>9, <2>10, <1>1
<1> QED
  BY <1>2, <1>3

LEMMA DerivedIs ==
    ASSUME WatchesTyped, NEW at \in Derivations
    PROVE  /\ at \in SlotType /\ at.dir \in {"above", "below"} /\ at.bound \in Nat
           /\ at.window = "none"
           /\ at.dir = "above" => at.bound = 1 /\ (inode # 0 => found = 0)
           /\ at.bound = 0 => inode = 0
<1>1. PICK i \in {found, inode}, b \in {found, inode} :
        at = Derived(i, b) /\ (b = found => i = found)
  BY DEF Derivations, Now
<1>2. i \in Nat /\ b \in Nat
  BY DEF WatchesTyped
<1>3. CASE i = 0
  <2>1. at = [dir |-> "above", bound |-> 1, window |-> "none"]
    BY <1>1, <1>3 DEF Derived
  <2> QED
    BY <1>3, <2>1 DEF SlotType, Dirs
<1>4. CASE i # 0
  <2>1. at = [dir |-> "below", bound |-> b, window |-> "none"]
    BY <1>1, <1>4 DEF Derived
  <2>2. at.bound = b /\ (b = 0 => inode = 0)
    BY <1>1, <1>4, <2>1
  <2> QED
    BY <1>2, <2>1, <2>2 DEF SlotType, Dirs
<1> QED
  BY <1>3, <1>4

LEMMA FollowedFits ==
    ASSUME WatchesTyped, NEW r, Fit(r), NEW ps \in SUBSET Paths, NEW at \in Derivations
    PROVE  LET q == Followed(r, ps, at) IN
           /\ Fit(q) /\ Rests(r, q)
           /\ \A p \in ps : q.slots[p].dir = at.dir \/ (inode = 0 /\ q = r)
           /\ \A p \in Paths \ ps : Keeps(r, q, p)
           /\ (\A p \in ps : r.slots[p].dir = "above" /\ at.dir = "above") => q = r
<1> DEFINE movers == {p \in ps : /\ at.bound # 0
                                 /\ r.slots[p].dir # at.dir \/ r.slots[p].bound # at.bound}
           t == IF r.dirs[at.dir].state # "closed" THEN Judged(r, {at.dir})
                ELSE [r EXCEPT !.dirs[at.dir] = Opened(at.dir)]
           ss == [h \in Holders |-> IF h \in movers THEN at ELSE t.slots[h]]
           m == [dirs |-> t.dirs, slots |-> ss]
<1>0. /\ at \in SlotType /\ at.dir \in {"above", "below"} /\ at.bound \in Nat
      /\ at.window = "none"
      /\ at.dir = "above" => at.bound = 1
      /\ at.bound = 0 => inode = 0
  BY DerivedIs
<1>1. CASE movers = {}
  <2>1. Followed(r, ps, at) = r
    BY <1>1 DEF Followed
  <2>2. \A p \in ps : r.slots[p].dir = at.dir \/ inode = 0
    BY <1>0, <1>1
  <2> QED
    BY <2>1, <2>2 DEF Keeps, Rests
<1>2. CASE movers # {}
  <2>1. at.dir \in {"above", "below"} /\ at.bound # 0
    BY <1>0, <1>2
  <2>2. /\ Fit(t) /\ t.dirs[at.dir].state # "closed" /\ Rests(r, t)
        /\ \A h \in Holders : t.slots[h].dir = r.slots[h].dir
        /\ \A p \in Paths : Keeps(r, t, p)
    BY <2>1, TakenFits
  <2>3. Followed(r, ps, at) = Swept([t EXCEPT !.slots = ss])
    BY <1>2 DEF Followed
  <2>4. movers \subseteq ps /\ Probe \notin movers /\ \A p \in ps \ movers : r.slots[p].dir = at.dir
    BY <2>1, FileWatchAssumption
  <2>5. at \in SlotType /\ (at.dir = "above" => at.bound = 1)
    BY <1>0
  <2> HIDE DEF t, movers
  <2>6. t \in Registries /\ t = [dirs |-> t.dirs, slots |-> t.slots]
        /\ t.dirs \in [Dirs -> WatchType] /\ t.slots \in [Holders -> SlotType]
    BY <2>2 DEF Fit, Registries
  <2>7. [t EXCEPT !.slots = ss] = m
    BY <2>6
  <2>8. Probe \in Holders /\ Paths \subseteq Holders /\ "probe" \in Dirs
    BY DEF Holders, Dirs
  <2>9. ss \in [Holders -> SlotType]
        /\ \A h \in Holders : ss[h] = IF h \in movers THEN at ELSE t.slots[h]
    BY <2>5, <2>6
  <2>10. m \in Registries /\ m.dirs = t.dirs /\ m.slots = ss
    BY <2>6, <2>9 DEF Registries
  <2> HIDE DEF ss, m
  <2>11. Fit(m)
    <3>1. \A h \in Holders : m.slots[h].dir # "none" => m.dirs[m.slots[h].dir].state # "closed"
      BY <2>2, <2>5, <2>9, <2>10 DEF Fit
    <3>2. \A p \in Paths : m.slots[p].dir \in {"above", "below"}
      BY <2>1, <2>2, <2>5, <2>8, <2>9, <2>10 DEF Fit
    <3>2a. \A p \in Paths : Placed(m.slots[p])
      <4>1. Placed(at)
        BY <2>5 DEF Placed
      <4> QED
        BY <2>2, <2>8, <2>9, <2>10, <4>1 DEF Fit
    <3>3. m.slots[Probe] = t.slots[Probe]
      BY <2>4, <2>8, <2>9, <2>10
    <3> QED
      BY <2>2, <2>10, <3>1, <3>2, <3>2a, <3>3 DEF Fit
  <2>12. Followed(r, ps, at) = Swept(m)
    BY <2>3, <2>7
  <2> DEFINE q == Swept(m)
  <2>13. /\ Fit(q) /\ q.slots = m.slots /\ Rests(m, q)
         /\ \A p \in Paths : q.dirs[m.slots[p].dir] = m.dirs[m.slots[p].dir]
    BY <2>11, SweptFits
  <2> HIDE DEF q
  <2>14. Rests(r, q)
    BY <2>2, <2>4, <2>8, <2>9, <2>10, <2>13 DEF Rests
  <2>15. \A p \in ps : q.slots[p].dir = at.dir
    BY <2>2, <2>4, <2>5, <2>8, <2>9, <2>10, <2>13
  <2>16. ASSUME NEW p \in Paths \ ps PROVE Keeps(r, q, p)
    <3>1. q.slots[p] = t.slots[p] /\ q.dirs[t.slots[p].dir] = t.dirs[t.slots[p].dir]
      BY <2>4, <2>8, <2>9, <2>10, <2>13
    <3> QED
      BY <2>2, <3>1, KeepsAlong
  <2>17. ~\A p \in ps : r.slots[p].dir = "above" /\ at.dir = "above"
    BY <1>0, <1>2 DEF Fit, Placed, movers
  <2> QED
    BY <2>12, <2>13, <2>14, <2>15, <2>16, <2>17 DEF q
<1> QED
  BY <1>1, <1>2

LEMMA ForgoingFits ==
    ASSUME NEW r, Fit(r) PROVE Fit(Forgoing(r, Probe))
<1> DEFINE none == [dir |-> "none", bound |-> 0, window |-> "none"]
           ss == [r.slots EXCEPT ![Probe] = none]
           m == [dirs |-> r.dirs, slots |-> ss]
<1>1. r \in Registries /\ r = [dirs |-> r.dirs, slots |-> r.slots]
      /\ r.dirs \in [Dirs -> WatchType] /\ r.slots \in [Holders -> SlotType]
  BY DEF Fit, Registries
<1>2. Forgoing(r, Probe) = Swept(m)
  BY <1>1 DEF Forgoing
<1>3. none \in SlotType /\ none.dir = "none" /\ none.window = "none"
  BY DEF SlotType
<1>4. Probe \in Holders /\ Paths \subseteq Holders /\ Probe \notin Paths
  BY FileWatchAssumption DEF Holders
<1> HIDE DEF none
<1>5. ss \in [Holders -> SlotType] /\ ss[Probe] = none
      /\ \A h \in Holders \ {Probe} : ss[h] = r.slots[h]
  BY <1>1, <1>3, <1>4
<1>6. m \in Registries /\ m.dirs = r.dirs /\ m.slots = ss
  BY <1>1, <1>5 DEF Registries
<1> HIDE DEF ss, m
<1>7. Fit(m)
  <2>1. \A h \in Holders : m.slots[h].dir # "none" => m.dirs[m.slots[h].dir].state # "closed"
    BY <1>3, <1>5, <1>6 DEF Fit
  <2>2. \A p \in Paths : m.slots[p] = r.slots[p]
    BY <1>4, <1>5, <1>6
  <2> QED
    BY <1>3, <1>5, <1>6, <2>1, <2>2 DEF Fit
<1> QED
  BY <1>2, <1>7, SweptFits

-----------------------------------------------------------------------------
(* The disk.                                                               *)

\* What the watches on x were told, from ds to es.
Informed(ds, es, x) == /\ es[x].state = ds[x].state /\ es[x].bound = ds[x].bound
                       /\ ds[x].events \subseteq es[x].events

LEMMA EmitTells ==
    ASSUME NEW ds \in [Dirs -> WatchType], NEW x \in Dirs, NEW n \in EventNames,
           \A y \in Dirs : ds[y].state # "listening" => ds[y].events = {}
    PROVE  LET es == Emit(ds, x, n) IN
           /\ es \in [Dirs -> WatchType]
           /\ \A y \in Dirs : Informed(ds, es, y) /\ (y # x => es[y] = ds[y])
           /\ \A y \in Dirs : es[y].state # "listening" => es[y].events = {}
           /\ es[x].events \subseteq ds[x].events \cup {n}
           /\ n \in es[x].events \ ds[x].events => ds[x].bound = Bound(x)
           /\ flowing /\ ds[x].state = "listening" /\ ds[x].bound = Bound(x)
                => n \in es[x].events
<1> DEFINE d == ds[x]
           e == [d EXCEPT !.events = d.events \cup {n}]
           es == [ds EXCEPT ![x] = e]
<1>1. CASE flowing /\ d.state = "listening" /\ d.bound = Bound(x)
  <2>1. Emit(ds, x, n) = es
    BY <1>1 DEF Emit
  <2>2. PICK c \in WatchType : c = d
    OBVIOUS
  <2>3. e \in WatchType /\ e.state = c.state /\ e.bound = c.bound
        /\ e.events = c.events \cup {n}
    BY <2>2 DEF WatchType
  <2> HIDE DEF e
  <2>4. es \in [Dirs -> WatchType] /\ es[x] = e /\ \A y \in Dirs : y # x => es[y] = ds[y]
    BY <2>3
  <2> HIDE DEF es
  <2> QED
    BY <1>1, <2>1, <2>2, <2>3, <2>4 DEF Informed
<1>2. CASE ~(flowing /\ d.state = "listening" /\ d.bound = Bound(x))
  <2>1. Emit(ds, x, n) = ds
    BY <1>2 DEF Emit
  <2> QED
    BY <1>2, <2>1 DEF Informed
<1> QED
  BY <1>1, <1>2

\* A change on disk that leaves whoever is behind awaiting a read.
LEMMA DiskHolds ==
    ASSUME WatchInv, OnDisk, edits' = edits + 1, inode' \in Nat, inode' <= edits + 2,
           content' \in [Paths -> Nat], inode' = 0 => \A p \in Paths : content'[p] = 0,
           NEW files \in SUBSET Paths, found' \in Nat, Glimpsed',
           lost' = [p \in Paths |-> IF p \in files /\ ~flowing THEN "lost" ELSE lost[p]],
           dirs' \in [Dirs -> WatchType], dirs'["probe"] = dirs["probe"],
           \A x \in Dirs : Informed(dirs, dirs', x),
           \A x \in Dirs : dirs'[x].state # "listening" => dirs'[x].events = {},
           \A x \in Dirs : "self" \in dirs'[x].events => x = "below" /\ inode' # dirs[x].bound,
           \A p \in Paths : lost'[p] = "no" /\ Behind(p)' => Awaits(Registry, p)'
    PROVE  WatchInv'
<1>1. Registry.dirs = dirs /\ Registry.slots = slots /\ Registry \in Registries
  BY DEF WatchInv, Fit, Registry
<1>2. dirs \in [Dirs -> WatchType] /\ slots \in [Holders -> SlotType]
  BY <1>1 DEF Registries
<1>3. Fit(Registry)'
  <2>1. Registry' \in Registries /\ (Registry').dirs = dirs' /\ (Registry').slots = slots
    BY <1>2 DEF Registry, Registries, OnDisk
  <2>2. ASSUME NEW x \in Dirs PROVE Watching(dirs[x], x)'
    <3>1. Watching(dirs[x], x) /\ Informed(dirs, dirs', x)
      BY <1>1 DEF WatchInv, Fit
    <3>2. edits \in Nat /\ dirs[x].bound \in Nat
      BY <1>2 DEF WatchInv, WatchesTyped, WatchType
    <3> QED
      BY <2>1, <3>1, <3>2 DEF Watching, Informed, WatchType
  <2>3. ASSUME NEW h \in Holders, slots[h].dir # "none"
        PROVE  dirs'[slots[h].dir].state # "closed"
    <3>1. slots[h].dir \in Dirs /\ dirs[slots[h].dir].state # "closed"
      BY <1>1, <1>2, <2>3 DEF WatchInv, Fit, SlotType
    <3> QED
      BY <3>1 DEF Informed
  <2>4. slots[Probe].window = "failed" => slots[Probe].dir = "probe" /\ Deaf(dirs'["probe"])
    BY <1>1 DEF WatchInv, Fit
  <2>5. \A p \in Paths : slots[p].dir \in {"above", "below"} /\ Placed(slots[p])
    BY <1>1 DEF WatchInv, Fit
  <2>6. slots[Probe].dir \in {"probe", "none"}
    BY <1>1 DEF WatchInv, Fit
  <2>8. \A p \in Paths : Placed((Registry').slots[p])
    BY <2>1, <2>5
  <2> QED
    BY <2>1, <2>2, <2>3, <2>4, <2>5, <2>6, <2>8 DEF Fit, Deaf
<1>4. WatchesTyped'
  BY DEF WatchInv, WatchesTyped, OnDisk, os
<1>5. Measured'
  BY DEF WatchInv, Measured, OnDisk
<1>6. Span' <=> Span
  BY DEF Span, Silent, OnDisk
<1>7. ASSUME NEW p \in Paths PROVE Caught(p)'
  <2>1. Caught(p) /\ slots[p].dir \in {"above", "below"} /\ slots[p].dir \in Dirs
    BY <1>1 DEF WatchInv, Fit, Dirs
  <2>2. Faulty(Registry, p)' = Faulty(Registry, p)
    <3>1. dirs'[slots[p].dir].state = dirs[slots[p].dir].state
      BY <2>1 DEF Informed
    <3> QED
      BY <3>1 DEF Faulty, Deaf, Registry, OnDisk
  <2> HIDE DEF Faulty
  <2>3. (flowing /\ lost[p] = "lost" => Span)'
        /\ (lost[p] = "no" /\ slots[p].dir = "above" => seen[p] = 0)'
    BY <1>6, <2>1 DEF Caught, OnDisk, os
  <2>4. (slots[p].window = "none" => told[p] = Faulty(Registry, p))'
    BY <2>1, <2>2 DEF Caught, OnDisk
  <2> QED
    BY <2>3, <2>4 DEF Caught
<1> QED
  BY <1>3, <1>4, <1>5, <1>7 DEF WatchInv

\* Who watches a folder that went, or was replaced, watches for what comes back.
LEMMA MovedAwaits ==
    ASSUME WatchInv, OnDisk, inode' \in {0, edits + 2}, NEW p \in Paths,
           slots[p].dir = "below", Informed(dirs, dirs', "below")
    PROVE  Awaits(Registry, p)'
<1>1. Fit(Registry) /\ Registry.dirs = dirs /\ Registry.slots = slots /\ "below" \in Dirs
      /\ p \in Holders
  BY DEF WatchInv, Registry, Dirs, Holders
<1>2. Watching(dirs["below"], "below") /\ dirs["below"].state # "closed"
      /\ dirs["below"] \in WatchType
  BY <1>1 DEF Fit, Registries
<1>3. (Registry').dirs = dirs' /\ (Registry').slots = slots /\ Bound("below")' = inode'
  BY DEF Registry, OnDisk, Bound
<1>4. CASE Deaf(dirs["below"])
  BY <1>3, <1>4 DEF Awaits, Deaf, Informed
<1>5. CASE dirs["below"].state = "listening"
  <2>1. inode' # dirs["below"].bound
    BY <1>2, <1>5 DEF Watching, WatchInv, WatchesTyped, WatchType
  <2> QED
    BY <1>3, <2>1 DEF Awaits, Informed
<1> QED
  BY <1>2, <1>4, <1>5 DEF Deaf, WatchType

\* Who awaited a read by the watch on a folder still there does so.
LEMMA StillAwaits ==
    ASSUME WatchInv, OnDisk, NEW p \in Paths, Awaits(Registry, p),
           slots[p].dir = "above" \/ inode' = inode, Informed(dirs, dirs', slots[p].dir)
    PROVE  Awaits(Registry, p)'
<1>1. Registry.dirs = dirs /\ Registry.slots = slots
      /\ (Registry').dirs = dirs' /\ (Registry').slots = slots
  BY DEF Registry, OnDisk
<1>2. slots[p].dir \in {"above", "below"}
  BY <1>1 DEF WatchInv, Fit
<1>3. Bound(slots[p].dir)' = Bound(slots[p].dir)
  BY <1>2 DEF Bound, OnDisk
<1> DEFINE d == dirs[slots[p].dir]
           e == dirs'[slots[p].dir]
<1>4. e.state = d.state /\ e.bound = d.bound /\ d.events \subseteq e.events
  BY DEF Informed
<1>5. \/ slots[p].window # "none" \/ d.events \cap {p, "below", "self"} # {}
      \/ Deaf(d) \/ Bound(slots[p].dir) # d.bound
  BY <1>1 DEF Awaits
<1>6. \/ slots[p].window # "none" \/ e.events \cap {p, "below", "self"} # {}
      \/ Deaf(e) \/ Bound(slots[p].dir)' # e.bound
  BY <1>3, <1>4, <1>5 DEF Deaf
<1> QED
  BY <1>1, <1>6 DEF Awaits, OnDisk

LEMMA WriteHolds ==
    ASSUME WatchInv, NEW p \in Paths, Write(p) PROVE WatchInv'
<1>1. OnDisk /\ edits' = edits + 1 /\ inode' = inode /\ inode # 0
      /\ content' = [content EXCEPT ![p] = edits + 1]
      /\ lost' = [f \in Paths |-> IF f \in {p} /\ ~flowing THEN "lost" ELSE lost[f]]
      /\ dirs' = Emit(dirs, "below", p)
  BY DEF Write, Changed
<1>1a. found' = inode
  BY DEF Write, Changed
<1>2. Fit(Registry) /\ Registry.dirs = dirs /\ Registry.slots = slots
      /\ dirs \in [Dirs -> WatchType]
  BY DEF WatchInv, Registry, Fit, Registries
<1>3. "below" \in Dirs /\ "probe" \in Dirs /\ p \in EventNames /\ p # "self"
      /\ \A x \in Dirs : dirs[x].state # "listening" => dirs[x].events = {}
  BY <1>2, FileWatchAssumption DEF Dirs, EventNames, Holders, Fit, Watching
<1>4. /\ dirs' \in [Dirs -> WatchType]
      /\ \A y \in Dirs : Informed(dirs, dirs', y) /\ (y # "below" => dirs'[y] = dirs[y])
      /\ \A y \in Dirs : dirs'[y].state # "listening" => dirs'[y].events = {}
      /\ dirs'["below"].events \subseteq dirs["below"].events \cup {p}
      /\ flowing /\ dirs["below"].state = "listening" /\ dirs["below"].bound = Bound("below")
           => p \in dirs'["below"].events
  BY <1>1, <1>2, <1>3, EmitTells
<1>5. content' \in [Paths -> Nat] /\ inode' \in Nat /\ inode' <= edits + 2 /\ edits \in Nat
  BY <1>1 DEF WatchInv, WatchesTyped
<1>6. \A x \in Dirs : "self" \in dirs'[x].events => x = "below" /\ inode' # dirs[x].bound
  BY <1>1, <1>2, <1>3, <1>4 DEF Fit, Watching
<1>7. ASSUME NEW f \in Paths, lost'[f] = "no", Behind(f)' PROVE Awaits(Registry, f)'
  <2>1. slots[f].dir \in {"above", "below"} /\ slots[f].dir \in Dirs /\ f \in Holders
    BY <1>2 DEF Fit, Dirs, Holders
  <2>2. lost[f] = "no" /\ (f = p => flowing)
    BY <1>1, <1>7
  <2>3. CASE Behind(f)
    <3>1. Awaits(Registry, f)
      BY <2>2, <2>3 DEF WatchInv, Caught
    <3> QED
      BY <1>1, <1>4, <2>1, <3>1, StillAwaits
  <2>4. CASE ~Behind(f)
    <3>1. f = p /\ slots[f].dir = "below" /\ flowing
      BY <1>1, <1>7, <2>1, <2>2, <2>4 DEF Behind, OnDisk, WatchInv, WatchesTyped
    <3>2. (Registry').dirs = dirs' /\ (Registry').slots = slots
          /\ Bound("below")' = inode /\ Bound("below") = inode
      BY <1>1 DEF Registry, OnDisk, Bound
    <3>3. dirs["below"].state # "closed" /\ dirs["below"] \in WatchType
      BY <1>2, <1>3, <2>1, <3>1 DEF Fit
    <3>4. CASE Deaf(dirs["below"])
      BY <1>3, <1>4, <3>1, <3>2, <3>4 DEF Awaits, Informed, Deaf
    <3>5. CASE dirs["below"].state = "listening"
      BY <1>3, <1>4, <3>1, <3>2, <3>5 DEF Awaits, Informed
    <3> QED
      BY <3>3, <3>4, <3>5 DEF Deaf, WatchType
  <2> QED
    BY <2>3, <2>4
<1>8. dirs'["probe"] = dirs["probe"] /\ \A x \in Dirs : Informed(dirs, dirs', x)
  BY <1>3, <1>4
<1>9. {p} \in SUBSET Paths
  OBVIOUS
<1>10. found' \in Nat /\ Glimpsed'
  BY <1>1, <1>1a, <1>5 DEF Glimpsed
<1> QED
  BY <1>10, <1>1, <1>4, <1>5, <1>6, <1>7, <1>8, <1>9, DiskHolds

\* A change of every file leaves awaiting whoever watches the folder, and whoever
\* watches for it when its coming is heard.
LEMMA FolderHolds ==
    ASSUME WatchInv, OnDisk, edits' = edits + 1, inode' \in {0, edits + 2},
           found' \in {inode, inode'}, content' \in [Paths -> Nat], inode' = 0 => \A p \in Paths : content'[p] = 0,
           lost' = [p \in Paths |-> IF p \in Paths /\ ~flowing THEN "lost" ELSE lost[p]],
           dirs' \in [Dirs -> WatchType], dirs'["probe"] = dirs["probe"],
           \A x \in Dirs : Informed(dirs, dirs', x),
           \A x \in Dirs : dirs'[x].state # "listening" => dirs'[x].events = {},
           \A x \in Dirs : "self" \in dirs'[x].events => x = "below",
           flowing /\ inode = 0 /\ dirs["above"].state = "listening" =>
               "below" \in dirs'["above"].events
    PROVE  WatchInv'
<1>1. Fit(Registry) /\ Registry.dirs = dirs /\ Registry.slots = slots
      /\ dirs \in [Dirs -> WatchType]
  BY DEF WatchInv, Registry, Fit, Registries
<1>2. inode' \in Nat /\ inode' <= edits + 2 /\ inode \in Nat /\ edits \in Nat
  BY DEF WatchInv, WatchesTyped
<1>3. ASSUME NEW x \in Dirs, "self" \in dirs'[x].events
      PROVE  x = "below" /\ inode' # dirs[x].bound
  <2>1. x = "below" /\ dirs[x].state = "listening" /\ Watching(dirs[x], x)
        /\ dirs[x].bound \in Nat
    BY <1>1, <1>3 DEF Informed, Fit, WatchType
  <2> QED
    BY <1>2, <2>1 DEF Watching
<1>4. ASSUME NEW f \in Paths, lost'[f] = "no", Behind(f)' PROVE Awaits(Registry, f)'
  <2>1. slots[f].dir \in {"above", "below"} /\ {"above", "below"} \subseteq Dirs
        /\ f \in Holders
    BY <1>1 DEF Fit, Dirs, Holders
  <2>2. lost[f] = "no" /\ flowing /\ Caught(f)
    BY <1>4 DEF WatchInv
  <2>3. CASE slots[f].dir = "below"
    BY <2>1, <2>3, MovedAwaits
  <2>4. CASE slots[f].dir = "above" /\ inode # 0
    <3>1. Awaits(Registry, f)
      BY <2>2, <2>4 DEF Caught, Behind
    <3> QED
      BY <2>1, <2>4, <3>1, StillAwaits
  <2>5. CASE slots[f].dir = "above" /\ inode = 0
    <3>1. (Registry').dirs = dirs' /\ (Registry').slots = slots
      BY DEF Registry, OnDisk
    <3>2. dirs["above"].state # "closed" /\ dirs["above"] \in WatchType
      BY <1>1, <2>1, <2>5 DEF Fit
    <3>3. Informed(dirs, dirs', "above")
      BY <2>1
    <3>4. CASE Deaf(dirs["above"])
      BY <2>5, <3>1, <3>3, <3>4 DEF Awaits, Informed, Deaf
    <3>5. CASE dirs["above"].state = "listening"
      BY <2>2, <2>5, <3>1, <3>5 DEF Awaits
    <3> QED
      BY <3>2, <3>4, <3>5 DEF Deaf, WatchType
  <2> QED
    BY <2>1, <2>3, <2>4, <2>5
<1>5. found' \in Nat
  BY <1>2
<1>6. Glimpsed'
  <2>1. "above" \in Dirs /\ flowing' = flowing
    BY DEF Dirs, OnDisk, os
  <2>2. CASE flowing
    BY <2>1, <2>2 DEF Glimpsed, Informed
  <2>3. CASE ~flowing
    BY <2>1, <2>3 DEF Glimpsed
  <2> QED
    BY <2>2, <2>3
<1> QED
  BY <1>2, <1>3, <1>4, <1>5, <1>6, DiskHolds

LEMMA RemoveHolds ==
    ASSUME WatchInv, Remove PROVE WatchInv'
<1>1. OnDisk /\ edits' = edits + 1 /\ inode # 0 /\ inode' = 0
      /\ found' \in {inode, inode'} /\ content' = [p \in Paths |-> 0]
      /\ lost' = [p \in Paths |-> IF p \in Paths /\ ~flowing THEN "lost" ELSE lost[p]]
      /\ dirs' = Emit(Emit(dirs, "below", "self"), "above", "below")
  BY DEF Remove, Changed, Files
<1>2. Fit(Registry) /\ Registry.dirs = dirs /\ dirs \in [Dirs -> WatchType]
  BY DEF WatchInv, Registry, Fit, Registries
<1>3. Dirs = {"above", "below", "probe"} /\ {"below", "self"} \subseteq EventNames
      /\ \A x \in Dirs : /\ dirs[x].state # "listening" => dirs[x].events = {}
                         /\ "self" \in dirs[x].events => x = "below"
  BY <1>2 DEF Dirs, EventNames, Fit, Watching
<1> DEFINE es == Emit(dirs, "below", "self")
<1>4. /\ es \in [Dirs -> WatchType]
      /\ \A y \in Dirs : Informed(dirs, es, y) /\ (y # "below" => es[y] = dirs[y])
      /\ \A y \in Dirs : es[y].state # "listening" => es[y].events = {}
  BY <1>2, <1>3, EmitTells
<1> HIDE DEF es
<1>5. dirs' = Emit(es, "above", "below")
  BY <1>1 DEF es
<1>6. /\ dirs' \in [Dirs -> WatchType]
      /\ \A y \in Dirs : Informed(es, dirs', y) /\ (y # "above" => dirs'[y] = es[y])
      /\ \A y \in Dirs : dirs'[y].state # "listening" => dirs'[y].events = {}
      /\ dirs'["above"].events \subseteq es["above"].events \cup {"below"}
  BY <1>3, <1>4, <1>5, EmitTells
<1>7. dirs'["probe"] = dirs["probe"] /\ \A x \in Dirs : Informed(dirs, dirs', x)
  BY <1>3, <1>4, <1>6 DEF Informed
<1>8. \A x \in Dirs : "self" \in dirs'[x].events => x = "below"
  BY <1>3, <1>4, <1>6
<1>9. content' \in [Paths -> Nat] /\ \A p \in Paths : content'[p] = 0
  BY <1>1
<1> QED
  BY <1>1, <1>6, <1>7, <1>8, <1>9, FolderHolds

LEMMA MakeHolds ==
    ASSUME WatchInv, Make PROVE WatchInv'
<1>1. PICK n \in {0, edits + 1} : Changed(Files(n), Paths)
  BY DEF Make
<1>2. OnDisk /\ edits' = edits + 1 /\ inode' = edits + 2
      /\ found' \in {inode, inode'} /\ content' = [p \in Paths |-> n]
      /\ lost' = [p \in Paths |-> IF p \in Paths /\ ~flowing THEN "lost" ELSE lost[p]]
      /\ dirs' = Emit(dirs, "above", "below")
  BY <1>1 DEF Make, Changed, Files
<1>3. Fit(Registry) /\ Registry.dirs = dirs /\ dirs \in [Dirs -> WatchType] /\ edits \in Nat
  BY DEF WatchInv, Registry, Fit, Registries, WatchesTyped
<1>4. Dirs = {"above", "below", "probe"} /\ "below" \in EventNames
      /\ \A x \in Dirs : /\ dirs[x].state # "listening" => dirs[x].events = {}
                         /\ "self" \in dirs[x].events => x = "below"
  BY <1>3 DEF Dirs, EventNames, Fit, Watching
<1>5. /\ dirs' \in [Dirs -> WatchType]
      /\ \A y \in Dirs : Informed(dirs, dirs', y) /\ (y # "above" => dirs'[y] = dirs[y])
      /\ \A y \in Dirs : dirs'[y].state # "listening" => dirs'[y].events = {}
      /\ dirs'["above"].events \subseteq dirs["above"].events \cup {"below"}
      /\ flowing /\ dirs["above"].state = "listening" /\ dirs["above"].bound = Bound("above")
           => "below" \in dirs'["above"].events
  BY <1>2, <1>3, <1>4, EmitTells
<1>6. dirs["above"].state = "listening" => dirs["above"].bound = Bound("above")
  BY <1>3, <1>4 DEF Fit, Watching, Bound
<1>7. \A x \in Dirs : "self" \in dirs'[x].events => x = "below"
  BY <1>4, <1>5
<1>8. dirs'["probe"] = dirs["probe"] /\ \A x \in Dirs : Informed(dirs, dirs', x)
  BY <1>4, <1>5
<1>9. content' \in [Paths -> Nat] /\ inode' # 0 /\ inode' \in {0, edits + 2}
  BY <1>2, <1>3
<1> QED
  BY <1>2, <1>5, <1>6, <1>7, <1>8, <1>9, FolderHolds

LEMMA ReplaceHolds ==
    ASSUME WatchInv, Replace PROVE WatchInv'
<1>1. OnDisk /\ edits' = edits + 1 /\ dirs' = dirs /\ inode # 0 /\ found' \in {inode, inode'}
      /\ lost' = [p \in Paths |-> IF p \in Paths /\ ~flowing THEN "lost" ELSE lost[p]]
      /\ \/ inode' = 0 /\ content' = [p \in Paths |-> 0]
         \/ inode' = edits + 2 /\ content' = [p \in Paths |-> edits + 1]
  BY DEF Replace, Changed, Files
<1>2. Fit(Registry) /\ Registry.dirs = dirs /\ dirs \in [Dirs -> WatchType] /\ edits \in Nat
  BY DEF WatchInv, Registry, Fit, Registries, WatchesTyped
<1>3. \A x \in Dirs : Informed(dirs, dirs', x)
  BY <1>1 DEF Informed
<1>4. \A x \in Dirs : /\ dirs[x].state # "listening" => dirs[x].events = {}
                      /\ "self" \in dirs[x].events => x = "below"
  BY <1>2 DEF Fit, Watching
<1>5. content' \in [Paths -> Nat] /\ inode' \in {0, edits + 2}
      /\ (inode' = 0 => \A p \in Paths : content'[p] = 0)
  BY <1>1, <1>2
<1> QED
  BY <1>1, <1>2, <1>3, <1>4, <1>5, FolderHolds

-----------------------------------------------------------------------------
(* The OS.                                                                 *)

\* Nothing of the daemon's, and nothing on disk, changes.
LEMMA OsHolds ==
    ASSUME WatchInv, UNCHANGED disk, UNCHANGED daemon,
           {flowing', refuses', probeFolder'} \subseteq BOOLEAN,
           found' = inode \/ UNCHANGED <<found, flowing, lost>>,
           lost' \in [Paths -> {"no", "lost", "short"}],
           \A p \in Paths : lost'[p] = "no" => lost[p] = "no",
           \A p \in Paths : flowing' /\ lost'[p] = "lost" => Span
    PROVE  WatchInv'
<1>1. Registry' = Registry /\ Fit(Registry) /\ Registry.slots = slots
  BY DEF Registry, daemon, WatchInv
<1>2. Fit(Registry)'
  BY <1>1 DEF Fit, Watching, disk
<1>3. WatchesTyped' /\ Measured'
  BY DEF WatchInv, WatchesTyped, Measured, disk, daemon
<1>3a. Glimpsed'
  BY DEF WatchInv, Glimpsed, disk, daemon
<1>4. Span' <=> Span
  BY DEF Span, Silent, daemon
<1>5. ASSUME NEW p \in Paths PROVE Caught(p)'
  <2>1. Caught(p) /\ slots[p].dir \in {"above", "below"}
    BY <1>1 DEF WatchInv, Fit
  <2>2. Bound(slots[p].dir)' = Bound(slots[p].dir) /\ slots' = slots
    BY <2>1 DEF Bound, disk, daemon
  <2>3. Awaits(Registry, p)' <=> Awaits(Registry, p)
    BY <1>1, <2>2 DEF Awaits, Deaf
  <2>4. Faulty(Registry, p)' = Faulty(Registry, p)
    BY <1>1 DEF Faulty, Deaf
  <2>5. Behind(p)' <=> Behind(p)
    BY DEF Behind, disk, daemon
  <2> HIDE DEF Faulty, Awaits, Behind
  <2>6. (flowing /\ lost[p] = "lost" => Span)'
        /\ (lost[p] = "no" /\ Behind(p) => Awaits(Registry, p))'
    BY <1>4, <2>1, <2>3, <2>5 DEF Caught
  <2>7. (slots[p].window = "none" => told[p] = Faulty(Registry, p))'
    BY <2>1, <2>4 DEF Caught, daemon
  <2>8. (lost[p] = "no" /\ slots[p].dir = "above" => seen[p] = 0)'
        /\ (inode = 0 => content[p] = 0)'
    BY <2>1 DEF Caught, daemon, disk
  <2> QED
    BY <2>6, <2>7, <2>8 DEF Caught
<1> QED
  BY <1>2, <1>3, <1>3a, <1>5 DEF WatchInv

LEMMA OsTurnsHold ==
    ASSUME WatchInv, Flow \/ Refuse \/ RemoveProbeFolder PROVE WatchInv'
<1>1. lost \in [Paths -> {"no", "lost", "short"}]
      /\ {flowing, refuses, probeFolder} \subseteq BOOLEAN
      /\ \A p \in Paths : flowing /\ lost[p] = "lost" => Span
  BY DEF WatchInv, WatchesTyped, Caught
<1>2. CASE Flow
  <2>1. UNCHANGED <<disk, refuses, probeFolder, daemon>> /\ flowing' = ~flowing
        /\ found' = inode
    BY <1>2 DEF Flow
  <2>2. CASE lost' = lost /\ (flowing \/ Span)
    BY <1>1, <2>1, <2>2, OsHolds
  <2>3. CASE lost' = [p \in Paths |-> IF lost[p] = "lost" THEN "short" ELSE lost[p]]
    <3>1. lost' \in [Paths -> {"no", "lost", "short"}]
          /\ \A p \in Paths : lost'[p] # "lost" /\ (lost'[p] = "no" => lost[p] = "no")
      BY <1>1, <2>3
    <3> QED
      BY <1>1, <2>1, <3>1, OsHolds
  <2> QED
    BY <1>2, <2>2, <2>3 DEF Flow
<1>3. CASE Refuse
  BY <1>1, <1>3, OsHolds DEF Refuse
<1>4. CASE RemoveProbeFolder
  BY <1>1, <1>4, OsHolds DEF RemoveProbeFolder
<1> QED
  BY <1>2, <1>3, <1>4

-----------------------------------------------------------------------------
(* The daemon's turns.                                                     *)

\* A path is left alone, or it follows its folder, which a turn that did not find
\* it may overtake, shows its fault again, and is read unless its file was not
\* there and was not found.
Turned(q, read, said, p) ==
    \/ Keeps(Registry, q, p) /\ p \notin read /\ p \notin said
    \/ /\ p \in said /\ (Overtaken(q, p) => found = 0)
       /\ \/ p \in read
          \/ /\ slots[p].dir = "above" /\ q.slots[p].dir = "above"
             /\ inode # 0 /\ flowing => Awaits(q, p)

\* The probes end no span but by catching every path up.
ProbesGoOn(read) ==
    /\ delivery' \in [kind : {"delivering", "stalled", "unmeasured"}, unreported : Nat,
                      missed : BOOLEAN]
    /\ probing' \in BOOLEAN /\ Measured'
    /\ read = Paths \/ (Span => Span')

LEMMA TurnHolds ==
    ASSUME WatchInv, NEW q, Fit(q), NEW read \in SUBSET Paths, NEW said \in SUBSET Paths,
           Left(q, read, said), UNCHANGED <<disk, flowing, refuses, probeFolder>>,
           ProbesGoOn(read), \A p \in Paths : Turned(q, read, said, p)
    PROVE  WatchInv'
<1>1. q = [dirs |-> dirs', slots |-> slots'] /\ q.dirs = dirs' /\ q.slots = slots'
  BY DEF Fit, Registries, Left
<1>2. Registry' = q /\ Registry.slots = slots
  BY <1>1 DEF Registry
<1>3. Fit(Registry)'
  BY <1>2 DEF Fit, Watching, disk
<1>4. seen' = [p \in Paths |-> IF p \in read THEN content[p] ELSE seen[p]]
      /\ told' = [p \in Paths |-> IF p \in said THEN Deaf(q.dirs[q.slots[p].dir]) ELSE told[p]]
      /\ lost' = [p \in Paths |-> IF p \notin read THEN lost[p]
                                 ELSE IF ~Overtaken(q, p) THEN "no"
                                 ELSE IF flowing THEN "short" ELSE lost[p]]
      /\ found' = inode
  BY DEF Left
<1>5. WatchesTyped'
  <2>1. seen' \in [Paths -> Nat] /\ lost' \in [Paths -> {"no", "lost", "short"}]
    BY <1>4 DEF WatchInv, WatchesTyped
  <2>2. told' \in [Paths -> BOOLEAN]
    <3>1. told \in [Paths -> BOOLEAN]
      BY DEF WatchInv, WatchesTyped
    <3>2. ASSUME NEW p \in Paths
          PROVE  (IF p \in said THEN Deaf(q.dirs[q.slots[p].dir]) ELSE told[p]) \in BOOLEAN
      <4>1. Deaf(q.dirs[q.slots[p].dir]) \in BOOLEAN
        BY DEF Deaf
      <4>2. told[p] \in BOOLEAN
        BY <3>1
      <4> QED
        BY <4>1, <4>2
    <3> QED
      BY <1>4, <3>2
  <2>3. found' \in Nat
    BY <1>4 DEF WatchInv, WatchesTyped
  <2> QED
    BY <2>1, <2>2, <2>3 DEF WatchInv, WatchesTyped, disk, ProbesGoOn
<1>6. ASSUME NEW p \in Paths PROVE Caught(p)'
  <2>1. Caught(p) /\ slots[p].dir \in {"above", "below"} /\ Turned(q, read, said, p)
    BY <1>2 DEF WatchInv, Fit
  <2>2. seen'[p] = (IF p \in read THEN content[p] ELSE seen[p])
        /\ lost'[p] = (IF p \notin read THEN lost[p]
                       ELSE IF ~Overtaken(q, p) THEN "no"
                       ELSE IF flowing THEN "short" ELSE lost[p])
        /\ content' = content /\ inode' = inode /\ flowing' = flowing
    BY <1>4 DEF disk
  <2>3. told'[p] = IF p \in said THEN Faulty(q, p) ELSE told[p]
    BY <1>4 DEF Faulty
  <2>4. Faulty(Registry, p)' = Faulty(q, p)
    BY <1>2 DEF Faulty, Deaf
  <2>5. q.slots[p].dir \in {"above", "below"}
    BY DEF Fit
  <2>6. Awaits(Registry, p)' <=> Awaits(q, p)
    <3>1. Bound(q.slots[p].dir)' = Bound(q.slots[p].dir)
      BY <1>1, <2>5 DEF Bound, disk
    <3> QED
      BY <1>1, <1>2, <3>1 DEF Awaits, Deaf
  <2>7. inode = 0 => content[p] = 0
    BY <2>1 DEF Caught
  <2> HIDE DEF Faulty, Awaits
  <2>8. (flowing /\ lost[p] = "lost" => Span)'
    BY <2>1, <2>2 DEF ProbesGoOn, Caught
  <2>9. CASE Keeps(Registry, q, p) /\ p \notin read /\ p \notin said
    <3>1. slots'[p].dir = slots[p].dir /\ (Awaits(Registry, p) => Awaits(q, p))
          /\ (slots'[p].window = "none" =>
                slots[p].window = "none" /\ Faulty(q, p) = Faulty(Registry, p))
      BY <1>1, <1>2, <2>9 DEF Keeps
    <3>2. Behind(p)' <=> Behind(p)
      BY <2>2, <2>9, <3>1 DEF Behind
    <3> HIDE DEF Behind
    <3>3. (lost[p] = "no" /\ Behind(p) => Awaits(Registry, p))'
      BY <2>1, <2>2, <2>6, <2>9, <3>1, <3>2 DEF Caught
    <3>4. (slots[p].window = "none" => told[p] = Faulty(Registry, p))'
      BY <2>1, <2>3, <2>4, <2>9, <3>1 DEF Caught
    <3>5. (lost[p] = "no" /\ slots[p].dir = "above" => seen[p] = 0)'
          /\ (inode = 0 => content[p] = 0)'
      BY <2>1, <2>2, <2>9, <3>1 DEF Caught
    <3> QED
      BY <2>8, <3>3, <3>4, <3>5 DEF Caught
  <2>10. CASE p \in said /\ (Overtaken(q, p) => found = 0) /\ p \in read
    <3>1. lost'[p] = "no" => (slots'[p].dir = "above" => inode = 0)
      BY <1>1, <2>2, <2>10 DEF Overtaken, WatchInv, Glimpsed
    <3>2. seen'[p] = content[p]
      BY <2>2, <2>10
    <3>3. (lost[p] = "no" /\ Behind(p) => Awaits(Registry, p))'
      BY <2>2, <3>1, <3>2 DEF Behind
    <3>4. (lost[p] = "no" /\ slots[p].dir = "above" => seen[p] = 0)'
      BY <2>7, <3>1, <3>2
    <3>5. (slots[p].window = "none" => told[p] = Faulty(Registry, p))'
      BY <2>3, <2>4, <2>10
    <3> QED
      BY <2>2, <2>7, <2>8, <3>3, <3>4, <3>5 DEF Caught
  <2>11. CASE /\ p \in said /\ p \notin read /\ (Overtaken(q, p) => found = 0)
              /\ slots[p].dir = "above" /\ q.slots[p].dir = "above"
              /\ inode # 0 /\ flowing => Awaits(q, p)
    <3>1. lost'[p] = lost[p] /\ seen'[p] = seen[p]
      BY <2>2, <2>11
    <3>2. lost[p] = "no" => seen[p] = 0
      BY <2>1, <2>11 DEF Caught
    <3>3. (lost[p] = "no" /\ Behind(p) => Awaits(Registry, p))'
      <4>1. CASE inode = 0
        BY <2>2, <2>7, <3>1, <3>2, <4>1 DEF Behind
      <4>2. CASE inode # 0 /\ flowing
        BY <2>6, <2>11, <4>2
      <4>3. CASE inode # 0 /\ ~flowing
        BY <2>11, <3>1, <4>3 DEF Overtaken, WatchInv, Glimpsed
      <4> QED
        BY <2>1, <4>1, <4>2, <4>3
    <3>4. (slots[p].window = "none" => told[p] = Faulty(Registry, p))'
      BY <2>3, <2>4, <2>11
    <3> QED
      BY <2>2, <2>7, <2>8, <3>1, <3>2, <3>3, <3>4 DEF Caught
  <2> QED
    BY <2>1, <2>9, <2>10, <2>11 DEF Turned
<1>7. Glimpsed'
  BY <1>4 DEF Glimpsed, disk
<1> QED
  BY <1>3, <1>5, <1>6, <1>7 DEF WatchInv, ProbesGoOn

\* A turn that is not the probes' leaves the probe as it was.
LEMMA ProbeRests ==
    ASSUME WatchInv, NEW q, NEW read, NEW said, Rests(Registry, q), Left(q, read, said),
           UNCHANGED <<delivery, probing, writing>>
    PROVE  ProbesGoOn(read)
<1>1. dirs'["probe"].events \subseteq dirs["probe"].events /\ slots'[Probe] = slots[Probe]
  BY DEF Rests, Registry, Left
<1>2. Span => Span'
  BY <1>1 DEF Span, Silent
<1> QED
  BY <1>2 DEF ProbesGoOn, WatchInv, WatchesTyped, Measured

\* Every path caught up: whatever the registry was, it fits.
LEMMA NoticedHolds ==
    ASSUME WatchInv, NEW r, Fit(r), NEW ats \in SUBSET Derivations, Noticed(r, ats),
           UNCHANGED <<disk, flowing, refuses, probeFolder>>, ProbesGoOn(Paths)
    PROVE  WatchInv'
<1>1. PICK at \in ats : Left(Followed(r, Paths, at), Paths, Paths)
  BY DEF Noticed
<1> DEFINE q == Followed(r, Paths, at)
<1>2. at \in Derivations /\ WatchesTyped
  BY DEF WatchInv
<1>3. Fit(q) /\ \A p \in Paths : q.slots[p].dir = at.dir \/ inode = 0
  BY <1>2, FollowedFits
<1>4. at.dir = "above" /\ inode # 0 => found = 0
  BY <1>2, DerivedIs
<1>5. Left(q, Paths, Paths)
  BY <1>1
<1> HIDE DEF q
<1>6. \A p \in Paths : Turned(q, Paths, Paths, p)
  BY <1>3, <1>4 DEF Turned, Overtaken
<1>7. Paths \in SUBSET Paths
  OBVIOUS
<1> QED
  BY <1>3, <1>5, <1>6, <1>7, TurnHolds

\* What the registry does of itself moves no path and reads none.
LEMMA RegistryTurn ==
    ASSUME WatchInv, NEW q, Fit(q), Left(q, {}, {}), \A p \in Paths : Keeps(Registry, q, p),
           UNCHANGED <<disk, flowing, refuses, probeFolder>>, ProbesGoOn({})
    PROVE  WatchInv'
<1>1. \A p \in Paths : Turned(q, {}, {}, p)
  BY DEF Turned
<1>2. {} \in SUBSET Paths
  OBVIOUS
<1> QED
  BY <1>1, <1>2, TurnHolds

\* One path's turn, by its window.
LEMMA WindowClosed ==
    ASSUME NEW r, Fit(r), NEW h \in Holders
    PROVE  LET q == [r EXCEPT !.slots[h].window = "none"] IN
           /\ Fit(q) /\ q.dirs = r.dirs /\ q.slots[h].dir = r.slots[h].dir
           /\ \A g \in Holders \ {h} : q.slots[g] = r.slots[g]
<1> DEFINE s == [r.slots[h] EXCEPT !.window = "none"]
           ss == [r.slots EXCEPT ![h] = s]
           q == [dirs |-> r.dirs, slots |-> ss]
<1>1. r \in Registries /\ r = [dirs |-> r.dirs, slots |-> r.slots]
      /\ r.dirs \in [Dirs -> WatchType] /\ r.slots \in [Holders -> SlotType]
  BY DEF Fit, Registries
<1>2. [r EXCEPT !.slots[h].window = "none"] = q
  BY <1>1
<1>3. s \in SlotType /\ s.dir = r.slots[h].dir /\ s.window = "none"
      /\ s.bound = r.slots[h].bound
  BY <1>1 DEF SlotType
<1> HIDE DEF s
<1>4. ss \in [Holders -> SlotType] /\ ss[h] = s /\ \A g \in Holders \ {h} : ss[g] = r.slots[g]
  BY <1>1, <1>3
<1>5. q \in Registries /\ q.dirs = r.dirs /\ q.slots = ss
  BY <1>1, <1>4 DEF Registries
<1> HIDE DEF ss, q
<1>6. Fit(q)
  <2>1. \A g \in Holders : q.slots[g].dir = r.slots[g].dir
    BY <1>3, <1>4, <1>5
  <2>2. Probe \in Holders /\ Paths \subseteq Holders
    BY DEF Holders
  <2>3. \A p \in Paths : Placed(q.slots[p])
    BY <1>3, <1>4, <1>5, <2>2 DEF Fit, Placed
  <2> QED
    BY <1>3, <1>4, <1>5, <2>1, <2>2, <2>3 DEF Fit
<1> QED
  BY <1>2, <1>3, <1>4, <1>5, <1>6

LEMMA PathHearsHolds ==
    ASSUME WatchInv, NEW p \in Paths, PathHears(p) PROVE WatchInv'
<1>0. PICK at \in Derivations :
        LET now == Followed([Registry EXCEPT !.slots[p].window = "none"], {p}, at)
        IN  Left(now, IF /\ slots[p].window # "failed" /\ slots[p].dir # "below"
                         /\ now.slots[p].dir # "below" THEN {} ELSE {p}, {p})
  BY DEF PathHears
<1> DEFINE r == [Registry EXCEPT !.slots[p].window = "none"]
           q == Followed(r, {p}, at)
           read == IF /\ slots[p].window # "failed" /\ slots[p].dir # "below"
                      /\ q.slots[p].dir # "below" THEN {} ELSE {p}
<1>1. Left(q, read, {p}) /\ Still /\ NotProbes
  BY <1>0 DEF PathHears
<1>2. p \in Holders /\ Probe \in Holders /\ p # Probe /\ Paths \subseteq Holders
  BY FileWatchAssumption DEF Holders
<1>3. Fit(Registry) /\ Registry.dirs = dirs /\ Registry.slots = slots
  BY DEF WatchInv, Registry
<1>4. Fit(r) /\ r.dirs = dirs /\ r.slots[p].dir = slots[p].dir
      /\ \A g \in Holders \ {p} : r.slots[g] = slots[g]
  <2>1. /\ Fit(r) /\ r.dirs = Registry.dirs /\ r.slots[p].dir = Registry.slots[p].dir
        /\ \A g \in Holders \ {p} : r.slots[g] = Registry.slots[g]
    <3> HIDE DEF q, read
    <3> QED
      BY <1>2, <1>3, WindowClosed
  <2> QED
    BY <1>3, <2>1
<1> HIDE DEF r
<1>5. /\ Fit(q) /\ Rests(r, q) /\ (q.slots[p].dir = at.dir \/ (inode = 0 /\ q = r))
      /\ \A f \in Paths \ {p} : Keeps(r, q, f)
      /\ r.slots[p].dir = "above" /\ at.dir = "above" => q = r
  <2>1. {p} \in SUBSET Paths /\ WatchesTyped
    BY DEF WatchInv
  <2> QED
    BY <1>4, <2>1, FollowedFits
<1>5a. at.dir \in {"above", "below"} /\ (at.dir = "above" /\ inode # 0 => found = 0)
  BY DerivedIs DEF WatchInv
<1> HIDE DEF q
<1>6. Rests(Registry, q)
  BY <1>2, <1>3, <1>4, <1>5 DEF Rests
<1>7. ASSUME NEW f \in Paths PROVE Turned(q, read, {p}, f)
  <2>1. CASE f # p
    <3>1. Keeps(r, q, f) /\ r.slots[f] = Registry.slots[f] /\ r.dirs = Registry.dirs
      BY <1>2, <1>3, <1>4, <1>5, <2>1
    <3> QED
      BY <2>1, <3>1 DEF Turned, Keeps, Awaits, Faulty
  <2>2. CASE f = p
    <3>1. slots[p].dir \in {"above", "below"} /\ q.slots[p].dir \in {"above", "below"}
          /\ "above" \in Dirs
      BY <1>3, <1>5 DEF Fit, Dirs
    <3>2. Overtaken(q, p) => at.dir = "above" /\ found = 0
      BY <1>5, <1>5a DEF Overtaken
    <3>3. ASSUME p \notin read, inode # 0, flowing PROVE Awaits(q, p)
      <4>1. slots[p].dir = "above" /\ q.slots[p].dir = "above"
        BY <3>1, <3>3
      <4>2. q = r /\ found = 0
        BY <1>4, <1>5, <1>5a, <3>3, <4>1
      <4>3. dirs["above"].state = "listening" => "below" \in dirs["above"].events
        BY <3>3, <4>2 DEF WatchInv, Glimpsed
      <4>4. dirs["above"].state # "closed" /\ dirs["above"] \in WatchType
        BY <1>2, <1>3, <3>1, <4>1 DEF Fit, Registries
      <4> QED
        BY <1>4, <4>1, <4>2, <4>3, <4>4 DEF Awaits, Deaf, WatchType
    <3>4. p \notin read => slots[p].dir = "above" /\ q.slots[p].dir = "above"
      BY <3>1
    <3> QED
      BY <2>2, <3>2, <3>3, <3>4 DEF Turned
  <2> QED
    BY <2>1, <2>2
<1>8. ProbesGoOn(read)
  BY <1>1, <1>6, ProbeRests DEF NotProbes
<1>9. read \in SUBSET Paths /\ {p} \in SUBSET Paths
  OBVIOUS
<1> QED
  BY <1>1, <1>5, <1>7, <1>8, <1>9, TurnHolds DEF Still, os

LEMMA ErrorHolds ==
    ASSUME WatchInv, NEW x \in Dirs, Error(x) PROVE WatchInv'
<1> DEFINE d == [Closed EXCEPT !.state = "failed"]
           ds == [dirs EXCEPT ![x] = d]
           r == [dirs |-> ds, slots |-> slots]
           q == Tell(r, x, "failed")
<1>1. Fit(Registry) /\ Registry.dirs = dirs /\ Registry.slots = slots
      /\ dirs \in [Dirs -> WatchType] /\ slots \in [Holders -> SlotType]
  BY DEF WatchInv, Registry, Fit, Registries
<1>2. [Registry EXCEPT !.dirs[x] = [Closed EXCEPT !.state = "failed"]] = r
  BY DEF Registry
<1>3. Left(q, {}, {}) /\ NotProbes /\ UNCHANGED <<disk, flowing, refuses, probeFolder>>
  BY <1>2 DEF Error
<1>4. d = [state |-> "failed", bound |-> 0, events |-> {}]
  BY DEF Closed
<1>5. d \in WatchType /\ Watching(d, x) /\ Deaf(d) /\ d.state # "closed" /\ d.events = {}
  BY <1>4 DEF WatchType, Watching, Deaf
<1> HIDE DEF d
<1>6. ds \in [Dirs -> WatchType] /\ ds[x] = d /\ \A y \in Dirs : y # x => ds[y] = dirs[y]
  BY <1>1, <1>5
<1>7. r \in Registries /\ r.dirs = ds /\ r.slots = slots
  BY <1>1, <1>6 DEF Registries
<1>8. Probe \in Holders /\ Paths \subseteq Holders /\ "probe" \in Dirs
  BY DEF Holders, Dirs
<1> HIDE DEF r, ds
<1>9. Fit(r)
  <2>1. \A y \in Dirs : Watching(r.dirs[y], y)
    BY <1>1, <1>5, <1>6, <1>7 DEF Fit
  <2>2. ASSUME NEW h \in Holders, slots[h].dir # "none" PROVE r.dirs[slots[h].dir].state # "closed"
    <3>1. slots[h].dir \in Dirs /\ dirs[slots[h].dir].state # "closed"
      BY <1>1, <2>2 DEF Fit, SlotType
    <3> QED
      BY <1>5, <1>6, <1>7, <3>1
  <2>3. r.slots[Probe].window = "failed" => r.slots[Probe].dir = "probe" /\ Deaf(r.dirs["probe"])
    BY <1>1, <1>5, <1>6, <1>7, <1>8 DEF Fit
  <2> QED
    BY <1>1, <1>7, <2>1, <2>2, <2>3 DEF Fit
<1> DEFINE hs == Listeners(r, x)
<1>10. \A h \in Holders : h \in hs <=> slots[h].dir = x
  BY <1>7 DEF Listeners
<1>11. Probe \in hs => x = "probe" /\ r.slots[Probe].dir = "probe" /\ Deaf(r.dirs["probe"])
  BY <1>1, <1>5, <1>6, <1>7, <1>8, <1>10 DEF Fit, Dirs
<1>12. q = Fire(r, hs, "failed")
  BY DEF Tell
<1> HIDE DEF q, hs
<1>13. /\ Fit(q) /\ q.dirs = r.dirs
       /\ \A h \in Holders : q.slots[h].dir = r.slots[h].dir
       /\ Probe \notin hs => Rests(r, q)
       /\ \A h \in hs \cap Holders : q.slots[h].window = "failed"
       /\ \A p \in Paths : Keeps(r, q, p) /\ (p \in hs => q.slots[p].window # "none")
  BY <1>9, <1>11, <1>12, FireFits
<1>14. ASSUME NEW p \in Paths PROVE Keeps(Registry, q, p)
  <2>1. p \in Holders /\ slots[p].dir \in Dirs /\ q.slots[p].dir = slots[p].dir
    BY <1>1, <1>7, <1>8, <1>13 DEF Fit, Dirs
  <2>2. CASE slots[p].dir = x
    BY <1>1, <1>10, <1>13, <2>1, <2>2 DEF Keeps, Awaits
  <2>3. CASE slots[p].dir # x
    <3>1. Keeps(r, q, p) /\ r.slots[p] = slots[p] /\ r.dirs[slots[p].dir] = dirs[slots[p].dir]
      BY <1>6, <1>7, <1>13, <2>1, <2>3
    <3> QED
      BY <1>1, <3>1 DEF Keeps, Awaits, Faulty
  <2> QED
    BY <2>2, <2>3
<1>15. ProbesGoOn({})
  <2>1. CASE Probe \in hs
    <3>1. slots'[Probe].window = "failed"
      BY <1>3, <1>8, <1>13, <2>1 DEF Left
    <3> QED
      BY <1>3, <3>1 DEF ProbesGoOn, Span, NotProbes, WatchInv, WatchesTyped, Measured
  <2>2. CASE Probe \notin hs
    <3>1. Rests(Registry, q)
      BY <1>1, <1>5, <1>6, <1>7, <1>8, <1>13, <2>2 DEF Rests
    <3> QED
      BY <1>3, <3>1, ProbeRests DEF NotProbes
  <2> QED
    BY <2>1, <2>2
<1> QED
  BY <1>3, <1>13, <1>14, <1>15, RegistryTurn

\* An event is off its watch.
LEMMA EventOff ==
    ASSUME NEW r, Fit(r), NEW x \in Dirs, NEW n
    PROVE  LET q == [r EXCEPT !.dirs[x].events = @ \ {n}] IN
           /\ Fit(q) /\ q.slots = r.slots
           /\ \A y \in Dirs : y # x => q.dirs[y] = r.dirs[y]
           /\ q.dirs[x].state = r.dirs[x].state /\ q.dirs[x].bound = r.dirs[x].bound
           /\ q.dirs[x].events = r.dirs[x].events \ {n}
<1> DEFINE d == [r.dirs[x] EXCEPT !.events = r.dirs[x].events \ {n}]
           ds == [r.dirs EXCEPT ![x] = d]
           q == [dirs |-> ds, slots |-> r.slots]
<1>1. r \in Registries /\ r = [dirs |-> r.dirs, slots |-> r.slots]
      /\ r.dirs \in [Dirs -> WatchType] /\ r.slots \in [Holders -> SlotType]
  BY DEF Fit, Registries
<1>2. [r EXCEPT !.dirs[x].events = @ \ {n}] = q
  BY <1>1
<1>3. PICK c \in WatchType : c = r.dirs[x]
  BY <1>1
<1>4. d \in WatchType /\ d.state = c.state /\ d.bound = c.bound /\ d.events = c.events \ {n}
  BY <1>3 DEF WatchType
<1> HIDE DEF d
<1>5. ds \in [Dirs -> WatchType] /\ ds[x] = d /\ \A y \in Dirs : y # x => ds[y] = r.dirs[y]
  BY <1>1, <1>4
<1>6. q \in Registries /\ q.dirs = ds /\ q.slots = r.slots
  BY <1>1, <1>5 DEF Registries
<1> HIDE DEF ds, q
<1>7. Fit(q)
  <2>1. Watching(d, x)
    BY <1>3, <1>4 DEF Fit, Watching
  <2>2. \A y \in Dirs : q.dirs[y].state = r.dirs[y].state /\ Watching(q.dirs[y], y)
    BY <1>3, <1>4, <1>5, <1>6, <2>1 DEF Fit
  <2>3. \A h \in Holders : r.slots[h].dir # "none" => r.slots[h].dir \in Dirs
    BY <1>1 DEF SlotType
  <2>4. "probe" \in Dirs
    BY DEF Dirs
  <2> QED
    BY <1>6, <2>2, <2>3, <2>4 DEF Fit, Deaf
<1> QED
  BY <1>2, <1>3, <1>4, <1>5, <1>6, <1>7

LEMMA HearHolds ==
    ASSUME WatchInv, NEW x \in Dirs, NEW n, Hear(x, n) PROVE WatchInv'
<1> DEFINE r == [Registry EXCEPT !.dirs[x].events = @ \ {n}]
           moved == n = "self" /\ Bound(x) # dirs[x].bound
           hs == IF moved \/ n = "below" THEN Listeners(r, x) ELSE Listeners(r, x) \cap {n}
           named == Fire(r, hs, "changed")
<1>1. /\ n \in dirs[x].events /\ Still /\ NotProbes
      /\ \E q \in {IF moved THEN Judged(named, {x}) ELSE named}
                  \cup (IF n = "self" THEN {} ELSE {Tell(r, x, "unknown")}) : Left(q, {}, {})
  BY DEF Hear
<1>2. Fit(Registry) /\ Registry.dirs = dirs /\ Registry.slots = slots
      /\ dirs \in [Dirs -> WatchType]
  BY DEF WatchInv, Registry, Fit, Registries
<1>3. /\ Fit(r) /\ r.slots = slots
      /\ \A y \in Dirs : y # x => r.dirs[y] = dirs[y]
      /\ r.dirs[x].state = dirs[x].state /\ r.dirs[x].bound = dirs[x].bound
      /\ r.dirs[x].events = dirs[x].events \ {n}
  BY <1>2, EventOff
<1> HIDE DEF r
<1>4. \A h \in Holders : h \in Listeners(r, x) <=> slots[h].dir = x
  BY <1>3 DEF Listeners
<1>5. Probe \in Holders /\ Paths \subseteq Holders /\ "probe" \in Dirs
  BY DEF Holders, Dirs
<1>6. n = "self" => x = "below" /\ moved
  BY <1>1, <1>2 DEF Fit, Watching, Bound
<1>7. \A p \in Paths : slots[p].dir = x /\ n \in {p, "below", "self"} => p \in hs
  BY <1>4, <1>5, <1>6
<1>8. Probe \in hs => x = "probe"
  BY <1>2, <1>4, <1>5 DEF Fit, Dirs
<1> HIDE DEF hs
\* Whoever the event was for has heard, and the others await what they awaited.
<1>9. ASSUME NEW q, NEW p \in Paths, Keeps(r, q, p),
             slots[p].dir = x /\ n \in {p, "below", "self"} => q.slots[p].window # "none"
      PROVE  Keeps(Registry, q, p)
  <2>1. slots[p].dir \in Dirs /\ p \in Holders
    BY <1>2, <1>5 DEF Fit, Dirs
  <2>2. CASE q.slots[p].window # "none"
    BY <1>2, <1>3, <1>9, <2>2 DEF Keeps, Awaits
  <2>3. CASE q.slots[p].window = "none"
    <3>1. Faulty(Registry, p) = Faulty(r, p)
      BY <1>2, <1>3, <2>1 DEF Faulty, Deaf
    <3>2. Awaits(Registry, p) => Awaits(r, p)
      <4>1. CASE slots[p].dir # x
        BY <1>2, <1>3, <2>1, <4>1 DEF Awaits
      <4>2. CASE slots[p].dir = x
        <5>1. dirs[x].events \cap {p, "below", "self"} = r.dirs[x].events \cap {p, "below", "self"}
          BY <1>3, <1>9, <2>3, <4>2
        <5> QED
          BY <1>2, <1>3, <4>2, <5>1 DEF Awaits, Deaf
      <4> QED
        BY <4>1, <4>2
    <3> QED
      BY <1>2, <1>3, <1>9, <3>1, <3>2 DEF Keeps
  <2> QED
    BY <2>2, <2>3
\* The probe's own event leaves no span to close, but the one that is open.
<1>10. ASSUME NEW q, Left(q, {}, {}), x # "probe" => Rests(r, q)
       PROVE  ProbesGoOn({})
  <2>1. CASE x # "probe"
    <3>1. Rests(Registry, q)
      BY <1>2, <1>3, <1>5, <1>10, <2>1 DEF Rests
    <3> QED
      BY <1>1, <1>10, <3>1, ProbeRests DEF NotProbes
  <2>2. CASE x = "probe"
    <3>1. dirs["probe"].events # {} /\ ~Deaf(dirs["probe"])
      BY <1>1, <1>2, <2>2 DEF Fit, Watching, Deaf
    <3>2. Span => delivery.missed
      BY <1>2, <3>1 DEF Span, Silent, Fit
    <3> QED
      BY <1>1, <3>2 DEF ProbesGoOn, Span, NotProbes, WatchInv, WatchesTyped, Measured
  <2> QED
    BY <2>1, <2>2
<1>11. /\ Fit(named) /\ (Probe \notin hs => Rests(r, named))
       /\ \A h \in Holders : named.slots[h].dir = slots[h].dir
       /\ \A p \in Paths : Keeps(r, named, p) /\ (p \in hs => named.slots[p].window # "none")
  BY <1>3, FireFits
<1> HIDE DEF named
<1>12. CASE n # "self" /\ Left(Tell(r, x, "unknown"), {}, {})
  <2> DEFINE q == Tell(r, x, "unknown")
  <2>1. /\ Fit(q) /\ (Probe \notin Listeners(r, x) => Rests(r, q))
        /\ \A p \in Paths : Keeps(r, q, p)
                            /\ (p \in Listeners(r, x) => q.slots[p].window # "none")
    BY <1>3, FireFits DEF Tell
  <2>2. Probe \in Listeners(r, x) => x = "probe"
    BY <1>2, <1>4, <1>5 DEF Fit, Dirs
  <2> HIDE DEF q
  <2>3. \A p \in Paths : Keeps(Registry, q, p)
    BY <1>4, <1>5, <1>9, <2>1
  <2>4. ProbesGoOn({}) /\ Left(q, {}, {})
    BY <1>10, <1>12, <2>1, <2>2 DEF q
  <2> QED
    BY <1>1, <2>1, <2>3, <2>4, RegistryTurn DEF Still, os
<1>13. CASE ~moved /\ Left(named, {}, {})
  <2>1. \A p \in Paths : Keeps(Registry, named, p)
    BY <1>7, <1>9, <1>11
  <2>2. ProbesGoOn({})
    BY <1>8, <1>10, <1>11, <1>13
  <2> QED
    BY <1>1, <1>11, <1>13, <2>1, <2>2, RegistryTurn DEF Still, os
<1>14. CASE moved /\ Left(Judged(named, {x}), {}, {})
  <2> DEFINE q == Judged(named, {x})
  <2>1. x = "below" /\ {x} \in SUBSET Dirs
    BY <1>6, <1>14
  <2>2. Fit(q) /\ Rests(named, q) /\ \A p \in Paths : Keeps(named, q, p)
    BY <1>11, <2>1, JudgedFits DEF WatchInv
  <2> HIDE DEF q
  <2>3. Rests(r, q)
    BY <1>8, <1>11, <2>1, <2>2 DEF Rests
  <2>4. ASSUME NEW p \in Paths PROVE Keeps(Registry, q, p)
    <3>1. Keeps(r, q, p)
      BY <1>11, <2>2 DEF Keeps
    <3>2. slots[p].dir = x /\ n \in {p, "below", "self"} => q.slots[p].window # "none"
      BY <1>7, <1>11, <2>2 DEF Keeps
    <3> QED
      BY <1>9, <3>1, <3>2
  <2>5. ProbesGoOn({}) /\ Left(q, {}, {})
    BY <1>10, <1>14, <2>3 DEF q
  <2> QED
    BY <1>1, <2>2, <2>4, <2>5, RegistryTurn DEF Still, os
<1> QED
  BY <1>1, <1>12, <1>13, <1>14

\* What the probe's watch has to say ends the span, or the probes.
LEMMA EndedHolds ==
    ASSUME WatchInv, NEW r, Fit(r), NEW ats \in SUBSET Derivations, Ended(r, ats),
           UNCHANGED <<disk, flowing, refuses, probeFolder>>
    PROVE  WatchInv'
<1>1. Fit(Forgoing(r, Probe)) /\ Noticed(Forgoing(r, Probe), ats)
  BY ForgoingFits DEF Ended
<1>2. ProbesGoOn(Paths)
  BY DEF Ended, ProbesGoOn, Measured
<1> QED
  BY <1>1, <1>2, NoticedHolds

LEMMA ProbeHearsHolds ==
    ASSUME WatchInv, ProbeHears PROVE WatchInv'
<1> DEFINE r == [Registry EXCEPT !.slots[Probe].window = "none"]
<1>1. /\ probing /\ slots[Probe].window # "none"
      /\ IF slots[Probe].window = "failed" THEN Ended(r, Derivations)
         ELSE /\ delivery' = Delivered /\ UNCHANGED probing
              /\ IF delivery.missed THEN Noticed(r, Derivations) ELSE Left(r, {}, {})
      /\ UNCHANGED <<disk, flowing, refuses, probeFolder>>
  BY DEF ProbeHears, Still, os
<1>2. Probe \in Holders /\ Probe \notin Paths /\ Paths \subseteq Holders
  BY FileWatchAssumption DEF Holders
<1>3. Fit(Registry) /\ Registry.dirs = dirs /\ Registry.slots = slots
  BY DEF WatchInv, Registry
<1>4. Fit(r) /\ r.dirs = dirs /\ \A g \in Holders \ {Probe} : r.slots[g] = slots[g]
  BY <1>2, <1>3, WindowClosed
<1> HIDE DEF r
<1>5. CASE slots[Probe].window = "failed"
  BY <1>1, <1>4, <1>5, EndedHolds
<1>6. CASE slots[Probe].window # "failed"
  <2>1. delivery'.kind = "delivering" /\ Measured' /\ probing' \in BOOLEAN
        /\ delivery' \in [kind : {"delivering", "stalled", "unmeasured"}, unreported : Nat,
                          missed : BOOLEAN]
    <3>1. delivery' = Delivered /\ probing' = probing /\ probing = TRUE
      BY <1>1, <1>6 DEF WatchInv, WatchesTyped
    <3>2. Delivered.kind = "delivering"
          /\ Delivered \in [kind : {"delivering", "stalled", "unmeasured"}, unreported : Nat,
                            missed : BOOLEAN]
      BY DEF Delivered
    <3> QED
      BY <3>1, <3>2 DEF Measured
  <2>2. CASE delivery.missed
    <3>1. ProbesGoOn(Paths)
      BY <2>1 DEF ProbesGoOn
    <3> QED
      BY <1>1, <1>4, <1>6, <2>2, <3>1, NoticedHolds
  <2>3. CASE ~delivery.missed
    <3>1. ProbesGoOn({})
      BY <1>1, <1>6, <2>1, <2>3 DEF ProbesGoOn, Span, Silent
    <3>2. \A p \in Paths : Keeps(Registry, r, p)
      BY <1>2, <1>3, <1>4 DEF Keeps, Awaits, Faulty
    <3> QED
      BY <1>1, <1>4, <1>6, <2>3, <3>1, <3>2, RegistryTurn
  <2> QED
    BY <2>2, <2>3
<1> QED
  BY <1>5, <1>6

LEMMA PeriodHolds ==
    ASSUME WatchInv, Period PROVE WatchInv'
<1> DEFINE stalls == delivery.kind = "delivering" /\ delivery.unreported >= StallAfter
           r == Judged(Registry, Dirs)
<1>1. /\ writing = "none" /\ Silent /\ UNCHANGED <<disk, flowing, refuses, probeFolder>>
      /\ IF probing /\ ~probeFolder THEN Ended(r, Now) /\ UNCHANGED writing
         ELSE /\ UNCHANGED probing
              /\ writing' = IF probing THEN "out" ELSE writing
              /\ delivery' = IF ~probing THEN delivery
                             ELSE IF stalls
                                  THEN [kind |-> "stalled", unreported |-> 0, missed |-> TRUE]
                             ELSE IF delivery.kind = "delivering"
                                  THEN [delivery EXCEPT !.unreported = @ + 1] ELSE delivery
              /\ IF probing /\ stalls THEN Noticed(r, Now) ELSE Left(r, {}, {})
  BY DEF Period, Still, os
<1>2. Fit(Registry) /\ Registry.slots = slots /\ slots[Probe].window = "none"
  BY <1>1 DEF WatchInv, Registry, Silent
<1>3. Fit(r) /\ \A p \in Paths : Keeps(Registry, r, p)
  BY <1>2, JudgedFits DEF WatchInv
<1> HIDE DEF r
<1>4. delivery \in [kind : {"delivering", "stalled", "unmeasured"}, unreported : Nat,
                    missed : BOOLEAN]
      /\ probing \in BOOLEAN /\ Measured /\ StallAfter \in Nat
  BY FileWatchAssumption DEF WatchInv, WatchesTyped
<1>4a. Now \in SUBSET Derivations
  BY DEF Derivations
<1>5. CASE probing /\ ~probeFolder
  BY <1>4a, <1>1, <1>3, <1>5, EndedHolds
<1>6. CASE ~(probing /\ ~probeFolder) /\ probing /\ stalls
  <2>1. delivery' = [kind |-> "stalled", unreported |-> 0, missed |-> TRUE]
        /\ probing' = probing /\ Noticed(r, Now)
    BY <1>1, <1>6
  <2>2. ProbesGoOn(Paths)
    BY <1>4, <2>1 DEF ProbesGoOn, Measured
  <2> QED
    BY <1>1, <1>3, <1>4a, <2>1, <2>2, NoticedHolds
<1>7. CASE ~(probing /\ ~probeFolder) /\ ~(probing /\ stalls)
  <2>1. probing' = probing /\ Left(r, {}, {})
    BY <1>1, <1>7
  <2>2. /\ delivery' \in [kind : {"delivering", "stalled", "unmeasured"}, unreported : Nat,
                          missed : BOOLEAN]
        /\ delivery'.kind = delivery.kind /\ delivery'.missed = delivery.missed
    <3>1. CASE probing /\ delivery.kind = "delivering"
      <4>1. delivery' = [delivery EXCEPT !.unreported = delivery.unreported + 1]
        BY <1>1, <1>7, <3>1
      <4> QED
        BY <1>4, <4>1
    <3>2. CASE ~(probing /\ delivery.kind = "delivering")
      <4>1. delivery' = delivery
        BY <1>1, <1>7, <3>2
      <4> QED
        BY <1>4, <4>1
    <3> QED
      BY <3>1, <3>2
  <2>3. Span => delivery.missed
    <3>1. CASE delivery.kind = "delivering" /\ probing
      BY <1>2, <1>4, <1>7, <3>1 DEF Span
    <3>2. CASE delivery.kind # "delivering" \/ ~probing
      BY <1>4, <3>2 DEF Measured
    <3> QED
      BY <3>1, <3>2
  <2>4. ProbesGoOn({})
    BY <1>4, <2>1, <2>2, <2>3 DEF ProbesGoOn, Measured, Span
  <2> QED
    BY <1>1, <1>3, <2>1, <2>4, RegistryTurn
<1> QED
  BY <1>5, <1>6, <1>7

LEMMA LandsHolds ==
    ASSUME WatchInv, Lands PROVE WatchInv'
<1> DEFINE es == Emit(dirs, "probe", Probe)
           q == [dirs |-> es, slots |-> slots]
<1>1. writing = "out" /\ dirs' = es
      /\ UNCHANGED <<slots, seen, told, delivery, probing, lost, disk, os>> /\ found' = inode
  BY DEF Lands, Still
<1>2. Fit(Registry) /\ Registry.dirs = dirs /\ Registry.slots = slots
      /\ dirs \in [Dirs -> WatchType] /\ slots \in [Holders -> SlotType]
  BY DEF WatchInv, Registry, Fit, Registries
<1>3. Dirs = {"above", "below", "probe"} /\ Probe \in EventNames /\ Probe # "self"
      /\ Paths \subseteq Holders /\ \A x \in Dirs : Watching(dirs[x], x)
  BY <1>2, FileWatchAssumption DEF Dirs, EventNames, Holders, Fit
<1>4. /\ es \in [Dirs -> WatchType]
      /\ \A y \in Dirs : Informed(dirs, es, y) /\ (y # "probe" => es[y] = dirs[y])
      /\ \A y \in Dirs : es[y].state # "listening" => es[y].events = {}
      /\ es["probe"].events \subseteq dirs["probe"].events \cup {Probe}
  BY <1>2, <1>3, EmitTells DEF Watching
<1> HIDE DEF es
<1>5. q \in Registries /\ q.dirs = es /\ q.slots = slots
  BY <1>2, <1>4 DEF Registries
<1> HIDE DEF q
<1>6. Fit(q)
  <2>1. \A y \in Dirs : Watching(q.dirs[y], y)
    BY <1>3, <1>4, <1>5 DEF Watching, Informed
  <2>2. ASSUME NEW h \in Holders, slots[h].dir # "none" PROVE q.dirs[slots[h].dir].state # "closed"
    <3>1. slots[h].dir \in Dirs /\ dirs[slots[h].dir].state # "closed"
      BY <1>2, <2>2 DEF Fit, SlotType
    <3> QED
      BY <1>4, <1>5, <3>1 DEF Informed
  <2>3. q.dirs["probe"].state = dirs["probe"].state
    BY <1>3, <1>4, <1>5 DEF Informed
  <2> QED
    BY <1>2, <1>5, <2>1, <2>2, <2>3 DEF Fit, Deaf
<1>7. Left(q, {}, {})
  <2>1. seen \in [Paths -> Nat] /\ told \in [Paths -> BOOLEAN]
        /\ lost \in [Paths -> {"no", "lost", "short"}]
    BY DEF WatchInv, WatchesTyped
  <2>2. seen = [p \in Paths |-> IF p \in {} THEN content[p] ELSE seen[p]]
        /\ lost = [p \in Paths |-> IF p \notin {} THEN lost[p]
                                  ELSE IF ~Overtaken(q, p) THEN "no"
                                  ELSE IF flowing THEN "short" ELSE lost[p]]
    BY <2>1
  <2>3. told = [p \in Paths |-> IF p \in {} THEN Deaf(q.dirs[q.slots[p].dir]) ELSE told[p]]
    BY <2>1
  <2> QED
    BY <1>1, <1>5, <2>2, <2>3 DEF Left
<1>8. \A p \in Paths : Keeps(Registry, q, p)
  BY <1>2, <1>3, <1>4, <1>5 DEF Keeps, Awaits, Faulty, Fit
<1>9. ProbesGoOn({})
  BY <1>1 DEF ProbesGoOn, Span, WatchInv, WatchesTyped, Measured
<1> QED
  BY <1>1, <1>6, <1>7, <1>8, <1>9, RegistryTurn DEF os

\* A probe's write that changes what the probes say catches every path up.
LEMMA WritingHolds ==
    ASSUME WatchInv, Written \/ WriteFails PROVE WatchInv'
<1>1. delivery \in [kind : {"delivering", "stalled", "unmeasured"}, unreported : Nat,
                    missed : BOOLEAN]
      /\ probing \in BOOLEAN /\ Measured /\ Fit(Registry)
  BY DEF WatchInv, WatchesTyped
<1>2. \A p \in Paths : Keeps(Registry, Registry, p)
  BY DEF Keeps
<1>3. UNCHANGED <<disk, flowing, refuses, probeFolder, probing>> /\ writing' = "none"
  BY DEF Written, WriteFails, Still, os
<1>4. CASE Written /\ probing /\ delivery.kind = "unmeasured"
  <2>1. delivery' = [delivery EXCEPT !.kind = "delivering", !.unreported = 1] /\ Noticed(Registry, Derivations)
    BY <1>4 DEF Written
  <2>2. ProbesGoOn(Paths)
    BY <1>1, <1>3, <2>1 DEF ProbesGoOn, Measured
  <2> QED
    BY <1>1, <1>3, <2>1, <2>2, NoticedHolds
<1>5. CASE WriteFails /\ probing /\ delivery.kind # "unmeasured"
  <2>1. delivery' = [kind |-> "unmeasured", unreported |-> 0, missed |-> TRUE]
        /\ Noticed(Registry, Derivations)
    BY <1>5 DEF WriteFails
  <2>2. ProbesGoOn(Paths)
    BY <1>1, <1>3, <2>1 DEF ProbesGoOn, Measured
  <2> QED
    BY <1>1, <1>3, <2>1, <2>2, NoticedHolds
<1>6. CASE Left(Registry, {}, {}) /\ UNCHANGED delivery
  <2>1. slots' = slots /\ dirs' = dirs
    BY <1>6 DEF Left, Registry
  <2>2. Span => Span'
    BY <1>3, <1>6, <2>1 DEF Span, Silent
  <2>3. ProbesGoOn({})
    BY <1>1, <1>3, <1>6, <2>2 DEF ProbesGoOn, Measured
  <2> QED
    BY <1>1, <1>2, <1>3, <1>6, <2>3, RegistryTurn
<1> QED
  BY <1>4, <1>5, <1>6 DEF Written, WriteFails

-----------------------------------------------------------------------------
LEMMA WatchesStart == WatchInit => WatchInv
<1> SUFFICES ASSUME WatchInit PROVE WatchInv
  OBVIOUS
<1> DEFINE at == Derived(inode, inode)
           slot(h) == IF h = Probe THEN [dir |-> "probe", bound |-> 1, window |-> "none"] ELSE at
           dir(x) == IF x \in {"probe", at.dir}
                       THEN [state |-> "listening", bound |-> Bound(x), events |-> {}]
                       ELSE Closed
<1>1. /\ inode \in {0, 1} /\ content = [p \in Paths |-> 0] /\ edits = 0
      /\ found = inode /\ flowing = TRUE /\ refuses = FALSE /\ probeFolder = TRUE
      /\ slots = [h \in Holders |-> slot(h)] /\ dirs = [x \in Dirs |-> dir(x)]
      /\ seen = content /\ told = [p \in Paths |-> FALSE]
      /\ delivery = Delivered /\ probing = TRUE /\ lost = [p \in Paths |-> "no"]
  BY DEF WatchInit
<1>2. at.dir \in {"above", "below"} /\ (at.dir = "above" => inode = 0)
      /\ (at.dir = "below" => inode = 1) /\ Dirs = {"above", "below", "probe"}
      /\ at.bound = 1 /\ at.window = "none" /\ at \in SlotType
  <2>1. Dirs = {"above", "below", "probe"}
    BY DEF Dirs
  <2>2. CASE inode = 0
    BY <2>1, <2>2 DEF Derived, SlotType
  <2>3. CASE inode = 1
    BY <2>1, <2>3 DEF Derived, SlotType
  <2> QED
    BY <1>1, <2>2, <2>3
<1>3. Bound("below") = inode /\ Bound("above") = 1 /\ Bound("probe") = 1
  BY <1>1 DEF Bound
<1>4. Probe \in Holders /\ Paths \subseteq Holders /\ Probe \notin Paths
  BY FileWatchAssumption DEF Holders
<1>5. ASSUME NEW h \in Holders
      PROVE  slot(h) \in SlotType /\ slot(h).window = "none"
             /\ slot(h).dir = (IF h = Probe THEN "probe" ELSE at.dir)
             /\ slot(h).bound = 1
  <2>1. CASE h = Probe
    BY <1>2, <2>1 DEF SlotType
  <2>2. CASE h # Probe
    BY <1>2, <2>2
  <2> QED
    BY <2>1, <2>2
<1>6. ASSUME NEW x \in Dirs
      PROVE  /\ dir(x) \in WatchType /\ Watching(dir(x), x)
             /\ x \in {"probe", at.dir} => dir(x).state = "listening"
  <2>1. CASE x \in {"probe", at.dir}
    <3> DEFINE b == Bound(x)
    <3>1. b = 1
      BY <1>1, <1>2, <1>3, <2>1
    <3> HIDE DEF b
    <3>2. dir(x) = [state |-> "listening", bound |-> b, events |-> {}]
      BY <2>1 DEF b
    <3> QED
      BY <1>1, <3>1, <3>2 DEF WatchType, Watching
  <2>2. CASE x \notin {"probe", at.dir}
    BY <2>2 DEF WatchType, Watching, Closed
  <2> QED
    BY <2>1, <2>2
<1> HIDE DEF slot, dir, at
<1>7. /\ \A h \in Holders : slots[h] = slot(h) /\ slots[h] \in SlotType
      /\ \A x \in Dirs : dirs[x] = dir(x) /\ dirs[x] \in WatchType
      /\ dirs \in [Dirs -> WatchType] /\ slots \in [Holders -> SlotType]
  BY <1>1, <1>5, <1>6
<1>8. Registry \in Registries /\ Registry.dirs = dirs /\ Registry.slots = slots
  BY <1>7 DEF Registry, Registries
<1>9. Fit(Registry)
  <2>1. \A p \in Paths : Placed(slots[p])
    BY <1>4, <1>5, <1>7 DEF Placed
  <2> QED
    BY <2>1, <1>2, <1>4, <1>5, <1>6, <1>7, <1>8 DEF Fit
<1>10. WatchesTyped
  <2>1. delivery \in [kind : {"delivering", "stalled", "unmeasured"}, unreported : Nat,
                      missed : BOOLEAN]
    BY <1>1 DEF Delivered
  <2>2. content \in [Paths -> Nat] /\ seen \in [Paths -> Nat]
    BY <1>1
  <2>3. told \in [Paths -> BOOLEAN]
    BY <1>1
  <2>4. lost \in [Paths -> {"no", "lost", "short"}]
    BY <1>1
  <2>5. inode \in Nat /\ edits \in Nat /\ inode <= edits + 1 /\ found \in Nat
    BY <1>1
  <2>6. {flowing, refuses, probeFolder, probing} \subseteq BOOLEAN
    BY <1>1
  <2> QED
    BY <2>1, <2>2, <2>3, <2>4, <2>5, <2>6 DEF WatchesTyped
<1>11. Measured /\ Glimpsed
  BY <1>1 DEF Measured, Delivered, Glimpsed
<1>12. ASSUME NEW p \in Paths PROVE Caught(p)
  <2>1. slots[p].dir = at.dir /\ p \in Holders
    BY <1>4, <1>5, <1>7
  <2>2. ~Faulty(Registry, p)
    BY <1>2, <1>6, <1>7, <1>8, <2>1 DEF Faulty, Deaf
  <2>3. told[p] = FALSE /\ lost[p] = "no" /\ seen[p] = 0 /\ content[p] = 0
    BY <1>1
  <2>4. ~Behind(p)
    BY <1>2, <2>1, <2>3 DEF Behind
  <2>5. told[p] = Faulty(Registry, p)
    <3>1. Faulty(Registry, p) \in BOOLEAN
      BY DEF Faulty, Deaf
    <3> QED
      BY <2>2, <2>3, <3>1
  <2> QED
    BY <2>3, <2>4, <2>5 DEF Caught
<1> QED
  BY <1>9, <1>10, <1>11, <1>12 DEF WatchInv

LEMMA WatchesGoOn == WatchInv /\ [WatchNext]_watchVars => WatchInv'
<1> SUFFICES ASSUME WatchInv, [WatchNext]_watchVars PROVE WatchInv'
  OBVIOUS
<1>1. CASE UNCHANGED watchVars
  <2>1. UNCHANGED disk /\ UNCHANGED daemon
        /\ UNCHANGED <<flowing, refuses, probeFolder, lost, found>>
    BY <1>1 DEF watchVars, os
  <2>2. {flowing, refuses, probeFolder} \subseteq BOOLEAN
        /\ lost \in [Paths -> {"no", "lost", "short"}]
        /\ \A p \in Paths : flowing /\ lost[p] = "lost" => Span
    BY DEF WatchInv, WatchesTyped, Caught
  <2> QED
    BY <2>1, <2>2, OsHolds
<1>2. CASE \E p \in Paths : Write(p)
  BY <1>2, WriteHolds
<1>3. CASE Remove \/ Make \/ Replace
  BY <1>3, RemoveHolds, MakeHolds, ReplaceHolds
<1>4. CASE Flow \/ Refuse \/ RemoveProbeFolder
  BY <1>4, OsTurnsHold
<1>5. CASE \E x \in Dirs : Error(x)
  BY <1>5, ErrorHolds
<1>6. ASSUME NEW x \in {"above", "below", "probe"}, Hearing(x) PROVE WatchInv'
  BY <1>6, HearHolds DEF Hearing, Dirs
<1>7. CASE PathsHear
  BY <1>6, <1>7, PathHearsHolds DEF PathsHear
<1>8. CASE Probing
  BY <1>6, <1>8, ProbeHearsHolds, LandsHolds, WritingHolds DEF Probing
<1>9. CASE Period
  BY <1>9, PeriodHolds
<1> QED
  BY <1>1, <1>2, <1>3, <1>4, <1>5, <1>7, <1>8, <1>9 DEF WatchNext

\* Every path's unread change is awaited, by its own watch or by the span the probes
\* have open, through folders removed, made and replaced, refusals and errors.
THEOREM WatchesHold == WatchSpec => []WatchInv
<1> QED
  BY WatchesStart, WatchesGoOn, PTL DEF WatchSpec

\* What a path has not read yet it is owed a read of (noticed, rederive), unless the
\* OS delivers nothing now, or lost it in an outage the probes were too few to see,
\* or the path watches for a folder made while it was opening that watch.
THEOREM UnreadIsOwedAlways == WatchSpec => []UnreadIsOwed
<1>1. WatchInv => UnreadIsOwed
  <2> SUFFICES ASSUME WatchInv, NEW p \in Paths, seen[p] # content[p], flowing,
                      lost[p] # "short"
               PROVE  Owed(p)
    BY DEF UnreadIsOwed
  <2>1. Caught(p) /\ lost[p] \in {"no", "lost"} /\ Behind(p)
    BY DEF WatchInv, WatchesTyped, Behind
  <2>2. CASE lost[p] = "lost"
    BY <2>1, <2>2 DEF Caught, Owed
  <2>3. CASE lost[p] = "no"
    BY <2>1, <2>3 DEF Caught, Awaits, Owed, Registry
  <2> QED
    BY <2>1, <2>2, <2>3
<1> QED
  BY <1>1, WatchesHold, PTL

\* A path whose window is empty shows a fault of its watch exactly while the watch
\* is deaf: reopen tells each slot what changed, and the same deafness is not told.
THEOREM FaultIsToldAlways == WatchSpec => []FaultIsTold
<1>1. WatchInv => FaultIsTold
  BY DEF WatchInv, Caught, Faulty, Registry, FaultIsTold
<1> QED
  BY <1>1, WatchesHold, PTL

=============================================================================
