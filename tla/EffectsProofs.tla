--------------------------- MODULE EffectsProofs ---------------------------
(***************************************************************************)
(* Proofs about Effects, for any sessions, panes, lanes and offers.        *)
(*                                                                         *)
(* Nothing waits in a circle.  A place that is performed waits for what it *)
(* took from inside; one that is not, for places taken before it.  What is *)
(* taken from inside is a gather's place or a pane's, and the keys' orders *)
(* do not mix kinds the wrong way round: a gather waits for gathers alone, *)
(* only a setup waits for a setup.  So of any set of places, the gathers   *)
(* first taken, else the first of the others, else the first setup, waits  *)
(* for none of the set.                                                    *)
(*                                                                         *)
(* The lanes follow their switches.  A lane is always heading somewhere:   *)
(* to what its last setup brings it to, or to where the last to end left   *)
(* it.  That is where its switch stood before the moves that are owed of   *)
(* it, or, with none owed, where its switch is.                            *)
(***************************************************************************)
EXTENDS Effects, FiniteSetTheorems, WellFoundedInduction, TLAPS

-----------------------------------------------------------------------------
(* Numbers and finite sets.                                                *)

\* A set of numbers that is not empty has a least one.
LEMMA NatMin ==
    ASSUME NEW T \in SUBSET Nat, T # {}
    PROVE  \E x \in T : \A y \in T : x <= y
<1> DEFINE R == OpToRel(<, Nat)
<1>1. IsWellFoundedOn(R, Nat)
  BY NatLessThanWellFounded, Zenon
<1>2. \A x, y \in Nat : x < y => <<x, y>> \in R
  BY DEF OpToRel
<1> HIDE DEF R
<1>3. PICK x \in T : \A y \in T : ~(<<y, x>> \in R)
  BY <1>1, WFMin
<1>4. ASSUME NEW y \in T
      PROVE  x <= y
  <2>1. x \in Nat /\ y \in Nat
    OBVIOUS
  <2>2. y < x => <<y, x>> \in R
    BY <1>2, <2>1
  <2>3. ~(<<y, x>> \in R)
    BY <1>3
  <2>4. ~(y < x)
    BY <2>2, <2>3
  <2> QED BY <2>1, <2>4
<1> QED BY <1>4

\* Some finite set of each size up to another's, and which of them have no bound.
Unbounded(T, n) == IsFiniteSet(T) /\ T # {} /\ Cardinality(T) = n
                   /\ \A x \in T : \E y \in T : y > x

\* A finite set of numbers that is not empty has a greatest one.
LEMMA NatMax ==
    ASSUME NEW S \in SUBSET Nat, IsFiniteSet(S), S # {}
    PROVE  Max(S) \in S /\ \A x \in S : x <= Max(S)
<1> DEFINE B == {n \in Nat : \E T \in SUBSET Nat : Unbounded(T, n)}
<1>1. B = {}
  <2> SUFFICES ASSUME B # {}
               PROVE  FALSE
    OBVIOUS
  <2>1. PICK n \in B : \A m \in B : n <= m
    BY NatMin
  <2>2. PICK T \in SUBSET Nat : Unbounded(T, n)
    OBVIOUS
  <2>3. PICK t \in T : \A y \in T : t <= y
    BY <2>2, NatMin DEF Unbounded
  <2> DEFINE U == T \ {t}
  <2>4. IsFiniteSet(U) /\ Cardinality(U) = n - 1 /\ n - 1 \in Nat
    <3>1. n - 1 \in Int /\ IsFiniteSet(U) /\ Cardinality(U) = n - 1
      BY <2>2, FS_RemoveElement DEF Unbounded
    <3>2. Cardinality(U) \in Nat
      BY <3>1, FS_CardinalityType
    <3> QED BY <3>1, <3>2
  <2>5. PICK u \in T : u > t
    BY <2>2, <2>3 DEF Unbounded
  <2>6. U # {}
    BY <2>5
  <2>7. \A x \in U : \E y \in U : y > x
    BY <2>2, <2>3 DEF Unbounded
  <2>8. Unbounded(U, n - 1) /\ U \in SUBSET Nat
    BY <2>4, <2>6, <2>7 DEF Unbounded
  <2>9. n - 1 \in B
    BY <2>4, <2>8
  <2>10. n <= n - 1 /\ n \in Nat
    BY <2>1, <2>9
  <2> QED BY <2>10
<1>2. Cardinality(S) \in Nat
  BY FS_CardinalityType
<1>3. ~Unbounded(S, Cardinality(S))
  BY <1>1, <1>2
<1>4. PICK x \in S : \A y \in S : ~(y > x)
  BY <1>3 DEF Unbounded
<1>5. \A y \in S : x >= y
  <2> SUFFICES ASSUME NEW y \in S
               PROVE  x >= y
    OBVIOUS
  <2>1. x \in Nat /\ y \in Nat
    OBVIOUS
  <2> QED BY <1>4, <2>1
<1>6. \E m \in S : \A y \in S : m >= y
  BY <1>5
<1>7. Max(S) \in S /\ \A y \in S : Max(S) >= y
  BY <1>6 DEF Max
<1> QED
  <2> SUFFICES ASSUME NEW z \in S
               PROVE  z <= Max(S)
    BY <1>7
  <2>1. z \in Nat /\ Max(S) \in Nat
    BY <1>7
  <2> QED BY <1>7, <2>1

\* A finite set, as a sequence, is one of its members, all of them.
LEMMA SeqOfSet ==
    ASSUME NEW S, IsFiniteSet(S)
    PROVE  /\ SetToSeq(S) \in Seq(S)
           /\ \A x \in S : \E i \in DOMAIN SetToSeq(S) : SetToSeq(S)[i] = x
<1> DEFINE n == Cardinality(S)
           f == SetToSeq(S)
<1>1. n \in Nat /\ ExistsBijection(1..n, S)
  BY FS_CardinalityType
<1>2. \E g \in [1..n -> S] : IsInjective(g)
  BY <1>1 DEF ExistsBijection, Bijection, Injection
<1>3. f \in [1..n -> S] /\ IsInjective(f)
  BY <1>2 DEF SetToSeq
<1>4. f \in Injection(1..n, S)
  BY <1>3 DEF Injection
<1>5. Cardinality(1..n) = n
  BY <1>1, FS_Interval
<1> HIDE DEF n, f
<1>6. f \in Surjection(1..n, S)
  <2>1. Cardinality(S) = n
    BY DEF n
  <2> QED BY <1>4, <1>5, <2>1, FS_Injection
<1>7. \A x \in S : \E i \in 1..n : f[i] = x
  BY <1>6 DEF Surjection
<1> QED BY <1>1, <1>3, <1>7 DEF f

\* What a function takes a finite set to is finite.
LEMMA ImageIsFinite ==
    ASSUME NEW S, IsFiniteSet(S), NEW f, DOMAIN f = S
    PROVE  IsFiniteSet({f[x] : x \in S})
<1> DEFINE T == {f[x] : x \in S}
           g == [x \in S |-> f[x]]
<1>1. g \in [S -> T] /\ \A t \in T : \E x \in S : g[x] = t
  OBVIOUS
<1>2. g \in Surjection(S, T)
  BY <1>1 DEF Surjection
<1> QED BY <1>2, FS_Surjection

-----------------------------------------------------------------------------
(* What places say of each other.                                          *)

PaneKeys == {Pane(p) : p \in Panes}
SessionKeys == {Session(s) : s \in Sessions}

\* A setup's place is its session's lane's.
OwnLane(r) == r.key[2] = r.session

\* A place is of the order of its kind, and names only places taken before it.
Sorted(r) ==
    /\ r \in Places
    /\ r.after < r.id /\ r.host < r.id
    /\ r.kind \in {"gather", "step"} => r.after = 0
    /\ r.kind = "gather" => r.key = Gathers
    /\ r.kind = "setup" => r.key \in LaneKeys /\ OwnLane(r)
    /\ r.kind \in {"slash", "step"} => r.key \in PaneKeys
    /\ r.kind \in {"launch", "run", "doctor"} => r.key \in SessionKeys

\* What q may say of p: who takes a place from inside, and what a setup precedes.
Says(q, p) ==
    /\ q.host = p.id => /\ p.acting
                        /\ \/ q.kind = "gather" /\ p.kind = "doctor"
                           \/ q.kind = "step" /\ p.kind = "setup"
    /\ q.after = p.id /\ p.kind = "setup" => q.kind = "setup"

\* A set of places, each number taken once.
Orderly(P) ==
    /\ IsFiniteSet(P)
    /\ \A r \in P : Sorted(r)
    /\ \A p, q \in P : Says(q, p) /\ (p.id = q.id => p = q)

\* The orders, by their keys, are those of the kinds.
LEMMA KeysTellKinds ==
    ASSUME NEW p, NEW q, Sorted(p), Sorted(q), p.key = q.key
    PROVE  /\ p.kind = "gather" <=> q.kind = "gather"
           /\ p.kind = "setup" <=> q.kind = "setup"
<1>1. /\ p.key \in LaneKeys => p.key[1] = "lane"
      /\ p.key \in PaneKeys => p.key[1] = "pane"
      /\ p.key \in SessionKeys => p.key[1] = "session"
      /\ p.key = Gathers => p.key[1] = "gathers"
  BY DEF LaneKeys, PaneKeys, SessionKeys, Lane, Pane, Session, Gathers
<1>2. /\ p.kind \in Kinds \cup {"setup", "step", "gather"}
      /\ q.kind \in Kinds \cup {"setup", "step", "gather"}
  BY DEF Sorted, Places
<1> QED BY <1>1, <1>2 DEF Sorted, Kinds

\* The least number among some places.
LEMMA LeastPlace ==
    ASSUME NEW P, NEW W, W \subseteq P, W # {}, \A r \in P : Sorted(r)
    PROVE  \E r \in W : \A q \in W : r.id <= q.id
<1>1. \A r \in W : r.id \in Nat
  BY DEF Sorted, Places
<1> DEFINE T == {r.id : r \in W}
<1>2. T \in SUBSET Nat /\ T # {}
  BY <1>1
<1>3. PICK n \in T : \A m \in T : n <= m
  BY <1>2, NatMin
<1>4. PICK r \in W : r.id = n
  OBVIOUS
<1>5. \A q \in W : r.id <= q.id
  BY <1>3, <1>4
<1> QED BY <1>5

\* Among any places one waits on none of them: a gather before the others, and a
\* setup only when there is nothing but setups.
LEMMA OrderlyIsNoCircle ==
    ASSUME Orderly(places)
    PROVE  NoCircle
<1> SUFFICES ASSUME NEW W \in SUBSET places, W # {}
             PROVE  \E r \in W : WaitsOn(r) \cap W = {}
  BY DEF NoCircle
<1>0. /\ \A r \in places : Sorted(r)
      /\ \A p, q \in places : Says(q, p)
  BY DEF Orderly
<1>1. \A r \in places : r.id \in Nat /\ r.id > 0 /\ r.after < r.id /\ r.after \in Nat
                        /\ r.acting \in BOOLEAN
  BY <1>0 DEF Sorted, Places
<1> DEFINE G == {r \in W : r.kind = "gather"}
           N == {r \in W : r.kind # "setup"}
<1>2. CASE G # {}
  <2>1. PICK r \in G : \A q \in G : r.id <= q.id
    BY <1>0, <1>2, LeastPlace
  <2>2. \A q \in W : q \notin WaitsOn(r)
    <3> SUFFICES ASSUME NEW q \in W, q \in WaitsOn(r)
                 PROVE  FALSE
      OBVIOUS
    <3>1. CASE r.acting
      BY <1>0, <2>1, <3>1 DEF WaitsOn, Inner, Says
    <3>2. CASE ~r.acting /\ q.key = r.key /\ q.id < r.id
      <4>1. q \in G
        BY <1>0, <2>1, <3>2, KeysTellKinds
      <4> QED BY <1>1, <2>1, <3>2, <4>1
    <3>3. CASE ~r.acting /\ q.id = r.after
      BY <1>0, <1>1, <2>1, <3>3 DEF Sorted
    <3> QED BY <1>1, <3>1, <3>2, <3>3 DEF WaitsOn
  <2> QED BY <2>1, <2>2
<1>3. CASE G = {} /\ N # {}
  <2>1. PICK r \in N : \A q \in N : r.id <= q.id
    BY <1>0, <1>3, LeastPlace
  <2>2. \A q \in W : q \notin WaitsOn(r)
    <3> SUFFICES ASSUME NEW q \in W, q \in WaitsOn(r)
                 PROVE  FALSE
      OBVIOUS
    <3>1. CASE r.acting
      BY <1>0, <1>3, <2>1, <3>1 DEF WaitsOn, Inner, Says
    <3>2. CASE ~r.acting /\ q.key = r.key /\ q.id < r.id
      <4>1. q \in N
        BY <1>0, <2>1, <3>2, KeysTellKinds
      <4> QED BY <1>1, <2>1, <3>2, <4>1
    <3>3. CASE ~r.acting /\ q.id = r.after
      <4>1. q \in N
        BY <1>0, <2>1, <3>3 DEF Says
      <4> QED BY <1>1, <2>1, <3>3, <4>1
    <3> QED BY <1>1, <3>1, <3>2, <3>3 DEF WaitsOn
  <2> QED BY <2>1, <2>2
<1>4. CASE N = {}
  <2>1. PICK r \in W : \A q \in W : r.id <= q.id
    BY <1>0, LeastPlace
  <2>2. \A q \in W : q \notin WaitsOn(r)
    <3> SUFFICES ASSUME NEW q \in W, q \in WaitsOn(r)
                 PROVE  FALSE
      OBVIOUS
    <3>0. q.kind = "setup"
      BY <1>4
    <3>1. CASE r.acting
      BY <1>0, <3>0, <3>1 DEF WaitsOn, Inner, Says
    <3>2. CASE ~r.acting
      <4>1. q.id < r.id
        BY <1>1, <3>2 DEF WaitsOn
      <4> QED BY <1>1, <2>1, <4>1
    <3> QED BY <1>1, <3>1, <3>2
  <2> QED BY <2>2
<1> QED BY <1>2, <1>3, <1>4

\* Places that only went on, or were let go, are as orderly as they were.
SameOrder(p, q) ==
    /\ p.id = q.id /\ p.kind = q.kind /\ p.session = q.session /\ p.key = q.key
    /\ p.on = q.on /\ p.after = q.after /\ p.host = q.host
    /\ p.acting => q.acting

Kept(P, Q) ==
    /\ IsFiniteSet(Q) /\ Q \subseteq Places
    /\ \A q \in Q : \E p \in P : SameOrder(p, q)
    /\ \A p, q \in Q : p.id = q.id => p = q

LEMMA KeptIsOrderly ==
    ASSUME NEW P, NEW Q, Orderly(P), Kept(P, Q)
    PROVE  Orderly(Q)
<1>1. \A q \in Q : Sorted(q)
  BY DEF Orderly, Kept, SameOrder, Sorted, OwnLane
<1>2. \A p, q \in Q : Says(q, p)
  BY DEF Orderly, Kept, SameOrder, Says
<1> QED BY <1>1, <1>2 DEF Orderly, Kept

\* New places, with numbers after every place there is.
Grown(P, Q) ==
    /\ Orderly(Q)
    /\ \A p \in P, q \in Q : /\ p.id < q.id /\ Says(q, p)

LEMMA GrownIsOrderly ==
    ASSUME NEW P, NEW Q, Orderly(P), Grown(P, Q)
    PROVE  Orderly(P \cup Q)
<1>1. IsFiniteSet(P \cup Q)
  BY FS_Union DEF Orderly, Grown
<1>2. \A r \in P \cup Q : Sorted(r)
  BY DEF Orderly, Grown
<1>3. \A r \in P \cup Q : /\ r.id \in Nat /\ r.host < r.id /\ r.after < r.id
                          /\ r.host \in Nat /\ r.after \in Nat
  BY <1>2 DEF Sorted, Places
<1>4. \A p \in P, q \in Q : p.id < q.id /\ Says(q, p)
  BY DEF Grown
<1>5. \A p \in P, q \in Q : Says(p, q)
  BY <1>3, <1>4 DEF Says
<1>6. \A p, q \in P \cup Q : Says(q, p)
  BY <1>4, <1>5 DEF Orderly, Grown
<1>7. \A p, q \in P \cup Q : p.id = q.id => p = q
  BY <1>3, <1>4 DEF Orderly, Grown
<1> QED BY <1>1, <1>2, <1>6, <1>7 DEF Orderly

-----------------------------------------------------------------------------
(* Taking places.                                                          *)

\* No place has a number after the last one's.
LEMMA LastIdIsLast ==
    ASSUME Orderly(places)
    PROVE  LastId \in Nat /\ \A r \in places : r.id <= LastId
<1> DEFINE S == {r.id : r \in places}
           f == [r \in places |-> r.id]
<1>1. \A r \in places : r.id \in Nat
  BY DEF Orderly, Sorted, Places
<1>2. S = {f[r] : r \in places} /\ DOMAIN f = places
  OBVIOUS
<1>3. IsFiniteSet(S)
  <2>1. IsFiniteSet(places)
    BY DEF Orderly
  <2> HIDE DEF f, S
  <2> QED BY <1>2, <2>1, ImageIsFinite
<1>4. IsFiniteSet({0} \cup S) /\ {0} \cup S \in SUBSET Nat
  BY <1>1, <1>3, FS_AddElement
<1>5. LastId \in {0} \cup S /\ \A n \in {0} \cup S : n <= LastId
  BY <1>4, NatMax DEF LastId
<1> QED BY <1>4, <1>5

\* What an event may describe: no place yet, in the order its kind has.
Wanted == {r \in [id : {0}, kind : Kinds \cup {"setup"}, session : Sessions,
                  key : Keys, on : BOOLEAN, after : {0}, host : {0},
                  acting : {FALSE}, step : {"none"}] :
             /\ r.kind = "setup" => r.key \in LaneKeys /\ OwnLane(r)
             /\ r.kind = "slash" => r.key \in PaneKeys
             /\ r.kind \in {"launch", "run", "doctor"} => r.key \in SessionKeys}

\* Of two effects of an event one comes before the other, and after fewer.
LEMMA BeforeCounts ==
    ASSUME NEW d \in Seq(Wanted), NEW m \in DOMAIN d, NEW n \in DOMAIN d
    PROVE  /\ IsFiniteSet(Before(d, n)) /\ Cardinality(Before(d, n)) \in Nat
           /\ m # n => m \in Before(d, n) \/ n \in Before(d, m)
           /\ m \in Before(d, n) => Cardinality(Before(d, m)) < Cardinality(Before(d, n))
<1>1. DOMAIN d = 1..Len(d) /\ Len(d) \in Nat
  OBVIOUS
<1>2. IsFiniteSet(DOMAIN d)
  BY <1>1, FS_Interval
<1>3. Before(d, n) \subseteq DOMAIN d /\ Before(d, m) \subseteq DOMAIN d
  BY DEF Before
<1>4. /\ IsFiniteSet(Before(d, n)) /\ Cardinality(Before(d, n)) \in Nat
      /\ IsFiniteSet(Before(d, m)) /\ Cardinality(Before(d, m)) \in Nat
  BY <1>2, <1>3, FS_Subset, FS_CardinalityType
<1>5. m # n => m \in Before(d, n) \/ n \in Before(d, m)
  BY <1>1 DEF Before
<1>6. ASSUME m \in Before(d, n)
      PROVE  Cardinality(Before(d, m)) < Cardinality(Before(d, n))
  <2>1. m \notin Before(d, m)
    BY <1>1 DEF Before
  <2>2. Before(d, m) \subseteq Before(d, n)
    BY <1>1, <1>6 DEF Before
  <2>3. /\ Cardinality(Before(d, m)) <= Cardinality(Before(d, n))
        /\ Cardinality(Before(d, m)) # Cardinality(Before(d, n))
    BY <1>4, <1>6, <2>1, <2>2, FS_Subset
  <2> QED BY <1>4, <2>3
<1> QED BY <1>4, <1>5, <1>6

\* What an event describes becomes a place by its number, and what it waits for.
LEMMA NumberedRecord ==
    ASSUME NEW r \in Wanted, NEW i, NEW a, NEW p, p = [r EXCEPT !.id = i, !.after = a]
    PROVE  p = [id |-> i, kind |-> r.kind, session |-> r.session, key |-> r.key,
                on |-> r.on, after |-> a, host |-> 0, acting |-> FALSE, step |-> "none"]
  BY DEF Wanted

LEMMA NumberedPlace ==
    ASSUME NEW r \in Wanted, NEW i \in Nat \ {0}, NEW a \in Nat, NEW p,
           p = [id |-> i, kind |-> r.kind, session |-> r.session, key |-> r.key,
                on |-> r.on, after |-> a, host |-> 0, acting |-> FALSE, step |-> "none"]
    PROVE  /\ p.id = i /\ p.after = a /\ p.host = 0
           /\ p.kind = r.kind /\ p.key = r.key /\ p.session = r.session
           /\ p.on = r.on /\ p.acting = FALSE /\ p.step = "none"
           /\ p \in Places
<1>1. /\ r.kind \in Kinds \cup {"setup"} /\ r.session \in Sessions /\ r.key \in Keys
      /\ r.on \in BOOLEAN
  BY DEF Wanted
<1>2. "none" \in Outcomes /\ r.kind \in Kinds \cup {"setup", "step", "gather"}
  BY <1>1 DEF Outcomes
<1> QED BY <1>1, <1>2 DEF Places

\* The place the nth of an event's effects takes.
LEMMA TurnsArePlaces ==
    ASSUME NEW d \in Seq(Wanted), NEW n \in DOMAIN d, LastId \in Nat
    PROVE  LET p == InTurn(d, n)
               c == Cardinality(Before(d, n))
           IN  /\ p.id = LastId + 1 + c
               /\ p.after = IF Before(d, n) = {} THEN 0 ELSE LastId + c
               /\ p.host = 0 /\ p.kind = d[n].kind /\ p.key = d[n].key
               /\ p.session = d[n].session /\ p.on = d[n].on
               /\ p.acting = FALSE /\ p.step = "none"
               /\ p \in Places
<1> DEFINE p == InTurn(d, n)
           c == Cardinality(Before(d, n))
           e == d[n]
           i == LastId + 1 + c
           a == IF Before(d, n) = {} THEN 0 ELSE i - 1
<1>1. c \in Nat /\ e \in Wanted
  BY BeforeCounts
<1>2. Before(d, n) # {} => c # 0
  BY BeforeCounts, FS_EmptySet
<1> HIDE DEF c
<1>3. i \in Nat \ {0} /\ a \in Nat /\ a = IF Before(d, n) = {} THEN 0 ELSE LastId + c
  BY <1>1, <1>2
<1>4. i = LastId + 1 + Cardinality(Before(d, n))
  BY DEF c
<1>5. a = IF Before(d, n) = {} THEN 0 ELSE i - 1
  OBVIOUS
<1> HIDE DEF i, a
<1>6. p = [e EXCEPT !.id = i, !.after = a]
  BY <1>4, <1>5 DEF InTurn
<1> HIDE DEF e, p
<1>7. p = [id |-> i, kind |-> e.kind, session |-> e.session, key |-> e.key,
           on |-> e.on, after |-> a, host |-> 0, acting |-> FALSE, step |-> "none"]
  BY <1>1, <1>6, NumberedRecord
<1>8. /\ p.id = i /\ p.after = a /\ p.host = 0
      /\ p.kind = e.kind /\ p.key = e.key /\ p.session = e.session
      /\ p.on = e.on /\ p.acting = FALSE /\ p.step = "none"
      /\ p \in Places
  BY <1>1, <1>3, <1>7, NumberedPlace
<1>9. i = LastId + 1 + c
  BY DEF i
<1> QED BY <1>3, <1>8, <1>9 DEF e, p, c

\* The effects of an event take places after all there are.
LEMMA EventIsOrderly ==
    ASSUME Orderly(places), NEW d \in Seq(Wanted)
    PROVE  Grown(places, InOrder(d))
<1> DEFINE c(n) == Cardinality(Before(d, n))
           a(n) == IF Before(d, n) = {} THEN 0 ELSE LastId + c(n)
           f == [n \in DOMAIN d |-> InTurn(d, n)]
<1>0. LastId \in Nat /\ \A r \in places : r.id <= LastId
  BY LastIdIsLast
<1>1. InOrder(d) = {f[n] : n \in DOMAIN d}
  BY DEF InOrder
<1>2. \A n \in DOMAIN d : d[n] \in Wanted
  OBVIOUS
<1>3. \A n \in DOMAIN d : c(n) \in Nat /\ (Before(d, n) # {} => c(n) > 0)
  <2> SUFFICES ASSUME NEW n \in DOMAIN d
               PROVE  c(n) \in Nat /\ (Before(d, n) # {} => c(n) > 0)
    OBVIOUS
  <2>1. IsFiniteSet(Before(d, n)) /\ c(n) \in Nat
    BY BeforeCounts
  <2>2. Before(d, n) # {} => c(n) # 0
    BY <2>1, FS_EmptySet
  <2> QED BY <2>1, <2>2
<1>4. \A m, n \in DOMAIN d : /\ m # n => c(m) # c(n)
                             /\ c(m) < c(n) => m \in Before(d, n)
  <2> SUFFICES ASSUME NEW m \in DOMAIN d, NEW n \in DOMAIN d
               PROVE  /\ m # n => c(m) # c(n)
                      /\ c(m) < c(n) => m \in Before(d, n)
    OBVIOUS
  <2>1. /\ m # n => m \in Before(d, n) \/ n \in Before(d, m)
        /\ m \in Before(d, n) => c(m) < c(n)
        /\ n \in Before(d, m) => c(n) < c(m)
    BY BeforeCounts
  <2> QED BY <1>3, <2>1
<1>5. \A n \in DOMAIN d :
         /\ f[n].id = LastId + 1 + c(n) /\ f[n].after = a(n)
         /\ f[n].kind = d[n].kind /\ f[n].key = d[n].key /\ f[n].host = 0
         /\ f[n].session = d[n].session /\ f[n] \in Places
  <2> SUFFICES ASSUME NEW n \in DOMAIN d
               PROVE  /\ f[n].id = LastId + 1 + c(n) /\ f[n].after = a(n)
                      /\ f[n].kind = d[n].kind /\ f[n].key = d[n].key /\ f[n].host = 0
                      /\ f[n].session = d[n].session /\ f[n] \in Places
    OBVIOUS
  <2> DEFINE p == InTurn(d, n)
  <2>1. /\ p.id = LastId + 1 + c(n) /\ p.after = a(n)
        /\ p.kind = d[n].kind /\ p.key = d[n].key /\ p.host = 0
        /\ p.session = d[n].session /\ p \in Places
    BY <1>0, TurnsArePlaces
  <2>2. f[n] = p
    OBVIOUS
  <2> HIDE DEF f, p, a, c
  <2> QED BY <2>1, <2>2
<1>6. \A n \in DOMAIN d : a(n) = 0 \/ (a(n) = LastId + c(n) /\ a(n) > LastId)
  BY <1>0, <1>3
<1> HIDE DEF f, a, c
<1>7. IsFiniteSet(InOrder(d))
  <2>1. IsFiniteSet(DOMAIN d)
    BY FS_Interval
  <2>2. DOMAIN f = DOMAIN d
    BY DEF f
  <2> QED BY <1>1, <2>1, <2>2, ImageIsFinite
<1>8. \A n \in DOMAIN d : Sorted(f[n])
  <2> SUFFICES ASSUME NEW n \in DOMAIN d
               PROVE  Sorted(f[n])
    OBVIOUS
  <2>1. d[n] \in Wanted
    BY <1>2
  <2>2. f[n].after < f[n].id /\ f[n].host < f[n].id
    BY <1>0, <1>3, <1>5, <1>6
  <2>3. d[n].kind = "setup" => d[n].key \in LaneKeys /\ OwnLane(d[n])
    BY <2>1 DEF Wanted
  <2>4. f[n].kind = "setup" => f[n].key \in LaneKeys /\ OwnLane(f[n])
    BY <1>5, <2>3 DEF OwnLane
  <2> QED BY <1>5, <2>1, <2>2, <2>4 DEF Sorted, Wanted, Kinds
<1>9. \A m, n \in DOMAIN d : Says(f[n], f[m]) /\ (f[m].id = f[n].id => f[m] = f[n])
  <2> SUFFICES ASSUME NEW m \in DOMAIN d, NEW n \in DOMAIN d
               PROVE  Says(f[n], f[m]) /\ (f[m].id = f[n].id => f[m] = f[n])
    OBVIOUS
  <2>1. f[m].id = f[n].id => m = n
    BY <1>0, <1>3, <1>4, <1>5
  <2>2. f[n].host # f[m].id
    BY <1>0, <1>3, <1>5
  <2>3. ASSUME f[n].after = f[m].id, f[m].kind = "setup"
        PROVE  f[n].kind = "setup"
    <3>1. c(m) < c(n)
      BY <1>0, <1>3, <1>5, <1>6, <2>3
    <3>2. m \in Before(d, n)
      BY <1>4, <3>1
    <3> QED BY <1>5, <2>3, <3>2 DEF Before
  <2> QED BY <2>1, <2>2, <2>3 DEF Says
<1>10. \A p \in places, n \in DOMAIN d : p.id < f[n].id /\ Says(f[n], p)
  <2> SUFFICES ASSUME NEW p \in places, NEW n \in DOMAIN d
               PROVE  p.id < f[n].id /\ Says(f[n], p)
    OBVIOUS
  <2>1. p.id \in Nat /\ p.id > 0 /\ p.id <= LastId
    BY <1>0 DEF Orderly, Sorted, Places
  <2>2. p.id < f[n].id /\ f[n].host # p.id /\ f[n].after # p.id
    BY <1>0, <1>3, <1>5, <1>6, <2>1
  <2> QED BY <2>2 DEF Says
<1>11. Orderly(InOrder(d))
  BY <1>1, <1>7, <1>8, <1>9 DEF Orderly
<1> QED BY <1>1, <1>10, <1>11 DEF Grown

\* An event's effects, and the places there were, are in order.
LEMMA PerformIsOrderly ==
    ASSUME Orderly(places), NEW d \in Seq(Wanted), Perform(d)
    PROVE  Orderly(places')
<1>1. Orderly(places \cup InOrder(d))
  BY EventIsOrderly, GrownIsOrderly
<1>2. places' = places \cup InOrder(d)
  BY DEF Perform
<1> QED BY <1>1, <1>2 DEF Orderly

-----------------------------------------------------------------------------
(* What clicks describe, and leave owed.                                   *)

DebtSet == [lane : Lanes, from : BOOLEAN]
OwedSet == [session : Sessions, debts : SUBSET DebtSet]

\* What is owed is a sequence of such, and taking a session's leaves one.
LEMMA OwedIsDebts ==
    ASSUME owed \in Seq(OwedSet), NEW s \in Sessions
    PROVE  OwedTo(s) \subseteq DebtSet /\ Taken(s) \in Seq(OwedSet)
<1>1. \A i \in DOMAIN owed : owed[i] \in OwedSet
  OBVIOUS
<1>2. \A o \in Range(owed) : o \in OwedSet
  BY <1>1 DEF Range
<1>3. OwedTo(s) \subseteq DebtSet
  BY <1>2 DEF OwedTo, OwedSet
<1>4. \A i \in DOMAIN owed : RemoveAt(owed, i) \in Seq(OwedSet)
  <2> SUFFICES ASSUME NEW i \in DOMAIN owed
               PROVE  RemoveAt(owed, i) \in Seq(OwedSet)
    OBVIOUS
  <2>1. i \in 1..Len(owed) /\ Len(owed) \in Nat
    OBVIOUS
  <2>2. SubSeq(owed, 1, i - 1) \in Seq(OwedSet) /\ SubSeq(owed, i + 1, Len(owed)) \in Seq(OwedSet)
    BY <2>1
  <2> QED BY <2>2 DEF RemoveAt
<1>5. Taken(s) \in Seq(OwedSet)
  BY <1>4 DEF Taken
<1> QED BY <1>3, <1>5

\* Debts are of lanes, which are finitely many.
LEMMA DebtsAreFinite ==
    ASSUME NEW D, D \subseteq DebtSet
    PROVE  IsFiniteSet(D)
<1> DEFINE on == [l \in Lanes |-> [lane |-> l, from |-> TRUE]]
           off == [l \in Lanes |-> [lane |-> l, from |-> FALSE]]
<1>0. IsFiniteSet(Lanes)
  BY EffectsAssumption
<1>1. DebtSet = {on[l] : l \in Lanes} \cup {off[l] : l \in Lanes}
  <2>1. \A d \in DebtSet : d.lane \in Lanes /\ (d = on[d.lane] \/ d = off[d.lane])
    BY DEF DebtSet
  <2>2. \A l \in Lanes : on[l] \in DebtSet /\ off[l] \in DebtSet
    BY DEF DebtSet
  <2> HIDE DEF on, off
  <2> QED BY <2>1, <2>2
<1>2. DOMAIN on = Lanes /\ DOMAIN off = Lanes
  OBVIOUS
<1> HIDE DEF on, off
<1>3. IsFiniteSet({on[l] : l \in Lanes}) /\ IsFiniteSet({off[l] : l \in Lanes})
  BY <1>0, <1>2, ImageIsFinite
<1>4. IsFiniteSet(DebtSet)
  BY <1>1, <1>3, FS_Union
<1> QED BY <1>4, FS_Subset

\* What a click's own steps describe may be described.
LEMMA DescribedIsWanted ==
    ASSUME NEW s \in Sessions, NEW offer \in Seq(Kinds),
           "slash" \in Range(offer) => latest[s] \in Panes
    PROVE  Described(s, offer) \in Seq(Wanted)
<1>1. \A n \in DOMAIN offer : Place(offer[n], s, PlaceOf(offer[n], s)) \in Wanted
  <2> SUFFICES ASSUME NEW n \in DOMAIN offer
               PROVE  Place(offer[n], s, PlaceOf(offer[n], s)) \in Wanted
    OBVIOUS
  <2> DEFINE k == offer[n]
             key == PlaceOf(k, s)
  <2>1. k \in Kinds /\ (k = "slash" => latest[s] \in Panes)
    BY DEF Range
  <2> HIDE DEF k
  <2>2. IF k = "slash" THEN key \in PaneKeys ELSE key \in SessionKeys
    BY <2>1 DEF PlaceOf, PaneKeys, SessionKeys
  <2>3. key \in Keys
    BY <2>2 DEF Keys, PaneKeys, SessionKeys
  <2> HIDE DEF key
  <2>4. Place(k, s, key) \in Wanted
    BY <2>1, <2>2, <2>3 DEF Place, Wanted, Kinds
  <2> QED BY <2>4 DEF k, key
<1>2. DOMAIN offer = 1..Len(offer) /\ Len(offer) \in Nat
  OBVIOUS
<1> QED BY <1>1, <1>2 DEF Described

\* The setup that settles a session's debt.
SetupOf(s, d, now) == [Place("setup", s, Lane(s, d.lane)) EXCEPT !.on = now[d.lane]]

LEMMA SetupIs ==
    ASSUME NEW s, NEW d, NEW now
    PROVE  SetupOf(s, d, now) =
              [id |-> 0, kind |-> "setup", session |-> s, key |-> Lane(s, d.lane),
               on |-> now[d.lane], after |-> 0, host |-> 0, acting |-> FALSE,
               step |-> "none"]
<1> DEFINE k == Lane(s, d.lane)
           on == now[d.lane]
           q == Place("setup", s, k)
           p == SetupOf(s, d, now)
<1>1. p = [q EXCEPT !.on = on]
  BY DEF SetupOf
<1>2. q = [id |-> 0, kind |-> "setup", session |-> s, key |-> k, on |-> FALSE,
           after |-> 0, host |-> 0, acting |-> FALSE, step |-> "none"]
  BY DEF Place
<1> HIDE DEF k, on, q, p
<1>3. p = [id |-> 0, kind |-> "setup", session |-> s, key |-> k, on |-> on,
           after |-> 0, host |-> 0, acting |-> FALSE, step |-> "none"]
  BY <1>1, <1>2
<1> QED BY <1>3 DEF k, on, p

\* The setups that settle a session's debts may be described, and are.
LEMMA SettledIsWanted ==
    ASSUME NEW s \in Sessions, NEW D, D \subseteq DebtSet, NEW now \in [Lanes -> BOOLEAN]
    PROVE  /\ Settled(s, D, now) \in Seq(Wanted)
           /\ \A i \in DOMAIN Settled(s, D, now) :
                 \E d \in Moved(D, now) : Settled(s, D, now)[i] = SetupOf(s, d, now)
           /\ \A d \in Moved(D, now) :
                 \E i \in DOMAIN Settled(s, D, now) : Settled(s, D, now)[i] = SetupOf(s, d, now)
<1> DEFINE M == Moved(D, now)
           f == [d \in M |-> SetupOf(s, d, now)]
           S == {f[d] : d \in M}
<1>1. M \subseteq DebtSet
  BY DEF Moved
<1>2. IsFiniteSet(M)
  BY <1>1, DebtsAreFinite
<1>3. IsFiniteSet(S)
  <2>1. DOMAIN f = M
    OBVIOUS
  <2> HIDE DEF f, M
  <2> QED BY <1>2, <2>1, ImageIsFinite
<1>4. S \subseteq Wanted
  <2> SUFFICES ASSUME NEW d \in M
               PROVE  SetupOf(s, d, now) \in Wanted
    OBVIOUS
  <2>1. d.lane \in Lanes /\ now[d.lane] \in BOOLEAN
    BY <1>1 DEF DebtSet
  <2>2. Lane(s, d.lane) \in LaneKeys /\ Lane(s, d.lane) \in Keys
    BY <2>1 DEF LaneKeys, Keys
  <2> DEFINE l == d.lane
             on == now[l]
             p == SetupOf(s, d, now)
  <2>3. p = [id |-> 0, kind |-> "setup", session |-> s, key |-> Lane(s, l), on |-> on,
             after |-> 0, host |-> 0, acting |-> FALSE, step |-> "none"]
    BY SetupIs
  <2>4. Lane(s, l)[2] = s
    BY DEF Lane
  <2> HIDE DEF l, on, p
  <2>5. OwnLane(p)
    BY <2>3, <2>4 DEF OwnLane
  <2>6. p \in [id : {0}, kind : Kinds \cup {"setup"}, session : Sessions,
               key : Keys, on : BOOLEAN, after : {0}, host : {0},
               acting : {FALSE}, step : {"none"}]
    BY <2>1, <2>2, <2>3 DEF l, on
  <2>7. p.kind = "setup" /\ p.key \in LaneKeys
    BY <2>2, <2>3 DEF l
  <2>8. p \in Wanted
    BY <2>5, <2>6, <2>7 DEF Wanted, Kinds
  <2> QED BY <2>8 DEF p
<1>5. S = {SetupOf(s, d, now) : d \in M}
  OBVIOUS
<1>6. Settled(s, D, now) = SetToSeq({SetupOf(s, d, now) : d \in M})
  BY DEF Settled, SetupOf
<1> HIDE DEF S, M, f
<1>7. /\ SetToSeq(S) \in Seq(S)
      /\ \A x \in S : \E i \in DOMAIN SetToSeq(S) : SetToSeq(S)[i] = x
  BY <1>3, SeqOfSet
<1>8. SetToSeq(S) \in Seq(Wanted)
  BY <1>4, <1>7
<1>9. \A i \in DOMAIN SetToSeq(S) : SetToSeq(S)[i] \in S
  BY <1>7
<1>10. SetToSeq(S) = Settled(s, D, now)
  BY <1>5, <1>6
<1>11. \A i \in DOMAIN SetToSeq(S) : \E d \in M : SetToSeq(S)[i] = SetupOf(s, d, now)
  BY <1>5, <1>9
<1>12. \A d \in M : \E i \in DOMAIN SetToSeq(S) : SetToSeq(S)[i] = SetupOf(s, d, now)
  BY <1>5, <1>7
<1> QED BY <1>8, <1>10, <1>11, <1>12 DEF M

-----------------------------------------------------------------------------
(* Places taken from inside, reached and let go.                           *)

\* A place that goes on, or is let go with its outcome told, disturbs no order.
LEMMA BeginIsOrderly ==
    ASSUME Orderly(places), NEW r \in places, Begin(r)
    PROVE  Orderly(places')
<1> DEFINE b == [r EXCEPT !.acting = TRUE]
<1>1. b \in Places /\ SameOrder(r, b)
  BY DEF Orderly, Sorted, Places, SameOrder
<1>2. places' = (places \ {r}) \cup {b}
  BY DEF Begin
<1> HIDE DEF b
<1>3. IsFiniteSet(places')
  BY <1>2, FS_AddElement, FS_RemoveElement DEF Orderly
<1>4. \A p \in places : SameOrder(p, p) /\ p \in Places
  BY DEF SameOrder, Orderly, Sorted
<1>5. \A p, q \in places' : p.id = q.id => p = q
  BY <1>1, <1>2 DEF SameOrder, Orderly
<1>6. Kept(places, places')
  BY <1>1, <1>2, <1>3, <1>4, <1>5 DEF Kept
<1> QED BY <1>6, KeptIsOrderly

LEMMA LetGoIsOrderly ==
    ASSUME Orderly(places), NEW r \in places, NEW out \in Outcomes, LetGo(r, out)
    PROVE  Orderly(places')
<1> DEFINE told(q) == IF q.id = r.host THEN [q EXCEPT !.step = out] ELSE q
           P == places \ {r}
           f == [q \in P |-> told(q)]
<1>1. places' = {f[q] : q \in P}
  BY DEF LetGo
<1>2. \A q \in P : f[q] \in Places /\ SameOrder(q, f[q])
  BY DEF Orderly, Sorted, Places, SameOrder
<1>3. IsFiniteSet(P) /\ DOMAIN f = P
  BY FS_RemoveElement DEF Orderly
<1>4. P \subseteq places
  OBVIOUS
<1> HIDE DEF f, P
<1>5. IsFiniteSet(places')
  BY <1>1, <1>3, ImageIsFinite
<1>6. \A p, q \in places' : p.id = q.id => p = q
  BY <1>1, <1>2, <1>4 DEF SameOrder, Orderly
<1>7. Kept(places, places')
  BY <1>1, <1>2, <1>4, <1>5, <1>6 DEF Kept
<1> QED BY <1>7, KeptIsOrderly

\* Who takes a place from inside is the doctor or the setup it is for.
Insides(r, kind, key) ==
    \/ kind = "gather" /\ key = Gathers /\ r.kind = "doctor"
    \/ kind = "step" /\ key \in PaneKeys /\ r.kind = "setup"

\* The place taken from inside.
InsidePlace(r, kind, key) == [Place(kind, r.session, key) EXCEPT !.id = LastId + 1, !.host = r.id]

IsInside(p, r, kind, key) ==
    /\ p.id = LastId + 1 /\ p.host = r.id /\ p.after = 0
    /\ p.kind = kind /\ p.key = key /\ p.acting = FALSE /\ p.session = r.session

LEMMA InsideIsPlace ==
    ASSUME Orderly(places), NEW r \in places, NEW kind, NEW key, Insides(r, kind, key),
           NEW p, p = InsidePlace(r, kind, key)
    PROVE  p \in Places /\ IsInside(p, r, kind, key)
<1>1. r.session \in Sessions /\ r.id \in Nat
  BY DEF Orderly, Sorted, Places
<1>2. LastId \in Nat
  BY LastIdIsLast
<1>3. key \in Keys /\ kind \in Kinds \cup {"setup", "step", "gather"}
  BY DEF Insides, Keys, PaneKeys
<1>4. p = [id |-> LastId + 1, kind |-> kind, session |-> r.session, key |-> key,
           on |-> FALSE, after |-> 0, host |-> r.id, acting |-> FALSE, step |-> "none"]
  <2> DEFINE i == LastId + 1
             h == r.id
             s == r.session
             q == Place(kind, s, key)
  <2>1. p = [q EXCEPT !.id = i, !.host = h]
    BY DEF InsidePlace
  <2>2. q = [id |-> 0, kind |-> kind, session |-> s, key |-> key, on |-> FALSE,
             after |-> 0, host |-> 0, acting |-> FALSE, step |-> "none"]
    BY DEF Place
  <2> HIDE DEF i, h, s, q
  <2>3. p = [id |-> i, kind |-> kind, session |-> s, key |-> key, on |-> FALSE,
             after |-> 0, host |-> h, acting |-> FALSE, step |-> "none"]
    BY <2>1, <2>2
  <2> QED BY <2>3 DEF i, h, s
<1>5. "none" \in Outcomes
  BY DEF Outcomes
<1>6. p \in Places
  BY <1>1, <1>2, <1>3, <1>4, <1>5 DEF Places
<1>7. IsInside(p, r, kind, key)
  BY <1>4 DEF IsInside
<1> QED BY <1>6, <1>7

LEMMA TakeInsideIsOrderly ==
    ASSUME Orderly(places), NEW r \in places, NEW kind, NEW key, Insides(r, kind, key),
           NEW held \in Places, SameOrder(r, held), held.acting, TakeInside(r, held, kind, key)
    PROVE  Orderly(places')
<1> DEFINE new == InsidePlace(r, kind, key)
           K == (places \ {r}) \cup {held}
<1>1. IsFiniteSet(K)
  BY FS_AddElement, FS_RemoveElement DEF Orderly
<1>2. \A p \in places : SameOrder(p, p) /\ p \in Places
  BY DEF SameOrder, Orderly, Sorted
<1>3. \A p, q \in K : p.id = q.id => p = q
  BY DEF SameOrder, Orderly
<1>4. Kept(places, K)
  BY <1>1, <1>2, <1>3 DEF Kept
<1>5. Orderly(K)
  BY <1>4, KeptIsOrderly
<1>6. /\ new \in Places /\ new.id = LastId + 1 /\ new.host = r.id /\ new.after = 0
      /\ new.kind = kind /\ new.key = key
  <2> HIDE DEF K, new
  <2>1. new = InsidePlace(r, kind, key)
    BY DEF new
  <2>2. new \in Places /\ IsInside(new, r, kind, key)
    BY <2>1, InsideIsPlace
  <2> QED BY <2>2 DEF IsInside
<1>7. LastId \in Nat /\ \A p \in places : p.id <= LastId
  BY LastIdIsLast
<1>8. places' = K \cup {new}
  BY DEF TakeInside, InsidePlace
<1>9. \A p \in K : p.id \in Nat /\ p.id > 0 /\ p.id <= LastId
                   /\ (p.id = r.id => p.kind = r.kind /\ p.acting)
  BY <1>7 DEF Orderly, Sorted, Places, SameOrder
<1> HIDE DEF new, K
<1>10. Sorted(new)
  <2>1. r.id \in Nat /\ r.id < LastId + 1
    BY <1>7 DEF Orderly, Sorted, Places
  <2>2. kind \in {"gather", "step"} /\ (kind = "gather" => key = Gathers)
        /\ (kind = "step" => key \in PaneKeys)
    BY DEF Insides
  <2>3. new.after < new.id /\ new.host < new.id
    BY <1>6, <1>7, <2>1
  <2> QED BY <1>6, <2>2, <2>3 DEF Sorted
<1>11. Says(new, new)
  BY <1>6, <1>7 DEF Says, Orderly
<1>12. Orderly({new})
  BY <1>10, <1>11, FS_Singleton DEF Orderly
<1>13. \A p \in K : p.id < new.id /\ Says(new, p)
  BY <1>6, <1>7, <1>9 DEF Says, Insides
<1>14. Grown(K, {new})
  BY <1>12, <1>13 DEF Grown
<1> QED BY <1>5, <1>8, <1>14, GrownIsOrderly

-----------------------------------------------------------------------------
(* The invariant.                                                          *)

IInv == Orderly(places) /\ TypeOK

LEMMA InitHolds ==
    ASSUME Init
    PROVE  IInv
<1>1. Orderly(places)
  BY FS_EmptySet DEF Init, Orderly
<1>2. places \subseteq Places /\ IsFiniteSet(places)
  BY FS_EmptySet DEF Init
<1>3. latest \in [Sessions -> Panes \cup {Gone, NoTmux}]
  BY EffectsAssumption DEF Init
<1>4. owed \in Seq(OwedSet)
  BY DEF Init
<1>5. switch \in [Sessions -> [Lanes -> BOOLEAN]]
      /\ brought \in [Sessions -> [Lanes -> {"on", "off", "unknown"}]]
  BY DEF Init
<1>6. clicks \in 0..MaxClicks /\ moves \in 0..MaxMoves
  BY EffectsAssumption DEF Init
<1>7. closed \in BOOLEAN /\ dropped \subseteq LaneKeys
  BY Zenon DEF Init
<1> QED BY <1>1, <1>2, <1>3, <1>4, <1>5, <1>6, <1>7 DEF IInv, TypeOK, OwedSet, DebtSet

\* Orderly places have their types.
LEMMA OrderlyAreTyped ==
    ASSUME NEW P, Orderly(P)
    PROVE  P \subseteq Places /\ IsFiniteSet(P)
  BY DEF Orderly, Sorted

\* A run of a place changes the places, and where its lane was brought to.
LEMMA RunHolds ==
    ASSUME IInv, NEW r \in places, Runs(r)
    PROVE  IInv'
<1>0. Orderly(places)
  BY DEF IInv
<1>1. r \in Places /\ Sorted(r)
  BY <1>0 DEF Orderly, Sorted
<1>2. [r EXCEPT !.acting = TRUE] \in Places /\ SameOrder(r, [r EXCEPT !.acting = TRUE])
      /\ SameOrder(r, r) /\ [r EXCEPT !.acting = TRUE].acting
  BY <1>1 DEF Places, SameOrder
<1>3. {"ok", "failed", "outside", "moved"} \subseteq Outcomes
  BY DEF Outcomes
<1>4. ASSUME NEW p \in Panes PROVE Pane(p) \in PaneKeys
  BY DEF PaneKeys
<1>5. CASE Act(r)
  <2>1. Orderly(places')
    BY <1>0, <1>3, <1>5, BeginIsOrderly, LetGoIsOrderly DEF Act
  <2> QED BY <1>5, <2>1, OrderlyAreTyped DEF Act, Unsaid, IInv, TypeOK
<1>6. CASE Doctor(r)
  <2>1. Insides(r, "gather", Gathers)
    BY <1>6 DEF Doctor, Insides
  <2>2. Orderly(places')
    BY <1>0, <1>2, <1>6, <2>1, TakeInsideIsOrderly DEF Doctor
  <2> QED BY <1>6, <2>2, OrderlyAreTyped DEF Doctor, Unsaid, IInv, TypeOK
<1>7. CASE Gather(r)
  <2>1. Orderly(places')
    BY <1>0, <1>3, <1>7, BeginIsOrderly, LetGoIsOrderly DEF Gather
  <2> QED BY <1>7, <2>1, OrderlyAreTyped DEF Gather, Unsaid, IInv, TypeOK
<1>8. CASE TakePane(r)
  <2>1. Insides(r, "step", Pane(latest[r.session]))
    BY <1>4, <1>8 DEF TakePane, Insides
  <2>2. Orderly(places')
    BY <1>0, <1>1, <1>2, <1>8, <2>1, TakeInsideIsOrderly DEF TakePane
  <2> QED BY <1>8, <2>2, OrderlyAreTyped DEF TakePane, Unsaid, IInv, TypeOK
<1>9. CASE Step(r)
  <2>1. Found(r) \in Outcomes
    BY DEF Found, Outcomes
  <2>2. Orderly(places')
    BY <1>0, <1>9, <2>1, BeginIsOrderly, LetGoIsOrderly DEF Step
  <2> QED BY <1>9, <2>2, OrderlyAreTyped DEF Step, Unsaid, IInv, TypeOK
<1>10. CASE End(r)
  <2>1. Orderly(places')
    BY <1>0, <1>3, <1>10, LetGoIsOrderly DEF End
  <2> QED BY <1>10, <2>1, OrderlyAreTyped DEF End, Unsaid, IInv, TypeOK
<1>11. ASSUME NEW at \in {"on", "off", "unknown"}, Left(r, at), r.kind = "setup"
       PROVE  brought' \in [Sessions -> [Lanes -> {"on", "off", "unknown"}]]
  <2>1. r.key \in LaneKeys /\ r.session \in Sessions
    BY <1>1, <1>11 DEF Sorted, Places
  <2>2. r.key[3] \in Lanes
    BY <2>1 DEF LaneKeys, Lane
  <2>3. brought \in [Sessions -> [Lanes -> {"on", "off", "unknown"}]]
    BY DEF IInv, TypeOK
  <2> QED BY <1>11, <2>1, <2>2, <2>3 DEF Left
<1>12. CASE Setup(r)
  <2>1. Orderly(places')
    BY <1>0, <1>3, <1>12, BeginIsOrderly, LetGoIsOrderly DEF Setup
  <2>2. brought' \in [Sessions -> [Lanes -> {"on", "off", "unknown"}]]
    BY <1>11, <1>12 DEF Setup, IInv, TypeOK
  <2> QED BY <1>12, <2>1, <2>2, OrderlyAreTyped DEF Setup, Unsaid, IInv, TypeOK
<1>13. CASE EndSetup(r)
  <2>1. PICK out \in Ends(r) :
           /\ LetGo(r, out)
           /\ Left(r, IF out = "failed" THEN "unknown" ELSE IF r.on THEN "on" ELSE "off")
    BY <1>13 DEF EndSetup
  <2>2. out \in Outcomes
    BY <1>1, <2>1 DEF Ends, Outcomes, Places
  <2>3. Orderly(places')
    BY <1>0, <2>1, <2>2, LetGoIsOrderly
  <2>4. brought' \in [Sessions -> [Lanes -> {"on", "off", "unknown"}]]
    BY <1>11, <1>13, <2>1 DEF EndSetup
  <2> QED BY <1>13, <2>3, <2>4, OrderlyAreTyped DEF EndSetup, Unsaid, IInv, TypeOK
<1> QED BY <1>5, <1>6, <1>7, <1>8, <1>9, <1>10, <1>12, <1>13 DEF Runs

\* What is owed after a turn, whatever the bound dropped.
LEMMA RememberIsTyped ==
    ASSUME IInv, NEW s \in Sessions, NEW D, D \subseteq DebtSet, Remember(s, D)
    PROVE  owed' \in Seq(OwedSet) /\ dropped' \subseteq LaneKeys
<1> DEFINE all == IF D = {} THEN Taken(s) ELSE Append(Taken(s), [session |-> s, debts |-> D])
<1>1. owed \in Seq(OwedSet) /\ dropped \subseteq LaneKeys
  BY DEF IInv, TypeOK, OwedSet, DebtSet
<1>2. Taken(s) \in Seq(OwedSet) /\ [session |-> s, debts |-> D] \in OwedSet
  BY <1>1, OwedIsDebts DEF OwedSet
<1>3. all \in Seq(OwedSet)
  BY <1>2
<1>4. /\ owed' = IF Len(all) <= MaxOwed THEN all ELSE Tail(all)
      /\ dropped' = IF Len(all) <= MaxOwed THEN dropped
                    ELSE dropped \cup {Lane(all[1].session, d.lane) : d \in all[1].debts}
  BY DEF Remember
<1> HIDE DEF all
<1>5. ASSUME ~(Len(all) <= MaxOwed)
      PROVE  /\ all # <<>> /\ all[1] \in OwedSet
             /\ {Lane(all[1].session, d.lane) : d \in all[1].debts} \subseteq LaneKeys
  <2>1. Len(all) > 0 /\ all # <<>>
    BY <1>3, <1>5, EffectsAssumption
  <2>2. all[1] \in OwedSet
    BY <1>3, <2>1
  <2>3. all[1].session \in Sessions /\ \A d \in all[1].debts : d.lane \in Lanes
    BY <2>2 DEF OwedSet, DebtSet
  <2> QED BY <2>1, <2>2, <2>3 DEF LaneKeys
<1>6. owed' \in Seq(OwedSet)
  BY <1>3, <1>4, <1>5
<1>7. dropped' \subseteq LaneKeys
  BY <1>1, <1>4, <1>5
<1> QED BY <1>6, <1>7

\* A click's debts are of lanes, and from where they stood.
LEMMA DebtsAreTyped ==
    ASSUME IInv, NEW s \in Sessions, NEW toggled \in SUBSET Lanes
    PROVE  Debts(s, toggled) \subseteq DebtSet
<1>1. OwedTo(s) \subseteq DebtSet
  BY OwedIsDebts DEF IInv, TypeOK, OwedSet, DebtSet
<1>2. \A l \in Lanes : [lane |-> l, from |-> switch[s][l]] \in DebtSet
  BY DEF IInv, TypeOK, DebtSet
<1> QED BY <1>1, <1>2 DEF Debts

\* One after another, two events' effects are one event's.
LEMMA WantedJoin ==
    ASSUME NEW c \in Seq(Wanted), NEW d \in Seq(Wanted)
    PROVE  c \o d \in Seq(Wanted)
  OBVIOUS

LEMMA RequestHolds ==
    ASSUME IInv, NEW s \in Sessions, Request(s)
    PROVE  IInv'
<1>1. Orderly(places) /\ TypeOK /\ owed \in Seq(OwedSet)
  BY DEF IInv, TypeOK, OwedSet, DebtSet
<1>2. OwedTo(s) \subseteq DebtSet /\ Taken(s) \in Seq(OwedSet)
  BY <1>1, OwedIsDebts
<1>3. switch[s] \in [Lanes -> BOOLEAN]
  BY <1>1 DEF TypeOK
<1>4. Settled(s, OwedTo(s), switch[s]) \in Seq(Wanted)
  BY <1>2, <1>3, SettledIsWanted
<1>5. Orderly(places')
  BY <1>1, <1>4, PerformIsOrderly DEF Request
<1>6. latest' \in [Sessions -> Panes \cup {Gone, NoTmux}]
  BY <1>1 DEF Request, TypeOK
<1>7. moves' \in 0..MaxMoves
  BY <1>1, EffectsAssumption DEF Request, TypeOK
<1>8. owed' \in Seq(OwedSet)
  BY <1>2 DEF Request
<1>9. UNCHANGED <<switch, closed, clicks, brought, dropped>>
  BY DEF Request
<1> QED BY <1>1, <1>5, <1>6, <1>7, <1>8, <1>9, OrderlyAreTyped
        DEF IInv, TypeOK, OwedSet, DebtSet

LEMMA EvictHolds ==
    ASSUME IInv, NEW s \in Sessions, Evict(s)
    PROVE  IInv'
<1>1. latest' \in [Sessions -> Panes \cup {Gone, NoTmux}]
  BY DEF Evict, IInv, TypeOK
<1>2. moves' \in 0..MaxMoves
  BY EffectsAssumption DEF Evict, IInv, TypeOK
<1>3. UNCHANGED <<places, switch, owed, closed, clicks, brought, dropped>>
  BY DEF Evict
<1> QED BY <1>1, <1>2, <1>3 DEF IInv, TypeOK

\* What a click chooses: what it describes and the lanes it moves.
ClickOf(s, offer, toggled) ==
    LET now == [l \in Lanes |-> switch[s][l] # (l \in toggled)]
        debts == Debts(s, toggled)
    IN  /\ offer # <<>> \/ toggled # {}
        /\ "slash" \in Range(offer) => latest[s] \in Panes
        /\ switch' = [switch EXCEPT ![s] = now]
        /\ IF latest[s] # Gone
             THEN /\ owed' = Taken(s) /\ UNCHANGED dropped
                  /\ Perform(Described(s, offer) \o Settled(s, debts, now))
             ELSE /\ Remember(s, Moved(debts, now))
                  /\ Perform(Described(s, offer))

LEMMA ClickHolds ==
    ASSUME IInv, NEW s \in Sessions, Click(s)
    PROVE  IInv'
<1>1. Orderly(places) /\ TypeOK /\ owed \in Seq(OwedSet)
  BY DEF IInv, TypeOK, OwedSet, DebtSet
<1>2. PICK offer \in Offers, toggled \in SUBSET Lanes : ClickOf(s, offer, toggled)
  BY DEF Click, ClickOf
<1> DEFINE now == [l \in Lanes |-> switch[s][l] # (l \in toggled)]
           D == Debts(s, toggled)
<1>3. now \in [Lanes -> BOOLEAN] /\ switch' = [switch EXCEPT ![s] = now]
  BY <1>2 DEF ClickOf
<1>4. D \subseteq DebtSet /\ Moved(D, now) \subseteq DebtSet
  BY DebtsAreTyped DEF Moved
<1>5. ("slash" \in Range(offer) => latest[s] \in Panes) /\ offer \in Seq(Kinds)
  BY <1>2, EffectsAssumption DEF ClickOf
<1>6. IF latest[s] # Gone
        THEN /\ owed' = Taken(s) /\ UNCHANGED dropped
             /\ Perform(Described(s, offer) \o Settled(s, D, now))
        ELSE /\ Remember(s, Moved(D, now))
             /\ Perform(Described(s, offer))
  BY <1>2 DEF ClickOf
<1> HIDE DEF now, D
<1>7. Described(s, offer) \in Seq(Wanted) /\ Settled(s, D, now) \in Seq(Wanted)
  BY <1>3, <1>4, <1>5, DescribedIsWanted, SettledIsWanted
<1>8. Described(s, offer) \o Settled(s, D, now) \in Seq(Wanted)
  BY <1>7, WantedJoin
<1>9. Orderly(places')
  BY <1>1, <1>6, <1>7, <1>8, PerformIsOrderly
<1>10. owed' \in Seq(OwedSet) /\ dropped' \subseteq LaneKeys
  <2>1. Taken(s) \in Seq(OwedSet) /\ dropped \subseteq LaneKeys
    BY <1>1, OwedIsDebts DEF TypeOK
  <2> QED BY <1>4, <1>6, <2>1, RememberIsTyped
<1>11. switch' \in [Sessions -> [Lanes -> BOOLEAN]]
  BY <1>1, <1>3 DEF TypeOK
<1>12. clicks' \in 0..MaxClicks
  BY <1>1, EffectsAssumption DEF Click, TypeOK
<1>13. UNCHANGED <<latest, closed, moves, brought>>
  BY DEF Click
<1> QED BY <1>1, <1>9, <1>10, <1>11, <1>12, <1>13, OrderlyAreTyped
        DEF IInv, TypeOK, OwedSet, DebtSet

LEMMA CloseHolds ==
    ASSUME IInv, Close
    PROVE  IInv'
<1>1. UNCHANGED <<places, latest, switch, owed, clicks, moves, brought, dropped>>
      /\ closed' = TRUE
  BY DEF Close
<1> QED BY <1>1 DEF IInv, TypeOK

LEMMA StepHolds ==
    ASSUME IInv, [Next]_vars
    PROVE  IInv'
<1>1. CASE UNCHANGED vars
  BY <1>1 DEF vars, IInv, TypeOK
<1> QED BY <1>1, RequestHolds, EvictHolds, ClickHolds, RunHolds, CloseHolds DEF Next

\* The places stay orderly, whatever is described, reached and let go.
LEMMA Invariance == Spec => []IInv
  BY InitHolds, StepHolds, PTL DEF Spec

-----------------------------------------------------------------------------
(* What is owed, and to whom.                                              *)

\* The session q is owed d.
Owes(o, q, d) == \E i \in DOMAIN o : o[i].session = q /\ d \in o[i].debts

\* A session is owed to once.
OneEach(o) == \A i, j \in DOMAIN o : o[i].session = o[j].session => i = j

LEMMA OwedToIsOwes ==
    ASSUME NEW q, NEW d
    PROVE  d \in OwedTo(q) <=> Owes(owed, q, d)
<1>1. ASSUME d \in OwedTo(q)
      PROVE  Owes(owed, q, d)
  <2>1. PICK o \in Range(owed) : o.session = q /\ d \in o.debts
    BY <1>1 DEF OwedTo
  <2>2. PICK i \in DOMAIN owed : owed[i] = o
    BY DEF Range
  <2> QED BY <2>1, <2>2 DEF Owes
<1>2. ASSUME Owes(owed, q, d)
      PROVE  d \in OwedTo(q)
  <2>1. PICK i \in DOMAIN owed : owed[i].session = q /\ d \in owed[i].debts
    BY <1>2 DEF Owes
  <2>2. owed[i] \in {o \in Range(owed) : o.session = q}
    BY <2>1 DEF Range
  <2>3. owed[i].debts \in {o.debts : o \in {o \in Range(owed) : o.session = q}}
    BY <2>2
  <2> QED BY <2>1, <2>3 DEF OwedTo
<1> QED BY <1>1, <1>2

\* A sequence with one of its members taken out.
LEMMA RemoveAtIs ==
    ASSUME NEW S, NEW o \in Seq(S), NEW i \in 1..Len(o)
    PROVE  /\ RemoveAt(o, i) \in Seq(S)
           /\ DOMAIN RemoveAt(o, i) = 1..(Len(o) - 1)
           /\ \A j \in 1..(Len(o) - 1) :
                 RemoveAt(o, i)[j] = IF j < i THEN o[j] ELSE o[j + 1]
<1> DEFINE a == SubSeq(o, 1, i - 1)
           b == SubSeq(o, i + 1, Len(o))
<1>1. i \in Nat /\ i >= 1 /\ i <= Len(o) /\ Len(o) \in Nat
  OBVIOUS
<1>2. a \in Seq(S) /\ Len(a) = i - 1 /\ \A j \in 1..(i - 1) : a[j] = o[j]
  BY <1>1
<1>3. b \in Seq(S) /\ Len(b) = Len(o) - i /\ \A j \in 1..(Len(o) - i) : b[j] = o[i + j]
  BY <1>1
<1>4. RemoveAt(o, i) = a \o b
  BY DEF RemoveAt
<1> HIDE DEF a, b
<1>5. a \o b \in Seq(S) /\ Len(a \o b) = Len(o) - 1
  <2>0. a \in Seq(S) /\ b \in Seq(S)
    BY <1>2, <1>3
  <2>1. a \o b \in Seq(S)
    BY <2>0
  <2>3. Len(a \o b) = Len(a) + Len(b)
    BY <2>0
  <2>2. Len(a) + Len(b) = Len(o) - 1
    BY <1>1, <1>2, <1>3
  <2> QED BY <2>1, <2>2, <2>3
<1>6. ASSUME NEW j \in 1..(Len(o) - 1)
      PROVE  (a \o b)[j] = IF j < i THEN o[j] ELSE o[j + 1]
  <2>1. CASE j < i
    BY <1>1, <1>2, <1>3, <2>1
  <2>2. CASE ~(j < i)
    <3>1. (a \o b)[j] = b[j - (i - 1)]
      BY <1>1, <1>2, <1>3, <2>2
    <3>2. j - (i - 1) \in 1..(Len(o) - i) /\ i + (j - (i - 1)) = j + 1
      BY <1>1, <2>2
    <3> QED BY <1>3, <2>2, <3>1, <3>2
  <2> QED BY <2>1, <2>2
<1>7. RemoveAt(o, i) \in Seq(S) /\ Len(RemoveAt(o, i)) = Len(o) - 1
  BY <1>4, <1>5
<1>8. DOMAIN RemoveAt(o, i) = 1..(Len(o) - 1)
  <2> DEFINE c == RemoveAt(o, i)
  <2> HIDE DEF c
  <2>1. c \in Seq(S) /\ Len(c) = Len(o) - 1
    BY <1>7 DEF c
  <2>2. DOMAIN c = 1..Len(c)
    BY <2>1
  <2> QED BY <2>1, <2>2 DEF c
<1>9. \A j \in 1..(Len(o) - 1) : RemoveAt(o, i)[j] = IF j < i THEN o[j] ELSE o[j + 1]
  BY <1>4, <1>6
<1> QED BY <1>7, <1>8, <1>9

\* Taking what a session is owed leaves the others owed what they were.
LEMMA TakenIs ==
    ASSUME owed \in Seq(OwedSet), OneEach(owed), NEW s \in Sessions
    PROVE  /\ OneEach(Taken(s))
           /\ \A i \in DOMAIN Taken(s) : Taken(s)[i].session # s
           /\ \A q, d : q # s => (Owes(Taken(s), q, d) <=> Owes(owed, q, d))
<1> DEFINE At(i) == owed[i].session = s
<1>1. CASE ~\E i \in DOMAIN owed : At(i)
  <2>1. Taken(s) = owed
    BY <1>1 DEF Taken
  <2> QED BY <1>1, <2>1
<1>2. CASE \E i \in DOMAIN owed : At(i)
  <2> DEFINE k == CHOOSE i \in DOMAIN owed : At(i)
             t == RemoveAt(owed, k)
             n == Len(owed) - 1
  <2>1. Taken(s) = t
    BY <1>2 DEF Taken
  <2>2. k \in DOMAIN owed /\ owed[k].session = s
    BY <1>2
  <2> HIDE DEF k
  <2>3. k \in 1..Len(owed) /\ Len(owed) \in Nat /\ n \in Nat /\ DOMAIN owed = 1..Len(owed)
    BY <2>2
  <2>4. DOMAIN t = 1..n /\ \A j \in 1..n : t[j] = IF j < k THEN owed[j] ELSE owed[j + 1]
    BY <2>3, RemoveAtIs
  <2> HIDE DEF t
  <2> DEFINE from(j) == IF j < k THEN j ELSE j + 1
  <2>5. \A j \in 1..n : from(j) \in DOMAIN owed /\ from(j) # k /\ t[j] = owed[from(j)]
    BY <2>3, <2>4
  <2>6. \A i, j \in 1..n : from(i) = from(j) => i = j
    BY <2>3
  <2>7. \A i \in DOMAIN owed : i # k => \E j \in 1..n : from(j) = i
    <3> SUFFICES ASSUME NEW i \in DOMAIN owed, i # k
                 PROVE  \E j \in 1..n : from(j) = i
      OBVIOUS
    <3> DEFINE j == IF i < k THEN i ELSE i - 1
    <3>1. j \in 1..n /\ from(j) = i
      BY <2>3
    <3> QED BY <3>1
  <2> HIDE DEF from, n
  <2>8. OneEach(t)
    BY <2>4, <2>5, <2>6 DEF OneEach
  <2>9. \A j \in DOMAIN t : t[j].session # s
    BY <2>2, <2>4, <2>5 DEF OneEach
  <2>10. ASSUME NEW q, NEW d, q # s
         PROVE  Owes(t, q, d) <=> Owes(owed, q, d)
    <3>1. Owes(t, q, d) => Owes(owed, q, d)
      BY <2>4, <2>5 DEF Owes
    <3>2. ASSUME Owes(owed, q, d)
          PROVE  Owes(t, q, d)
      <4>1. PICK i \in DOMAIN owed : owed[i].session = q /\ d \in owed[i].debts
        BY <3>2 DEF Owes
      <4>2. PICK j \in 1..n : from(j) = i
        BY <2>2, <2>7, <2>10, <4>1
      <4> QED BY <2>4, <2>5, <4>1, <4>2 DEF Owes
    <3> QED BY <3>1, <3>2
  <2> QED BY <2>1, <2>8, <2>9, <2>10
<1> QED BY <1>1, <1>2

\* What the turn of s leaves owed: D to s, and to the others what they were, but
\* for the lanes whose debts are dropped.
Leaves(s, D) ==
    /\ dropped \subseteq dropped'
    /\ \A q \in Sessions, d \in DebtSet :
          LET owes == IF q = s THEN d \in D ELSE Owes(owed, q, d)
          IN  /\ Owes(owed', q, d) => owes
              /\ owes => Owes(owed', q, d) \/ Lane(q, d.lane) \in dropped'

LEMMA TakenLeaves ==
    ASSUME owed \in Seq(OwedSet), OneEach(owed), NEW s \in Sessions,
           owed' = Taken(s), UNCHANGED dropped
    PROVE  OneEach(owed') /\ Leaves(s, {})
<1>1. /\ OneEach(Taken(s))
      /\ \A i \in DOMAIN Taken(s) : Taken(s)[i].session # s
      /\ \A q, d : q # s => (Owes(Taken(s), q, d) <=> Owes(owed, q, d))
  BY TakenIs
<1>2. \A d : ~Owes(Taken(s), s, d)
  BY <1>1 DEF Owes
<1>3. ASSUME NEW q \in Sessions, NEW d \in DebtSet
      PROVE  LET owes == IF q = s THEN d \in {} ELSE Owes(owed, q, d)
             IN  /\ Owes(owed', q, d) => owes
                 /\ owes => Owes(owed', q, d) \/ Lane(q, d.lane) \in dropped'
  <2>1. CASE q = s
    BY <1>2, <2>1
  <2>2. CASE q # s
    BY <1>1, <2>2
  <2> QED BY <2>1, <2>2
<1> QED BY <1>1, <1>3 DEF Leaves

\* Who is owed to last is owed that; taking the first leaves the others.
LEMMA AppendOwes ==
    ASSUME NEW o \in Seq(OwedSet), OneEach(o), NEW e \in OwedSet,
           \A i \in DOMAIN o : o[i].session # e.session
    PROVE  /\ OneEach(Append(o, e))
           /\ \A q, d : Owes(Append(o, e), q, d) <=>
                           IF q = e.session THEN d \in e.debts ELSE Owes(o, q, d)
<1> DEFINE a == Append(o, e)
           n == Len(o)
<1>1. n \in Nat /\ DOMAIN o = 1..n /\ DOMAIN a = 1..(n + 1)
      /\ (\A i \in 1..n : a[i] = o[i]) /\ a[n + 1] = e
  OBVIOUS
<1> HIDE DEF a, n
<1>2. \A i \in 1..(n + 1) : i \in 1..n \/ i = n + 1
  BY <1>1
<1>3. 1..n \subseteq 1..(n + 1) /\ n + 1 \in 1..(n + 1)
  BY <1>1
<1>4. OneEach(a)
  BY <1>1, <1>2 DEF OneEach
<1>5. ASSUME NEW q, NEW d
      PROVE  Owes(a, q, d) <=> IF q = e.session THEN d \in e.debts ELSE Owes(o, q, d)
  <2>1. CASE q = e.session
    BY <1>1, <1>2, <1>3, <2>1 DEF Owes
  <2>2. CASE q # e.session
    BY <1>1, <1>2, <1>3, <2>2 DEF Owes
  <2> QED BY <2>1, <2>2
<1> QED BY <1>4, <1>5 DEF a

LEMMA TailOwes ==
    ASSUME NEW o \in Seq(OwedSet), OneEach(o), o # <<>>
    PROVE  /\ OneEach(Tail(o))
           /\ \A q, d : q # o[1].session => (Owes(Tail(o), q, d) <=> Owes(o, q, d))
           /\ \A d : ~Owes(Tail(o), o[1].session, d)
           /\ \A d : Owes(o, o[1].session, d) <=> d \in o[1].debts
<1> DEFINE t == Tail(o)
           n == Len(o) - 1
<1>1. n \in Nat /\ DOMAIN o = 1..(n + 1) /\ DOMAIN t = 1..n
      /\ (\A i \in 1..n : t[i] = o[i + 1])
  OBVIOUS
<1> HIDE DEF t, n
<1>2. \A i \in 1..n : i + 1 \in 1..(n + 1) /\ i + 1 # 1
  BY <1>1
<1>3. 1 \in 1..(n + 1) /\ \A i \in 1..(n + 1) : i # 1 => i - 1 \in 1..n /\ (i - 1) + 1 = i
  BY <1>1
<1>4. OneEach(t)
  <2> SUFFICES ASSUME NEW i \in 1..n, NEW j \in 1..n, t[i].session = t[j].session
               PROVE  i = j
    BY <1>1 DEF OneEach
  <2>0. i + 1 \in DOMAIN o /\ j + 1 \in DOMAIN o /\ o[i + 1].session = o[j + 1].session
    BY <1>1, <1>2
  <2>1. i + 1 = j + 1
    BY <2>0, Zenon DEF OneEach
  <2> QED BY <1>1, <2>1
<1>5. ASSUME NEW q, NEW d, q # o[1].session
      PROVE  Owes(t, q, d) <=> Owes(o, q, d)
  <2>1. Owes(t, q, d) => Owes(o, q, d)
    BY <1>1, <1>2 DEF Owes
  <2>2. ASSUME Owes(o, q, d)
        PROVE  Owes(t, q, d)
    <3>1. PICK i \in DOMAIN o : o[i].session = q /\ d \in o[i].debts
      BY <2>2 DEF Owes
    <3>2. i - 1 \in 1..n /\ t[i - 1] = o[i]
      BY <1>1, <1>3, <1>5, <3>1
    <3> QED BY <1>1, <3>1, <3>2 DEF Owes
  <2> QED BY <2>1, <2>2
<1>6. \A d : ~Owes(t, o[1].session, d)
  BY <1>1, <1>2, <1>3, SMTT(30) DEF Owes, OneEach
<1>7. \A d : Owes(o, o[1].session, d) <=> d \in o[1].debts
  BY <1>1, <1>3 DEF Owes, OneEach
<1> QED BY <1>4, <1>5, <1>6, <1>7 DEF t

LEMMA RememberLeaves ==
    ASSUME owed \in Seq(OwedSet), OneEach(owed), NEW s \in Sessions,
           NEW D, D \subseteq DebtSet, Remember(s, D)
    PROVE  OneEach(owed') /\ Leaves(s, D)
<1> DEFINE t == Taken(s)
           e == [session |-> s, debts |-> D]
           all == IF D = {} THEN t ELSE Append(t, e)
<1>1. /\ OneEach(t)
      /\ \A i \in DOMAIN t : t[i].session # s
      /\ \A q, d : q # s => (Owes(t, q, d) <=> Owes(owed, q, d))
  BY TakenIs
<1>2. t \in Seq(OwedSet) /\ e \in OwedSet /\ e.session = s /\ e.debts = D
  BY OwedIsDebts DEF OwedSet
<1>3. /\ owed' = IF Len(all) <= MaxOwed THEN all ELSE Tail(all)
      /\ dropped' = IF Len(all) <= MaxOwed THEN dropped
                    ELSE dropped \cup {Lane(all[1].session, d.lane) : d \in all[1].debts}
  BY DEF Remember
<1>4. /\ all \in Seq(OwedSet) /\ OneEach(all)
      /\ \A q, d : Owes(all, q, d) <=> IF q = s THEN d \in D ELSE Owes(owed, q, d)
  <2> HIDE DEF t, e
  <2>1. CASE D = {}
    <3>1. \A d : ~Owes(t, s, d)
      BY <1>1 DEF Owes
    <3> QED BY <1>1, <1>2, <2>1, <3>1
  <2>2. CASE D # {}
    <3>1. Append(t, e) \in Seq(OwedSet)
      BY <1>2
    <3>2. /\ OneEach(Append(t, e))
          /\ \A q, d : Owes(Append(t, e), q, d) <=>
                          IF q = e.session THEN d \in e.debts ELSE Owes(t, q, d)
      BY <1>1, <1>2, AppendOwes
    <3>3. all = Append(t, e)
      BY <2>2
    <3> HIDE DEF all
    <3> QED BY <1>1, <1>2, <3>1, <3>2, <3>3
  <2> QED BY <2>1, <2>2
<1> HIDE DEF all, t, e
<1>5. CASE Len(all) <= MaxOwed
  <2>1. owed' = all /\ dropped' = dropped
    BY <1>3, <1>5
  <2> QED BY <1>4, <2>1 DEF Leaves
<1>6. CASE ~(Len(all) <= MaxOwed)
  <2> DEFINE h == all[1].session
  <2>1. owed' = Tail(all)
        /\ dropped' = dropped \cup {Lane(all[1].session, d.lane) : d \in all[1].debts}
    BY <1>3, <1>6
  <2>2. all # <<>>
    BY <1>4, <1>6, EffectsAssumption
  <2>3. /\ OneEach(Tail(all))
        /\ \A q, d : q # h => (Owes(Tail(all), q, d) <=> Owes(all, q, d))
        /\ \A d : ~Owes(Tail(all), h, d)
        /\ \A d : Owes(all, h, d) <=> d \in all[1].debts
    BY <1>4, <2>2, TailOwes
  <2>4. \A d : Owes(all, h, d) => Lane(h, d.lane) \in dropped'
    BY <2>1, <2>3
  <2>5. ASSUME NEW q \in Sessions, NEW d \in DebtSet
        PROVE  LET owes == IF q = s THEN d \in D ELSE Owes(owed, q, d)
               IN  /\ Owes(owed', q, d) => owes
                   /\ owes => Owes(owed', q, d) \/ Lane(q, d.lane) \in dropped'
    <3>0. Owes(all, q, d) <=> IF q = s THEN d \in D ELSE Owes(owed, q, d)
      BY <1>4
    <3>1. CASE q = h
      BY <2>1, <2>3, <2>4, <3>0, <3>1
    <3>2. CASE q # h
      BY <2>1, <2>3, <3>0, <3>2
    <3> QED BY <3>1, <3>2
  <2>6. dropped \subseteq dropped'
    BY <2>1
  <2> QED BY <2>1, <2>3, <2>5, <2>6 DEF Leaves
<1> QED BY <1>5, <1>6

-----------------------------------------------------------------------------
(* Where a lane is heading.                                                *)

Word(v) == IF v THEN "on" ELSE "off"

SetupsIn(P, k) == {r \in P : r.kind = "setup" /\ r.key = k}

\* The last of a lane's setups brings it to v; or none is left, and the last to
\* end left it at v, or failed.
Heads(P, k, at, v) ==
    /\ SetupsIn(P, k) = {} => at \in {"unknown", Word(v)}
    /\ \A r \in SetupsIn(P, k) : (\A q \in SetupsIn(P, k) : q.id <= r.id) => r.on = v

\* A setup that is performed is the first of its lane's.
Handed(P) ==
    \A p, q \in P : p.acting /\ p.kind = "setup" /\ q.kind = "setup" /\ q.key = p.key
                    => p.id <= q.id

Like(p, q) == p.id = q.id /\ p.kind = q.kind /\ p.key = q.key /\ p.on = q.on

SameSetups(P, Q) ==
    /\ \A q \in Q : q.kind = "setup" => \E p \in P : Like(p, q)
    /\ \A p \in P : p.kind = "setup" => \E q \in Q : Like(p, q)

\* Where a lane is heading depends on its setups' places alone.
LEMMA SameSetupsHead ==
    ASSUME NEW P, NEW Q, SameSetups(P, Q), NEW k, NEW at, NEW v, Heads(P, k, at, v)
    PROVE  Heads(Q, k, at, v)
<1>1. \A q \in SetupsIn(Q, k) : \E p \in SetupsIn(P, k) : Like(p, q)
  BY DEF SameSetups, SetupsIn, Like
<1>2. \A p \in SetupsIn(P, k) : \E q \in SetupsIn(Q, k) : Like(p, q)
  BY DEF SameSetups, SetupsIn, Like
<1>3. SetupsIn(Q, k) = {} => at \in {"unknown", Word(v)}
  BY <1>2 DEF Heads
<1>4. ASSUME NEW r \in SetupsIn(Q, k), \A q \in SetupsIn(Q, k) : q.id <= r.id
      PROVE  r.on = v
  <2>1. PICK p \in SetupsIn(P, k) : Like(p, r)
    BY <1>1
  <2>2. \A q \in SetupsIn(P, k) : q.id <= p.id
    BY <1>2, <1>4, <2>1 DEF Like
  <2> QED BY <2>1, <2>2 DEF Heads, Like
<1> QED BY <1>3, <1>4 DEF Heads

\* A lane's first setup ends: what comes after it says where the lane is heading,
\* or else what it came to does.
LEMMA RemovalHeads ==
    ASSUME NEW P, NEW r \in P, r.kind = "setup", NEW at, NEW v, Heads(P, r.key, at, v),
           \A q \in P : q.kind = "setup" /\ q.key = r.key => r.id <= q.id,
           \A q \in P : q.id \in Nat,
           NEW to \in {"unknown", Word(r.on)}
    PROVE  Heads(P \ {r}, r.key, to, v)
<1> DEFINE k == r.key
           A == SetupsIn(P, k)
           B == SetupsIn(P \ {r}, k)
<1>1. A = B \cup {r} /\ r \in A
  BY DEF SetupsIn
<1>2. \A q \in A : r.id <= q.id /\ q.id \in Nat
  BY DEF SetupsIn
<1>3. B = {} => to \in {"unknown", Word(v)}
  <2> SUFFICES ASSUME B = {}
               PROVE  to \in {"unknown", Word(v)}
    OBVIOUS
  <2>1. \A q \in A : q.id <= r.id
    BY <1>1, <1>2
  <2>2. r.on = v
    BY <1>1, <2>1 DEF Heads
  <2> QED BY <2>2
<1>4. ASSUME NEW x \in B, \A q \in B : q.id <= x.id
      PROVE  x.on = v
  <2>1. x \in A /\ \A q \in A : q.id <= x.id
    BY <1>1, <1>2, <1>4
  <2> QED BY <2>1 DEF Heads
<1> QED BY <1>3, <1>4 DEF Heads

\* Other lanes are heading where they were.
LEMMA OthersHead ==
    ASSUME NEW P, NEW r \in P, NEW k, r.kind = "setup" => r.key # k,
           NEW at, NEW v, Heads(P, k, at, v)
    PROVE  Heads(P \ {r}, k, at, v)
<1>1. SetupsIn(P \ {r}, k) = SetupsIn(P, k)
  BY DEF SetupsIn
<1> QED BY <1>1 DEF Heads

\* New setups of a lane, taken after those there are, say where it is heading.
LEMMA NewSetupsHead ==
    ASSUME NEW P, NEW N, NEW k, NEW at, NEW v,
           \A p \in P, n \in N : p.id \in Nat /\ n.id \in Nat /\ p.id < n.id,
           SetupsIn(N, k) # {}, \A n \in SetupsIn(N, k) : n.on = v
    PROVE  Heads(P \cup N, k, at, v)
<1> DEFINE A == SetupsIn(P \cup N, k)
<1>1. PICK n \in SetupsIn(N, k) : TRUE
  OBVIOUS
<1>2. n \in A /\ n \in N
  BY DEF SetupsIn
<1>3. ASSUME NEW r \in A, \A q \in A : q.id <= r.id
      PROVE  r.on = v
  <2>1. r \notin P
    <3> SUFFICES ASSUME r \in P
                 PROVE  FALSE
      OBVIOUS
    <3>1. r.id \in Nat /\ n.id \in Nat /\ r.id < n.id
      BY <1>2
    <3>2. n.id <= r.id
      BY <1>2, <1>3
    <3> QED BY <3>1, <3>2
  <2>2. r \in SetupsIn(N, k)
    BY <2>1 DEF SetupsIn
  <2> QED BY <2>2
<1> QED BY <1>2, <1>3 DEF Heads

LEMMA NoNewSetupsHead ==
    ASSUME NEW P, NEW N, NEW k, NEW at, NEW v, SetupsIn(N, k) = {}, Heads(P, k, at, v)
    PROVE  Heads(P \cup N, k, at, v)
<1>1. SetupsIn(P \cup N, k) = SetupsIn(P, k)
  BY DEF SetupsIn
<1> QED BY <1>1 DEF Heads

\* Where the model says a lane is heading, it is.
LEMMA HeadingIs ==
    ASSUME Orderly(places), NEW k, NEW at, NEW v, Heads(places, k, at, v)
    PROVE  Heading(k, at) \in {"unknown", Word(v)}
<1> DEFINE A == {r \in places : r.kind = "setup" /\ r.key = k}
           last == CHOOSE r \in A : \A q \in A : q.id <= r.id
<1>0. A = SetupsIn(places, k)
  BY DEF SetupsIn
<1>1. CASE A = {}
  BY <1>0, <1>1 DEF Heading, Heads
<1>2. CASE A # {}
  <2> DEFINE f == [r \in A |-> r.id]
             S == {f[r] : r \in A}
  <2>1. \A r \in A : r.id \in Nat
    BY DEF Orderly, Sorted, Places
  <2>2. IsFiniteSet(A)
    BY FS_Subset DEF Orderly
  <2>3. DOMAIN f = A /\ S \in SUBSET Nat /\ S # {}
    BY <1>2, <2>1
  <2>4. IsFiniteSet(S)
    <3> HIDE DEF f, A
    <3> QED BY <2>2, <2>3, ImageIsFinite
  <2>5. Max(S) \in S /\ \A n \in S : n <= Max(S)
    BY <2>3, <2>4, NatMax
  <2>6. PICK r \in A : r.id = Max(S)
    BY <2>5
  <2>7. \A q \in A : q.id <= r.id
    BY <2>5, <2>6
  <2>8. last \in A /\ \A q \in A : q.id <= last.id
    BY <2>7
  <2>9. Heading(k, at) = Word(last.on)
    BY <1>2 DEF Heading, Word
  <2> HIDE DEF last, A
  <2>10. last.on = v
    BY <1>0, <2>8 DEF Heads
  <2> QED BY <2>9, <2>10
<1> QED BY <1>1, <1>2

-----------------------------------------------------------------------------
(* What a run of a place does to the lanes.                                *)

DebtsOf(o, s) == {d \in DebtSet : Owes(o, s, d)}

Single(D) == \A d, e \in D : d.lane = e.lane => d = e

\* A lane is to be at v until what is owed is settled: where it stood before the
\* moves that are owed, or where its switch is.
Stands(D, now, l, v) ==
    /\ \A d \in D : d.lane = l => d.from = v
    /\ (\A d \in D : d.lane # l) => now[l] = v

LanesHead ==
    \A s \in Sessions, l \in Lanes, v \in BOOLEAN :
        Lane(s, l) \notin dropped /\ Stands(DebtsOf(owed, s), switch[s], l, v)
        => Heads(places, Lane(s, l), brought[s][l], v)

LaneInv ==
    /\ OneEach(owed) /\ \A s \in Sessions : Single(DebtsOf(owed, s))
    /\ Handed(places)
    /\ LanesHead

\* What a place that is let go leaves.
LEMMA LetGoLeaves ==
    ASSUME Orderly(places), NEW r \in places, NEW out \in Outcomes, LetGo(r, out)
    PROVE  /\ \A q \in places' : \E p \in places \ {r} : Like(p, q) /\ p.acting = q.acting
           /\ \A p \in places \ {r} : \E q \in places' : Like(p, q)
<1> DEFINE told(q) == IF q.id = r.host THEN [q EXCEPT !.step = out] ELSE q
<1>1. places' = {told(q) : q \in places \ {r}}
  BY DEF LetGo
<1>2. \A q \in places : Like(q, told(q)) /\ q.acting = told(q).acting
  BY DEF Orderly, Sorted, Places, Like
<1> HIDE DEF told
<1> QED BY <1>1, <1>2

LEMMA LetGoKeepsLanes ==
    ASSUME Orderly(places), Handed(places), NEW r \in places, NEW out \in Outcomes,
           LetGo(r, out)
    PROVE  /\ SameSetups(places \ {r}, places')
           /\ r.kind # "setup" => SameSetups(places, places')
           /\ Handed(places')
<1>1. /\ \A q \in places' : \E p \in places \ {r} : Like(p, q) /\ p.acting = q.acting
      /\ \A p \in places \ {r} : \E q \in places' : Like(p, q)
  BY LetGoLeaves
<1>2. SameSetups(places \ {r}, places')
  BY <1>1 DEF SameSetups
<1>3. r.kind # "setup" => SameSetups(places, places')
  BY <1>1 DEF SameSetups
<1>4. Handed(places')
  BY <1>1 DEF Handed, Like
<1> QED BY <1>2, <1>3, <1>4

LEMMA BeginKeepsLanes ==
    ASSUME Orderly(places), Handed(places), NEW r \in places, Reached(r), Begin(r)
    PROVE  SameSetups(places, places') /\ Handed(places')
<1> DEFINE b == [r EXCEPT !.acting = TRUE]
<1>1. Like(r, b) /\ \A p \in places : Like(p, p)
  BY DEF Orderly, Sorted, Places, Like
<1>2. places' = (places \ {r}) \cup {b}
  BY DEF Begin
<1>3. \A q \in places : q.key = r.key => q.id >= r.id
  BY DEF Reached, First
<1>4. \A q \in places : q.id \in Nat
  BY DEF Orderly, Sorted, Places
<1> HIDE DEF b
<1>5. SameSetups(places, places')
  BY <1>1, <1>2 DEF SameSetups
<1>6. ASSUME NEW p \in places', NEW q \in places', p.acting, p.kind = "setup",
             q.kind = "setup", q.key = p.key
      PROVE  p.id <= q.id
  <2>1. PICK y \in places : Like(y, q)
    BY <1>1, <1>2
  <2>2. CASE p = b
    BY <1>1, <1>3, <1>4, <1>6, <2>1, <2>2 DEF Like
  <2>3. CASE p # b
    BY <1>2, <1>6, <2>1, <2>3 DEF Handed, Like
  <2> QED BY <2>2, <2>3
<1> QED BY <1>5, <1>6 DEF Handed

LEMMA TakeInsideKeepsLanes ==
    ASSUME Orderly(places), Handed(places), NEW r \in places,
           NEW kind, kind # "setup", NEW key, NEW held \in Places, Like(r, held),
           r.kind = "setup" => held.acting = r.acting, TakeInside(r, held, kind, key)
    PROVE  SameSetups(places, places') /\ Handed(places')
<1> DEFINE new == [Place(kind, r.session, key) EXCEPT !.id = LastId + 1, !.host = r.id]
<1>1. new.kind = kind
  BY DEF Place
<1>2. places' = (places \ {r}) \cup {held, new}
  BY DEF TakeInside
<1> HIDE DEF new
<1>3. \A p \in places : Like(p, p)
  BY DEF Like
<1>4. SameSetups(places, places')
  BY <1>1, <1>2, <1>3 DEF SameSetups
<1>5. \A q \in places' : q.kind = "setup" =>
         \E p \in places : Like(p, q) /\ p.acting = q.acting
  BY <1>1, <1>2, <1>3 DEF Like
<1>6. Handed(places')
  BY <1>5 DEF Handed, Like
<1> QED BY <1>4, <1>6

\* Where the setups are the same, so is where the lanes are heading.
LEMMA SameSetupsKeepLanes ==
    ASSUME LaneInv, SameSetups(places, places'), Handed(places'),
           UNCHANGED <<switch, owed, brought, dropped>>
    PROVE  LaneInv'
<1>1. \A k, at, v : Heads(places, k, at, v) => Heads(places', k, at, v)
  BY SameSetupsHead
<1>2. LanesHead'
  BY <1>1 DEF LaneInv, LanesHead
<1>3. OneEach(owed') /\ \A s \in Sessions : Single(DebtsOf(owed', s))
  BY DEF LaneInv
<1> QED BY <1>2, <1>3 DEF LaneInv

\* A setup ends: its lane is where it came to.
LEMMA SetupEndsKeepLanes ==
    ASSUME IInv, LaneInv, NEW r \in places, r.kind = "setup",
           \A q \in places : q.kind = "setup" /\ q.key = r.key => r.id <= q.id,
           NEW out \in Outcomes, LetGo(r, out),
           NEW at \in {"unknown", Word(r.on)}, Left(r, at), UNCHANGED <<switch, owed, dropped>>
    PROVE  LaneInv'
<1>0. Orderly(places) /\ Handed(places)
  BY DEF IInv, LaneInv
<1>1. r.key \in LaneKeys /\ r.key[2] = r.session
  BY <1>0 DEF Orderly, Sorted, OwnLane
<1>2. PICK l \in Lanes : r.key = Lane(r.session, l) /\ r.key[3] = l
  BY <1>1 DEF LaneKeys, Lane
<1>3. r.session \in Sessions
  BY <1>0 DEF Orderly, Sorted, Places
<1>4. \A q \in places : q.id \in Nat
  BY <1>0 DEF Orderly, Sorted, Places
<1>5. SameSetups(places \ {r}, places') /\ Handed(places')
  BY <1>0, LetGoKeepsLanes
<1>6. brought' = [brought EXCEPT ![r.session][l] = at]
  BY <1>2 DEF Left
<1>7. brought \in [Sessions -> [Lanes -> {"on", "off", "unknown"}]]
  BY DEF IInv, TypeOK
<1>8. ASSUME NEW s \in Sessions, NEW m \in Lanes, NEW v \in BOOLEAN,
             Lane(s, m) \notin dropped', Stands(DebtsOf(owed', s), switch'[s], m, v)
      PROVE  Heads(places', Lane(s, m), brought'[s][m], v)
  <2>1. Heads(places, Lane(s, m), brought[s][m], v)
    BY <1>8 DEF LaneInv, LanesHead
  <2>2. CASE s = r.session /\ m = l
    <3>1. Lane(s, m) = r.key /\ brought'[s][m] = at
      BY <1>2, <1>3, <1>6, <1>7, <2>2
    <3>2. Heads(places \ {r}, Lane(s, m), at, v)
      BY <1>4, <2>1, <3>1, RemovalHeads
    <3> QED BY <1>5, <3>1, <3>2, SameSetupsHead
  <2>3. CASE ~(s = r.session /\ m = l)
    <3>1. Lane(s, m) # r.key
      BY <1>2, <2>3 DEF Lane
    <3>2. brought'[s][m] = brought[s][m]
      BY <1>3, <1>6, <1>7, <2>3
    <3>3. Heads(places \ {r}, Lane(s, m), brought[s][m], v)
      BY <2>1, <3>1, OthersHead
    <3> QED BY <1>5, <3>2, <3>3, SameSetupsHead
  <2> QED BY <2>2, <2>3
<1>9. OneEach(owed') /\ \A s \in Sessions : Single(DebtsOf(owed', s))
  BY DEF LaneInv
<1>10. LanesHead'
  BY <1>8 DEF LanesHead
<1> QED BY <1>5, <1>9, <1>10 DEF LaneInv

LEMMA RunKeepsLanes ==
    ASSUME IInv, LaneInv, NEW r \in places, Runs(r)
    PROVE  LaneInv'
<1>0. Orderly(places) /\ Handed(places)
  BY DEF IInv, LaneInv
<1>1. r \in Places /\ \A q \in places : q.id \in Nat
  BY <1>0 DEF Orderly, Sorted, Places
<1>2. {"ok", "failed", "outside", "moved"} \subseteq Outcomes
  BY DEF Outcomes
<1>3. [r EXCEPT !.acting = TRUE] \in Places /\ Like(r, [r EXCEPT !.acting = TRUE])
      /\ Like(r, r)
  BY <1>1 DEF Places, Like
<1>4. CASE Act(r)
  <2>1. SameSetups(places, places') /\ Handed(places')
    BY <1>0, <1>2, <1>4, BeginKeepsLanes, LetGoKeepsLanes DEF Act
  <2> QED BY <1>4, <2>1, SameSetupsKeepLanes DEF Act, Unsaid
<1>5. CASE Doctor(r)
  <2>1. r.kind = "doctor" /\ TakeInside(r, [r EXCEPT !.acting = TRUE], "gather", Gathers)
    BY <1>5 DEF Doctor
  <2>2. SameSetups(places, places') /\ Handed(places')
    BY <1>0, <1>3, <2>1, TakeInsideKeepsLanes
  <2> QED BY <1>5, <2>2, SameSetupsKeepLanes DEF Doctor, Unsaid
<1>6. CASE Gather(r)
  <2>1. SameSetups(places, places') /\ Handed(places')
    BY <1>0, <1>2, <1>6, BeginKeepsLanes, LetGoKeepsLanes DEF Gather
  <2> QED BY <1>6, <2>1, SameSetupsKeepLanes DEF Gather, Unsaid
<1>7. CASE TakePane(r)
  <2>1. TakeInside(r, r, "step", Pane(latest[r.session]))
    BY <1>7 DEF TakePane
  <2>2. SameSetups(places, places') /\ Handed(places')
    BY <1>0, <1>1, <1>3, <2>1, TakeInsideKeepsLanes
  <2> QED BY <1>7, <2>2, SameSetupsKeepLanes DEF TakePane, Unsaid
<1>8. CASE Step(r)
  <2>1. Found(r) \in Outcomes
    BY DEF Found, Outcomes
  <2>2. SameSetups(places, places') /\ Handed(places')
    BY <1>0, <1>8, <2>1, BeginKeepsLanes, LetGoKeepsLanes DEF Step
  <2> QED BY <1>8, <2>2, SameSetupsKeepLanes DEF Step, Unsaid
<1>9. CASE End(r)
  <2>1. SameSetups(places, places') /\ Handed(places')
    BY <1>0, <1>2, <1>9, LetGoKeepsLanes DEF End
  <2> QED BY <1>9, <2>1, SameSetupsKeepLanes DEF End, Unsaid
<1>10. CASE Setup(r)
  <2>1. r.kind = "setup" /\ Reached(r) /\ UNCHANGED <<switch, owed, dropped>>
    BY <1>10 DEF Setup, Unsaid
  <2>2. CASE Begin(r) /\ UNCHANGED brought
    <3>1. SameSetups(places, places') /\ Handed(places')
      BY <1>0, <2>1, <2>2, BeginKeepsLanes
    <3> QED BY <2>1, <2>2, <3>1, SameSetupsKeepLanes
  <2>3. CASE LetGo(r, "failed") /\ Left(r, "unknown")
    <3>1. \A q \in places : q.kind = "setup" /\ q.key = r.key => r.id <= q.id
      BY <1>1, <2>1 DEF Reached, First
    <3> QED BY <1>2, <2>1, <2>3, <3>1, SetupEndsKeepLanes
  <2> QED BY <1>10, <2>2, <2>3 DEF Setup
<1>11. CASE EndSetup(r)
  <2>1. r.kind = "setup" /\ r.acting /\ UNCHANGED <<switch, owed, dropped>>
    BY <1>11 DEF EndSetup, Unsaid
  <2>2. PICK out \in Ends(r) :
           /\ LetGo(r, out)
           /\ Left(r, IF out = "failed" THEN "unknown" ELSE IF r.on THEN "on" ELSE "off")
    BY <1>11 DEF EndSetup
  <2>3. out \in Outcomes
    BY <1>1, <2>2 DEF Ends, Outcomes, Places
  <2>4. \A q \in places : q.kind = "setup" /\ q.key = r.key => r.id <= q.id
    BY <1>0, <2>1 DEF Handed
  <2>5. PICK at \in {"unknown", Word(r.on)} : Left(r, at)
    BY <2>2 DEF Word
  <2> QED BY <2>1, <2>2, <2>3, <2>4, <2>5, SetupEndsKeepLanes
<1> QED BY <1>4, <1>5, <1>6, <1>7, <1>8, <1>9, <1>10, <1>11 DEF Runs

-----------------------------------------------------------------------------
(* What a turn does to the lanes.                                          *)

\* What an event describes are effects that move no lane, and one setup for each
\* of the debts that are moved.
Describes(c, s, D, now) ==
    /\ c \in Seq(Wanted)
    /\ \A i \in DOMAIN c : c[i].kind = "setup" =>
          \E d \in Moved(D, now) : c[i] = SetupOf(s, d, now)
    /\ \A d \in Moved(D, now) : \E i \in DOMAIN c : c[i] = SetupOf(s, d, now)

LEMMA SettledDescribes ==
    ASSUME NEW s \in Sessions, NEW D, D \subseteq DebtSet, NEW now \in [Lanes -> BOOLEAN]
    PROVE  Describes(Settled(s, D, now), s, D, now)
<1> DEFINE c == Settled(s, D, now)
<1> HIDE DEF c
<1>1. /\ c \in Seq(Wanted)
      /\ \A i \in DOMAIN c : \E d \in Moved(D, now) : c[i] = SetupOf(s, d, now)
      /\ \A d \in Moved(D, now) : \E i \in DOMAIN c : c[i] = SetupOf(s, d, now)
  BY SettledIsWanted, ZenonT(60) DEF c
<1>2. Describes(c, s, D, now)
  BY <1>1 DEF Describes
<1> QED BY <1>2 DEF c

LEMMA OffersDescribe ==
    ASSUME NEW s \in Sessions, NEW offer \in Seq(Kinds),
           "slash" \in Range(offer) => latest[s] \in Panes, NEW now
    PROVE  /\ Describes(Described(s, offer), s, {}, now)
           /\ \A i \in DOMAIN Described(s, offer) : Described(s, offer)[i].kind # "setup"
<1>1. Described(s, offer) \in Seq(Wanted)
  BY DescribedIsWanted
<1>2. ASSUME NEW i \in DOMAIN Described(s, offer)
      PROVE  Described(s, offer)[i].kind # "setup"
  <2>1. i \in DOMAIN offer /\ Described(s, offer)[i] = Place(offer[i], s, PlaceOf(offer[i], s))
    BY <1>2 DEF Described
  <2>2. offer[i] \in Kinds
    BY <2>1
  <2> DEFINE k == offer[i]
             p == PlaceOf(k, s)
  <2> HIDE DEF k, p
  <2>3. Place(k, s, p).kind = k
    BY DEF Place
  <2> QED BY <2>1, <2>2, <2>3 DEF Kinds, k, p
<1>3. Moved({}, now) = {}
  BY DEF Moved
<1> QED BY <1>1, <1>2, <1>3 DEF Describes

\* Of two sequences one after another, each member is of one of them.
Joined(c, a, b) ==
    /\ \A i \in DOMAIN c : \/ \E j \in DOMAIN a : c[i] = a[j]
                           \/ \E j \in DOMAIN b : c[i] = b[j]
    /\ \A j \in DOMAIN b : \E i \in DOMAIN c : c[i] = b[j]

LEMMA JoinIs ==
    ASSUME NEW a \in Seq(Wanted), NEW b \in Seq(Wanted)
    PROVE  Joined(a \o b, a, b)
<1> DEFINE m == Len(a)
           n == Len(b)
           c == a \o b
<1>1. m \in Nat /\ n \in Nat /\ DOMAIN a = 1..m /\ DOMAIN b = 1..n /\ DOMAIN c = 1..(m + n)
  OBVIOUS
<1>2. \A i \in 1..(m + n) : c[i] = IF i <= m THEN a[i] ELSE b[i - m]
  OBVIOUS
<1> HIDE DEF m, n, c
<1>3. ASSUME NEW i \in 1..(m + n)
      PROVE  (\E j \in 1..m : c[i] = a[j]) \/ (\E j \in 1..n : c[i] = b[j])
  <2>1. CASE i <= m
    <3>1. i \in 1..m
      BY <1>1, <2>1
    <3> QED BY <1>2, <2>1, <3>1
  <2>2. CASE ~(i <= m)
    <3>1. i - m \in 1..n
      BY <1>1, <2>2
    <3> QED BY <1>2, <2>2, <3>1
  <2> QED BY <2>1, <2>2
<1>4. ASSUME NEW j \in 1..n
      PROVE  \E i \in 1..(m + n) : c[i] = b[j]
  <2>1. m + j \in 1..(m + n) /\ ~(m + j <= m) /\ (m + j) - m = j
    BY <1>1
  <2> QED BY <1>2, <2>1
<1>5. DOMAIN a = 1..m /\ DOMAIN b = 1..n /\ DOMAIN c = 1..(m + n)
  BY <1>1
<1>6. \A i \in DOMAIN c : \/ \E j \in DOMAIN a : c[i] = a[j]
                          \/ \E j \in DOMAIN b : c[i] = b[j]
  BY <1>3, <1>5
<1>7. \A j \in DOMAIN b : \E i \in DOMAIN c : c[i] = b[j]
  BY <1>4, <1>5
<1>8. Joined(c, a, b)
  BY <1>6, <1>7 DEF Joined
<1> QED BY <1>8 DEF c

LEMMA JoinDescribes ==
    ASSUME NEW s, NEW D, NEW now, NEW a \in Seq(Wanted),
           \A i \in DOMAIN a : a[i].kind # "setup",
           NEW b, Describes(b, s, D, now)
    PROVE  Describes(a \o b, s, D, now)
<1>1. b \in Seq(Wanted)
  BY DEF Describes
<1> DEFINE c == a \o b
<1>2. c \in Seq(Wanted)
  BY <1>1, WantedJoin
<1>3. Joined(c, a, b)
  BY <1>1, JoinIs
<1> HIDE DEF c
<1>4. \A i \in DOMAIN c : c[i].kind = "setup" =>
          \E d \in Moved(D, now) : c[i] = SetupOf(s, d, now)
  BY <1>3 DEF Describes, Joined
<1>5. \A d \in Moved(D, now) : \E i \in DOMAIN c : c[i] = SetupOf(s, d, now)
  <2> SUFFICES ASSUME NEW d \in Moved(D, now)
               PROVE  \E i \in DOMAIN c : c[i] = SetupOf(s, d, now)
    OBVIOUS
  <2>1. PICK j \in DOMAIN b : b[j] = SetupOf(s, d, now)
    BY DEF Describes
  <2> QED BY <1>3, <2>1 DEF Joined
<1> QED BY <1>2, <1>4, <1>5 DEF Describes, c

\* The setup places an event takes.
NewSetups(s, D, now, N) ==
    /\ \A n \in N : ~n.acting
    /\ \A n \in N : n.kind = "setup" => n.session = s /\
          \E d \in Moved(D, now) : n.key = Lane(s, d.lane) /\ n.on = now[d.lane]
    /\ \A d \in Moved(D, now) :
          \E n \in N : n.kind = "setup" /\ n.key = Lane(s, d.lane) /\ n.on = now[d.lane]

LEMMA EventSetups ==
    ASSUME Orderly(places), NEW s, NEW D, NEW now, NEW c, Describes(c, s, D, now)
    PROVE  NewSetups(s, D, now, InOrder(c))
<1>1. LastId \in Nat /\ c \in Seq(Wanted)
  BY LastIdIsLast DEF Describes
<1>2. ASSUME NEW i \in DOMAIN c
      PROVE  /\ InTurn(c, i).kind = c[i].kind /\ InTurn(c, i).key = c[i].key
             /\ InTurn(c, i).session = c[i].session /\ InTurn(c, i).on = c[i].on
             /\ ~InTurn(c, i).acting
  <2> DEFINE p == InTurn(c, i)
  <2>1. /\ p.kind = c[i].kind /\ p.key = c[i].key
        /\ p.session = c[i].session /\ p.on = c[i].on /\ p.acting = FALSE
    BY <1>1, TurnsArePlaces
  <2> QED BY <2>1
<1>3. \A d : /\ SetupOf(s, d, now).kind = "setup" /\ SetupOf(s, d, now).session = s
             /\ SetupOf(s, d, now).key = Lane(s, d.lane) /\ SetupOf(s, d, now).on = now[d.lane]
  BY SetupIs
<1>4. InOrder(c) = {InTurn(c, i) : i \in DOMAIN c}
  BY DEF InOrder
<1>5. \A n \in InOrder(c) : ~n.acting
  BY <1>2, <1>4
<1>6. ASSUME NEW i \in DOMAIN c, InTurn(c, i).kind = "setup"
      PROVE  /\ InTurn(c, i).session = s
             /\ \E d \in Moved(D, now) : /\ InTurn(c, i).key = Lane(s, d.lane)
                                         /\ InTurn(c, i).on = now[d.lane]
  <2>1. c[i].kind = "setup"
    BY <1>2, <1>6
  <2>2. PICK d \in Moved(D, now) : c[i] = SetupOf(s, d, now)
    BY <2>1 DEF Describes
  <2> QED BY <1>2, <1>3, <2>2
<1>7. ASSUME NEW d \in Moved(D, now)
      PROVE  \E i \in DOMAIN c : /\ InTurn(c, i).kind = "setup"
                                 /\ InTurn(c, i).key = Lane(s, d.lane)
                                 /\ InTurn(c, i).on = now[d.lane]
  <2>1. PICK i \in DOMAIN c : c[i] = SetupOf(s, d, now)
    BY DEF Describes
  <2> QED BY <1>2, <1>3, <2>1
<1> QED BY <1>4, <1>5, <1>6, <1>7 DEF NewSetups

\* The debts D, settled by now, say of each lane what the session's own do.
Tells(s, D, now) ==
    \A l \in Lanes : \E v \in BOOLEAN :
        Stands(DebtsOf(owed, s), switch[s], l, v) /\ Stands(D, now, l, v)

LEMMA OwedTells ==
    ASSUME IInv, LaneInv, NEW s \in Sessions
    PROVE  Tells(s, OwedTo(s), switch[s])
<1>1. owed \in Seq(OwedSet)
  BY DEF IInv, TypeOK, OwedSet, DebtSet
<1>2. OwedTo(s) = DebtsOf(owed, s)
  BY <1>1, OwedIsDebts, OwedToIsOwes DEF DebtsOf
<1> DEFINE D == DebtsOf(owed, s)
           now == switch[s]
<1>3. Single(D) /\ D \subseteq DebtSet /\ now \in [Lanes -> BOOLEAN]
  BY DEF LaneInv, DebtsOf, IInv, TypeOK
<1>4. ASSUME NEW l \in Lanes
      PROVE  \E v \in BOOLEAN : Stands(D, now, l, v)
  <2> HIDE DEF D, now
  <2>1. CASE \E d \in D : d.lane = l
    <3>1. PICK d \in D : d.lane = l
      BY <2>1
    <3>2. d.from \in BOOLEAN
      BY <1>3 DEF DebtSet
    <3>3. Stands(D, now, l, d.from)
      BY <1>3, <3>1 DEF Stands, Single
    <3> QED BY <3>2, <3>3
  <2>2. CASE ~\E d \in D : d.lane = l
    <3>1. now[l] \in BOOLEAN
      BY <1>3
    <3>2. Stands(D, now, l, now[l])
      BY <2>2 DEF Stands
    <3> QED BY <3>1, <3>2
  <2> QED BY <2>1, <2>2
<1> QED BY <1>2, <1>4 DEF Tells

\* A click's debts tell where its lanes stood, and its switches where the others do.
LEMMA DebtsTell ==
    ASSUME IInv, LaneInv, NEW s \in Sessions, NEW toggled \in SUBSET Lanes
    PROVE  Tells(s, Debts(s, toggled), [l \in Lanes |-> switch[s][l] # (l \in toggled)])
<1> DEFINE E == DebtsOf(owed, s)
           D == Debts(s, toggled)
           was == switch[s]
           now == [l \in Lanes |-> switch[s][l] # (l \in toggled)]
<1>1. owed \in Seq(OwedSet) /\ was \in [Lanes -> BOOLEAN]
  BY DEF IInv, TypeOK, OwedSet, DebtSet
<1>2. OwedTo(s) = E
  BY <1>1, OwedIsDebts, OwedToIsOwes DEF DebtsOf
<1>3. D = E \cup {[lane |-> l, from |-> was[l]] : l \in toggled \ {d.lane : d \in E}}
  BY <1>2 DEF Debts
<1>4. \A l \in Lanes : l \notin toggled => now[l] = was[l]
  BY <1>1
<1>5. Tells(s, E, was)
  BY <1>2, OwedTells
<1> HIDE DEF E, D, was, now
<1>6. ASSUME NEW l \in Lanes, NEW v \in BOOLEAN, Stands(E, was, l, v)
      PROVE  Stands(D, now, l, v)
  <2>1. CASE \E d \in E : d.lane = l
    <3>1. \A d \in D : d.lane = l => d \in E
      BY <1>3, <2>1
    <3>2. \E d \in D : d.lane = l
      BY <1>3, <2>1
    <3> QED BY <1>6, <3>1, <3>2 DEF Stands
  <2>2. CASE ~\E d \in E : d.lane = l
    <3>1. was[l] = v
      BY <1>6, <2>2 DEF Stands
    <3>2. \A d \in D : d.lane = l => d.from = was[l]
      BY <1>3, <2>2
    <3>3. l \in toggled => \E d \in D : d.lane = l
      <4> SUFFICES ASSUME l \in toggled
                   PROVE  \E d \in D : d.lane = l
        OBVIOUS
      <4>1. [lane |-> l, from |-> was[l]] \in D
        BY <1>3, <2>2
      <4> QED BY <4>1
    <3> QED BY <1>4, <3>1, <3>2, <3>3 DEF Stands
  <2> QED BY <2>1, <2>2
<1>7. Tells(s, E, was) => Tells(s, D, now)
  BY <1>6 DEF Tells, E, was
<1> QED BY <1>5, <1>7 DEF D, now

\* A debt whose lane is where its switch stands says nothing.
LEMMA MovedStands ==
    ASSUME NEW D, NEW now, NEW l, NEW v, Stands(D, now, l, v)
    PROVE  Stands(Moved(D, now), now, l, v)
<1>1. CASE \E d \in Moved(D, now) : d.lane = l
  BY <1>1 DEF Stands, Moved
<1>2. CASE ~\E d \in Moved(D, now) : d.lane = l
  <2>1. now[l] = v
    BY <1>2 DEF Stands, Moved
  <2> QED BY <1>2, <2>1 DEF Stands
<1> QED BY <1>1, <1>2

LEMMA MovedTells ==
    ASSUME NEW s, NEW D, NEW now, Tells(s, D, now)
    PROVE  Tells(s, Moved(D, now), now)
  BY MovedStands DEF Tells

LEMMA TellsSingle ==
    ASSUME NEW s, NEW D, D \subseteq DebtSet, NEW now, Tells(s, D, now)
    PROVE  Single(D)
<1> SUFFICES ASSUME NEW d \in D, NEW e \in D, d.lane = e.lane
             PROVE  d = e
  BY DEF Single
<1>1. d.lane \in Lanes /\ d = [lane |-> d.lane, from |-> d.from]
      /\ e = [lane |-> e.lane, from |-> e.from]
  BY DEF DebtSet
<1>2. PICK v \in BOOLEAN : Stands(D, now, d.lane, v)
  BY <1>1 DEF Tells
<1>3. d.from = v /\ e.from = v
  BY <1>2 DEF Stands
<1> QED BY <1>1, <1>3

\* A turn of s that takes the places N and leaves D owed.
Turn(s, now, N, D) ==
    /\ places' = places \cup N
    /\ \A p \in places, n \in N : p.id \in Nat /\ n.id \in Nat /\ p.id < n.id
    /\ switch' = [switch EXCEPT ![s] = now]
    /\ OneEach(owed') /\ Leaves(s, D) /\ UNCHANGED brought

LEMMA PerformTakes ==
    ASSUME Orderly(places), NEW c \in Seq(Wanted), Perform(c)
    PROVE  /\ places' = places \cup InOrder(c)
           /\ \A p \in places, n \in InOrder(c) : p.id \in Nat /\ n.id \in Nat /\ p.id < n.id
<1>1. Grown(places, InOrder(c))
  BY EventIsOrderly
<1>2. \A p \in places : p.id \in Nat
  BY DEF Orderly, Sorted, Places
<1>3. \A n \in InOrder(c) : n.id \in Nat
  BY <1>1 DEF Grown, Orderly, Sorted, Places
<1>4. \A p \in places, n \in InOrder(c) : p.id < n.id
  BY <1>1 DEF Grown
<1> QED BY <1>2, <1>3, <1>4 DEF Perform

\* What is owed after a turn, of a lane whose debt is not dropped.
LEMMA LeavesStands ==
    ASSUME NEW s \in Sessions, NEW now, NEW N, NEW D, D \subseteq DebtSet, Turn(s, now, N, D),
           NEW q \in Sessions, NEW l, Lane(q, l) \notin dropped',
           NEW at, NEW v, Stands(DebtsOf(owed', q), at, l, v)
    PROVE  Stands(IF q = s THEN D ELSE DebtsOf(owed, q), at, l, v)
<1> DEFINE E == IF q = s THEN D ELSE DebtsOf(owed, q)
           F == DebtsOf(owed', q)
<1>1. \A d \in DebtSet : d.lane = l => (d \in F <=> d \in E)
  <2> SUFFICES ASSUME NEW d \in DebtSet, d.lane = l
               PROVE  d \in F <=> d \in E
    OBVIOUS
  <2>1. /\ Owes(owed', q, d) => IF q = s THEN d \in D ELSE Owes(owed, q, d)
        /\ (IF q = s THEN d \in D ELSE Owes(owed, q, d)) =>
              Owes(owed', q, d) \/ Lane(q, d.lane) \in dropped'
    BY DEF Turn, Leaves
  <2>2. d \in E <=> IF q = s THEN d \in D ELSE Owes(owed, q, d)
    BY DEF DebtsOf
  <2>3. d \in F <=> Owes(owed', q, d)
    BY DEF DebtsOf
  <2> QED BY <2>1, <2>2, <2>3
<1>2. E \subseteq DebtSet /\ F \subseteq DebtSet
  BY DEF DebtsOf
<1> HIDE DEF E, F
<1>3. Stands(F, at, l, v)
  BY DEF F
<1>4. Stands(E, at, l, v)
  BY <1>1, <1>2, <1>3 DEF Stands
<1> QED BY <1>4 DEF E

\* Who is owed, by whom, and which setup acts, after a turn.
LEMMA TurnKeepsOrder ==
    ASSUME IInv, LaneInv, NEW s \in Sessions, NEW now, NEW N, NEW D, D \subseteq DebtSet,
           Single(D), Turn(s, now, N, D), \A n \in N : ~n.acting
    PROVE  /\ OneEach(owed') /\ \A q \in Sessions : Single(DebtsOf(owed', q))
           /\ Handed(places')
<1>1. OneEach(owed')
  BY DEF Turn
<1>2. ASSUME NEW q \in Sessions
      PROVE  Single(DebtsOf(owed', q))
  <2>1. \A d \in DebtSet : Owes(owed', q, d) => IF q = s THEN d \in D ELSE Owes(owed, q, d)
    BY DEF Turn, Leaves
  <2>2. CASE q = s
    BY <2>1, <2>2 DEF DebtsOf, Single
  <2>3. CASE q # s
    <3>1. DebtsOf(owed', q) \subseteq DebtsOf(owed, q)
      BY <2>1, <2>3 DEF DebtsOf
    <3>2. Single(DebtsOf(owed, q))
      BY DEF LaneInv
    <3> QED BY <3>1, <3>2 DEF Single
  <2> QED BY <2>2, <2>3
<1>3. Handed(places')
  <2> SUFFICES ASSUME NEW p \in places', NEW q \in places', p.acting, p.kind = "setup",
                      q.kind = "setup", q.key = p.key
               PROVE  p.id <= q.id
    BY DEF Handed
  <2>1. places' = places \cup N
        /\ \A x \in places, n \in N : x.id \in Nat /\ n.id \in Nat /\ x.id < n.id
    BY DEF Turn
  <2>2. p \in places
    BY <2>1
  <2>3. CASE q \in places
    BY <2>2, <2>3 DEF LaneInv, Handed
  <2>4. CASE q \in N
    BY <2>1, <2>2, <2>4
  <2> QED BY <2>1, <2>3, <2>4
<1> QED BY <1>1, <1>2, <1>3

\* The turn of s moves no other session's lane.
LEMMA OthersKeepHeading ==
    ASSUME IInv, LaneInv, NEW s \in Sessions, NEW now, NEW N, NEW D, D \subseteq DebtSet,
           NEW A, NewSetups(s, A, now, N), Turn(s, now, N, D),
           NEW q \in Sessions, q # s, NEW l \in Lanes, NEW v \in BOOLEAN,
           Lane(q, l) \notin dropped', Stands(DebtsOf(owed', q), switch'[q], l, v)
    PROVE  Heads(places', Lane(q, l), brought'[q][l], v)
<1>1. Stands(DebtsOf(owed, q), switch'[q], l, v)
  BY LeavesStands
<1>2. switch'[q] = switch[q] /\ brought' = brought /\ places' = places \cup N
  BY DEF Turn, IInv, TypeOK
<1>3. Lane(q, l) \notin dropped
  BY DEF Turn, Leaves
<1>4. Heads(places, Lane(q, l), brought[q][l], v)
  BY <1>1, <1>2, <1>3 DEF LaneInv, LanesHead
<1>5. \A m : Lane(q, l) # Lane(s, m)
  BY DEF Lane
<1>6. SetupsIn(N, Lane(q, l)) = {}
  BY <1>5 DEF NewSetups, SetupsIn
<1> QED BY <1>2, <1>4, <1>6, NoNewSetupsHead

\* A turn that settles: each lane heads to where its switch is.
LEMMA SettlingKeepsLanes ==
    ASSUME IInv, LaneInv, NEW s \in Sessions, NEW now, NEW N, NEW D, D \subseteq DebtSet,
           Tells(s, D, now), NewSetups(s, D, now, N), Turn(s, now, N, {})
    PROVE  LaneInv'
<1>1. /\ OneEach(owed') /\ \A q \in Sessions : Single(DebtsOf(owed', q))
      /\ Handed(places')
  <2>1. Single({}) /\ {} \subseteq DebtSet
    BY DEF Single
  <2>2. \A n \in N : ~n.acting
    BY DEF NewSetups
  <2> QED BY <2>1, <2>2, TurnKeepsOrder
<1>2. ASSUME NEW l \in Lanes, NEW v \in BOOLEAN,
             Lane(s, l) \notin dropped', Stands(DebtsOf(owed', s), switch'[s], l, v)
      PROVE  Heads(places', Lane(s, l), brought'[s][l], v)
  <2>1. switch'[s] = now /\ brought' = brought /\ places' = places \cup N
    BY DEF Turn, IInv, TypeOK
  <2>2. Stands({}, now, l, v)
    BY <1>2, <2>1, LeavesStands
  <2>3. now[l] = v
    BY <2>2 DEF Stands
  <2>4. PICK w \in BOOLEAN : Stands(DebtsOf(owed, s), switch[s], l, w) /\ Stands(D, now, l, w)
    BY DEF Tells
  <2>5. Lane(s, l) \notin dropped
    BY <1>2 DEF Turn, Leaves
  <2>6. Heads(places, Lane(s, l), brought[s][l], w)
    BY <2>4, <2>5 DEF LaneInv, LanesHead
  <2>7. \A m : Lane(s, m) = Lane(s, l) => m = l
    BY DEF Lane
  <2>8. CASE \E d \in Moved(D, now) : d.lane = l
    <3>1. SetupsIn(N, Lane(s, l)) # {}
      BY <2>8 DEF NewSetups, SetupsIn
    <3>2. \A n \in SetupsIn(N, Lane(s, l)) : n.on = v
      BY <2>3, <2>7 DEF NewSetups, SetupsIn
    <3>3. \A p \in places, n \in N : p.id \in Nat /\ n.id \in Nat /\ p.id < n.id
      BY DEF Turn
    <3> QED BY <2>1, <3>1, <3>2, <3>3, NewSetupsHead
  <2>9. CASE ~\E d \in Moved(D, now) : d.lane = l
    <3>1. SetupsIn(N, Lane(s, l)) = {}
      BY <2>7, <2>9 DEF NewSetups, SetupsIn
    <3>2. v = w
      BY <2>3, <2>4, <2>9 DEF Stands, Moved
    <3> QED BY <2>1, <2>6, <3>1, <3>2, NoNewSetupsHead
  <2> QED BY <2>8, <2>9
<1>3. LanesHead'
  <2>1. ASSUME NEW q \in Sessions, NEW l \in Lanes, NEW v \in BOOLEAN,
               Lane(q, l) \notin dropped', Stands(DebtsOf(owed', q), switch'[q], l, v)
        PROVE  Heads(places', Lane(q, l), brought'[q][l], v)
    <3>1. CASE q = s
      BY <1>2, <2>1, <3>1
    <3>2. CASE q # s
      BY <2>1, <3>2, OthersKeepHeading
    <3> QED BY <3>1, <3>2
  <2> QED BY <2>1 DEF LanesHead
<1> QED BY <1>1, <1>3 DEF LaneInv

\* A turn that owes: each lane heads to where it did.
LEMMA OwingKeepsLanes ==
    ASSUME IInv, LaneInv, NEW s \in Sessions, NEW now, NEW N, NEW D, D \subseteq DebtSet,
           Tells(s, D, now), NewSetups(s, {}, now, N), Turn(s, now, N, D)
    PROVE  LaneInv'
<1>1. /\ OneEach(owed') /\ \A q \in Sessions : Single(DebtsOf(owed', q))
      /\ Handed(places')
  <2>1. Single(D)
    BY TellsSingle
  <2>2. \A n \in N : ~n.acting
    BY DEF NewSetups
  <2> QED BY <2>1, <2>2, TurnKeepsOrder
<1>2. ASSUME NEW l \in Lanes, NEW v \in BOOLEAN,
             Lane(s, l) \notin dropped', Stands(DebtsOf(owed', s), switch'[s], l, v)
      PROVE  Heads(places', Lane(s, l), brought'[s][l], v)
  <2>1. switch'[s] = now /\ brought' = brought /\ places' = places \cup N
    BY DEF Turn, IInv, TypeOK
  <2>2. Stands(D, now, l, v)
    BY <1>2, <2>1, LeavesStands
  <2>3. PICK w \in BOOLEAN : Stands(DebtsOf(owed, s), switch[s], l, w) /\ Stands(D, now, l, w)
    BY DEF Tells
  <2>4. v = w
    BY <2>2, <2>3 DEF Stands
  <2>5. Lane(s, l) \notin dropped
    BY <1>2 DEF Turn, Leaves
  <2>6. Heads(places, Lane(s, l), brought[s][l], v)
    BY <2>3, <2>4, <2>5 DEF LaneInv, LanesHead
  <2>7. SetupsIn(N, Lane(s, l)) = {}
    BY DEF NewSetups, SetupsIn, Moved
  <2> QED BY <2>1, <2>6, <2>7, NoNewSetupsHead
<1>3. LanesHead'
  <2>1. ASSUME NEW q \in Sessions, NEW l \in Lanes, NEW v \in BOOLEAN,
               Lane(q, l) \notin dropped', Stands(DebtsOf(owed', q), switch'[q], l, v)
        PROVE  Heads(places', Lane(q, l), brought'[q][l], v)
    <3>1. CASE q = s
      BY <1>2, <2>1, <3>1
    <3>2. CASE q # s
      BY <2>1, <3>2, OthersKeepHeading
    <3> QED BY <3>1, <3>2
  <2> QED BY <2>1 DEF LanesHead
<1> QED BY <1>1, <1>3 DEF LaneInv

LEMMA InitLanes ==
    ASSUME Init
    PROVE  LaneInv
<1>1. OneEach(owed) /\ \A s \in Sessions : Single(DebtsOf(owed, s))
  BY DEF Init, OneEach, Single, DebtsOf, Owes
<1>2. Handed(places)
  BY DEF Init, Handed
<1>3. ASSUME NEW s \in Sessions, NEW l \in Lanes, NEW v \in BOOLEAN,
             Stands(DebtsOf(owed, s), switch[s], l, v)
      PROVE  Heads(places, Lane(s, l), brought[s][l], v)
  <2>1. DebtsOf(owed, s) = {} /\ switch[s][l] = FALSE /\ brought[s][l] = "off"
    BY DEF Init, DebtsOf, Owes
  <2>2. v = FALSE
    BY <1>3, <2>1 DEF Stands
  <2>3. SetupsIn(places, Lane(s, l)) = {}
    BY DEF Init, SetupsIn
  <2> QED BY <2>1, <2>2, <2>3 DEF Heads, Word
<1>4. LanesHead
  BY <1>3 DEF LanesHead
<1> QED BY <1>1, <1>2, <1>4 DEF LaneInv

\* What each turn does, in those words: what it settles, or what it owes.
Settling(s, D, now, N) ==
    /\ D \subseteq DebtSet /\ now \in [Lanes -> BOOLEAN]
    /\ Tells(s, D, now) /\ NewSetups(s, D, now, N) /\ Turn(s, now, N, {})

Owing(s, D, now, N) ==
    /\ D \subseteq DebtSet /\ now \in [Lanes -> BOOLEAN]
    /\ Tells(s, D, now) /\ NewSetups(s, {}, now, N) /\ Turn(s, now, N, D)

\* What each turn does: a request's settles all that is owed; a click's settles,
\* or owes, what is owed and what it moved.
LEMMA RequestSettles ==
    ASSUME IInv, LaneInv, NEW s \in Sessions, Request(s)
    PROVE  \E D, now, N : Settling(s, D, now, N)
<1> DEFINE D == OwedTo(s)
           now == switch[s]
           c == Settled(s, D, now)
           N == InOrder(c)
<1>1. Orderly(places) /\ owed \in Seq(OwedSet) /\ OneEach(owed)
      /\ switch \in [Sessions -> [Lanes -> BOOLEAN]]
  BY DEF IInv, LaneInv, TypeOK, OwedSet, DebtSet
<1>2. D \subseteq DebtSet /\ now \in [Lanes -> BOOLEAN]
  BY <1>1, OwedIsDebts
<1>3. owed' = Taken(s) /\ Perform(c) /\ UNCHANGED <<switch, brought, dropped>>
  BY DEF Request
<1>4. OneEach(owed') /\ Leaves(s, {})
  BY <1>1, <1>3, TakenLeaves
<1>5. Tells(s, D, now)
  BY OwedTells
<1>6. switch' = [switch EXCEPT ![s] = now]
  BY <1>1, <1>3
<1> HIDE DEF D, now
<1>7. Describes(c, s, D, now)
  BY <1>2, SettledDescribes
<1>8. c \in Seq(Wanted)
  BY <1>7 DEF Describes
<1> HIDE DEF c
<1>9. NewSetups(s, D, now, N)
  BY <1>1, <1>7, EventSetups
<1>10. /\ places' = places \cup N
       /\ \A p \in places, n \in N : p.id \in Nat /\ n.id \in Nat /\ p.id < n.id
  BY <1>1, <1>3, <1>8, PerformTakes
<1> HIDE DEF N
<1>11. Turn(s, now, N, {})
  BY <1>3, <1>4, <1>6, <1>10 DEF Turn
<1>12. Settling(s, D, now, N)
  BY <1>2, <1>5, <1>9, <1>11 DEF Settling
<1> QED BY <1>12

LEMMA ClickSettlesOrOwes ==
    ASSUME IInv, LaneInv, NEW s \in Sessions, Click(s)
    PROVE  (\E D, now, N : Settling(s, D, now, N)) \/ (\E D, now, N : Owing(s, D, now, N))
<1>1. Orderly(places) /\ owed \in Seq(OwedSet) /\ OneEach(owed)
      /\ switch \in [Sessions -> [Lanes -> BOOLEAN]]
  BY DEF IInv, LaneInv, TypeOK, OwedSet, DebtSet
<1>2. PICK offer \in Offers, toggled \in SUBSET Lanes : ClickOf(s, offer, toggled)
  BY DEF Click, ClickOf
<1> DEFINE now == [l \in Lanes |-> switch[s][l] # (l \in toggled)]
           D == Debts(s, toggled)
           a == Described(s, offer)
           b == Settled(s, D, now)
<1>3. now \in [Lanes -> BOOLEAN] /\ switch' = [switch EXCEPT ![s] = now]
  BY <1>2 DEF ClickOf
<1>4. D \subseteq DebtSet /\ Moved(D, now) \subseteq DebtSet
  BY DebtsAreTyped DEF Moved
<1>5. ("slash" \in Range(offer) => latest[s] \in Panes) /\ offer \in Seq(Kinds)
  BY <1>2, EffectsAssumption DEF ClickOf
<1>6. IF latest[s] # Gone
        THEN owed' = Taken(s) /\ UNCHANGED dropped /\ Perform(a \o b)
        ELSE Remember(s, Moved(D, now)) /\ Perform(a)
  BY <1>2 DEF ClickOf
<1>7. Tells(s, D, now)
  BY DebtsTell
<1>8. UNCHANGED brought
  BY DEF Click
<1> HIDE DEF now, D
<1>9. /\ Describes(a, s, {}, now) /\ a \in Seq(Wanted)
      /\ \A i \in DOMAIN a : a[i].kind # "setup"
  BY <1>5, OffersDescribe, DescribedIsWanted
<1>10. Describes(b, s, D, now)
  BY <1>3, <1>4, SettledDescribes
<1> HIDE DEF a, b
<1>11. CASE latest[s] # Gone
  <2> DEFINE c == a \o b
             N == InOrder(c)
  <2>1. Describes(c, s, D, now)
    BY <1>9, <1>10, JoinDescribes
  <2>2. c \in Seq(Wanted)
    BY <2>1 DEF Describes
  <2>3. OneEach(owed') /\ Leaves(s, {})
    BY <1>1, <1>6, <1>11, TakenLeaves
  <2>4. Perform(c)
    BY <1>6, <1>11
  <2> HIDE DEF c
  <2>5. NewSetups(s, D, now, N)
    BY <1>1, <2>1, EventSetups
  <2>6. /\ places' = places \cup N
        /\ \A p \in places, n \in N : p.id \in Nat /\ n.id \in Nat /\ p.id < n.id
    BY <1>1, <2>2, <2>4, PerformTakes
  <2> HIDE DEF N
  <2>7. Turn(s, now, N, {})
    BY <1>3, <1>8, <2>3, <2>6 DEF Turn
  <2>8. Settling(s, D, now, N)
    BY <1>3, <1>4, <1>7, <2>5, <2>7 DEF Settling
  <2> QED BY <2>8
<1>12. CASE ~(latest[s] # Gone)
  <2> DEFINE M == Moved(D, now)
             N == InOrder(a)
  <2>1. Remember(s, M) /\ Perform(a)
    BY <1>6, <1>12
  <2>2. M \subseteq DebtSet /\ Tells(s, M, now)
    BY <1>4, <1>7, MovedTells
  <2> HIDE DEF M
  <2>3. OneEach(owed') /\ Leaves(s, M)
    BY <1>1, <2>1, <2>2, RememberLeaves
  <2>4. NewSetups(s, {}, now, N)
    BY <1>1, <1>9, EventSetups
  <2>5. /\ places' = places \cup N
        /\ \A p \in places, n \in N : p.id \in Nat /\ n.id \in Nat /\ p.id < n.id
    BY <1>1, <1>9, <2>1, PerformTakes
  <2> HIDE DEF N
  <2>6. Turn(s, now, N, M)
    BY <1>3, <1>8, <2>3, <2>5 DEF Turn
  <2>7. Owing(s, M, now, N)
    BY <1>3, <2>2, <2>4, <2>6 DEF Owing
  <2> QED BY <2>7
<1> QED BY <1>11, <1>12

LEMMA StepKeepsLanes ==
    ASSUME IInv, LaneInv, [Next]_vars
    PROVE  LaneInv'
<1>1. ASSUME UNCHANGED <<places, switch, owed, brought, dropped>>
      PROVE  LaneInv'
  BY <1>1 DEF LaneInv, LanesHead
<1>2. CASE UNCHANGED vars
  BY <1>1, <1>2 DEF vars
<1>3. CASE Close
  BY <1>1, <1>3 DEF Close
<1>4. ASSUME NEW s \in Sessions, Evict(s)
      PROVE  LaneInv'
  BY <1>1, <1>4 DEF Evict
<1>5. ASSUME NEW s \in Sessions, NEW D, NEW now, NEW N, Settling(s, D, now, N)
      PROVE  LaneInv'
  BY <1>5, SettlingKeepsLanes DEF Settling
<1>6. ASSUME NEW s \in Sessions, NEW D, NEW now, NEW N, Owing(s, D, now, N)
      PROVE  LaneInv'
  BY <1>6, OwingKeepsLanes DEF Owing
<1>7. ASSUME NEW s \in Sessions, Request(s)
      PROVE  LaneInv'
  BY <1>5, <1>7, RequestSettles
<1>8. ASSUME NEW s \in Sessions, Click(s)
      PROVE  LaneInv'
  BY <1>5, <1>6, <1>8, ClickSettlesOrOwes
<1> QED BY <1>2, <1>3, <1>4, <1>7, <1>8, RunKeepsLanes DEF Next

-----------------------------------------------------------------------------
(* Setups that are needed.                                                 *)

\* What a step may describe: setups that bring their lanes elsewhere.
Needed ==
    \A r \in places' \ places :
        r.kind = "setup" /\ ~r.acting /\ r.key \notin dropped
            => Heading(r.key, brought[r.session][r.key[3]]) # IF r.on THEN "on" ELSE "off"

\* No run of a place takes a setup's.
LEMMA RunsTakeNoSetup ==
    ASSUME IInv, NEW r \in places, Runs(r)
    PROVE  \A q \in places' \ places : q.kind = "setup" => q.acting
<1>0. Orderly(places)
  BY DEF IInv
<1>1. r \in Places
  BY <1>0 DEF Orderly, Sorted
<1>2. ASSUME NEW out, LetGo(r, out)
      PROVE  \A q \in places' \ places : q.acting
  <2> DEFINE told(q) == IF q.id = r.host THEN [q EXCEPT !.step = out] ELSE q
  <2>1. places' = {told(q) : q \in places \ {r}}
    BY <1>2 DEF LetGo
  <2>2. ASSUME NEW q \in places
        PROVE  told(q) = q \/ told(q).acting
    <3>1. CASE q.id = r.host
      <4>1. q.acting /\ q \in Places
        BY <1>0, <3>1 DEF Orderly, Says, Sorted
      <4>2. [q EXCEPT !.step = out].acting = q.acting
        BY <4>1 DEF Places
      <4> QED BY <3>1, <4>1, <4>2
    <3>2. CASE q.id # r.host
      BY <3>2
    <3> QED BY <3>1, <3>2
  <2> HIDE DEF told
  <2> QED BY <2>1, <2>2
<1>3. ASSUME Begin(r)
      PROVE  \A q \in places' \ places : q.acting
  <2>1. [r EXCEPT !.acting = TRUE].acting = TRUE
    BY <1>1 DEF Places
  <2> QED BY <1>3, <2>1 DEF Begin
<1>4. ASSUME NEW held, NEW kind, kind # "setup", NEW key, held = r \/ held.acting,
             TakeInside(r, held, kind, key)
      PROVE  \A q \in places' \ places : q.kind = "setup" => q.acting
  <2> DEFINE new == [Place(kind, r.session, key) EXCEPT !.id = LastId + 1, !.host = r.id]
  <2>1. new.kind = kind
    BY DEF Place
  <2>2. places' = (places \ {r}) \cup {held, new}
    BY <1>4 DEF TakeInside
  <2> HIDE DEF new
  <2> QED BY <1>4, <2>1, <2>2
<1>5. [r EXCEPT !.acting = TRUE].acting
  BY <1>1 DEF Places
<1>6. CASE Doctor(r)
  BY <1>4, <1>5, <1>6 DEF Doctor
<1>7. CASE TakePane(r)
  BY <1>4, <1>7 DEF TakePane
<1>8. CASE Act(r) \/ Gather(r) \/ Setup(r) \/ Step(r) \/ End(r) \/ EndSetup(r)
  BY <1>2, <1>3, <1>8 DEF Act, Gather, Setup, Step, End, EndSetup
<1> QED BY <1>6, <1>7, <1>8 DEF Runs

\* The setups of a turn bring their lanes from where they are heading.
LEMMA TurnsNeedTheirSetups ==
    ASSUME IInv, LaneInv, NEW s \in Sessions, NEW D, D \subseteq DebtSet,
           NEW now \in [Lanes -> BOOLEAN], NEW N, NEW E, E \in {{}, D}, Tells(s, D, now), NewSetups(s, E, now, N),
           places' = places \cup N
    PROVE  Needed
<1> SUFFICES ASSUME NEW r \in N, r.kind = "setup", r.key \notin dropped
             PROVE  Heading(r.key, brought[r.session][r.key[3]]) # Word(r.on)
  BY DEF Needed, Word
<1>1. PICK d \in Moved(E, now) : r.key = Lane(s, d.lane) /\ r.on = now[d.lane]
  BY DEF NewSetups
<1>2. d \in D /\ now[d.lane] # d.from
  BY <1>1 DEF Moved
<1> DEFINE l == d.lane
<1>3. l \in Lanes /\ r.session = s /\ r.key[3] = l
  BY <1>1, <1>2 DEF DebtSet, NewSetups, Lane
<1>4. PICK w \in BOOLEAN : Stands(DebtsOf(owed, s), switch[s], l, w) /\ Stands(D, now, l, w)
  BY <1>3 DEF Tells
<1>5. d.from = w
  BY <1>2, <1>4 DEF Stands
<1>6. Heads(places, r.key, brought[s][l], w)
  BY <1>1, <1>3, <1>4 DEF LaneInv, LanesHead
<1>7. Heading(r.key, brought[s][l]) \in {"unknown", Word(w)}
  BY <1>6, HeadingIs DEF IInv
<1>8. r.on # w
  BY <1>1, <1>2, <1>5
<1>9. r.on \in BOOLEAN
  BY <1>1, <1>3
<1> QED BY <1>3, <1>4, <1>7, <1>8, <1>9 DEF Word

\* A step describes only setups that are needed.
LEMMA StepNeedsItsSetups ==
    ASSUME IInv, LaneInv, [Next]_vars
    PROVE  Needed
<1>1. ASSUME UNCHANGED places
      PROVE  Needed
  BY <1>1 DEF Needed
<1>2. ASSUME NEW s \in Sessions, NEW D, NEW now, NEW N, Settling(s, D, now, N)
      PROVE  Needed
  BY <1>2, TurnsNeedTheirSetups DEF Settling, Turn
<1>3. ASSUME NEW s \in Sessions, NEW D, NEW now, NEW N, Owing(s, D, now, N)
      PROVE  Needed
  BY <1>3, TurnsNeedTheirSetups DEF Owing, Turn
<1>4. ASSUME NEW s \in Sessions, Request(s)
      PROVE  Needed
  BY <1>2, <1>4, RequestSettles
<1>5. ASSUME NEW s \in Sessions, Click(s)
      PROVE  Needed
  BY <1>2, <1>3, <1>5, ClickSettlesOrOwes
<1>6. ASSUME NEW r \in places, Runs(r)
      PROVE  Needed
  BY <1>6, RunsTakeNoSetup DEF Needed
<1>7. CASE Close \/ UNCHANGED vars
  BY <1>1, <1>7 DEF Close, vars
<1>8. ASSUME NEW s \in Sessions, Evict(s)
      PROVE  Needed
  BY <1>1, <1>8 DEF Evict
<1> QED BY <1>4, <1>5, <1>6, <1>7, <1>8 DEF Next

\* Every lane keeps heading where its switch, or what is owed of it, says.
LEMMA LaneInvariance == Spec => [](IInv /\ LaneInv)
<1>1. Init => IInv /\ LaneInv
  BY InitHolds, InitLanes
<1>2. IInv /\ LaneInv /\ [Next]_vars => IInv' /\ LaneInv'
  BY StepHolds, StepKeepsLanes
<1> QED BY <1>1, <1>2, PTL DEF Spec

-----------------------------------------------------------------------------

\* Every place taken, where each session is and what it is owed have their types.
THEOREM EffectTypes == Spec => []TypeOK
<1>1. IInv => TypeOK
  BY DEF IInv
<1> QED BY <1>1, Invariance, PTL

\* No effects, gathers and late pane places ever wait on each other in a circle,
\* however many sessions click, move and go, whatever their clicks describe.
THEOREM NothingWaitsInACircle == Spec => []NoCircle
<1>1. IInv => NoCircle
  BY OrderlyIsNoCircle DEF IInv
<1> QED BY <1>1, Invariance, PTL

\* Once a lane's setups are over and nothing is owed for it, it is where its
\* session's clicks left its switch, unless the last setup failed or a debt of
\* the lane was dropped: whatever clicks were owed while the session was gone,
\* and whatever moved while the setups waited.
THEOREM LanesFollowTheirSwitches == Spec => []LaneFollowsSwitch
<1>1. ASSUME IInv, LaneInv
      PROVE  LaneFollowsSwitch
  <2> SUFFICES ASSUME NEW s \in Sessions, NEW l \in Lanes,
                      l \notin {d.lane : d \in OwedTo(s)},
                      \A r \in places : r.kind = "setup" => r.key # Lane(s, l),
                      brought[s][l] # "unknown", Lane(s, l) \notin dropped
               PROVE  brought[s][l] = Word(switch[s][l])
    BY DEF LaneFollowsSwitch, Word
  <2> DEFINE v == switch[s][l]
  <2>1. v \in BOOLEAN /\ owed \in Seq(OwedSet)
    BY <1>1 DEF IInv, TypeOK, OwedSet, DebtSet
  <2>2. OwedTo(s) = DebtsOf(owed, s)
    BY <2>1, OwedIsDebts, OwedToIsOwes DEF DebtsOf
  <2>3. Stands(DebtsOf(owed, s), switch[s], l, v)
    BY <2>2 DEF Stands
  <2>4. Heads(places, Lane(s, l), brought[s][l], v)
    BY <1>1, <2>1, <2>3 DEF LaneInv, LanesHead
  <2>5. SetupsIn(places, Lane(s, l)) = {}
    BY DEF SetupsIn
  <2> QED BY <2>4, <2>5 DEF Heads
<1>2. IInv /\ LaneInv => LaneFollowsSwitch
  BY <1>1
<1> QED BY <1>2, LaneInvariance, PTL

\* No turn describes a setup that would bring its lane where it is, or is on its
\* way, already: a Claude Code is restarted for no click in vain.
THEOREM NoSetupIsNeedless == Spec => NoNeedlessSetup
<1>1. IInv /\ LaneInv /\ [Next]_vars => [Needed]_vars
  BY StepNeedsItsSetups
<1>2. Spec => [][Needed]_vars
  BY <1>1, LaneInvariance, PTL DEF Spec
<1> QED BY <1>2 DEF NoNeedlessSetup, Needed

=============================================================================
