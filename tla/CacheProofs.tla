--------------------------- MODULE CacheProofs ---------------------------
(***************************************************************************)
(* Proofs about LinkIds and GitCache, for any value of their constants.    *)
(*                                                                         *)
(* LinkIds: no id a row may still carry names two links.  What is left of  *)
(* the last block is carried by nothing, and what is carried lies below    *)
(* the end of the next one; each action then adds at most one name, with   *)
(* such an id.  A line keeps the links it last drew: the frame drawn so    *)
(* far is the tail of its table, which the eviction at its end cuts from   *)
(* the front.                                                              *)
(*                                                                         *)
(* GitCache: whatever is out, what is missing is owed by something.  A     *)
(* value the repository has left is reported, missed or read again, one    *)
(* held and missed is being read, a PR shown and not keyed has the pass    *)
(* that will key it, and one keyed is the branch's that every value not    *)
(* missed was read on.                                                     *)
(***************************************************************************)
EXTENDS LinkIds, GitCache, FiniteSetTheorems, SequenceTheorems, TLAPS

Names == [id : Nat, link : Links]
Frames == [line : Lines, left : SUBSET Links, got : {g \in SUBSET Names : IsFiniteSet(g)}]
States == [kind : {"ready", "faulted", "closed"}, next : Nat, armed : BOOLEAN]

TypeOK ==
    /\ count \in Nat \cup {Junk} /\ reserved \in Nat
    /\ state \in States
    /\ table \in [Lines -> Seq(Names)]
    /\ drawing \in Frames \cup {NoFrame}
    /\ shown \subseteq Names

\* The names a table or the frame being drawn carries.
In(t) == {t[i] : i \in DOMAIN t}
Carried == drawing.got \cup UNION {In(table[l]) : l \in Lines}

\* What is carried was issued by this process, out of a block it reserved.
CarriedIsReserved == \A n \in Carried : n.id < reserved

\* What is left of the last block is nobody's.
LeftIsFree ==
    state.kind = "ready" =>
        /\ state.next <= reserved
        /\ \A n \in Carried \cup shown : n.id < state.next \/ n.id >= reserved

\* So is the next block, once the file has a count to begin it at.
NextIsFree == count # Junk => \A n \in shown : n.id < Later(count, reserved)

OneEach == \A m, n \in Carried \cup shown : m.id = n.id => m.link = n.link

IInv == TypeOK /\ CarriedIsReserved /\ LeftIsFree /\ NextIsFree /\ OneEach

-----------------------------------------------------------------------------
LEMMA InIsItsType ==
    ASSUME NEW S, NEW t \in Seq(S)
    PROVE  In(t) \subseteq S
BY LenProperties DEF In

\* Any part of a sequence is a sequence of its elements.
LEMMA PartIn ==
    ASSUME NEW S, NEW t \in Seq(S), NEW m \in Int, NEW n \in Int,
           m >= 1, n <= Len(t)
    PROVE  /\ SubSeq(t, m, n) \in Seq(In(t)) /\ SubSeq(t, m, n) \in Seq(S)
           /\ In(SubSeq(t, m, n)) \subseteq In(t)
<1>1. Len(t) \in Nat /\ DOMAIN t = 1..Len(t)
  BY LenProperties
<1>2. \A i \in m..n : t[i] \in In(t)
  BY <1>1 DEF In
<1>3. SubSeq(t, m, n) \in Seq(In(t))
  BY <1>2, SubSeqProperties
<1>4. SubSeq(t, m, n) \in Seq(S)
  BY <1>3, InIsItsType, SeqMonotonic
<1> QED
  BY <1>3, <1>4, InIsItsType

\* The end of a table carries nothing the table did not.
LEMMA LastOfIn ==
    ASSUME NEW S, NEW t \in Seq(S), NEW n \in Nat
    PROVE  LastOf(t, n) \in Seq(S) /\ In(LastOf(t, n)) \subseteq In(t)
<1>1. Len(t) \in Nat
  BY LenProperties
<1>2. Later(1, Len(t) - n + 1) \in Int /\ Later(1, Len(t) - n + 1) >= 1
  BY <1>1 DEF Later
<1> QED
  BY <1>1, <1>2, PartIn DEF LastOf

\* Nor does a table without one of its names.
LEMMA OthersIn ==
    ASSUME NEW S, NEW t \in Seq(S), NEW i \in DOMAIN t,
           NEW u, u = SubSeq(t, 1, i - 1) \o SubSeq(t, i + 1, Len(t))
    PROVE  u \in Seq(S) /\ In(u) \subseteq In(t)
<1>1. Len(t) \in Nat /\ DOMAIN t = 1..Len(t)
  BY LenProperties
<1>2. Len(t) \in Int /\ Len(t) <= Len(t) /\ i \in Int /\ i - 1 \in Int /\ i - 1 <= Len(t) /\ i + 1 \in Int /\ i + 1 >= 1
  BY <1>1
<1>3. /\ SubSeq(t, 1, i - 1) \in Seq(In(t)) /\ SubSeq(t, 1, i - 1) \in Seq(S)
      /\ In(SubSeq(t, 1, i - 1)) \subseteq In(t)
  BY <1>1, <1>2, PartIn
<1>4. /\ SubSeq(t, i + 1, Len(t)) \in Seq(In(t)) /\ SubSeq(t, i + 1, Len(t)) \in Seq(S)
      /\ In(SubSeq(t, i + 1, Len(t))) \subseteq In(t)
  <2> DEFINE m == i + 1
             n == Len(t)
  <2>1. m \in Int /\ n \in Int /\ m >= 1 /\ n <= Len(t)
    BY <1>2
  <2> HIDE DEF m, n
  <2>2. /\ SubSeq(t, m, n) \in Seq(In(t)) /\ SubSeq(t, m, n) \in Seq(S)
        /\ In(SubSeq(t, m, n)) \subseteq In(t)
    BY <2>1, PartIn
  <2> QED
    BY <2>2 DEF m, n
<1>5. u \in Seq(In(t))
  BY <1>3, <1>4, ConcatProperties
<1> QED
  BY <1>5, InIsItsType, SeqMonotonic

LEMMA LaterIsBoth ==
    ASSUME NEW a \in Nat, NEW b \in Nat
    PROVE  Later(a, b) \in Nat /\ Later(a, b) >= a /\ Later(a, b) >= b
BY DEF Later

\* A frame's own links are finitely many, so a table keeps some number of its
\* last ones.
LEMMA KeptSome ==
    ASSUME drawing \in Frames, NEW l
    PROVE  \E n \in Nat : Kept(l) = LastOf(table[l], n)
<1>1. Cardinality(drawing.got) \in Nat
  BY FS_CardinalityType DEF Frames
<1> QED
  BY <1>1, LinkAssumption, LaterIsBoth DEF Kept

LEMMA AppendIn ==
    ASSUME NEW S, NEW t \in Seq(S), NEW e \in S
    PROVE  /\ Append(t, e) \in Seq(S)
           /\ In(Append(t, e)) \subseteq In(t) \cup {e}
<1>1. Len(t) \in Nat /\ DOMAIN t = 1..Len(t)
  BY LenProperties
<1>2. /\ Append(t, e) \in Seq(S) /\ Len(Append(t, e)) = Len(t) + 1
      /\ \A i \in 1..Len(t) + 1 :
            Append(t, e)[i] = IF i <= Len(t) THEN t[i] ELSE e
  BY <1>1
<1>3. DOMAIN Append(t, e) = 1..Len(t) + 1
  BY <1>2, LenProperties
<1> QED
  BY <1>1, <1>2, <1>3 DEF In

-----------------------------------------------------------------------------
LEMMA InitHolds == Init => IInv
<1> SUFFICES ASSUME Init PROVE IInv
  OBVIOUS
<1>1. TypeOK
  BY LinkAssumption DEF Init, TypeOK, States, Ready
<1>2. Carried = {} /\ shown = {}
  BY DEF Init, Carried, In, NoFrame
<1> QED
  BY <1>1, <1>2 DEF Init, IInv, CarriedIsReserved, LeftIsFree, NextIsFree, OneEach, Ready

\* A step that reserves nothing and carries, and shows, only what was carried or
\* shown keeps what the invariant says of them, if it keeps the count and the
\* state, or leaves a state that issues nothing.
LEMMA FewerIsFine ==
    ASSUME IInv, TypeOK', Carried' \subseteq Carried,
           shown' \subseteq Carried \cup shown,
           reserved' = reserved, count' = count,
           state' = state \/ state'.kind # "ready"
    PROVE  IInv'
<1> USE DEF IInv
<1>1. CarriedIsReserved'
  BY DEF CarriedIsReserved
<1>2. LeftIsFree'
  BY DEF LeftIsFree
<1>3. NextIsFree'
  <2> SUFFICES ASSUME count # Junk, NEW n \in shown' PROVE n.id < Later(count, reserved)
    BY DEF NextIsFree
  <2>1. count \in Nat /\ reserved \in Nat
    BY DEF TypeOK
  <2>2. CASE n \in shown
    BY <2>2 DEF NextIsFree
  <2>3. CASE n \in Carried
    <3>1. n \in Names
      BY DEF TypeOK
    <3> QED
      BY <2>1, <2>3, <3>1, LaterIsBoth DEF CarriedIsReserved, Names
  <2> QED
    BY <2>2, <2>3
<1>4. OneEach'
  BY DEF OneEach
<1> QED
  BY <1>1, <1>2, <1>3, <1>4

\* What drawing a link does to what is carried, whichever id it is drawn under.
LEMMA DrawnCarries ==
    ASSUME TypeOK, drawing # NoFrame, NEW l, l = drawing.line,
           NEW t \in Seq(Names), In(t) \subseteq In(table[l]),
           NEW link \in Links, NEW id \in Nat, DrawnAs(l, t, link, id)
    PROVE  /\ table' \in [Lines -> Seq(Names)] /\ drawing' \in Frames
           /\ Carried' \subseteq Carried \cup {Named(id, link)}
<1>1. drawing \in Frames /\ l \in Lines
  BY DEF TypeOK, Frames
<1>2. Named(id, link) \in Names
  BY DEF Named, Names
<1>3. table' \in [Lines -> Seq(Names)]
  BY <1>1, <1>2, AppendIn DEF DrawnAs, TypeOK
<1>4. drawing' \in Frames /\ drawing'.got = drawing.got \cup {Named(id, link)}
  BY <1>1, <1>2, FS_AddElement DEF DrawnAs, Frames
<1>5. ASSUME NEW m \in Lines
      PROVE  In(table'[m]) \subseteq In(table[m]) \cup {Named(id, link)}
  <2>1. CASE m = l
    <3>1. table'[m] = Append(t, Named(id, link))
      BY <1>1, <2>1 DEF DrawnAs, TypeOK
    <3> QED
      BY <1>2, <2>1, <3>1, AppendIn
  <2>2. CASE m # l
    <3>1. table'[m] = table[m]
      BY <1>1, <2>2 DEF DrawnAs, TypeOK
    <3> QED
      BY <3>1
  <2> QED
    BY <2>1, <2>2
<1> QED
  BY <1>3, <1>4, <1>5 DEF Carried

\* A new name with the next id of the block, or the first of a new block, is a
\* name nobody has.
LEMMA NewIsFree ==
    ASSUME IInv, TypeOK', NEW link \in Links, NEW id \in Nat, shown' = shown,
           Carried' \subseteq Carried \cup {Named(id, link)},
           \/ /\ state.kind = "ready" /\ id = state.next /\ state.next # reserved
              /\ state' = Ready(state.next + 1) /\ UNCHANGED <<count, reserved>>
           \/ Reserves(1) /\ id = Base
    PROVE  IInv'
<1> USE DEF IInv
<1>1. /\ reserved \in Nat /\ count \in Nat \cup {Junk} /\ Block \in Nat \ {0}
      /\ state.next \in Nat
      /\ \A n \in Carried \cup shown : n \in Names
  <2>1. \A l \in Lines : In(table[l]) \subseteq Names
    BY InIsItsType DEF TypeOK
  <2> QED
    BY <2>1, LinkAssumption DEF TypeOK, Carried, Frames, NoFrame, States
<1>2. Named(id, link).id = id /\ Named(id, link).link = link
  BY DEF Named
<1>3. CASE /\ state.kind = "ready" /\ id = state.next /\ state.next # reserved
           /\ state' = Ready(state.next + 1) /\ UNCHANGED <<count, reserved>>
  <2>1. \A n \in Carried \cup shown : n.id # id
    BY <1>1, <1>3 DEF LeftIsFree, Names
  <2>2. OneEach'
    BY <1>2, <2>1 DEF OneEach
  <2>3. CarriedIsReserved'
    BY <1>1, <1>2, <1>3 DEF CarriedIsReserved, LeftIsFree
  <2>4. LeftIsFree'
    BY <1>1, <1>2, <1>3 DEF LeftIsFree, Ready, Names
  <2>5. NextIsFree'
    BY <1>3 DEF NextIsFree
  <2> QED
    BY <2>2, <2>3, <2>4, <2>5
<1>4. CASE Reserves(1) /\ id = Base
  <2>1. count # Junk /\ count \in Nat
    BY <1>1, <1>4 DEF Reserves, Fits
  <2>2. Base \in Nat /\ Base >= reserved
    BY <1>1, <2>1, LaterIsBoth DEF Base
  <2>3. \A n \in Carried \cup shown : n.id < Base
    BY <1>1, <2>1, <2>2 DEF CarriedIsReserved, NextIsFree, Base, Names
  <2>4. count' = Base + Block /\ reserved' = Base + Block /\ state' = Ready(Base + 1)
    BY <1>4 DEF Reserves
  <2>5. OneEach'
    BY <1>1, <1>2, <1>4, <2>2, <2>3 DEF OneEach, Names
  <2>6. CarriedIsReserved'
    BY <1>1, <1>2, <1>4, <2>2, <2>3, <2>4 DEF CarriedIsReserved, Names
  <2>7. LeftIsFree'
    BY <1>1, <1>2, <1>4, <2>2, <2>3, <2>4 DEF LeftIsFree, Names, Ready
  <2>8. NextIsFree'
    BY <1>1, <1>2, <2>2, <2>3, <2>4 DEF NextIsFree, Names, Later
  <2> QED
    BY <2>5, <2>6, <2>7, <2>8
<1> QED
  BY <1>3, <1>4

-----------------------------------------------------------------------------
LEMMA StepHolds == IInv /\ [Next]_vars => IInv'
<1> SUFFICES ASSUME IInv, [Next]_vars PROVE IInv'
  OBVIOUS
<1> USE DEF IInv
<1>0. \A l \in Lines : table[l] \in Seq(Names)
  BY DEF TypeOK
<1>1. ASSUME NEW l \in Lines, NEW S \in SUBSET Links, StartFrame(l, S) PROVE IInv'
  <2>1. TypeOK'
    BY <1>1, FS_EmptySet DEF StartFrame, TypeOK, Frames
  <2>2. Carried' \subseteq Carried
    BY <1>1 DEF StartFrame, Carried
  <2> QED
    BY <1>1, <2>1, <2>2, FewerIsFine DEF StartFrame
<1>2. ASSUME NEW link \in Links, RangeOf(link) PROVE IInv'
  <2> DEFINE l == drawing.line
  <2>0. drawing # NoFrame /\ drawing \in Frames /\ l \in Lines /\ link \in drawing.left
    BY <1>2 DEF RangeOf, TypeOK, Frames, NoFrame
  <2>1. UNCHANGED <<frame, shown, edits>>
    BY <1>2 DEF RangeOf
  <2>2. ASSUME DrawnBare(link), UNCHANGED <<count, reserved>>,
               state' \in States, state' = state \/ state'.kind # "ready"
        PROVE  IInv'
    <3>1. TypeOK'
      BY <2>0, <2>1, <2>2 DEF DrawnBare, TypeOK, Frames
    <3>2. Carried' \subseteq Carried
      BY <2>0, <2>2 DEF DrawnBare, Carried, Frames
    <3> QED
      BY <2>1, <2>2, <3>1, <3>2, FewerIsFine
  <2>3. CASE Reuse(l, link)
    <3>1. PICK i \in DOMAIN table[l] :
            /\ table[l][i].link = link
            /\ DrawnAs(l, SubSeq(table[l], 1, i - 1)
                            \o SubSeq(table[l], i + 1, Len(table[l])),
                       link, table[l][i].id)
      BY <2>3 DEF Reuse
    <3> DEFINE u == SubSeq(table[l], 1, i - 1) \o SubSeq(table[l], i + 1, Len(table[l]))
               e == table[l][i]
    <3>2. u \in Seq(Names) /\ In(u) \subseteq In(table[l])
      BY <1>0, <2>0, OthersIn
    <3>3. e \in Carried /\ e \in Names
      BY <1>0, <2>0, InIsItsType DEF Carried, In
    <3>4. Named(e.id, link) = e /\ e.id \in Nat
      BY <3>1, <3>3 DEF Named, Names
    <3>5. DrawnAs(l, u, link, e.id)
      BY <3>1
    <3> HIDE DEF u, e
    <3>6. /\ table' \in [Lines -> Seq(Names)] /\ drawing' \in Frames
          /\ Carried' \subseteq Carried \cup {e}
      BY <2>0, <3>2, <3>4, <3>5, DrawnCarries
    <3>7. TypeOK'
      BY <2>1, <2>3, <3>6 DEF Reuse, TypeOK
    <3> QED
      BY <2>1, <2>3, <3>3, <3>6, <3>7, FewerIsFine DEF Reuse
  <2>4. CASE Mint(l, link)
    <3>0. table[l] \in Seq(Names) /\ In(table[l]) \subseteq In(table[l])
      BY <1>0, <2>0
    <3>1. CASE /\ state.kind = "ready" /\ state.next # reserved
               /\ DrawnAs(l, table[l], link, state.next)
               /\ state' = Ready(state.next + 1) /\ UNCHANGED <<count, reserved>>
      <4>1. state.next \in Nat
        BY DEF TypeOK, States
      <4>2. /\ table' \in [Lines -> Seq(Names)] /\ drawing' \in Frames
            /\ Carried' \subseteq Carried \cup {Named(state.next, link)}
        BY <2>0, <3>0, <3>1, <4>1, DrawnCarries
      <4>3. TypeOK'
        BY <2>1, <3>1, <4>1, <4>2 DEF TypeOK, States, Ready
      <4> QED
        BY <2>1, <3>1, <4>1, <4>2, <4>3, NewIsFree
    <3>2. CASE Reserves(1) /\ DrawnAs(l, table[l], link, Base)
      <4>0. count \in Nat /\ reserved \in Nat /\ Block \in Nat
        BY <3>2, LinkAssumption DEF Reserves, Fits, TypeOK
      <4>1. Base \in Nat /\ Base + Block \in Nat
        BY <4>0, LaterIsBoth DEF Base
      <4>2. /\ table' \in [Lines -> Seq(Names)] /\ drawing' \in Frames
            /\ Carried' \subseteq Carried \cup {Named(Base, link)}
        BY <2>0, <3>0, <3>2, <4>1, DrawnCarries
      <4>3. TypeOK'
        BY <2>1, <3>2, <4>1, <4>2 DEF TypeOK, States, Ready, Reserves
      <4> QED
        BY <2>1, <3>2, <4>1, <4>2, <4>3, NewIsFree
    <3>3. CASE Faults /\ DrawnBare(link)
      BY <2>2, <3>3 DEF Faults, Faulted, States
    <3>4. CASE DrawnBare(link) /\ UNCHANGED <<count, state, reserved>>
      BY <2>2, <3>4 DEF TypeOK
    <3> QED
      BY <2>4, <3>1, <3>2, <3>3, <3>4 DEF Mint
  <2> QED
    BY <1>2, <2>3, <2>4 DEF RangeOf
<1>3. CASE EndFrame
  <2> DEFINE l == drawing.line
  <2>0. drawing \in Frames /\ l \in Lines
    BY <1>3 DEF EndFrame, TypeOK, Frames
  <2>1. Kept(l) \in Seq(Names) /\ In(Kept(l)) \subseteq In(table[l])
    <3>1. PICK n \in Nat : Kept(l) = LastOf(table[l], n)
      BY <2>0, KeptSome
    <3> QED
      BY <1>0, <2>0, <3>1, LastOfIn
  <2>2. \A m \in Lines : table'[m] \in Seq(Names) /\ In(table'[m]) \subseteq In(table[m])
    BY <1>0, <1>3, <2>0, <2>1 DEF EndFrame, TypeOK
  <2>3. Carried' \subseteq Carried /\ shown' \subseteq Carried \cup shown
    BY <1>3, <2>2 DEF EndFrame, Carried, NoFrame
  <2>4. TypeOK'
    BY <1>3, <2>0, <2>1 DEF EndFrame, TypeOK, Frames
  <2> QED
    BY <1>3, <2>3, <2>4, FewerIsFine DEF EndFrame
<1>4. CASE Retry
  <2>1. Carried' = Carried /\ shown' = shown
    BY <1>4 DEF Retry, Carried
  <2>2. CASE Faults
    <3>1. TypeOK'
      BY <1>4, <2>2 DEF Retry, Faults, Faulted, TypeOK, States
    <3> QED
      BY <2>1, <2>2, <3>1, FewerIsFine DEF Faults, Faulted
  <2>3. CASE Reserves(0)
    <3>1. /\ reserved \in Nat /\ count \in Nat /\ Block \in Nat \ {0}
          /\ \A n \in Carried \cup shown : n.id \in Nat
      <4>1. \A l \in Lines : In(table[l]) \subseteq Names
        BY <1>0, InIsItsType
      <4> QED
        BY <2>3, <4>1, LinkAssumption
        DEF TypeOK, Carried, Frames, NoFrame, Names, Reserves, Fits
    <3>2. Base \in Nat /\ Base >= reserved
      BY <3>1, LaterIsBoth DEF Base
    <3>3. \A n \in Carried \cup shown : n.id < Base
      BY <2>3, <3>1, <3>2 DEF CarriedIsReserved, NextIsFree, Base, Reserves, Fits
    <3>4. count' = Base + Block /\ reserved' = Base + Block /\ state' = Ready(Base)
      BY <2>3, <3>2 DEF Reserves
    <3>5. TypeOK'
      BY <1>4, <3>1, <3>2, <3>4 DEF Retry, TypeOK, States, Ready
    <3>6. CarriedIsReserved' /\ LeftIsFree'
      BY <2>1, <3>1, <3>2, <3>3, <3>4 DEF CarriedIsReserved, LeftIsFree, Ready
    <3>7. NextIsFree'
      BY <2>1, <3>1, <3>2, <3>3, <3>4 DEF NextIsFree, Later
    <3>8. OneEach'
      BY <2>1 DEF OneEach
    <3> QED
      BY <3>5, <3>6, <3>7, <3>8
  <2> QED
    BY <1>4, <2>2, <2>3 DEF Retry
<1>5. CASE CloseIds
  <2>1. TypeOK' /\ Carried' \subseteq Carried
    BY <1>5 DEF CloseIds, Closed, TypeOK, States, Carried
  <2> QED
    BY <1>5, <2>1, FewerIsFine DEF CloseIds, Closed
<1>6. CASE Restart
  <2>1. TypeOK'
    BY <1>6 DEF Restart, TypeOK, States, Ready
  <2>2. Carried' = {}
    BY <1>6 DEF Restart, Carried, In, NoFrame
  <2>3. shown' \subseteq shown /\ reserved' = 0 /\ count' = count /\ state' = Ready(0)
    BY <1>6 DEF Restart
  <2>4. NextIsFree'
    BY <1>6 DEF Restart, NextIsFree, Forgotten, TypeOK, Names, Later
  <2>5. LeftIsFree'
    BY <2>2, <2>3 DEF LeftIsFree, Ready, TypeOK, Names
  <2>6. CarriedIsReserved' /\ OneEach'
    BY <2>2, <2>3 DEF CarriedIsReserved, OneEach
  <2> QED
    BY <2>1, <2>4, <2>5, <2>6
<1>7. CASE Edit
  <2>1. TypeOK'
    BY <1>7, LinkAssumption DEF Edit, TypeOK
  <2>2. Carried' = Carried /\ shown' \subseteq shown /\ UNCHANGED <<state, reserved>>
    BY <1>7 DEF Edit, Carried
  <2>3. NextIsFree'
    BY <1>7, LinkAssumption DEF Edit, NextIsFree, Forgotten, TypeOK, Names, Later
  <2>4. CarriedIsReserved' /\ LeftIsFree' /\ OneEach'
    BY <2>2 DEF CarriedIsReserved, LeftIsFree, OneEach
  <2> QED
    BY <2>1, <2>3, <2>4
<1>8. ASSUME NEW l \in Lines, Leave(l) PROVE IInv'
  <2>1. <<>> \in Seq(Names) /\ In(<<>>) = {}
    BY DEF In
  <2>2. TypeOK'
    BY <1>8, <2>1 DEF Leave, TypeOK
  <2>3. \A m \in Lines : In(table'[m]) \subseteq In(table[m])
    BY <1>8, <2>1 DEF Leave, TypeOK
  <2>4. Carried' \subseteq Carried
    BY <1>8, <2>3 DEF Leave, Carried
  <2> QED
    BY <1>8, <2>2, <2>4, FewerIsFine DEF Leave
<1>9. CASE UNCHANGED vars
  <2>1. TypeOK' /\ Carried' = Carried
    BY <1>9 DEF vars, TypeOK, Carried
  <2> QED
    BY <1>9, <2>1, FewerIsFine DEF vars
<1> QED
  BY <1>1, <1>2, <1>3, <1>4, <1>5, <1>6, <1>7, <1>8, <1>9 DEF Next

-----------------------------------------------------------------------------
\* No id a row may still carry names two links, for any lines, links and blocks:
\* what the daemon reserved before a crash, a fault, an edit or an eviction is
\* never issued again while a row may show it.
THEOREM IdsNameOneLink == Spec => []OneLinkPerId
<1>1. IInv => OneLinkPerId
  BY DEF IInv, OneEach, OneLinkPerId
<1> QED
  BY InitHolds, StepHolds, <1>1, PTL DEF Spec

-----------------------------------------------------------------------------
\* What a frame keeps.  While a line is drawn, the last links of its table are
\* the ones drawn so far, and none of them is still to draw; the other lines
\* hold what their last frames drew.

\* The last k names of a table.
TailOf(t, k) == {t[p] : p \in (Len(t) - k + 1)..Len(t)}

DrawnLast ==
    LET t == table[drawing.line]
        k == Cardinality(drawing.got)
    IN  /\ k <= Len(t) /\ drawing.got = TailOf(t, k)
        /\ \A n \in drawing.got : n.link \notin drawing.left

HeldByLine == \A l \in Lines : drawing.line # l => frame[l] \subseteq In(table[l])

FInv == /\ IInv
        /\ frame \in [Lines -> SUBSET Names]
        /\ drawing # NoFrame => DrawnLast
        /\ HeldByLine

\* A tail by its places.
LEMMA TailOfIs ==
    ASSUME NEW t, NEW k, NEW n, Len(t) = n
    PROVE  TailOf(t, k) = {t[p] : p \in (n - k + 1)..n}
BY Zenon DEF TailOf

LEMMA TailOfAppend ==
    ASSUME NEW S, NEW t \in Seq(S), NEW e \in S, NEW k \in Nat, k <= Len(t)
    PROVE  /\ Append(t, e) \in Seq(S) /\ Len(Append(t, e)) = Len(t) + 1
           /\ TailOf(Append(t, e), k + 1) = TailOf(t, k) \cup {e}
<1> DEFINE a == Append(t, e)
           n == Len(t)
           w == n + 1
           h == k + 1
<1>1. n \in Nat /\ k <= n /\ w = n + 1 /\ h = k + 1
  BY LenProperties
<1>2. a \in Seq(S) /\ Len(a) = w /\ \A i \in 1..w : a[i] = IF i <= n THEN t[i] ELSE e
  BY <1>1
<1>3. TailOf(t, k) = {t[p] : p \in (n - k + 1)..n}
  BY TailOfIs
<1> HIDE DEF a, n, w
<1>4. TailOf(a, h) = {a[p] : p \in (w - h + 1)..w}
  <2> HIDE DEF h
  <2> QED
    BY <1>2, TailOfIs
<1>5. (w - h + 1)..w = ((n - k + 1)..n) \cup {w}
  BY <1>1
<1>6. \A p \in (n - k + 1)..n : a[p] = t[p]
  BY <1>1, <1>2
<1>7. a[w] = e
  BY <1>1, <1>2
<1>8. TailOf(a, h) = TailOf(t, k) \cup {e}
  <2> HIDE DEF h
  <2>1. \A x : x \in TailOf(a, h) => x \in TailOf(t, k) \cup {e}
    BY <1>3, <1>4, <1>5, <1>6, <1>7
  <2>2. \A x : x \in TailOf(t, k) \cup {e} => x \in TailOf(a, h)
    BY <1>3, <1>4, <1>5, <1>6, <1>7
  <2> QED
    BY <2>1, <2>2
<1> QED
  BY <1>2, <1>8 DEF a, n, w, h

\* What comes before the tail does not matter to it.
LEMMA TailOfJoined ==
    ASSUME NEW S, NEW b \in Seq(S), NEW c \in Seq(S), NEW k \in Nat, k <= Len(c)
    PROVE  /\ b \o c \in Seq(S) /\ Len(b \o c) = Len(b) + Len(c)
           /\ TailOf(b \o c, k) = TailOf(c, k)
<1> DEFINE u == b \o c
           m == Len(b)
           n == Len(c)
           w == m + n
<1>1. m \in Nat /\ n \in Nat /\ k <= n /\ w = m + n
  BY LenProperties
<1>2. u \in Seq(S) /\ Len(u) = w /\ \A j \in 1..w : u[j] = IF j <= m THEN b[j] ELSE c[j - m]
  BY ConcatProperties
<1>3. TailOf(c, k) = {c[p] : p \in (n - k + 1)..n}
  BY TailOfIs
<1> HIDE DEF u, m, n, w
<1>4. TailOf(u, k) = {u[p] : p \in (w - k + 1)..w}
  <2>1. Len(u) = w
    BY <1>2
  <2> QED BY <2>1, TailOfIs, Zenon
<1>5. ASSUME NEW p \in (w - k + 1)..w
      PROVE  p - m \in (n - k + 1)..n /\ u[p] = c[p - m]
  <2>1. p \in 1..w /\ ~(p <= m) /\ p - m \in (n - k + 1)..n
    BY <1>1
  <2> QED
    BY <1>2, <2>1
<1>6. ASSUME NEW q \in (n - k + 1)..n
      PROVE  m + q \in (w - k + 1)..w /\ u[m + q] = c[q]
  <2>1. m + q \in (w - k + 1)..w /\ (m + q) - m = q
    BY <1>1
  <2> QED
    BY <1>5, <2>1
<1>7. TailOf(u, k) = TailOf(c, k)
  <2>1. \A x : x \in TailOf(u, k) => x \in TailOf(c, k)
    BY <1>3, <1>4, <1>5
  <2>2. \A x : x \in TailOf(c, k) => x \in TailOf(u, k)
    BY <1>3, <1>4, <1>6
  <2> QED
    BY <2>1, <2>2
<1> QED
  BY <1>2, <1>7 DEF u, m, n, w

\* The end of a table from some place on, and what its tail is.
LEMMA TailOfEnd ==
    ASSUME NEW S, NEW t \in Seq(S), NEW f \in Nat, f >= 1, f <= Len(t) + 1,
           NEW k \in Nat, k <= Len(t) - f + 1
    PROVE  /\ SubSeq(t, f, Len(t)) \in Seq(S)
           /\ Len(SubSeq(t, f, Len(t))) = Len(t) - f + 1
           /\ TailOf(SubSeq(t, f, Len(t)), k) = TailOf(t, k)
<1> DEFINE n == Len(t)
           v == SubSeq(t, f, n)
           j == n - f + 1
<1>1. n \in Nat /\ (\A p \in 1..n : t[p] \in S) /\ f <= n + 1 /\ k <= n - f + 1
  BY LenProperties
<1>2. TailOf(t, k) = {t[p] : p \in (n - k + 1)..n}
  BY DEF TailOf
<1> HIDE DEF n
<1>3. /\ v \in Seq(S) /\ Len(v) = IF f <= n THEN n - f + 1 ELSE 0
      /\ \A p \in 1..(n - f + 1) : v[p] = t[f + p - 1]
  BY <1>1, SubSeqProperties
<1> HIDE DEF v
<1>4. j \in Nat /\ k <= j /\ Len(v) = j
  BY <1>1, <1>3
<1>5. TailOf(v, k) = {v[p] : p \in (j - k + 1)..j}
  BY <1>4 DEF TailOf
<1>6. ASSUME NEW p \in (j - k + 1)..j
      PROVE  f + p - 1 \in (n - k + 1)..n /\ v[p] = t[f + p - 1]
  BY <1>1, <1>3
<1>7. ASSUME NEW q \in (n - k + 1)..n
      PROVE  q - f + 1 \in (j - k + 1)..j /\ v[q - f + 1] = t[q]
  <2>1. q - f + 1 \in (j - k + 1)..j /\ f + (q - f + 1) - 1 = q
    BY <1>1
  <2> QED
    BY <1>6, <2>1
<1> HIDE DEF j
<1>8. TailOf(v, k) = TailOf(t, k)
  <2>1. \A x : x \in TailOf(v, k) => x \in TailOf(t, k)
    BY <1>2, <1>5, <1>6
  <2>2. \A x : x \in TailOf(t, k) => x \in TailOf(v, k)
    BY <1>2, <1>5, <1>7
  <2> QED
    BY <2>1, <2>2
<1> QED
  BY <1>3, <1>4, <1>8 DEF n, v, j

\* A name taken out before the tail leaves the tail.
LEMMA TailOfOthers ==
    ASSUME NEW S, NEW t \in Seq(S), NEW k \in Nat, k <= Len(t), NEW i \in 1..(Len(t) - k)
    PROVE  LET u == SubSeq(t, 1, i - 1) \o SubSeq(t, i + 1, Len(t))
           IN  u \in Seq(S) /\ k <= Len(u) /\ TailOf(u, k) = TailOf(t, k)
<1> DEFINE n == Len(t)
           b == SubSeq(t, 1, i - 1)
           f == i + 1
           c == SubSeq(t, f, n)
<1>1. n \in Nat /\ (\A j \in 1..n : t[j] \in S) /\ i \in 1..(n - k)
  BY LenProperties
<1>2. f \in Nat /\ f >= 1 /\ f <= n + 1 /\ k <= n - f + 1 /\ n - f + 1 \in Nat
  BY <1>1
<1>3. b \in Seq(S)
  <2>1. \A j \in 1..(i - 1) : t[j] \in S
    BY <1>1
  <2> QED
    BY <1>1, <2>1, SubSeqProperties
<1> HIDE DEF f
<1>4. c \in Seq(S) /\ Len(c) = n - f + 1 /\ TailOf(c, k) = TailOf(t, k)
  BY <1>2, TailOfEnd
<1> HIDE DEF b, c, n
<1>5. k <= Len(c) /\ Len(c) \in Nat /\ Len(b) \in Nat
  BY <1>2, <1>3, <1>4, LenProperties
<1>6. b \o c \in Seq(S) /\ Len(b \o c) = Len(b) + Len(c) /\ TailOf(b \o c, k) = TailOf(c, k)
  BY <1>3, <1>4, <1>5, TailOfJoined, SMTT(30)
<1>7. k <= Len(b \o c)
  BY <1>5, <1>6
<1>8. b \o c \in Seq(S) /\ k <= Len(b \o c) /\ TailOf(b \o c, k) = TailOf(t, k)
  BY <1>4, <1>6, <1>7
<1> QED
  BY <1>8 DEF b, c, f, n

\* What is kept of a table keeps its tail.
LEMMA TailOfLast ==
    ASSUME NEW S, NEW t \in Seq(S), NEW k \in Nat, NEW m \in Nat,
           k <= m, k <= Len(t)
    PROVE  TailOf(t, k) \subseteq In(LastOf(t, m))
<1> DEFINE n == Len(t)
           f == Later(1, n - m + 1)
           v == SubSeq(t, f, n)
<1>1. n \in Nat
  BY LenProperties
<1>2. f \in Nat /\ f >= 1 /\ f <= n + 1 /\ k <= n - f + 1
  BY <1>1 DEF Later
<1> HIDE DEF f
<1>3. v \in Seq(S) /\ Len(v) = n - f + 1 /\ TailOf(v, k) = TailOf(t, k)
  BY <1>2, TailOfEnd
<1>4. v = LastOf(t, m)
  BY DEF LastOf, f
<1> HIDE DEF v, n
<1>5. DOMAIN v = 1..Len(v) /\ Len(v) \in Nat /\ k <= Len(v)
  BY <1>2, <1>3, LenProperties
<1>6. (Len(v) - k + 1)..Len(v) \subseteq DOMAIN v
  BY <1>5
<1>7. TailOf(v, k) \subseteq In(v)
  BY <1>6 DEF TailOf, In
<1> QED
  BY <1>3, <1>4, <1>7

-----------------------------------------------------------------------------
LEMMA FrameInitHolds == Init => FInv
BY InitHolds DEF Init, FInv, HeldByLine, In

\* A link drawn joins the tail: it was not there, being still to draw.
LEMMA DrawnJoins ==
    ASSUME FInv, drawing # NoFrame, NEW l, l = drawing.line,
           NEW link \in drawing.left, NEW id \in Nat, UNCHANGED frame,
           NEW t \in Seq(Names), Cardinality(drawing.got) <= Len(t),
           drawing.got = TailOf(t, Cardinality(drawing.got)),
           DrawnAs(l, t, link, id)
    PROVE  DrawnLast' /\ HeldByLine'
<1> DEFINE k == Cardinality(drawing.got)
           e == Named(id, link)
<1>1. drawing \in Frames /\ l \in Lines /\ IsFiniteSet(drawing.got) /\ link \in Links
  BY DEF FInv, IInv, TypeOK, Frames
<1>2. e \in Names /\ e.link = link
  BY <1>1 DEF Named, Names
<1>3. e \notin drawing.got
  BY <1>2 DEF FInv, DrawnLast
<1>4. /\ drawing'.line = l /\ drawing'.left = drawing.left \ {link}
      /\ drawing'.got = drawing.got \cup {e}
  BY <1>1 DEF DrawnAs, Frames
<1>5. table'[l] = Append(t, e) /\ \A m \in Lines : m # l => table'[m] = table[m]
  BY <1>1 DEF DrawnAs, FInv, IInv, TypeOK
<1> HIDE DEF e
<1>6. k \in Nat /\ Cardinality(drawing'.got) = k + 1
  BY <1>1, <1>3, <1>4, FS_AddElement, FS_CardinalityType
<1>7. /\ Len(Append(t, e)) = Len(t) + 1
      /\ TailOf(Append(t, e), k + 1) = TailOf(t, k) \cup {e}
  BY <1>2, <1>6, TailOfAppend
<1>8. k + 1 <= Len(t) + 1
  BY <1>6, LenProperties
<1>9. \A n \in drawing'.got : n.link \notin drawing'.left
  BY <1>2, <1>4 DEF FInv, DrawnLast
<1>10. DrawnLast'
  BY <1>4, <1>5, <1>6, <1>7, <1>8, <1>9 DEF DrawnLast
<1>11. HeldByLine'
  BY <1>4, <1>5 DEF FInv, HeldByLine
<1> QED
  BY <1>10, <1>11

LEMMA FrameStepHolds == FInv /\ [Next]_vars => FInv'
<1> SUFFICES ASSUME FInv, [Next]_vars PROVE FInv'
  OBVIOUS
<1>0. IInv' /\ IInv /\ TypeOK
  BY StepHolds DEF FInv, IInv
<1> SUFFICES /\ frame' \in [Lines -> SUBSET Names]
             /\ drawing' # NoFrame => DrawnLast'
             /\ HeldByLine'
  BY <1>0 DEF FInv
<1> DEFINE Goal == /\ frame' \in [Lines -> SUBSET Names]
                   /\ drawing' # NoFrame => DrawnLast'
                   /\ HeldByLine'
<1>00. frame \in [Lines -> SUBSET Names]
  BY DEF FInv
<1>1. ASSUME NEW l \in Lines, NEW S \in SUBSET Links, StartFrame(l, S) PROVE Goal
  <2>1. table[l] \in Seq(Names) /\ Len(table[l]) \in Nat
    BY <1>0, LenProperties DEF TypeOK
  <2>2. drawing'.line = l /\ drawing'.got = {} /\ Cardinality(drawing'.got) = 0
    BY <1>1, FS_EmptySet DEF StartFrame
  <2>3. TailOf(table[l], 0) = {}
    BY <2>1 DEF TailOf
  <2>4. DrawnLast'
    BY <1>1, <2>1, <2>2, <2>3 DEF StartFrame, DrawnLast
  <2>5. HeldByLine'
    BY <1>1, LinkAssumption DEF StartFrame, FInv, HeldByLine, NoFrame
  <2> QED
    BY <1>00, <1>1, <2>4, <2>5 DEF StartFrame
<1>2. ASSUME NEW link \in Links, RangeOf(link) PROVE Goal
  <2> DEFINE l == drawing.line
             k == Cardinality(drawing.got)
             t == table[l]
  <2>0. drawing # NoFrame /\ drawing \in Frames /\ l \in Lines /\ link \in drawing.left
    BY <1>0, <1>2 DEF RangeOf, TypeOK, Frames, NoFrame
  <2>1. UNCHANGED frame /\ DrawnLast
    BY <1>2, <2>0 DEF RangeOf, FInv
  <2>2. t \in Seq(Names) /\ Len(t) \in Nat /\ DOMAIN t = 1..Len(t)
    BY <1>0, <2>0, LenProperties DEF TypeOK
  <2>3. k \in Nat /\ k <= Len(t) /\ drawing.got = TailOf(t, k)
    BY <2>0, <2>1, FS_CardinalityType DEF DrawnLast, Frames
  <2>4. ASSUME NEW id \in Nat, DrawnAs(l, t, link, id) PROVE Goal
    BY <1>00, <2>0, <2>1, <2>2, <2>3, <2>4, DrawnJoins
  <2>5. ASSUME DrawnBare(link) PROVE Goal
    <3>1. /\ drawing'.line = l /\ drawing'.left = drawing.left \ {link}
          /\ drawing'.got = drawing.got /\ table' = table
      BY <2>0, <2>5 DEF DrawnBare, Frames
    <3>2. DrawnLast'
      BY <2>1, <3>1 DEF DrawnLast
    <3>3. HeldByLine'
      BY <2>1, <3>1 DEF FInv, HeldByLine
    <3> QED
      BY <1>00, <2>1, <3>2, <3>3
  <2>6. CASE Reuse(l, link)
    <3>1. PICK i \in DOMAIN t :
            /\ t[i].link = link
            /\ DrawnAs(l, SubSeq(t, 1, i - 1) \o SubSeq(t, i + 1, Len(t)), link, t[i].id)
      BY <2>6 DEF Reuse
    <3> DEFINE u == SubSeq(t, 1, i - 1) \o SubSeq(t, i + 1, Len(t))
               id == t[i].id
    <3> HIDE DEF t, k
    <3>2. t[i] \in Names /\ id \in Nat
      <4>1. t[i] \in Names
        BY <2>2, InIsItsType DEF In
      <4> QED
        BY <4>1 DEF Names
    <3>3. i \in 1..(Len(t) - k)
      <4> SUFFICES ASSUME i \notin 1..(Len(t) - k) PROVE FALSE
        OBVIOUS
      <4>1. i \in (Len(t) - k + 1)..Len(t)
        BY <2>2, <2>3
      <4>2. t[i] \in drawing.got
        BY <2>3, <4>1 DEF TailOf
      <4> QED
        BY <2>0, <2>1, <3>1, <4>2 DEF DrawnLast
    <3>4. u \in Seq(Names) /\ k <= Len(u) /\ TailOf(u, k) = TailOf(t, k)
      BY <2>2, <2>3, <3>3, TailOfOthers
    <3>5. drawing.got = TailOf(u, k)
      BY <2>3, <3>4
    <3>6. DrawnAs(l, u, link, id)
      BY <3>1
    <3> HIDE DEF u, id
    <3> QED
      BY <1>00, <2>0, <2>1, <3>2, <3>4, <3>5, <3>6, DrawnJoins DEF k
  <2>7. CASE Mint(l, link)
    <3>1. CASE state.kind = "ready" /\ DrawnAs(l, t, link, state.next)
      BY <1>0, <2>4, <3>1 DEF TypeOK, States
    <3>2. CASE Reserves(1) /\ DrawnAs(l, t, link, Base)
      <4>1. Base \in Nat
        BY <1>0, <3>2, LaterIsBoth DEF Reserves, Fits, TypeOK, Base
      <4> QED
        BY <2>4, <3>2, <4>1
    <3> QED
      BY <2>5, <2>7, <3>1, <3>2 DEF Mint
  <2> QED
    BY <1>2, <2>6, <2>7 DEF RangeOf
<1>3. CASE EndFrame
  <2> DEFINE l == drawing.line
             k == Cardinality(drawing.got)
             m == Later(Cap, k)
  <2>0. drawing # NoFrame /\ drawing \in Frames /\ l \in Lines
    BY <1>0, <1>3 DEF EndFrame, TypeOK, Frames
  <2>1. k \in Nat /\ k <= Len(table[l]) /\ drawing.got = TailOf(table[l], k)
    BY <2>0, FS_CardinalityType DEF FInv, DrawnLast, Frames
  <2>2. m \in Nat /\ k <= m
    BY <2>1, LinkAssumption, LaterIsBoth
  <2>3. table[l] \in Seq(Names)
    BY <1>0, <2>0 DEF TypeOK
  <2>4. Kept(l) = LastOf(table[l], m)
    BY DEF Kept
  <2> HIDE DEF m, k
  <2>5. drawing.got \subseteq In(Kept(l))
    BY <2>1, <2>2, <2>3, <2>4, TailOfLast
  <2>6. /\ drawing' = NoFrame
        /\ table'[l] = Kept(l) /\ frame'[l] = drawing.got
        /\ \A j \in Lines : j # l => table'[j] = table[j] /\ frame'[j] = frame[j]
    BY <1>0, <1>00, <1>3, <2>0 DEF EndFrame, TypeOK
  <2>7. frame' \in [Lines -> SUBSET Names]
    BY <1>00, <1>3, <2>0 DEF EndFrame, Frames
  <2>8. HeldByLine'
    BY <2>5, <2>6 DEF FInv, HeldByLine
  <2> QED
    BY <2>6, <2>7, <2>8
<1>4. ASSUME UNCHANGED <<table, frame, drawing>> PROVE Goal
  BY <1>00, <1>4 DEF FInv, DrawnLast, HeldByLine
<1>5. CASE Restart
  BY <1>5 DEF Restart, HeldByLine
<1>6. ASSUME NEW l \in Lines, Leave(l) PROVE Goal
  <2>1. /\ drawing = NoFrame /\ drawing' = NoFrame
        /\ frame' = [frame EXCEPT ![l] = {}]
        /\ table' = [table EXCEPT ![l] = <<>>]
    BY <1>6 DEF Leave
  <2>2. frame' \in [Lines -> SUBSET Names]
    BY <1>00, <2>1
  <2>3. ASSUME NEW j \in Lines, drawing'.line # j
        PROVE  frame'[j] \subseteq In(table'[j])
    <3>1. CASE j = l
      BY <1>00, <2>1, <3>1
    <3>2. CASE j # l
      BY <1>0, <1>00, <2>1, <2>3, <3>2 DEF FInv, HeldByLine, TypeOK
    <3> QED
      BY <3>1, <3>2
  <2>4. HeldByLine'
    BY <2>3 DEF HeldByLine
  <2> QED
    BY <2>1, <2>2, <2>4
<1> QED
  BY <1>1, <1>2, <1>3, <1>4, <1>5, <1>6 DEF Next, Retry, CloseIds, Edit, vars

\* A link a line's last frame drew is still in its table, under the id its cell
\* carries, when the next frame is drawn (rangeOf, frame): whatever the cap, a
\* row of more links than it loses none of its own to the eviction that follows.
THEOREM FramesAreKept == Spec => []FrameIsHeld
<1>1. FInv => FrameIsHeld
  BY DEF FInv, HeldByLine, FrameIsHeld, In
<1> QED
  BY FrameInitHolds, FrameStepHolds, <1>1, PTL DEF Spec

-----------------------------------------------------------------------------
(* One repository's git cache.                                             *)

\* What a value shows, or a pass has read.
Readings == Reads \cup {None, Pending, Failed}

RepoFields == {"value", "pass", "again", "timer", "lost", "split", "pr"}
PrFields == {"made", "missed", "key", "remote", "reading", "seen", "inFlight", "out", "timer"}

\* Whatever its fields hold, it has those fields and no others.
RepoShaped(r) == r = [f \in RepoFields |-> r[f]]
PrShaped(pr) == pr = [f \in PrFields |-> pr[f]]

LEMMA Apart ==
    /\ None # Pending /\ None # Failed /\ Pending # Failed
    /\ None \notin Reads /\ Pending \notin Reads /\ Failed \notin Reads
    /\ None \notin Keys /\ Pending \notin Keys /\ NoKey \notin Keys
    /\ None # NoKey /\ Pending # NoKey
<1>1. None # Pending
  BY DEF None, Pending
<1>2. None # Failed
  BY DEF None, Failed
<1>3. Pending # Failed
  BY DEF Failed, Pending
<1>4. None \notin Reads
  BY DEF None, Reads
<1>5. Pending \notin Reads
  BY DEF Pending, Reads
<1>6. Failed \notin Reads
  BY DEF Failed, Reads
<1>7. None \notin Keys
  BY DEF None, Keys
<1>8. Pending \notin Keys
  BY DEF Pending, Keys
<1>9. NoKey \notin Keys
  BY DEF NoKey, Keys
<1>10. None # NoKey
  BY DEF NoKey, None
<1>11. Pending # NoKey
  BY DEF NoKey, Pending
<1> QED
  BY <1>1, <1>2, <1>3, <1>4, <1>5, <1>6, <1>7, <1>8, <1>9, <1>10, <1>11

LEMMA KeysAre ==
    /\ \A k \in Keys : k[1] \in Branches /\ k[2] \in Remotes
    /\ \A b \in Branches, m \in Remotes :
          <<b, m>> \in Keys /\ <<b, m>>[1] = b /\ <<b, m>>[2] = m
    /\ \A k \in Keys : k[2] = "url" => k = <<k[1], "url">>
    /\ "url" \in Remotes /\ "none" \in Remotes
BY DEF Keys, Remotes

LEMMA ReadsAre ==
    /\ \A x \in Reads : x[1] \in Branches /\ x = <<x[1], x[2]>>
    /\ \A b \in Branches, n \in BOOLEAN : <<b, n>> \in Reads /\ <<b, n>>[1] = b
    /\ \A x \in Readings : /\ Aged(x) \in Readings
                           /\ Ok(x) = Ok(Aged(x)) /\ (Ok(x) => Aged(x)[1] = x[1])
                           /\ x \in {None, Pending, Failed} => Aged(x) = x
                           /\ (Aged(x) = None) = (x = None)
<1>1. /\ \A x \in Reads : x[1] \in Branches /\ x = <<x[1], x[2]>>
      /\ \A b \in Branches, n \in BOOLEAN : <<b, n>> \in Reads /\ <<b, n>>[1] = b
  BY DEF Reads
<1> QED
  BY <1>1, Apart DEF Readings, Aged, Ok

-----------------------------------------------------------------------------
(* The pull request.                                                       *)

\* A landing tells what it found only to the key it was asked for.
LEMMA LandedIs ==
    ASSUME NEW pr, PrShaped(pr), NEW inView, NEW key
    PROVE  LET q == Landed(pr, inView, key)
               mine == pr.key = key /\ ~pr.missed
           IN  /\ PrShaped(q)
               /\ q.made = pr.made /\ q.missed = pr.missed /\ q.key = pr.key
               /\ q.remote = pr.remote /\ q.out = pr.out
               /\ q.inFlight = IF pr.inFlight = key THEN NoKey ELSE pr.inFlight
               /\ q.reading = IF mine THEN key ELSE pr.reading
               /\ q.timer = IF mine THEN inView ELSE pr.timer
<1> DEFINE latest == Latest(pr.seen, key)
           seen == IF Len(latest) > KeysKept THEN Tail(latest) ELSE latest
<1>1. Landed(pr, inView, key) =
         LET kept == [pr EXCEPT !.inFlight = IF @ = key THEN NoKey ELSE @, !.seen = seen]
         IN  IF pr.key # key \/ pr.missed THEN kept
             ELSE [kept EXCEPT !.reading = key, !.timer = inView]
  BY DEF Landed
<1> HIDE DEF seen
<1> QED
  BY <1>1 DEF PrShaped, PrFields

\* A lookup goes out, or with no remote lands in its turn.
LEMMA LookupIs ==
    ASSUME NEW pr, PrShaped(pr), NEW inView, pr.inFlight # pr.key
    PROVE  LET q == Lookup(pr, inView) IN
           /\ PrShaped(q)
           /\ q.made = pr.made /\ q.missed = pr.missed /\ q.key = pr.key
           /\ q.remote = pr.remote
           /\ IF pr.remote = "url"
              THEN /\ q.inFlight = pr.key /\ q.timer = FALSE /\ q.reading = pr.reading
                   /\ q.out = [pr.out EXCEPT ![pr.key[1]] = @ + 1]
              ELSE /\ q.inFlight = NoKey /\ q.out = pr.out
                   /\ q.reading = IF pr.missed THEN pr.reading ELSE pr.key
                   /\ q.timer = IF pr.missed THEN FALSE ELSE inView
<1> DEFINE asked == [pr EXCEPT !.inFlight = pr.key, !.timer = FALSE]
           q == Lookup(pr, inView)
<1>1. q = IF pr.remote = "url" THEN [asked EXCEPT !.out[pr.key[1]] = @ + 1]
          ELSE Landed(asked, inView, pr.key)
  BY DEF Lookup
<1>2. /\ PrShaped(asked) /\ asked.made = pr.made /\ asked.missed = pr.missed
      /\ asked.key = pr.key /\ asked.remote = pr.remote /\ asked.reading = pr.reading
      /\ asked.inFlight = pr.key /\ asked.out = pr.out /\ asked.timer = FALSE
  BY DEF PrShaped, PrFields
<1> HIDE DEF asked, q
<1>3. CASE pr.remote = "url"
  <2> DEFINE out == [pr.out EXCEPT ![pr.key[1]] = @ + 1]
  <2>1. q = [asked EXCEPT !.out = out]
    BY <1>1, <1>2, <1>3
  <2> HIDE DEF out
  <2>2. /\ PrShaped(q) /\ q.made = pr.made /\ q.missed = pr.missed
        /\ q.key = pr.key /\ q.remote = pr.remote /\ q.reading = pr.reading
        /\ q.inFlight = pr.key /\ q.out = out /\ q.timer = FALSE
    BY <1>2, <2>1 DEF PrShaped, PrFields
  <2> QED
    BY <1>3, <2>2 DEF q, out
<1>4. CASE pr.remote # "url"
  <2> DEFINE key == pr.key
  <2> HIDE DEF key
  <2>1. q = Landed(asked, inView, key)
    BY <1>1, <1>4 DEF key
  <2>2. LET mine == asked.key = key /\ ~asked.missed
        IN  /\ PrShaped(q)
            /\ q.made = asked.made /\ q.missed = asked.missed /\ q.key = asked.key
            /\ q.remote = asked.remote /\ q.out = asked.out
            /\ q.inFlight = IF asked.inFlight = key THEN NoKey ELSE asked.inFlight
            /\ q.reading = IF mine THEN key ELSE asked.reading
            /\ q.timer = IF mine THEN inView ELSE asked.timer
    BY <1>2, <2>1, LandedIs
  <2> QED
    BY <1>2, <1>4, <2>2 DEF q, key
<1> QED
  BY <1>3, <1>4

\* A lookup that is out is of a key that has one to ask; what is shown is keyed, and
\* shows nothing but its own key's answer.
PrHalfFit(pr) ==
    /\ PrShaped(pr)
    /\ pr.made \in BOOLEAN /\ pr.missed \in BOOLEAN /\ pr.timer \in BOOLEAN
    /\ pr.key \in Keys \cup {NoKey} /\ pr.remote \in Remotes
    /\ pr.inFlight \in Keys \cup {NoKey} /\ pr.out \in [Branches -> Nat]
    /\ pr.inFlight \in Keys => pr.inFlight[2] = "url" /\ pr.out[pr.inFlight[1]] > 0
    /\ pr.key \in Keys => pr.remote = pr.key[2]
    /\ ~pr.missed => pr.key \in Keys /\ pr.made
    /\ pr.reading \in IF pr.missed THEN {None, Pending} ELSE {Pending, pr.key}

\* One not missed is answered or being looked up.
PrFit(pr) == PrHalfFit(pr) /\ (~pr.missed => pr.key \in {pr.inFlight, pr.reading})

\* One shown has its timer or is being looked up, and no other has a timer.
PrTimed(pr, inView) ==
    /\ PrFit(pr)
    /\ pr.timer => inView /\ ~pr.missed
    /\ inView /\ ~pr.missed => pr.inFlight = pr.key \/ pr.timer

\* Whether this PR is that one, moved on.
SamePr(q, pr) == /\ q.made = pr.made /\ q.missed = pr.missed /\ q.key = pr.key
                 /\ pr.missed => q.reading = pr.reading

LEMMA LookupFits ==
    ASSUME NEW pr, PrHalfFit(pr), ~pr.missed, NEW inView \in BOOLEAN, pr.timer => inView
    PROVE  LET q == Lookup(pr, inView) IN PrTimed(q, inView) /\ SamePr(q, pr)
<1> DEFINE q == Lookup(pr, inView)
<1>1. CASE pr.inFlight = pr.key
  <2>1. q = pr
    BY <1>1 DEF Lookup
  <2> HIDE DEF q
  <2> QED
    BY <1>1, <2>1 DEF q, PrHalfFit, PrFit, PrTimed, SamePr
<1>2. CASE pr.inFlight # pr.key
  <2>1. /\ PrShaped(q)
        /\ q.made = pr.made /\ q.missed = pr.missed /\ q.key = pr.key
        /\ q.remote = pr.remote
        /\ IF pr.remote = "url"
           THEN /\ q.inFlight = pr.key /\ q.timer = FALSE /\ q.reading = pr.reading
                /\ q.out = [pr.out EXCEPT ![pr.key[1]] = @ + 1]
           ELSE /\ q.inFlight = NoKey /\ q.out = pr.out
                /\ q.reading = IF pr.missed THEN pr.reading ELSE pr.key
                /\ q.timer = IF pr.missed THEN FALSE ELSE inView
    BY <1>2, LookupIs DEF PrHalfFit
  <2> HIDE DEF q
  <2>2. pr.key \in Keys /\ pr.key[1] \in Branches /\ pr.remote = pr.key[2] /\ pr.made = TRUE
    BY KeysAre DEF PrHalfFit
  <2>3. CASE pr.remote = "url"
    <3>1. q.out \in [Branches -> Nat] /\ q.out[q.inFlight[1]] > 0
      BY <2>1, <2>2, <2>3 DEF PrHalfFit
    <3> QED
      BY <2>1, <2>2, <2>3, <3>1 DEF q, PrHalfFit, PrFit, PrTimed, SamePr
  <2>4. CASE pr.remote # "url"
    BY <2>1, <2>2, <2>4, Apart DEF q, PrHalfFit, PrFit, PrTimed, SamePr
  <2> QED
    BY <2>3, <2>4
<1> QED
  BY <1>1, <1>2

\* A lookup's answer.
LEMMA AnswerFits ==
    ASSUME NEW pr, NEW show \in BOOLEAN, PrTimed(pr, show), NEW b \in Branches, pr.out[b] > 0,
           NEW inView, inView = (pr.made /\ show /\ ~pr.missed)
    PROVE  LET q == Landed([pr EXCEPT !.out[b] = @ - 1], inView, <<b, "url">>)
           IN  PrTimed(q, show) /\ SamePr(q, pr)
<1> DEFINE p == [pr EXCEPT !.out[b] = @ - 1]
           out == [pr.out EXCEPT ![b] = @ - 1]
           key == <<b, "url">>
           q == Landed(p, inView, key)
<1>1. PrHalfFit(pr) /\ PrFit(pr) /\ PrShaped(pr)
  BY DEF PrTimed, PrFit, PrHalfFit
<1>2. p = [pr EXCEPT !.out = out]
  OBVIOUS
<1>3. out \in [Branches -> Nat] /\ \A c \in Branches \ {b} : out[c] = pr.out[c]
  BY <1>1 DEF PrHalfFit
<1>4. key \in Keys /\ key[1] = b /\ \A k \in Keys : k[2] = "url" /\ k # key => k[1] # b
  BY KeysAre
<1> HIDE DEF p, out, key
<1>5. /\ PrShaped(p) /\ p.made = pr.made /\ p.missed = pr.missed
      /\ p.key = pr.key /\ p.remote = pr.remote /\ p.reading = pr.reading
      /\ p.inFlight = pr.inFlight /\ p.out = out /\ p.timer = pr.timer
  BY <1>1, <1>2 DEF PrShaped, PrFields
<1> DEFINE mine == p.key = key /\ ~p.missed
<1>6. /\ PrShaped(q)
      /\ q.made = p.made /\ q.missed = p.missed /\ q.key = p.key
      /\ q.remote = p.remote /\ q.out = p.out
      /\ q.inFlight = IF p.inFlight = key THEN NoKey ELSE p.inFlight
      /\ q.reading = IF mine THEN key ELSE p.reading
      /\ q.timer = IF mine THEN inView ELSE p.timer
  BY <1>5, LandedIs
<1> HIDE DEF q
<1>7. SamePr(q, pr)
  BY <1>5, <1>6 DEF SamePr
<1>8. q.inFlight \in Keys \cup {NoKey}
      /\ (q.inFlight \in Keys => q.inFlight[2] = "url" /\ q.out[q.inFlight[1]] > 0)
  BY <1>1, <1>3, <1>4, <1>5, <1>6, KeysAre, Apart DEF PrHalfFit
<1>9. PrHalfFit(q)
  BY <1>1, <1>3, <1>4, <1>5, <1>6, <1>8 DEF PrHalfFit
<1>10. PrFit(q)
  BY <1>1, <1>5, <1>6, <1>9 DEF PrFit
<1>11. PrTimed(q, show)
  BY <1>1, <1>5, <1>6, <1>10 DEF PrTimed, PrHalfFit
<1> QED
  BY <1>7, <1>11 DEF p, out, key, q

\* The branch a pass read takes its own PR along.
LEMMA MovedFits ==
    ASSUME NEW pr, NEW H, PrTimed(pr, Showers(H) # {}), pr.made = TRUE, NEW key \in Keys
    PROVE  LET q == Moved(pr, H, key) IN
           /\ PrTimed(q, Showers(H) # {}) /\ q.made = TRUE
           /\ q.missed => Showers(H) = {}
           /\ ~q.missed => q.key = key
<1> DEFINE inView == Showers(H) # {}
           to == [pr EXCEPT !.key = key, !.remote = key[2], !.missed = FALSE]
           seen == Latest(to.seen, key)
           answered == [to EXCEPT !.seen = seen, !.reading = key, !.timer = inView]
           owed == [to EXCEPT !.missed = TRUE, !.reading = Pending]
           asked == [to EXCEPT !.reading = Pending]
           q == Moved(pr, H, key)
<1>1. \/ q = pr /\ key = pr.key /\ ~pr.missed
      \/ q = answered
      \/ q = owed /\ ~inView
      \/ q = Lookup(asked, inView)
  BY DEF Moved, Owed
<1>2. /\ PrHalfFit(pr) /\ PrFit(pr) /\ PrShaped(pr) /\ inView \in BOOLEAN
      /\ key[2] \in Remotes
  BY KeysAre DEF PrTimed, PrFit, PrHalfFit
<1> HIDE DEF q, seen, inView
<1>3. /\ PrShaped(to) /\ to.made = pr.made /\ to.missed = FALSE
      /\ to.key = key /\ to.remote = key[2] /\ to.reading = pr.reading
      /\ to.inFlight = pr.inFlight /\ to.out = pr.out /\ to.timer = pr.timer
  BY <1>2 DEF PrShaped, PrFields
<1> HIDE DEF to
<1>4. CASE q = pr /\ key = pr.key /\ ~pr.missed
  BY <1>4 DEF q, inView
<1>5. CASE q = answered
  <2>1. /\ PrShaped(q) /\ q.made = pr.made /\ q.missed = FALSE
        /\ q.key = key /\ q.remote = key[2] /\ q.reading = key
        /\ q.inFlight = pr.inFlight /\ q.out = pr.out /\ q.timer = inView
    BY <1>3, <1>5 DEF PrShaped, PrFields
  <2> QED
    BY <1>2, <2>1 DEF q, inView, PrHalfFit, PrFit, PrTimed
<1>6. CASE q = owed /\ ~inView
  <2>1. /\ PrShaped(q) /\ q.made = pr.made /\ q.missed = TRUE
        /\ q.key = key /\ q.remote = key[2] /\ q.reading = Pending
        /\ q.inFlight = pr.inFlight /\ q.out = pr.out /\ q.timer = pr.timer
    BY <1>3, <1>6 DEF PrShaped, PrFields
  <2> QED
    BY <1>2, <1>6, <2>1 DEF q, inView, PrHalfFit, PrFit, PrTimed
<1>7. CASE q = Lookup(asked, inView)
  <2>1. /\ PrShaped(asked) /\ asked.made = pr.made /\ asked.missed = FALSE
        /\ asked.key = key /\ asked.remote = key[2] /\ asked.reading = Pending
        /\ asked.inFlight = pr.inFlight /\ asked.out = pr.out /\ asked.timer = pr.timer
    BY <1>3 DEF PrShaped, PrFields
  <2> HIDE DEF asked
  <2>2. PrHalfFit(asked) /\ (asked.timer => inView)
    BY <1>2, <2>1 DEF PrHalfFit, PrTimed, inView
  <2>3. PrTimed(q, inView) /\ SamePr(q, asked)
    BY <1>2, <1>7, <2>1, <2>2, LookupFits
  <2> QED
    BY <2>1, <2>3 DEF q, inView, SamePr
<1> QED
  BY <1>1, <1>4, <1>5, <1>6, <1>7

-----------------------------------------------------------------------------
(* The values and the refresh loop.                                        *)

PassFields == {"out", "read", "pr", "remote"}
PassTyped(p) ==
    /\ p = [f \in PassFields |-> p[f]]
    /\ p.pr \in BOOLEAN
    /\ DOMAIN p.read \subseteq Sets /\ p.read \in [DOMAIN p.read -> Readings \ {None}]

RepoTyped(r) ==
    /\ RepoShaped(r)
    /\ r.value \in [Sets -> [reading : Readings, missed : BOOLEAN]]
    /\ r.again \in BOOLEAN /\ r.timer \in BOOLEAN
    /\ r.pass.out \in BOOLEAN
    /\ r.pass.out => PassTyped(r.pass) /\ \A o \in DOMAIN r.pass.read : Known(r, o)

Stale(reading, at) == Ok(reading) /\ reading # <<at, TRUE>>

\* A PR that is keyed is the branch's that every value not missed was read on.
OneBranch(r) ==
    ~r.split /\ ~r.pr.missed =>
       \A o \in Sets : ~r.value[o].missed /\ Ok(r.value[o].reading)
                          => r.value[o].reading[1] = r.pr.key[1]

\* What is held is known, and the PR shown is made.
Steady(r, H) ==
    /\ RepoTyped(r)
    /\ \A h \in H : Known(r, h[2])
    /\ PrTimed(r.pr, Showers(H) # {})
    /\ Showers(H) # {} => r.pr.made
    /\ OneBranch(r)

\* A pass out leaves no value be that it does not call missed, nor a PR keyed that it
\* does not know of.
PassFit(r) ==
    r.pass.out =>
       /\ \A o \in Sets \ DOMAIN r.pass.read :
             Ok(r.value[o].reading) => r.value[o].missed
       /\ IF r.pass.pr THEN r.pr.made ELSE r.pr.missed

\* The pass out reads set o once more.
Rereads(r, o) == r.pass.out /\ (o \in DOMAIN r.pass.read \/ r.again)

\* What the repository is not any more is still to be reported, or read.
Heeded(r, at, unread) ==
    /\ \A o \in Sets : Stale(r.value[o].reading, at)
                          => unread \/ r.value[o].missed \/ r.lost \/ Rereads(r, o)
    /\ r.pass.out => \A o \in DOMAIN r.pass.read :
                        Stale(r.pass.read[o], at) => unread \/ r.again \/ r.lost

\* What is held and missed is being read.
Fetched(r, H) == \A h \in H : r.value[h[2]].missed => Rereads(r, h[2])

\* A PR shown and not keyed has a pass out that will key it, or failed to.
PrAwaited(r, H) ==
    Showers(H) # {} /\ r.pr.missed =>
       /\ r.pass.out \/ (r.pr.reading = None /\ r.timer)
       /\ r.pass.out => r.again \/ (r.pass.pr /\ DOMAIN r.pass.read # {})

Timely(r, H, at, unread) ==
    PassFit(r) /\ Heeded(r, at, unread) /\ Fetched(r, H) /\ PrAwaited(r, H)

Holds == Homes \X Sets \X BOOLEAN

CacheInv ==
    /\ head \in Branches /\ holds \subseteq Holds
    /\ closed \in BOOLEAN /\ unheard \in BOOLEAN
    /\ closed => repo = New
    /\ ~closed => Steady(repo, holds) /\ Timely(repo, holds, head, unheard)

LEMMA HoldsAre ==
    /\ \A h \in Holds : h[1] \in Homes /\ h[2] \in Sets /\ h[3] \in BOOLEAN
    /\ \A h \in Homes, o \in Sets, s \in BOOLEAN :
          /\ <<h, o, s>> \in Holds
          /\ <<h, o, s>>[1] = h /\ <<h, o, s>>[2] = o /\ <<h, o, s>>[3] = s
BY DEF Holds

\* The sets a pass begun for the holds H reads.
Wants(r, H) == {o \in Sets : Known(r, o) /\ (Readers(H, o) # {}
                                             \/ r.value[o].reading = Pending)}

LEMMA BeginIs ==
    ASSUME NEW r, RepoTyped(r), NEW H
    PROVE  LET b == Begin(r, H) IN
           /\ RepoShaped(b) /\ b.pr = r.pr /\ b.split = r.split
           /\ b.again = FALSE /\ b.timer = FALSE /\ b.lost = FALSE
           /\ b.value \in [Sets -> [reading : Readings, missed : BOOLEAN]]
           /\ \A o \in Sets :
                 /\ b.value[o].reading = r.value[o].reading
                 /\ b.value[o].missed = (r.value[o].missed \/ (Known(r, o) /\ o \notin Wants(r, H)))
           /\ b.pass = [f \in PassFields |-> b.pass[f]] /\ b.pass.out = TRUE
           /\ b.pass.pr = r.pr.made /\ b.pass.read = [o \in Wants(r, H) |-> Pending]
<1> DEFINE reads == Wants(r, H)
           value == [o \in Sets |-> IF Known(r, o) /\ o \notin reads
                                    THEN [r.value[o] EXCEPT !.missed = TRUE] ELSE r.value[o]]
           remote == r.pr.made /\ Showers(H) # {}
           pass == [out |-> TRUE, read |-> [o \in reads |-> Pending], pr |-> r.pr.made,
                    remote |-> remote]
           b == Begin(r, H)
<1>1. b = [r EXCEPT !.again = FALSE, !.timer = FALSE, !.lost = FALSE,
                    !.value = value, !.pass = pass]
  BY DEF Begin, Wants
<1>2. value \in [Sets -> [reading : Readings, missed : BOOLEAN]]
  BY DEF RepoTyped
<1>3. ASSUME NEW o \in Sets
      PROVE  /\ value[o].reading = r.value[o].reading
             /\ value[o].missed = (r.value[o].missed \/ (Known(r, o) /\ o \notin reads))
  <2>1. r.value[o] \in [reading : Readings, missed : BOOLEAN]
    BY DEF RepoTyped
  <2> HIDE DEF reads
  <2> QED
    BY <2>1
<1> HIDE DEF reads, value, remote
<1>4. pass = [f \in PassFields |-> pass[f]] /\ pass.out = TRUE /\ pass.pr = r.pr.made
      /\ pass.read = [o \in reads |-> Pending]
  BY DEF PassFields
<1> HIDE DEF pass, b
<1>5. /\ RepoShaped(b) /\ b.pr = r.pr /\ b.split = r.split
      /\ b.again = FALSE /\ b.timer = FALSE /\ b.lost = FALSE
      /\ b.value = value /\ b.pass = pass
  BY <1>1 DEF RepoTyped, RepoShaped, RepoFields
<1> QED
  BY <1>2, <1>3, <1>4, <1>5 DEF b, reads

LEMMA BeginFits ==
    ASSUME NEW r, NEW H \in SUBSET Holds, Steady(r, H), NEW at, NEW unread
    PROVE  LET b == Begin(r, H) IN
           /\ Steady(b, H) /\ Timely(b, H, at, unread)
           /\ \A h \in H : b.value[h[2]].missed = r.value[h[2]].missed
           /\ b.pr = r.pr
<1> DEFINE b == Begin(r, H)
           reads == Wants(r, H)
<1>1. /\ RepoTyped(r) /\ OneBranch(r) /\ PrTimed(r.pr, Showers(H) # {})
      /\ \A h \in H : Known(r, h[2])
      /\ Showers(H) # {} => r.pr.made
  BY DEF Steady
<1>2. /\ RepoShaped(b) /\ b.pr = r.pr /\ b.split = r.split
      /\ b.again = FALSE /\ b.timer = FALSE /\ b.lost = FALSE
      /\ b.value \in [Sets -> [reading : Readings, missed : BOOLEAN]]
      /\ \A o \in Sets :
            /\ b.value[o].reading = r.value[o].reading
            /\ b.value[o].missed = (r.value[o].missed \/ (Known(r, o) /\ o \notin reads))
      /\ b.pass = [f \in PassFields |-> b.pass[f]] /\ b.pass.out = TRUE
      /\ b.pass.pr = r.pr.made /\ b.pass.read = [o \in reads |-> Pending]
  BY <1>1, BeginIs
<1> HIDE DEF b
<1>3. reads \subseteq Sets /\ \A o \in reads : Known(b, o) /\ Known(r, o)
  BY <1>2 DEF Wants, Known
<1>4. \A h \in H : h[2] \in reads /\ h[2] \in Sets
  BY <1>1, HoldsAre DEF Wants, Readers
<1>5. Pending \in Readings \ {None} /\ ~Ok(Pending)
  BY Apart DEF Readings, Ok
<1>6. DOMAIN b.pass.read = reads /\ \A o \in reads : b.pass.read[o] = Pending
  BY <1>2
<1>7. \A o \in Sets \ reads : Ok(r.value[o].reading) => b.value[o].missed
  BY <1>2, Apart DEF Ok, Known
<1>8. r.pr.made \in BOOLEAN /\ (~r.pr.made => r.pr.missed)
  BY <1>1 DEF PrTimed, PrFit, PrHalfFit
<1>9. PassTyped(b.pass)
  BY <1>2, <1>3, <1>5, <1>6, <1>8 DEF PassTyped
<1>10. RepoTyped(b)
  BY <1>2, <1>3, <1>6, <1>9 DEF RepoTyped
<1>11. OneBranch(b)
  BY <1>1, <1>2 DEF OneBranch
<1>12. Steady(b, H)
  BY <1>1, <1>2, <1>3, <1>4, <1>10, <1>11 DEF Steady
<1> HIDE DEF reads
<1>13. PassFit(b)
  BY <1>2, <1>6, <1>7, <1>8 DEF PassFit
<1>14. Heeded(b, at, unread)
  BY <1>2, <1>5, <1>6, <1>7 DEF Heeded, Stale, Rereads
<1>15. Fetched(b, H)
  BY <1>2, <1>4, <1>6 DEF Fetched, Rereads
<1>16. PrAwaited(b, H)
  BY <1>1, <1>2, <1>4, <1>6 DEF PrAwaited, Showers
<1>17. \A h \in H : b.value[h[2]].missed = r.value[h[2]].missed
  BY <1>1, <1>2, <1>4 DEF RepoTyped
<1> QED
  BY <1>2, <1>12, <1>13, <1>14, <1>15, <1>16, <1>17 DEF Timely, b

LEMMA RunFits ==
    ASSUME NEW r, NEW H \in SUBSET Holds, Steady(r, H), PassFit(r), NEW at, NEW unread
    PROVE  LET b == Run(r, H) IN
           /\ Steady(b, H) /\ Timely(b, H, at, unread)
           /\ \A h \in H : b.value[h[2]].missed = r.value[h[2]].missed
           /\ b.pr = r.pr
<1> DEFINE b == Run(r, H)
<1>1. CASE ~r.pass.out
  BY <1>1, BeginFits DEF Run
<1>2. CASE r.pass.out
  <2>1. b = [r EXCEPT !.again = TRUE]
    BY <1>2 DEF Run
  <2> HIDE DEF b
  <2>2. RepoTyped(r)
    BY DEF Steady
  <2>3. /\ RepoShaped(b) /\ b.value = r.value /\ b.pass = r.pass /\ b.again = TRUE
        /\ b.timer = r.timer /\ b.lost = r.lost /\ b.split = r.split /\ b.pr = r.pr
    BY <2>1, <2>2 DEF RepoTyped, RepoShaped, RepoFields
  <2>4. RepoTyped(b)
    BY <2>2, <2>3 DEF RepoTyped, Known
  <2>5. OneBranch(b) /\ \A h \in H : Known(b, h[2])
    BY <2>3 DEF Steady, OneBranch, Known
  <2>6. Steady(b, H)
    BY <2>3, <2>4, <2>5 DEF Steady
  <2>7. PassFit(b)
    BY <2>3 DEF PassFit
  <2>8. Heeded(b, at, unread) /\ Fetched(b, H) /\ PrAwaited(b, H)
    BY <1>2, <2>3 DEF Heeded, Fetched, PrAwaited, Rereads
  <2> QED
    BY <2>3, <2>6, <2>7, <2>8 DEF Timely, b
<1> QED
  BY <1>1, <1>2 DEF Steady, RepoTyped

-----------------------------------------------------------------------------
(* The periods.                                                            *)

LEMMA HeldIs ==
    ASSUME NEW r, NEW H, NEW q, RepoShaped(q), PrShaped(q.pr), NEW J
    PROVE  LET g == Held(r, H, q, J) IN
           /\ RepoShaped(g)
           /\ g.value = q.value /\ g.pass = q.pass /\ g.again = q.again /\ g.lost = q.lost
           /\ g.split = q.split
           /\ g.timer = IF (H = {}) = (J = {}) THEN q.timer ELSE J # {} /\ ~q.pass.out
           /\ PrShaped(g.pr)
           /\ g.pr.made = q.pr.made /\ g.pr.missed = q.pr.missed /\ g.pr.key = q.pr.key
           /\ g.pr.remote = q.pr.remote /\ g.pr.reading = q.pr.reading
           /\ g.pr.inFlight = q.pr.inFlight /\ g.pr.out = q.pr.out
           /\ g.pr.timer = IF Shown(r, H) = Shown(q, J) THEN q.pr.timer
                           ELSE Shown(q, J) /\ q.pr.inFlight # q.pr.key
<1> DEFINE timer == IF (H = {}) = (J = {}) THEN q.timer ELSE J # {} /\ ~q.pass.out
           prTimer == IF Shown(r, H) = Shown(q, J) THEN q.pr.timer
                      ELSE Shown(q, J) /\ q.pr.inFlight # q.pr.key
           pr == [q.pr EXCEPT !.timer = prTimer]
           g == Held(r, H, q, J)
<1>1. g = [q EXCEPT !.timer = timer, !.pr.timer = prTimer]
  BY DEF Held
<1>2. [q EXCEPT !.timer = timer, !.pr.timer = prTimer] = [q EXCEPT !.timer = timer, !.pr = pr]
  OBVIOUS
<1> HIDE DEF g, timer, prTimer
<1>3. /\ PrShaped(pr)
      /\ pr.made = q.pr.made /\ pr.missed = q.pr.missed /\ pr.key = q.pr.key
      /\ pr.remote = q.pr.remote /\ pr.reading = q.pr.reading
      /\ pr.inFlight = q.pr.inFlight /\ pr.out = q.pr.out /\ pr.timer = prTimer
  BY DEF PrShaped, PrFields
<1> HIDE DEF pr
<1>4. /\ RepoShaped(g)
      /\ g.value = q.value /\ g.pass = q.pass /\ g.again = q.again /\ g.lost = q.lost
      /\ g.split = q.split /\ g.timer = timer /\ g.pr = pr
  BY <1>1, <1>2 DEF RepoShaped, RepoFields
<1> QED
  BY <1>3, <1>4 DEF g, timer, prTimer

\* What a hold's coming or going makes of q.
Rehung(r, H, q, J, g) ==
    /\ Steady(g, J)
    /\ g.value = q.value /\ g.pass = q.pass /\ g.again = q.again /\ g.lost = q.lost
    /\ g.split = q.split
    /\ g.timer = IF (H = {}) = (J = {}) THEN q.timer ELSE J # {} /\ ~q.pass.out
    /\ SamePr(g.pr, q.pr) /\ g.pr.reading = q.pr.reading

\* A hold of the PR that comes or goes sets its timer, or clears it.
LEMMA HeldFits ==
    ASSUME NEW r, NEW H, NEW q, RepoTyped(q), PrFit(q.pr), NEW J, OneBranch(q),
           \A h \in J : Known(q, h[2]), Showers(J) # {} => q.pr.made,
           Shown(r, H) = Shown(q, J) => PrTimed(q.pr, Showers(J) # {})
    PROVE  Rehung(r, H, q, J, Held(r, H, q, J))
<1> DEFINE g == Held(r, H, q, J)
<1>1. RepoShaped(q) /\ PrShaped(q.pr) /\ PrHalfFit(q.pr)
  BY DEF RepoTyped, PrFit, PrHalfFit
<1>2. /\ RepoShaped(g)
      /\ g.value = q.value /\ g.pass = q.pass /\ g.again = q.again /\ g.lost = q.lost
      /\ g.split = q.split
      /\ g.timer = IF (H = {}) = (J = {}) THEN q.timer ELSE J # {} /\ ~q.pass.out
      /\ PrShaped(g.pr)
      /\ g.pr.made = q.pr.made /\ g.pr.missed = q.pr.missed /\ g.pr.key = q.pr.key
      /\ g.pr.remote = q.pr.remote /\ g.pr.reading = q.pr.reading
      /\ g.pr.inFlight = q.pr.inFlight /\ g.pr.out = q.pr.out
      /\ g.pr.timer = IF Shown(r, H) = Shown(q, J) THEN q.pr.timer
                      ELSE Shown(q, J) /\ q.pr.inFlight # q.pr.key
  BY <1>1, HeldIs
<1> HIDE DEF g
<1>3. RepoTyped(g)
  BY <1>2 DEF RepoTyped, Known
<1>4. OneBranch(g)
  BY <1>2 DEF OneBranch
<1>5. g.pr.timer \in BOOLEAN
  BY <1>1, <1>2 DEF PrHalfFit
<1>6. PrFit(g.pr)
  BY <1>1, <1>2, <1>5 DEF PrFit, PrHalfFit
<1>7. PrTimed(g.pr, Showers(J) # {})
  <2>1. CASE Shown(r, H) = Shown(q, J)
    BY <1>2, <1>6, <2>1 DEF PrTimed
  <2>2. CASE Shown(r, H) # Shown(q, J)
    BY <1>1, <1>2, <1>6, <2>2 DEF PrTimed, PrHalfFit, Shown
  <2> QED
    BY <2>1, <2>2
<1>8. Steady(g, J)
  BY <1>2, <1>3, <1>4, <1>7 DEF Steady, Known
<1> QED
  BY <1>2, <1>8 DEF g, SamePr, Rehung

LEMMA HeldStays ==
    ASSUME NEW r, NEW H, NEW q, RepoTyped(q), OneBranch(q), \A h \in H : Known(q, h[2]),
           Showers(H) # {} => q.pr.made, PrTimed(q.pr, Showers(H) # {})
    PROVE  Rehung(r, H, q, H, Held(r, H, q, H))
<1>1. PrFit(q.pr)
  BY DEF PrTimed
<1> QED
  BY <1>1, HeldFits

-----------------------------------------------------------------------------
(* The turns.                                                              *)

LEMMA NewFits ==
    ASSUME NEW at, NEW unread
    PROVE  RepoTyped(New) /\ Steady(New, {}) /\ Timely(New, {}, at, unread)
           /\ \A o \in Sets : New.value[o].reading = None
<1> DEFINE value == [o \in Sets |-> [reading |-> None, missed |-> FALSE]]
           out == [b \in Branches |-> 0]
           pr == [made |-> FALSE, missed |-> TRUE, key |-> NoKey, remote |-> "none",
                  reading |-> Pending, seen |-> <<>>, inFlight |-> NoKey,
                  out |-> out, timer |-> FALSE]
<1>1. New = [value |-> value, pass |-> NoPass, again |-> FALSE, timer |-> FALSE,
             lost |-> FALSE, split |-> FALSE, pr |-> pr]
  BY DEF New
<1>2. /\ value \in [Sets -> [reading : Readings, missed : BOOLEAN]]
      /\ \A o \in Sets : value[o].reading = None
  BY DEF Readings
<1>3. out \in [Branches -> Nat]
  OBVIOUS
<1> HIDE DEF value, out
<1>4. /\ PrShaped(pr) /\ pr.made = FALSE /\ pr.missed = TRUE /\ pr.key = NoKey
      /\ pr.remote = "none" /\ pr.reading = Pending /\ pr.inFlight = NoKey
      /\ pr.out = out /\ pr.timer = FALSE
  BY DEF PrShaped, PrFields
<1> HIDE DEF pr
<1>5. /\ RepoShaped(New) /\ New.value = value /\ New.pass = NoPass /\ New.again = FALSE
      /\ New.timer = FALSE /\ New.lost = FALSE /\ New.split = FALSE /\ New.pr = pr
  BY <1>1 DEF RepoShaped, RepoFields
<1>6. NoPass.out = FALSE
  BY DEF NoPass
<1>7. RepoTyped(New)
  BY <1>2, <1>5, <1>6 DEF RepoTyped
<1>8. PrTimed(New.pr, FALSE)
  BY <1>3, <1>4, <1>5, Apart, KeysAre DEF PrTimed, PrFit, PrHalfFit
<1>9. Showers({}) = {}
  BY DEF Showers
<1>10. Steady(New, {})
  BY <1>4, <1>5, <1>7, <1>8, <1>9 DEF Steady, OneBranch
<1>11. Timely(New, {}, at, unread)
  BY <1>2, <1>5, <1>6, <1>9, Apart
  DEF Timely, PassFit, Heeded, Fetched, PrAwaited, Stale, Ok
<1> QED
  BY <1>2, <1>5, <1>7, <1>10, <1>11

LEMMA CommitHolds ==
    ASSUME CacheInv, NEW b \in Branches, Commit(b) PROVE CacheInv'
<1> DEFINE r == repo
           value == [o \in Sets |-> AgedValue(r.value[o])]
           read == [o \in DOMAIN r.pass.read |-> Aged(r.pass.read[o])]
           pass == AgedPass(r.pass)
           q == repo'
<1>1. /\ ~closed /\ ~closed' /\ head' = b /\ unheard' = Exists(r) /\ holds' = holds
      /\ closed' = closed
      /\ q = [r EXCEPT !.value = value, !.pass = pass]
  BY DEF Commit
<1>2. Steady(r, holds) /\ Timely(r, holds, head, unheard) /\ RepoTyped(r)
  BY <1>1 DEF CacheInv, Steady
<1>3. ASSUME NEW o \in Sets
      PROVE  /\ value[o] \in [reading : Readings, missed : BOOLEAN]
             /\ value[o].reading = Aged(r.value[o].reading)
             /\ value[o].missed = r.value[o].missed
             /\ (value[o].reading = None) = (r.value[o].reading = None)
             /\ Ok(value[o].reading) = Ok(r.value[o].reading)
             /\ Ok(value[o].reading) => value[o].reading[1] = r.value[o].reading[1]
  <2>1. r.value[o] \in [reading : Readings, missed : BOOLEAN]
    BY <1>2 DEF RepoTyped
  <2>2. value[o].reading = Aged(r.value[o].reading) /\ value[o].missed = r.value[o].missed
        /\ value[o] = [reading |-> Aged(r.value[o].reading), missed |-> r.value[o].missed]
    BY <2>1 DEF AgedValue
  <2>3. r.value[o].reading \in Readings /\ r.value[o].missed \in BOOLEAN
    BY <2>1
  <2> HIDE DEF value
  <2> QED
    BY <2>2, <2>3, ReadsAre
<1>4. value \in [Sets -> [reading : Readings, missed : BOOLEAN]]
  BY <1>3
<1>5. r.pass.out => /\ PassTyped(pass) /\ pass.out = TRUE /\ pass.pr = r.pass.pr
                    /\ DOMAIN pass.read = DOMAIN r.pass.read
  <2> SUFFICES ASSUME r.pass.out
               PROVE  /\ PassTyped(pass) /\ pass.out = TRUE /\ pass.pr = r.pass.pr
                      /\ DOMAIN pass.read = DOMAIN r.pass.read
    OBVIOUS
  <2>1. PassTyped(r.pass) /\ r.pass.out = TRUE
    BY <1>2 DEF RepoTyped
  <2>2. read \in [DOMAIN r.pass.read -> Readings \ {None}] /\ DOMAIN read = DOMAIN r.pass.read
    BY <2>1, ReadsAre DEF PassTyped
  <2>3. pass = [r.pass EXCEPT !.read = read]
    BY DEF AgedPass
  <2> HIDE DEF read, pass
  <2> QED
    BY <2>1, <2>2, <2>3 DEF PassTyped, PassFields
<1>6. pass.out = r.pass.out
  <2>1. ~r.pass.out => pass = r.pass
    BY DEF AgedPass
  <2> HIDE DEF pass
  <2> QED
    BY <1>2, <1>5, <2>1 DEF RepoTyped
<1> HIDE DEF value, pass, q
<1>7. /\ RepoShaped(q) /\ q.value = value /\ q.pass = pass /\ q.again = r.again
      /\ q.timer = r.timer /\ q.lost = r.lost /\ q.split = r.split /\ q.pr = r.pr
  BY <1>1, <1>2 DEF RepoTyped, RepoShaped, RepoFields
<1>8. \A o : o \in Sets => Known(q, o) = Known(r, o)
  BY <1>3, <1>7 DEF Known
<1>9. RepoTyped(q)
  BY <1>2, <1>4, <1>5, <1>6, <1>7, <1>8 DEF RepoTyped, PassTyped
<1>10. \A h \in holds : h[2] \in Sets
  BY HoldsAre DEF CacheInv
<1>11. OneBranch(q)
  BY <1>2, <1>3, <1>7 DEF Steady, OneBranch
<1>12. Steady(q, holds)
  BY <1>2, <1>7, <1>8, <1>9, <1>10, <1>11 DEF Steady
<1>13. PassFit(q)
  BY <1>2, <1>3, <1>5, <1>6, <1>7 DEF Timely, PassFit
<1>14. \A o \in Sets : Known(q, o) => unheard'
  BY <1>1, <1>8 DEF Exists
<1>15. Heeded(q, b, unheard')
  <2>1. \A o \in Sets : Ok(q.value[o].reading) => unheard'
    BY <1>14, Apart DEF Ok, Known
  <2>2. q.pass.out => \A o \in DOMAIN q.pass.read : unheard'
    BY <1>9, <1>14 DEF RepoTyped, PassTyped
  <2> QED
    BY <2>1, <2>2 DEF Heeded, Stale
<1>16. Fetched(q, holds) /\ PrAwaited(q, holds)
  BY <1>2, <1>3, <1>5, <1>6, <1>7, <1>10 DEF Timely, Fetched, PrAwaited, Rereads
<1> QED
  BY <1>1, <1>12, <1>13, <1>15, <1>16 DEF CacheInv, Timely, q, Exists

LEMMA HeardHolds == ASSUME CacheInv, Heard PROVE CacheInv'
<1> DEFINE r == repo
           q == Changed(r, holds)
<1>1. /\ ~closed /\ repo' = q /\ head' = head /\ holds' = holds /\ closed' = closed
      /\ unheard' = FALSE
  BY DEF Heard
<1>2. /\ Steady(r, holds) /\ Timely(r, holds, head, unheard) /\ holds \in SUBSET Holds
      /\ RepoTyped(r) /\ PassFit(r)
  BY <1>1 DEF CacheInv, Steady, Timely
<1>3. CASE holds # {}
  <2>1. q = Run(r, holds)
    BY <1>3 DEF Changed
  <2>2. Steady(q, holds) /\ Timely(q, holds, head, FALSE)
    BY <1>2, <2>1, RunFits
  <2> HIDE DEF q
  <2> QED
    BY <1>1, <2>2 DEF CacheInv
<1>4. CASE holds = {}
  <2> DEFINE value == [o \in Sets |-> [r.value[o] EXCEPT !.missed = Known(r, o)]]
  <2>1. q = [r EXCEPT !.value = value, !.lost = r.pass.out]
    BY <1>4 DEF Changed
  <2>2. ASSUME NEW o \in Sets
        PROVE  /\ value[o] \in [reading : Readings, missed : BOOLEAN]
               /\ value[o].reading = r.value[o].reading
               /\ value[o].missed = Known(r, o)
    <3>1. r.value[o] \in [reading : Readings, missed : BOOLEAN]
      BY <1>2 DEF RepoTyped
    <3>2. Known(r, o) \in BOOLEAN
      BY DEF Known
    <3> QED
      BY <3>1, <3>2
  <2>3. value \in [Sets -> [reading : Readings, missed : BOOLEAN]]
    BY <2>2
  <2> HIDE DEF value, q
  <2>4. /\ RepoShaped(q) /\ q.value = value /\ q.pass = r.pass /\ q.again = r.again
        /\ q.timer = r.timer /\ q.lost = r.pass.out /\ q.split = r.split /\ q.pr = r.pr
    BY <1>2, <2>1 DEF RepoTyped, RepoShaped, RepoFields
  <2>5. \A o \in Sets : Known(q, o) = Known(r, o)
    BY <2>2, <2>4 DEF Known
  <2>6. RepoTyped(q)
    BY <1>2, <2>3, <2>4, <2>5 DEF RepoTyped, PassTyped
  <2>7. \A o \in Sets : Ok(q.value[o].reading) => q.value[o].missed
    BY <2>2, <2>4, Apart DEF Known, Ok
  <2>8. Steady(q, holds)
    BY <1>2, <1>4, <2>4, <2>6, <2>7 DEF Steady, OneBranch
  <2>9. PassFit(q) /\ Heeded(q, head, FALSE)
    BY <1>2, <2>4, <2>7 DEF PassFit, Heeded, Stale
  <2>10. Showers(holds) = {}
    BY <1>4 DEF Showers
  <2>11. Timely(q, holds, head, FALSE)
    BY <1>4, <2>9, <2>10 DEF Timely, Fetched, PrAwaited
  <2> QED
    BY <1>1, <2>8, <2>11 DEF CacheInv, q
<1> QED
  BY <1>3, <1>4

\* Nothing that only answers or drops a hold disturbs the rest.
LEMMA KeptTimely ==
    ASSUME NEW r, NEW H, NEW q, NEW J, NEW at, NEW unread, Timely(r, H, at, unread),
           q.value = r.value, q.pass = r.pass, q.again = r.again, q.lost = r.lost,
           q.pr.missed = r.pr.missed, r.pr.made => q.pr.made,
           q.pr.missed => q.pr.reading = r.pr.reading,
           \A h \in J \ H : ~r.value[h[2]].missed,
           Showers(J) # {} /\ r.pr.missed => Showers(H) # {} /\ (q.timer = r.timer \/ r.pass.out)
    PROVE  Timely(q, J, at, unread)
BY DEF Timely, PassFit, Heeded, Fetched, PrAwaited, Rereads

LEMMA LetGoHolds == ASSUME CacheInv, NEW hold \in holds, LetGo(hold) PROVE CacheInv'
<1> DEFINE r == repo
           J == holds \ {hold}
           q == Held(r, holds, r, J)
<1>1. CASE closed
  BY <1>1 DEF LetGo, CacheInv
<1>2. CASE ~closed
  <2>1. /\ repo' = q /\ head' = head /\ holds' = J /\ closed' = closed
        /\ unheard' = unheard
    BY <1>2 DEF LetGo
  <2>2. /\ Steady(r, holds) /\ Timely(r, holds, head, unheard)
        /\ RepoTyped(r) /\ OneBranch(r) /\ PrTimed(r.pr, Showers(holds) # {}) /\ PrFit(r.pr)
    BY <1>2 DEF CacheInv, Steady, PrTimed
  <2>3. Showers(J) # {} => Showers(holds) # {} /\ J # {}
    BY DEF Showers
  <2>4. (Showers(J) # {} => r.pr.made) /\ \A h \in J : Known(r, h[2])
    BY <2>2, <2>3 DEF Steady
  <2>5. Shown(r, holds) = Shown(r, J) => PrTimed(r.pr, Showers(J) # {})
    BY <2>2, <2>3 DEF Steady, Shown, PrTimed, PrFit, PrHalfFit
  <2> HIDE DEF J, q
  <2>6. /\ Steady(q, J)
        /\ q.value = r.value /\ q.pass = r.pass /\ q.again = r.again /\ q.lost = r.lost
        /\ q.split = r.split
        /\ q.timer = IF (holds = {}) = (J = {}) THEN r.timer ELSE J # {} /\ ~r.pass.out
        /\ SamePr(q.pr, r.pr) /\ q.pr.reading = r.pr.reading
    <3>1. Rehung(r, holds, r, J, q)
      BY <2>2, <2>4, <2>5, HeldFits DEF q
    <3> QED
      BY <3>1 DEF Rehung
  <2>7. Showers(J) # {} => q.timer = r.timer
    BY <2>3, <2>6
  <2>8. Timely(q, J, head, unheard)
    <3>1. J \subseteq holds
      BY DEF J
    <3> QED
      BY <2>2, <2>3, <2>6, <2>7, <3>1, KeptTimely DEF SamePr
  <2> QED
    BY <1>2, <2>1, <2>6, <2>8 DEF CacheInv, J
<1> QED
  BY <1>1, <1>2 DEF CacheInv

\* Only the PR changed, by a lookup's start or its end.
LEMMA PrHolds ==
    ASSUME CacheInv, ~closed, NEW pr, PrTimed(pr, Showers(holds) # {}), SamePr(pr, repo.pr),
           repo' = [repo EXCEPT !.pr = pr], UNCHANGED <<head, holds, unheard, closed>>
    PROVE  CacheInv'
<1> DEFINE q == repo'
<1>1. Steady(repo, holds) /\ Timely(repo, holds, head, unheard) /\ RepoTyped(repo)
  BY DEF CacheInv, Steady
<1>2. /\ RepoShaped(q) /\ q.value = repo.value /\ q.pass = repo.pass /\ q.again = repo.again
      /\ q.timer = repo.timer /\ q.lost = repo.lost /\ q.split = repo.split /\ q.pr = pr
  BY <1>1 DEF RepoTyped, RepoShaped, RepoFields
<1> HIDE DEF q
<1>3. RepoTyped(q)
  BY <1>1, <1>2 DEF RepoTyped, Known
<1>4. Steady(q, holds)
  BY <1>1, <1>2, <1>3 DEF Steady, OneBranch, SamePr, Known
<1>5. Timely(q, holds, head, unheard)
  BY <1>1, <1>2, KeptTimely DEF SamePr
<1> QED
  BY <1>4, <1>5 DEF CacheInv, q

LEMMA PrTickHolds == ASSUME CacheInv, PrTick PROVE CacheInv'
<1>1. ~closed
  BY NewFits DEF CacheInv, PrTick, Steady, PrTimed, Showers
<1>2. PrTimed(repo.pr, Showers(holds) # {}) /\ PrHalfFit(repo.pr)
  BY <1>1 DEF CacheInv, Steady, PrTimed, PrFit
<1>3. ~repo.pr.missed /\ Showers(holds) # {}
  BY <1>2 DEF PrTimed, PrTick
<1>4. PrTimed(Lookup(repo.pr, TRUE), TRUE) /\ SamePr(Lookup(repo.pr, TRUE), repo.pr)
  BY <1>2, <1>3, LookupFits
<1>5. PrTimed(Lookup(repo.pr, TRUE), Showers(holds) # {})
  BY <1>3, <1>4
<1> QED
  BY <1>1, <1>4, <1>5, PrHolds DEF PrTick

LEMMA AnswerHolds == ASSUME CacheInv, NEW b \in Branches, Answer(b) PROVE CacheInv'
<1> DEFINE show == Showers(holds) # {}
           pr == Answered(repo.pr, Shown(repo, holds), b)
<1>1. ~closed
  BY DEF CacheInv, Answer, New
<1>2. PrTimed(repo.pr, show)
  BY <1>1 DEF CacheInv, Steady
<1>3. Shown(repo, holds) = (repo.pr.made /\ show /\ ~repo.pr.missed) /\ repo.pr.out[b] > 0
  BY DEF Shown, Answer
<1>4. show \in BOOLEAN
  OBVIOUS
<1> HIDE DEF show
<1>5. PrTimed(pr, show) /\ SamePr(pr, repo.pr)
  BY <1>2, <1>3, <1>4, AnswerFits DEF Answered
<1> HIDE DEF pr
<1> QED
  BY <1>1, <1>5, PrHolds DEF Answer, pr, show

LEMMA TickHolds == ASSUME CacheInv, Tick PROVE CacheInv'
<1> DEFINE r == [repo EXCEPT !.timer = FALSE]
<1>1. ~closed
  BY DEF CacheInv, Tick, New
<1>2. /\ Steady(repo, holds) /\ Timely(repo, holds, head, unheard) /\ RepoTyped(repo)
      /\ holds \in SUBSET Holds
  BY <1>1 DEF CacheInv, Steady
<1>3. /\ RepoShaped(r) /\ r.value = repo.value /\ r.pass = repo.pass /\ r.again = repo.again
      /\ r.timer = FALSE /\ r.lost = repo.lost /\ r.split = repo.split /\ r.pr = repo.pr
  BY <1>2 DEF RepoTyped, RepoShaped, RepoFields
<1> HIDE DEF r
<1>4. RepoTyped(r)
  BY <1>2, <1>3 DEF RepoTyped, Known
<1>5. Steady(r, holds)
  BY <1>2, <1>3, <1>4 DEF Steady, OneBranch, Known
<1>6. repo' = Share(r, holds) /\ UNCHANGED <<head, unheard, holds, closed>>
  BY DEF Tick, r
<1>7. CASE repo.pass.out
  <2>1. repo' = r
    BY <1>3, <1>6, <1>7 DEF Share
  <2>2. Timely(r, holds, head, unheard)
    BY <1>2, <1>3, <1>7, KeptTimely
  <2> QED
    BY <1>1, <1>5, <1>6, <2>1, <2>2 DEF CacheInv
<1>8. CASE ~repo.pass.out
  <2> DEFINE q == Begin(r, holds)
  <2>1. repo' = q
    BY <1>3, <1>6, <1>8 DEF Share
  <2>2. Steady(q, holds) /\ Timely(q, holds, head, unheard)
    BY <1>2, <1>5, BeginFits
  <2> HIDE DEF q
  <2> QED
    BY <1>1, <1>6, <2>1, <2>2 DEF CacheInv
<1> QED
  BY <1>7, <1>8

LEMMA LookHolds == ASSUME CacheInv, NEW o \in Sets, Look(o) PROVE CacheInv'
<1> DEFINE r == repo
           q == repo'
<1>1. ~closed /\ r.pass.out
  BY DEF CacheInv, Look, New, NoPass
<1>2. PICK found \in {Failed, <<head, TRUE>>} : q = [r EXCEPT !.pass.read[o] = found]
  BY DEF Look
<1>3. /\ o \in DOMAIN r.pass.read /\ UNCHANGED <<head, unheard, holds, closed>>
  BY DEF Look
<1>4. /\ Steady(r, holds) /\ Timely(r, holds, head, unheard) /\ RepoTyped(r)
      /\ PassTyped(r.pass)
  BY <1>1 DEF CacheInv, Steady, RepoTyped
<1> DEFINE read == [r.pass.read EXCEPT ![o] = found]
           pass == [r.pass EXCEPT !.read = read]
<1>5. q = [r EXCEPT !.pass = pass]
  BY <1>2
<1>6. found \in Readings \ {None} /\ ~Stale(found, head)
  <2>1. CASE found = Failed
    BY <2>1, Apart DEF Readings, Stale, Ok
  <2>2. CASE found = <<head, TRUE>>
    <3>1. found \in Reads
      BY <2>2, ReadsAre DEF CacheInv
    <3> QED
      BY <2>2, <3>1, Apart DEF Readings, Stale
  <2> QED
    BY <2>1, <2>2
<1>7. /\ read \in [DOMAIN r.pass.read -> Readings \ {None}]
      /\ \A p \in DOMAIN r.pass.read : read[p] = IF p = o THEN found ELSE r.pass.read[p]
  BY <1>4, <1>6 DEF PassTyped
<1> HIDE DEF read
<1>8. PassTyped(pass) /\ pass.out = r.pass.out /\ pass.pr = r.pass.pr /\ pass.read = read
      /\ DOMAIN read = DOMAIN r.pass.read
  BY <1>4, <1>7 DEF PassTyped, PassFields
<1> HIDE DEF pass, q
<1>9. /\ RepoShaped(q) /\ q.value = r.value /\ q.pass = pass /\ q.again = r.again
      /\ q.timer = r.timer /\ q.lost = r.lost /\ q.split = r.split /\ q.pr = r.pr
  BY <1>4, <1>5 DEF RepoTyped, RepoShaped, RepoFields
<1>10. RepoTyped(q)
  BY <1>4, <1>8, <1>9 DEF RepoTyped, Known
<1>11. Steady(q, holds)
  BY <1>4, <1>9, <1>10 DEF Steady, OneBranch, Known
<1>12. PassFit(q) /\ Fetched(q, holds) /\ PrAwaited(q, holds)
  BY <1>4, <1>8, <1>9 DEF Timely, PassFit, Fetched, PrAwaited, Rereads
<1>13. Heeded(q, head, unheard)
  BY <1>4, <1>6, <1>7, <1>8, <1>9 DEF Timely, Heeded, Rereads
<1> QED
  BY <1>1, <1>3, <1>11, <1>12, <1>13 DEF CacheInv, Timely, q

LEMMA AtMostOne ==
    ASSUME NEW S, IsFiniteSet(S), ~(Cardinality(S) > 1), NEW x \in S, NEW y \in S
    PROVE  x = y
<1>1. Cardinality(S) \in Nat /\ Cardinality(S) # 0
  BY FS_CardinalityType, FS_EmptySet
<1>2. Cardinality(S) = 1
  BY <1>1
<1> QED
  BY <1>2, FS_Singleton

LEMMA UnkeyedFits ==
    ASSUME NEW pr, NEW inView, PrTimed(pr, inView)
    PROVE  LET q == Unkeyed(pr) IN
           /\ PrTimed(q, inView)
           /\ q.made = pr.made /\ q.missed = pr.missed /\ q.key = pr.key
           /\ q.missed => q.reading = None
<1> DEFINE q == Unkeyed(pr)
           reading == IF pr.missed /\ pr.reading = Pending THEN None ELSE pr.reading
<1>1. q = [pr EXCEPT !.reading = reading]
  BY DEF Unkeyed
<1>2. PrHalfFit(pr) /\ PrFit(pr) /\ PrShaped(pr)
  BY DEF PrTimed, PrFit, PrHalfFit
<1> HIDE DEF q, reading
<1>3. /\ PrShaped(q)
      /\ q.made = pr.made /\ q.missed = pr.missed /\ q.key = pr.key
      /\ q.remote = pr.remote /\ q.reading = reading
      /\ q.inFlight = pr.inFlight /\ q.out = pr.out /\ q.timer = pr.timer
  BY <1>1, <1>2 DEF PrShaped, PrFields
<1>4. /\ ~pr.missed => reading = pr.reading
      /\ pr.missed => reading = None
  BY <1>2 DEF reading, PrHalfFit
<1>5. PrTimed(q, inView)
  BY <1>2, <1>3, <1>4 DEF PrTimed, PrFit, PrHalfFit
<1> QED
  BY <1>3, <1>4, <1>5 DEF q

\* A pass that lands: its values and the PR's key move together.
LEMMA StoredFits ==
    ASSUME NEW r, NEW H \in SUBSET Holds, NEW at, NEW unread, Steady(r, H),
           Timely(r, H, at, unread), r.pass.out,
           \A o \in DOMAIN r.pass.read : r.pass.read[o] # Pending,
           NEW remote \in Remotes,
           NEW key \in IF ReadOn(r.pass) = {} THEN {NoKey} ELSE ReadOn(r.pass) \X {remote}
    PROVE  LET q == Stored(r, H, key) IN
           Steady(q, H) /\ (~r.again => Timely(q, H, at, unread))
<1> DEFINE read == r.pass.read
           on == ReadOn(r.pass)
           split == Cardinality(on) > 1
           value == [o \in Sets |-> IF o \in DOMAIN read
                                    THEN [reading |-> read[o], missed |-> FALSE]
                                    ELSE r.value[o]]
           pr == IF ~r.pass.pr \/ DOMAIN read = {} THEN r.pr
                 ELSE IF key = NoKey THEN Unkeyed(r.pr)
                 ELSE Moved(r.pr, H, key)
           p == [r EXCEPT !.pass = NoPass, !.value = value, !.pr = pr, !.timer = H # {},
                          !.split = split]
           q == Stored(r, H, key)
           inView == Showers(H) # {}
<1>1. /\ RepoTyped(r) /\ PassTyped(r.pass) /\ PrTimed(r.pr, inView) /\ RepoShaped(r)
      /\ \A h \in H : Known(r, h[2]) /\ h[2] \in Sets
      /\ inView => r.pr.made
      /\ PassFit(r) /\ Heeded(r, at, unread) /\ Fetched(r, H) /\ PrAwaited(r, H)
  BY HoldsAre DEF Steady, Timely, RepoTyped
<1>2. q = Held(r, H, p, H)
  <2>1. RepoFields = RepoFields /\ RepoShaped(r)
    BY <1>1
  <2> DEFINE valued == [r EXCEPT !.pass = NoPass, !.value = value]
             w == [valued EXCEPT !.pr = pr, !.timer = H # {}, !.split = split]
  <2>2. q = Held(r, H, w, H)
    BY DEF Stored
  <2> HIDE DEF value, pr, split, q
  <2>3. w = p
    BY <2>1 DEF RepoShaped, RepoFields
  <2> QED
    BY <2>2, <2>3
<1>3. /\ read \in [DOMAIN read -> Readings \ {None}] /\ DOMAIN read \subseteq Sets
      /\ r.value \in [Sets -> [reading : Readings, missed : BOOLEAN]]
  BY <1>1 DEF RepoTyped, PassTyped
<1>4. /\ on = {read[o][1] : o \in {o \in DOMAIN read : Ok(read[o])}}
      /\ on \subseteq Branches /\ IsFiniteSet(on)
  <2>1. on = {read[o][1] : o \in {o \in DOMAIN read : Ok(read[o])}}
    BY DEF ReadOn
  <2>2. on \subseteq Branches
    BY <2>1, ReadsAre DEF Ok
  <2> QED
    BY <2>1, <2>2, FS_Subset, GitCacheAssumption
<1>5. /\ on = {} => key = NoKey
      /\ on # {} => key \in Keys /\ key[1] \in on
  <2>1. on # {} => key \in on \X {remote}
    OBVIOUS
  <2>2. on # {} => key[1] \in on /\ key = <<key[1], remote>>
    BY <2>1
  <2>3. on = {} => key = NoKey
    OBVIOUS
  <2> HIDE DEF on
  <2>4. on # {} => key[1] \in Branches /\ <<key[1], remote>> \in Keys
    BY <1>4, <2>2, KeysAre
  <2> QED
    BY <2>2, <2>3, <2>4
<1>6. /\ value \in [Sets -> [reading : Readings, missed : BOOLEAN]]
      /\ \A o \in DOMAIN read : value[o].reading = read[o] /\ value[o].missed = FALSE
      /\ \A o \in Sets \ DOMAIN read : value[o] = r.value[o]
  BY <1>3
<1>7. /\ PrTimed(pr, inView) /\ pr.made = r.pr.made
      /\ pr.missed /\ inView => r.pr.missed
      /\ pr.missed /\ inView /\ r.pass.pr /\ DOMAIN read # {} => pr.reading = None
      /\ ~pr.missed /\ on # {} => r.pass.pr = TRUE /\ DOMAIN read # {} /\ pr.key = key
  <2>1. CASE ~r.pass.pr \/ DOMAIN read = {}
    <3>1. pr = r.pr
      BY <2>1
    <3>2. ~r.pass.pr => r.pr.missed
      BY <1>1 DEF PassFit
    <3>3. DOMAIN read = {} => on = {}
      BY <1>4
    <3> HIDE DEF pr, on, read
    <3> QED
      BY <1>1, <2>1, <3>1, <3>2, <3>3
  <2>2. CASE r.pass.pr /\ DOMAIN read # {} /\ key = NoKey
    <3>1. pr = Unkeyed(r.pr)
      BY <2>2
    <3>2. on = {}
      BY <1>5, <2>2, Apart
    <3> HIDE DEF pr, on, read, inView
    <3> QED
      BY <1>1, <2>2, <3>1, <3>2, UnkeyedFits
  <2>3. CASE r.pass.pr /\ DOMAIN read # {} /\ key # NoKey
    <3>1. pr = Moved(r.pr, H, key)
      BY <2>3
    <3>2. on # {} /\ key \in Keys
      BY <1>5, <2>3
    <3>3. r.pr.made = TRUE
      BY <1>1, <2>3 DEF PassFit, PrTimed, PrFit, PrHalfFit
    <3>4. /\ PrTimed(pr, inView) /\ pr.made = TRUE
          /\ pr.missed => ~inView
          /\ ~pr.missed => pr.key = key
      <4> HIDE DEF pr, on, read
      <4> QED
        BY <1>1, <3>1, <3>2, <3>3, MovedFits
    <3> HIDE DEF pr, on, read, inView
    <3> QED
      BY <1>1, <2>3, <3>2, <3>3, <3>4 DEF PassTyped
  <2> QED
    BY <2>1, <2>2, <2>3
<1> HIDE DEF value, pr, on, split, q
<1>8. /\ RepoShaped(p) /\ p.value = value /\ p.pass = NoPass /\ p.again = r.again
      /\ p.timer = (H # {}) /\ p.lost = r.lost /\ p.split = split /\ p.pr = pr
  BY <1>1 DEF RepoShaped, RepoFields
<1> HIDE DEF p
<1>9. NoPass.out = FALSE
  BY DEF NoPass
<1>10. RepoTyped(p)
  BY <1>1, <1>6, <1>8, <1>9 DEF RepoTyped
<1>11. \A h \in H : Known(p, h[2])
  BY <1>1, <1>3, <1>6, <1>8 DEF Known
<1>12. OneBranch(p)
  <2> SUFFICES ASSUME ~p.split, ~p.pr.missed, NEW o \in Sets, ~p.value[o].missed,
                      Ok(p.value[o].reading)
               PROVE  p.value[o].reading[1] = p.pr.key[1]
    BY DEF OneBranch
  <2>1. o \in DOMAIN read
    BY <1>1, <1>6, <1>8 DEF PassFit
  <2>2. p.value[o].reading[1] \in on
    BY <1>4, <1>6, <1>8, <2>1
  <2>3. p.pr.key = key /\ key[1] \in on
    BY <1>5, <1>7, <1>8, <2>2
  <2>4. ~(Cardinality(on) > 1)
    BY <1>8 DEF split
  <2>5. \A x, y \in on : x = y
    BY <1>4, <2>4, AtMostOne
  <2> QED
    BY <2>2, <2>3, <2>5
<1>13. /\ Steady(q, H)
       /\ q.value = p.value /\ q.pass = p.pass /\ q.again = p.again /\ q.lost = p.lost
       /\ q.split = p.split /\ q.timer = p.timer
       /\ SamePr(q.pr, p.pr) /\ q.pr.reading = p.pr.reading
  <2>1. PrFit(p.pr) /\ PrTimed(p.pr, inView) /\ (inView => p.pr.made)
    BY <1>1, <1>7, <1>8 DEF PrTimed
  <2>2. Rehung(r, H, p, H, q)
    BY <1>2, <1>10, <1>11, <1>12, <2>1, HeldStays
  <2> QED
    BY <2>2 DEF Rehung
<1>14. ASSUME ~r.again PROVE Timely(q, H, at, unread)
  <2>1. q.pass.out = FALSE
    BY <1>8, <1>9, <1>13
  <2>2. PassFit(q)
    BY <2>1 DEF PassFit
  <2>3. Heeded(q, at, unread)
    <3> SUFFICES ASSUME NEW o \in Sets, Stale(value[o].reading, at)
                 PROVE  unread \/ value[o].missed \/ r.lost
      BY <1>8, <1>13, <2>1 DEF Heeded
    <3>1. CASE o \in DOMAIN read
      BY <1>1, <1>6, <1>14, <3>1 DEF Heeded
    <3>2. CASE o \notin DOMAIN read
      BY <1>1, <1>6, <1>14, <3>2 DEF Heeded, Rereads
    <3> QED
      BY <3>1, <3>2
  <2>4. Fetched(q, H)
    BY <1>1, <1>6, <1>8, <1>13, <1>14 DEF Fetched, Rereads
  <2>5. PrAwaited(q, H)
    <3> SUFFICES ASSUME inView, q.pr.missed PROVE q.pr.reading = None /\ q.timer
      BY <2>1 DEF PrAwaited
    <3>1. pr.missed /\ r.pr.missed
      BY <1>7, <1>8, <1>13 DEF SamePr
    <3>2. r.pass.pr /\ DOMAIN read # {}
      BY <1>1, <1>14, <3>1 DEF PrAwaited
    <3>3. H # {}
      BY DEF Showers
    <3> QED
      BY <1>7, <1>8, <1>13, <3>1, <3>2, <3>3
  <2> QED
    BY <2>2, <2>3, <2>4, <2>5 DEF Timely
<1> QED
  BY <1>13, <1>14 DEF q

LEMMA PassLandsHolds == ASSUME CacheInv, PassLands PROVE CacheInv'
<1> DEFINE r == repo
<1>1. ~closed /\ r.pass.out
  BY DEF CacheInv, PassLands, New, NoPass
<1>2. /\ Steady(r, holds) /\ Timely(r, holds, head, unheard) /\ holds \in SUBSET Holds
      /\ r.pr.remote \in Remotes
  BY <1>1 DEF CacheInv, Steady, PrTimed, PrFit, PrHalfFit
<1>3. PICK remote \in IF r.pass.remote THEN Remotes ELSE {r.pr.remote} :
        \E key \in IF ReadOn(r.pass) = {} THEN {NoKey} ELSE ReadOn(r.pass) \X {remote} :
           LET stored == Stored(r, holds, key)
           IN  r.pass.out /\ repo' = IF r.again THEN Begin(stored, holds) ELSE stored
  BY DEF PassLands
<1>4. PICK key \in IF ReadOn(r.pass) = {} THEN {NoKey} ELSE ReadOn(r.pass) \X {remote} :
         LET stored == Stored(r, holds, key)
         IN  r.pass.out /\ repo' = IF r.again THEN Begin(stored, holds) ELSE stored
  BY <1>3
<1>5. /\ \A o \in DOMAIN r.pass.read : r.pass.read[o] # Pending
      /\ UNCHANGED <<head, unheard, holds, closed>>
  BY DEF PassLands
<1> DEFINE stored == Stored(r, holds, key)
<1>6. repo' = IF r.again THEN Begin(stored, holds) ELSE stored
  BY <1>4
<1>7. remote \in Remotes
  BY <1>2
<1>8. Steady(stored, holds) /\ (~r.again => Timely(stored, holds, head, unheard))
  BY <1>1, <1>2, <1>5, <1>7, StoredFits
<1> HIDE DEF stored
<1>9. Steady(repo', holds) /\ Timely(repo', holds, head, unheard)
  <2>1. CASE r.again
    <3> DEFINE b == Begin(stored, holds)
    <3>1. Steady(b, holds) /\ Timely(b, holds, head, unheard)
      BY <1>2, <1>8, BeginFits
    <3> HIDE DEF b
    <3> QED
      BY <1>6, <2>1, <3>1 DEF b
  <2>2. CASE ~r.again
    BY <1>6, <1>8, <2>2
  <2> QED
    BY <2>1, <2>2
<1> QED
  BY <1>1, <1>5, <1>9 DEF CacheInv

\* A set known from its first ask on.
Valued(r, o) == IF ~Known(r, o) THEN [r EXCEPT !.value[o].reading = Pending] ELSE r

\* What an ask makes of r before its hold is taken: t.
TakenOf(r, o, shows, t) ==
    /\ RepoTyped(t)
    /\ t.pass = r.pass /\ t.again = r.again /\ t.timer = r.timer /\ t.lost = r.lost
    /\ t.split = r.split
    /\ Known(r, o) => t.value = r.value
    /\ \A p \in Sets :
          /\ t.value[p].missed = r.value[p].missed
          /\ t.value[p].reading = IF p = o /\ ~Known(r, o) THEN Pending
                                  ELSE r.value[p].reading
    /\ PrFit(t.pr)
    /\ t.pr.made = (r.pr.made \/ shows)
    /\ t.pr.missed = (r.pr.missed \/ (shows /\ r.value[o].missed))
    /\ t.pr.key = r.pr.key /\ t.pr.inFlight = r.pr.inFlight /\ t.pr.timer = r.pr.timer
    /\ t.pr.reading = IF shows /\ r.value[o].missed THEN Pending ELSE r.pr.reading

LEMMA TakenIs ==
    ASSUME NEW r, RepoTyped(r), PrFit(r.pr), NEW o \in Sets, NEW shows \in BOOLEAN
    PROVE  TakenOf(r, o, shows, Taken(Valued(r, o), o, shows))
<1> DEFINE v == Valued(r, o)
           value == [r.value EXCEPT ![o].reading = Pending]
           t == Taken(v, o, shows)
           missed == r.value[o].missed
<1>1. /\ RepoShaped(r) /\ r.value \in [Sets -> [reading : Readings, missed : BOOLEAN]]
      /\ missed \in BOOLEAN /\ Pending \in Readings
  BY DEF RepoTyped, Readings
<1>2. /\ value \in [Sets -> [reading : Readings, missed : BOOLEAN]]
      /\ \A p \in Sets : /\ value[p].missed = r.value[p].missed
                         /\ value[p].reading = IF p = o THEN Pending ELSE r.value[p].reading
  BY <1>1
<1>3. v = IF Known(r, o) THEN r ELSE [r EXCEPT !.value = value]
  BY DEF Valued
<1> HIDE DEF value, v
<1>4. /\ RepoShaped(v) /\ v.value = IF Known(r, o) THEN r.value ELSE value
      /\ v.pass = r.pass /\ v.again = r.again /\ v.timer = r.timer /\ v.lost = r.lost
      /\ v.split = r.split /\ v.pr = r.pr
  BY <1>1, <1>3 DEF RepoShaped, RepoFields
<1>5. /\ v.value \in [Sets -> [reading : Readings, missed : BOOLEAN]]
      /\ \A p \in Sets : /\ v.value[p].missed = r.value[p].missed
                         /\ v.value[p].reading = IF p = o /\ ~Known(r, o) THEN Pending
                                                 ELSE r.value[p].reading
  BY <1>1, <1>2, <1>4
<1>6. \A p \in Sets : Known(r, p) => Known(v, p)
  BY <1>5, Apart DEF Known
<1>7. RepoTyped(v)
  BY <1>4, <1>5, <1>6 DEF RepoTyped, PassTyped
<1> DEFINE pr == [r.pr EXCEPT !.made = @ \/ shows]
           owed == [pr EXCEPT !.missed = TRUE, !.reading = Pending]
           last == IF shows /\ missed THEN owed ELSE pr
<1>8. PrShaped(r.pr) /\ PrHalfFit(r.pr) /\ (r.pr.made \/ shows) \in BOOLEAN
  BY DEF PrFit, PrHalfFit
<1>9. /\ PrShaped(pr) /\ pr.made = (r.pr.made \/ shows) /\ pr.missed = r.pr.missed
      /\ pr.key = r.pr.key /\ pr.remote = r.pr.remote /\ pr.reading = r.pr.reading
      /\ pr.inFlight = r.pr.inFlight /\ pr.out = r.pr.out /\ pr.timer = r.pr.timer
  BY <1>8 DEF PrShaped, PrFields
<1> HIDE DEF pr
<1>10. /\ PrShaped(owed) /\ owed.made = pr.made /\ owed.missed = TRUE
       /\ owed.key = pr.key /\ owed.remote = pr.remote /\ owed.reading = Pending
       /\ owed.inFlight = pr.inFlight /\ owed.out = pr.out /\ owed.timer = pr.timer
  BY <1>9 DEF PrShaped, PrFields
<1> HIDE DEF owed
<1>11. /\ PrFit(last)
       /\ last.made = (r.pr.made \/ shows)
       /\ last.missed = (r.pr.missed \/ (shows /\ missed))
       /\ last.key = r.pr.key /\ last.inFlight = r.pr.inFlight /\ last.timer = r.pr.timer
       /\ last.reading = IF shows /\ missed THEN Pending ELSE r.pr.reading
  <2>1. CASE shows /\ missed
    <3>1. PrFit(owed)
      BY <1>8, <1>9, <1>10 DEF PrFit, PrHalfFit
    <3> HIDE DEF missed
    <3> QED
      BY <1>9, <1>10, <2>1, <3>1
  <2>2. CASE ~(shows /\ missed)
    <3>1. PrFit(pr)
      BY <1>8, <1>9 DEF PrFit, PrHalfFit
    <3>2. r.pr.missed = (r.pr.missed \/ (shows /\ missed))
      BY <1>8, <2>2 DEF PrHalfFit
    <3> HIDE DEF missed
    <3> QED
      BY <1>9, <2>2, <3>1, <3>2
  <2> QED
    BY <2>1, <2>2
<1> HIDE DEF last
<1>12. t = [v EXCEPT !.pr = last]
  <2>1. v.value[o].missed = missed /\ v.pr = r.pr
    BY <1>4, <1>5
  <2> DEFINE made == [v EXCEPT !.pr.made = @ \/ shows]
  <2>2. made = [v EXCEPT !.pr = pr]
    BY <2>1 DEF pr
  <2>3. t = IF shows /\ v.value[o].missed THEN [made EXCEPT !.pr = Owed(@)] ELSE made
    BY DEF Taken
  <2> HIDE DEF made, missed
  <2>4. made.pr = pr /\ [made EXCEPT !.pr = owed] = [v EXCEPT !.pr = owed]
    BY <1>4, <2>2 DEF RepoShaped, RepoFields
  <2>5. Owed(pr) = owed
    BY DEF Owed, owed
  <2>6. [made EXCEPT !.pr = Owed(@)] = [made EXCEPT !.pr = owed]
    BY <2>4, <2>5
  <2> QED
    BY <2>1, <2>2, <2>3, <2>4, <2>6 DEF last
<1> HIDE DEF t
<1>13. /\ RepoShaped(t) /\ t.value = v.value /\ t.pass = v.pass /\ t.again = v.again
       /\ t.timer = v.timer /\ t.lost = v.lost /\ t.split = v.split /\ t.pr = last
  BY <1>4, <1>12 DEF RepoShaped, RepoFields
<1>14. RepoTyped(t)
  BY <1>7, <1>13 DEF RepoTyped, Known
<1> QED
  BY <1>4, <1>5, <1>11, <1>13, <1>14 DEF TakenOf, missed, t, v

\* A home's ask: what it finds missing is read by a pass, and the PR it finds beside
\* a value missed is owed.
AskLeaves(hold) ==
    /\ CacheInv'
    /\ ~closed' /\ holds' = holds \cup {hold}
    /\ hold[3] /\ repo'.value[hold[2]].missed => repo'.pr.missed

LEMMA AskHolds ==
    ASSUME CacheInv, NEW h \in Homes, NEW o \in Sets, NEW shows \in BOOLEAN, Ask(h, o, shows)
    PROVE  AskLeaves(<<h, o, shows>>)
<1> DEFINE hold == <<h, o, shows>>
           H == holds \cup {hold}
           r == repo
           t == Taken(Valued(r, o), o, shows)
           g == Held(r, holds, t, H)
           asks == ~Known(r, o) \/ r.value[o].missed \/ (shows /\ t.pr.missed)
<1>1. /\ ~closed /\ closed' = closed /\ head' = head /\ unheard' = unheard /\ holds' = H
      /\ hold \notin holds
      /\ repo' = IF asks THEN Run(g, H) ELSE g
  BY DEF Ask, Valued
<1>2. /\ Steady(r, holds) /\ Timely(r, holds, head, unheard) /\ holds \in SUBSET Holds
      /\ RepoTyped(r) /\ OneBranch(r) /\ PrTimed(r.pr, Showers(holds) # {})
      /\ PrFit(r.pr) /\ PrHalfFit(r.pr)
  BY <1>1 DEF CacheInv, Steady, PrTimed, PrFit
<1>3. hold \in Holds /\ hold[2] = o /\ hold[3] = shows
  BY HoldsAre
<1>4. H \in SUBSET Holds /\ \A x \in H : x \in holds \/ x = hold
  BY <1>2, <1>3
<1>5. TakenOf(r, o, shows, t)
  BY <1>2, TakenIs
<1>6. Showers(H) = IF shows THEN Showers(holds) \cup {hold} ELSE Showers(holds)
  BY <1>3 DEF Showers
<1> HIDE DEF t, H, hold
<1>7. \A x \in H : Known(t, x[2])
  <2>1. \A x \in H : x[2] \in Sets
    BY <1>4, HoldsAre
  <2> QED
    BY <1>2, <1>3, <1>4, <1>5, <2>1, Apart DEF TakenOf, Known, Steady
<1>8. OneBranch(t)
  <2> SUFFICES ASSUME ~t.split, ~t.pr.missed, NEW p \in Sets, ~t.value[p].missed,
                      Ok(t.value[p].reading)
               PROVE  t.value[p].reading[1] = t.pr.key[1]
    BY DEF OneBranch
  <2>1. t.value[p].reading = r.value[p].reading /\ ~r.value[p].missed
    BY <1>5, Apart DEF TakenOf, Ok
  <2>2. ~r.split /\ ~r.pr.missed /\ r.pr.key = t.pr.key
    BY <1>2, <1>5 DEF TakenOf, PrHalfFit
  <2> QED
    BY <1>2, <2>1, <2>2 DEF OneBranch
<1>9. Showers(H) # {} => t.pr.made
  BY <1>2, <1>5, <1>6 DEF TakenOf, Steady
<1>10. Shown(r, holds) = Shown(t, H) => PrTimed(t.pr, Showers(H) # {})
  BY <1>2, <1>5, <1>6 DEF TakenOf, Shown, PrTimed, PrFit, PrHalfFit
<1>11. Rehung(r, holds, t, H, g)
  <2>1. RepoTyped(t) /\ PrFit(t.pr)
    BY <1>5 DEF TakenOf
  <2> QED
    BY <1>7, <1>8, <1>9, <1>10, <2>1, HeldFits
<1> HIDE DEF g
<1>12. PassFit(g)
  <2> SUFFICES ASSUME g.pass.out
               PROVE  /\ \A p \in Sets \ DOMAIN g.pass.read :
                            Ok(g.value[p].reading) => g.value[p].missed
                      /\ IF g.pass.pr THEN g.pr.made ELSE g.pr.missed
    BY DEF PassFit
  <2>1. /\ g.pass = r.pass /\ g.value = t.value
        /\ g.pr.made = (r.pr.made \/ shows)
        /\ g.pr.missed = (r.pr.missed \/ (shows /\ r.value[o].missed))
    BY <1>5, <1>11 DEF TakenOf, Rehung, SamePr
  <2>2. PassFit(r)
    BY <1>2 DEF Timely
  <2>3. ASSUME NEW p \in Sets \ DOMAIN r.pass.read, Ok(t.value[p].reading)
        PROVE  t.value[p].missed
    <3>1. t.value[p].reading = r.value[p].reading /\ t.value[p].missed = r.value[p].missed
      BY <1>5, <2>3, Apart DEF TakenOf, Ok
    <3> QED
      BY <2>1, <2>2, <2>3, <3>1 DEF PassFit
  <2>4. IF g.pass.pr THEN g.pr.made ELSE g.pr.missed
    BY <2>1, <2>2 DEF PassFit
  <2> QED
    BY <2>1, <2>3, <2>4
<1>13. Steady(g, H)
  BY <1>11 DEF Rehung
<1>14. CASE asks
  <2> DEFINE b == Run(g, H)
  <2>1. /\ Steady(b, H) /\ Timely(b, H, head, unheard)
        /\ \A x \in H : b.value[x[2]].missed = g.value[x[2]].missed
        /\ b.pr = g.pr
    BY <1>4, <1>12, <1>13, RunFits
  <2>2. repo' = b
    BY <1>1, <1>14
  <2> HIDE DEF b
  <2>3. hold \in H
    BY DEF H
  <2>4. shows /\ b.value[o].missed => b.pr.missed
    BY <1>3, <1>5, <1>11, <2>1, <2>3 DEF TakenOf, Rehung, SamePr
  <2>5. CacheInv'
    BY <1>1, <1>4, <2>1, <2>2 DEF CacheInv
  <2> QED
    BY <1>1, <1>3, <2>2, <2>4, <2>5 DEF AskLeaves, H, hold
<1>15. CASE ~asks
  <2>1. repo' = g
    BY <1>1, <1>15
  <2>2. /\ g.value = r.value /\ g.pass = r.pass /\ g.again = r.again /\ g.lost = r.lost
        /\ g.pr.missed = r.pr.missed /\ (r.pr.made => g.pr.made)
        /\ (g.pr.missed => g.pr.reading = r.pr.reading)
    BY <1>2, <1>5, <1>11, <1>15 DEF TakenOf, Rehung, SamePr, PrHalfFit
  <2>3. \A x \in H \ holds : ~r.value[x[2]].missed
    BY <1>3, <1>4, <1>15
  <2>4. Showers(H) # {} /\ r.pr.missed => Showers(holds) # {} /\ (g.timer = r.timer \/ r.pass.out)
    <3> SUFFICES ASSUME Showers(H) # {}, r.pr.missed
                 PROVE  Showers(holds) # {} /\ g.timer = r.timer
      OBVIOUS
    <3>1. ~shows
      BY <1>2, <1>5, <1>15 DEF TakenOf
    <3>2. Showers(holds) # {}
      BY <1>6, <3>1
    <3>3. holds # {} /\ H # {}
      BY <3>2 DEF Showers, H
    <3> QED
      BY <1>5, <1>11, <3>2, <3>3 DEF TakenOf, Rehung
  <2>5. Timely(g, H, head, unheard)
    BY <1>2, <2>2, <2>3, <2>4, KeptTimely
  <2>6. CacheInv'
    BY <1>1, <1>4, <1>13, <2>1, <2>5 DEF CacheInv
  <2> QED
    BY <1>1, <1>3, <1>15, <2>1, <2>2, <2>6 DEF AskLeaves, H, hold
<1> QED
  BY <1>14, <1>15 DEF hold

LEMMA CacheStarts == CacheInit => CacheInv
BY NewFits DEF CacheInit, CacheInv

\* Eviction and close leave a repository nothing asked for.
LEMMA GoneHolds == ASSUME CacheInv, Drop \/ Close PROVE CacheInv'
BY NewFits DEF Drop, Close, CacheInv

LEMMA CacheSteps == CacheInv /\ [CacheNext]_cacheVars => CacheInv'
<1> SUFFICES ASSUME CacheInv, [CacheNext]_cacheVars PROVE CacheInv'
  OBVIOUS
<1>1. ASSUME NEW b \in Branches, Commit(b) PROVE CacheInv'
  BY <1>1, CommitHolds
<1>2. CASE Heard
  BY <1>2, HeardHolds
<1>3. ASSUME NEW h \in Homes, NEW o \in Sets, NEW s \in BOOLEAN, Ask(h, o, s) PROVE CacheInv'
  BY <1>3, AskHolds DEF AskLeaves
<1>4. ASSUME NEW hold \in holds, LetGo(hold) PROVE CacheInv'
  BY <1>4, LetGoHolds
<1>5. ASSUME NEW o \in Sets, Look(o) PROVE CacheInv'
  BY <1>5, LookHolds
<1>6. CASE PassLands
  BY <1>6, PassLandsHolds
<1>7. CASE Tick
  BY <1>7, TickHolds
<1>8. CASE PrTick
  BY <1>8, PrTickHolds
<1>9. ASSUME NEW b \in Branches, Answer(b) PROVE CacheInv'
  BY <1>9, AnswerHolds
<1>10. CASE Drop \/ Close
  BY <1>10, GoneHolds
<1>11. CASE UNCHANGED cacheVars
  BY <1>11 DEF cacheVars, CacheInv
<1> QED
  BY <1>1, <1>2, <1>3, <1>4, <1>5, <1>6, <1>7, <1>8, <1>9, <1>10, <1>11 DEF CacheNext

\* The invariant of the git cache, in every state it reaches.
THEOREM CacheStandsAlways == CacheSpec => []CacheInv
<1> QED
  BY CacheStarts, CacheSteps, PTL DEF CacheSpec

LEMMA HeardIsReadFrom == CacheInv => HeardIsRead
<1> SUFFICES ASSUME CacheInv, ~unheard, ~repo.pass.out, ~repo.lost, ~closed, NEW h \in holds,
                    Ok(repo.value[h[2]].reading)
             PROVE  repo.value[h[2]].reading = <<head, TRUE>>
  BY DEF HeardIsRead
<1>1. h[2] \in Sets /\ Heeded(repo, head, unheard) /\ Fetched(repo, holds)
  BY HoldsAre DEF CacheInv, Timely
<1>2. ~repo.value[h[2]].missed
  BY <1>1 DEF Fetched, Rereads
<1> QED
  BY <1>1, <1>2 DEF Heeded, Stale, Rereads

\* A change the watch reported is read (changed, pass): what a home holds once no
\* report waits and no pass is out was read after it, whether it came during a pass,
\* between two holds or to a repository no home held then.  (But for one that came
\* during a pass no home held any more.)
THEOREM HeardIsReadAlways == CacheSpec => []HeardIsRead
BY CacheStandsAlways, HeardIsReadFrom, PTL

LEMMA PrIsOnItsWayFrom == CacheInv => PrIsOnItsWay
<1> SUFFICES ASSUME CacheInv, Showers(holds) # {}, ~closed
             PROVE  LET pr == repo.pr
                    IN  \/ pr.missed /\ repo.pass.out
                        \/ pr.missed /\ pr.reading = None /\ repo.timer
                        \/ /\ ~pr.missed /\ pr.key[2] = "url" /\ pr.inFlight = pr.key
                           /\ pr.out[pr.key[1]] > 0
                        \/ ~pr.missed /\ pr.reading = pr.key /\ pr.timer
  BY DEF PrIsOnItsWay
<1>1. PrTimed(repo.pr, TRUE) /\ PrAwaited(repo, holds)
  BY DEF CacheInv, Steady, Timely
<1>2. PrFit(repo.pr) /\ PrHalfFit(repo.pr)
  BY <1>1 DEF PrTimed, PrFit
<1>3. CASE repo.pr.missed
  BY <1>1, <1>3 DEF PrAwaited
<1>4. CASE ~repo.pr.missed
  BY <1>1, <1>2, <1>4 DEF PrTimed, PrFit, PrHalfFit
<1> QED
  BY <1>3, <1>4

\* No home waits for a PR in vain (movePr, readPr, unkeyedPr): one it shows has its
\* answer and its next visit, a lookup of its own key out, the pass that will key it
\* out, or that pass failed and the next is set.
THEOREM PrIsOnItsWayAlways == CacheSpec => []PrIsOnItsWay
BY CacheStandsAlways, PrIsOnItsWayFrom, PTL

LEMMA PrBesideStep ==
    ASSUME CacheInv, CacheInv', [CacheNext]_cacheVars, ~repo'.split, NEW h \in holds', h[3],
           h \notin holds \/ ~repo'.value[h[2]].missed
    PROVE  Beside(h)'
<1> SUFFICES ASSUME Ok(repo'.value[h[2]].reading), repo'.pr.reading \in Keys
             PROVE  repo'.pr.reading[1] = repo'.value[h[2]].reading[1]
  BY DEF Beside
<1>1. h[2] \in Sets
  BY HoldsAre DEF CacheInv
<1>2. ~closed'
  BY <1>1, NewFits, Apart DEF CacheInv, Ok
<1>3. OneBranch(repo') /\ PrHalfFit(repo'.pr)
  BY <1>2 DEF CacheInv, Steady, PrTimed, PrFit
<1>4. ~repo'.pr.missed /\ repo'.pr.reading = repo'.pr.key
  BY <1>3, Apart DEF PrHalfFit
<1>5. ~repo'.value[h[2]].missed
  <2>1. CASE h \in holds
    BY <2>1
  <2>2. CASE h \notin holds
    <3>1. PICK x \in Homes, o \in Sets, s \in BOOLEAN : Ask(x, o, s)
      BY <2>2 DEF CacheNext, cacheVars, Commit, Heard, LetGo, Look, PassLands, Tick, PrTick, Answer,
                  Drop, Close
    <3>2. AskLeaves(<<x, o, s>>)
      BY <3>1, AskHolds
    <3>3. h = <<x, o, s>>
      BY <2>2, <3>2 DEF AskLeaves
    <3> QED
      BY <1>4, <3>2, <3>3 DEF AskLeaves
  <2> QED
    BY <2>1, <2>2
<1> QED
  BY <1>1, <1>3, <1>4, <1>5 DEF OneBranch

\* What a home's hold reads, and what a pass stores for it, is a branch's value beside
\* that branch's PR (hold, pass, movePr), whichever lookups, holds and branches came
\* between: but for a pass whose own reads fell on two branches.
THEOREM PrBesideAlways == CacheSpec => PrBesideItsBranch
<1>1. CacheInv /\ CacheInv' /\ [CacheNext]_cacheVars
      => [~repo'.split =>
            \A h \in holds' : h[3] /\ (h \notin holds \/ ~repo'.value[h[2]].missed)
                               => Beside(h)']_cacheVars
  BY PrBesideStep
<1> QED
  BY <1>1, CacheStandsAlways, PTL DEF CacheSpec, PrBesideItsBranch

=============================================================================
