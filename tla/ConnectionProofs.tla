-------------------------- MODULE ConnectionProofs --------------------------
(***************************************************************************)
(* Proofs about Connection, for any set of connections.  The table is      *)
(* summarised once, in StepFacts; every action is then one or two steps of *)
(* the table, and the invariant follows from what a step may do.           *)
(***************************************************************************)
EXTENDS Connection, FiniteSetTheorems, TLAPS

EventKinds == {"read", "unreadable", "deadline", "reply", "subscribe",
               "subscribed", "held", "threw", "settled", "close"}

Events == [kind : EventKinds, waits : BOOLEAN, exit : BOOLEAN]

\* The states from which an answer may still be written.
Unanswered(s) == s.kind \in {"awaiting", "answering", "held"}

\* What every cell of the table respects: it writes an answer only from a state
\* that has written none, counts a timeout exactly when the state passes its
\* deadline, and returns to none of the lines a step is said to cross.
CellRespects(s, moved) ==
    /\ moved.next \in States
    /\ "clear-backstop" \notin moved.effects
    /\ "leave-in-flight" \notin moved.effects
    /\ BackstopArmed(moved.next) => BackstopArmed(s)
    /\ InFlight(moved.next) => InFlight(s)
    /\ "count-timeout" \in moved.effects <=> TimedOut(moved.next) /\ ~TimedOut(s)
    /\ TimedOut(s) => TimedOut(moved.next)
    /\ Unanswered(moved.next) => Unanswered(s) /\ "answer" \notin moved.effects
    /\ "answer" \in moved.effects => Unanswered(s)
    /\ moved.next.kind # "new"

\* The same of a step, whose effects name each line it crosses.  It holds of two
\* steps in a row if it holds of each.
Respects(s, did) ==
    /\ did.next \in States
    /\ BackstopArmed(did.next) <=>
           BackstopArmed(s) /\ "clear-backstop" \notin did.effects
    /\ InFlight(did.next) <=>
           InFlight(s) /\ "leave-in-flight" \notin did.effects
    /\ "leave-in-flight" \in did.effects => InFlight(s)
    /\ "count-timeout" \in did.effects <=> TimedOut(did.next) /\ ~TimedOut(s)
    /\ TimedOut(s) => TimedOut(did.next)
    /\ Unanswered(did.next) => Unanswered(s) /\ "answer" \notin did.effects
    /\ "answer" \in did.effects => Unanswered(s)
    /\ did.next.kind # "new"

LEMMA CellFacts ==
    ASSUME NEW s \in States, s.kind # "new", NEW e \in Events
    PROVE  CellRespects(s, Cell(s, e))
<1> USE DEF States, Kinds, St, Awaiting, Answering, HeldOpen, Streaming,
            Unattended, Answered, Closed, To, Does, Answer, BackstopArmed,
            InFlight, TimedOut, Unanswered, CellRespects
<1>1. CASE e.kind = "read"
  <2>1. Cell(s, e) = ReadCell(s, e)
    BY <1>1, Zenon DEF Cell
  <2> QED
    BY <2>1 DEF ReadCell
<1>2. CASE e.kind = "unreadable"
  <2>1. Cell(s, e) = IF s.kind = "awaiting" THEN Answer("reply") ELSE To(s)
    BY <1>2, Zenon DEF Cell
  <2> QED
    BY <2>1
<1>3. CASE e.kind = "deadline"
  <2>1. Cell(s, e) = DeadlineCell(s)
    BY <1>3, Zenon DEF Cell
  <2> QED
    BY <2>1 DEF DeadlineCell
<1>4. CASE e.kind = "reply"
  <2>1. Cell(s, e) = ReplyCell(s, e)
    BY <1>4, Zenon DEF Cell
  <2> QED
    BY <2>1 DEF ReplyCell
<1>5. CASE e.kind = "subscribe"
  <2>1. Cell(s, e) = Does(s, IF s.kind = "answering" THEN {"attach"} ELSE {})
    BY <1>5, Zenon DEF Cell
  <2> QED
    BY <2>1
<1>6. CASE e.kind = "subscribed"
  <2>1. Cell(s, e) = IF s.kind = "answering" THEN To(Streaming)
                                    ELSE Does(s, {"unsubscribe"})
    BY <1>6, Zenon DEF Cell
  <2> QED
    BY <2>1
<1>7. CASE e.kind = "held"
  <2>1. Cell(s, e) = IF s.kind = "answering" THEN Does(HeldOpen, {"start"}) ELSE To(s)
    BY <1>7, Zenon DEF Cell
  <2> QED
    BY <2>1
<1>8. CASE e.kind = "threw"
  <2>1. Cell(s, e) = IF s.kind \in {"answering", "held"} THEN Answer("reply") ELSE To(s)
    BY <1>8, Zenon DEF Cell
  <2> QED
    BY <2>1
<1>9. CASE e.kind = "settled"
  <2>1. Cell(s, e) = To(IF s.kind = "unattended" THEN Closed(s.lapsed) ELSE s)
    BY <1>9, Zenon DEF Cell
  <2> QED
    BY <2>1
<1>10. CASE e.kind = "close"
  <2>1. Cell(s, e) = CloseCell(s)
    BY <1>10, Zenon DEF Cell
  <2>2. CloseCell(s) =
          IF s.kind \in {"unattended", "closed"} THEN To(s)
          ELSE IF s.kind = "streaming" THEN Does(Closed(FALSE), {"unsubscribe"})
          ELSE IF s.kind = "held" THEN Does(Closed(FALSE), {"abort"})
          ELSE To(Closed(TimedOut(s)))
    BY DEF CloseCell
  <2> DEFINE by == TimedOut(s)
  <2>3. by \in BOOLEAN /\ (by <=> TimedOut(s))
    OBVIOUS
  <2> HIDE DEF by
  <2> QED
    BY <2>1, <2>2, <2>3
<1> QED
  BY <1>1, <1>2, <1>3, <1>4, <1>5, <1>6, <1>7, <1>8, <1>9, <1>10
  DEF Events, EventKinds

LEMMA StepFacts ==
    ASSUME NEW s \in States, s.kind # "new", NEW e \in Events
    PROVE  Respects(s, Step(s, e))
<1> DEFINE moved == Cell(s, e)
<1>1. CellRespects(s, moved)
  BY CellFacts
<1>2. /\ Step(s, e).next = moved.next
      /\ Step(s, e).effects =
            moved.effects
            \cup (IF BackstopArmed(s) /\ ~BackstopArmed(moved.next)
                    THEN {"clear-backstop"} ELSE {})
            \cup (IF InFlight(s) /\ ~InFlight(moved.next)
                    THEN {"leave-in-flight"} ELSE {})
  BY DEF Step, Does
<1> HIDE DEF moved
<1> QED
  BY <1>1, <1>2 DEF CellRespects, Respects

LEMMA ThenFacts ==
    ASSUME NEW s \in States, NEW first, Respects(s, first), NEW e \in Events
    PROVE  Respects(s, Then(first, e))
<1> DEFINE second == Step(first.next, e)
<1>1. Respects(first.next, second)
  BY StepFacts DEF Respects
<1>2. /\ Then(first, e).next = second.next
      /\ Then(first, e).effects = first.effects \cup second.effects
  BY DEF Then, Does
<1> HIDE DEF second
<1> QED
  BY <1>1, <1>2 DEF Respects

LEMMA EventsTyped ==
    /\ \A k \in EventKinds : Ev(k) \in Events
    /\ \A b \in BOOLEAN : Read(b) \in Events /\ Reply(b) \in Events
BY DEF Ev, Read, Reply, Events, EventKinds

\* The deadline ends what it fires on: no armed state is left armed.
LEMMA DeadlineDisarms ==
    ASSUME NEW s \in States, s.kind # "new", BackstopArmed(s)
    PROVE  LET did == Step(s, Ev("deadline")) IN
           Respects(s, Does(did.next, did.effects \cup {"clear-backstop"}))
<1> DEFINE did == Step(s, Ev("deadline"))
<1>1. Respects(s, did)
  BY StepFacts, EventsTyped DEF EventKinds
<1>2. Cell(s, Ev("deadline")) = DeadlineCell(s)
  <2>1. Ev("deadline").kind = "deadline"
    BY DEF Ev
  <2> QED
    BY <2>1, Zenon DEF Cell
<1>3. ~BackstopArmed(did.next)
  <2>1. ~BackstopArmed(DeadlineCell(s).next)
    <3>1. CASE s.kind \in {"awaiting", "answering"}
      BY <3>1 DEF DeadlineCell, BackstopArmed, St, Answered, Does
    <3>2. CASE s.kind = "unattended" /\ ~s.lapsed
      BY <3>2 DEF DeadlineCell, BackstopArmed, St, Unattended, Does
    <3> QED
      BY <3>1, <3>2 DEF BackstopArmed
  <2> QED
    BY <1>2, <2>1 DEF Step, Does
<1> HIDE DEF did
<1>4. Respects(s, Does(did.next, did.effects \cup {"clear-backstop"}))
  BY <1>1, <1>3 DEF Respects, Does
<1> QED
  BY <1>4 DEF did

-----------------------------------------------------------------------------
(* The inductive invariant: types, the two counts, the timers, and that an  *)
(* answer is written only by leaving the unanswered states for good.        *)

StepTypeOK ==
    /\ state \in [Conns -> States]
    /\ timer \subseteq Conns
    /\ counted \in Nat
    /\ timeouts \in Nat
    /\ answers \in [Conns -> Nat]
    /\ flush \in [Conns -> [out : BOOLEAN, exit : BOOLEAN, holds : BOOLEAN]]
    /\ aborted \subseteq Conns
    /\ wish \in [Conns -> {"none", "flushing", "performed", "dropped", "lost"}]
    /\ exited \in BOOLEAN

AnswersMatchStates ==
    \A c \in Conns :
        /\ answers[c] <= 1
        /\ state[c].kind = "new" \/ Unanswered(state[c]) => answers[c] = 0

\* Everything a step of the table disturbs.
CoreInv ==
    /\ StepTypeOK
    /\ \A c \in Conns : state[c].kind = "new" <=> state[c] = NotAccepted
    /\ TimersMatchStates
    /\ AnswersMatchStates
    /\ StatsAreExact

\* What only the callbacks around it do.
CallbackInv ==
    /\ work \in [Conns -> {"none", "handling", "held", "done"}]
    /\ frame \in [Conns -> {"none", "request", "url", "garbage"}]
    /\ feed \subseteq Conns
    /\ refused \subseteq Conns
    /\ delivered \subseteq Conns
    /\ peerGone \subseteq Conns
    /\ \A c \in Conns : work[c] # "none" => Accepted(c)

IInv == CoreInv /\ CallbackInv

\* No step un-accepts a connection or withdraws a verdict of TIMEOUT.
NothingTakenBack ==
    \A c \in Conns :
        /\ Accepted(c) => Accepted(c)'
        /\ TimedOut(state[c]) => TimedOut(state'[c])

\* How a count of the connections in one class follows one connection's move.
LEMMA CountMoves ==
    ASSUME NEW A, NEW B, IsFiniteSet(A), NEW c
    PROVE  /\ Cardinality(A) \in Nat
           /\ c \notin A /\ B = A \cup {c} => Cardinality(B) = Cardinality(A) + 1
           /\ c \in A /\ B = A \ {c} => Cardinality(B) = Cardinality(A) - 1
           /\ B = A => Cardinality(B) = Cardinality(A)
BY FS_CardinalityType, FS_AddElement, FS_RemoveElement

\* One performed step keeps everything it disturbs.
LEMMA PerformKeepsCore ==
    ASSUME CoreInv, NEW c \in Conns, Accepted(c), NEW did, Respects(state[c], did),
           NEW exits \in BOOLEAN, NEW holds \in BOOLEAN,
           Perform(c, did, exits, holds)
    PROVE  CoreInv' /\ NothingTakenBack
<1> DEFINE s == state[c]
           Counted == {d \in Conns : Accepted(d) /\ InFlight(state[d])}
           Late == {d \in Conns : TimedOut(state[d])}
<1>1. /\ s \in States /\ did.next \in States /\ s.kind # "new"
      /\ did.next.kind # "new"
      /\ state' = [state EXCEPT ![c] = did.next]
      /\ \A d \in Conns \ {c} : state'[d] = state[d]
      /\ state'[c] = did.next
  BY DEF CoreInv, StepTypeOK, Accepted, Perform, Respects
<1>2. NotAccepted.kind = "new"
  BY DEF NotAccepted, St
<1>3. \A d \in Conns : state'[d].kind = "new" <=> state'[d] = NotAccepted
  BY <1>1, <1>2 DEF CoreInv
<1>4. \A d \in Conns : Accepted(d) <=> Accepted(d)'
  BY <1>1, <1>2 DEF Accepted
<1>5. TimersMatchStates'
  BY <1>1, <1>4 DEF TimersMatchStates, CoreInv, StepTypeOK, Perform, Respects
<1>6. AnswersMatchStates'
  BY <1>1 DEF AnswersMatchStates, CoreInv, StepTypeOK, Perform, Respects
<1>7. IsFiniteSet(Counted) /\ IsFiniteSet(Late)
  BY ConnsFinite, FS_Subset
<1>8. counted' = Cardinality(Counted') /\ counted' \in Nat
  <2>1. CASE "leave-in-flight" \in did.effects
    <3>1. c \in Counted /\ Counted' = Counted \ {c}
      BY <1>1, <1>4, <2>1 DEF Respects
    <3>2. IsFiniteSet(Counted \ {c}) 
      BY <1>7, FS_RemoveElement
    <3> HIDE DEF Counted
    <3>3. counted' = counted - 1 /\ counted = Cardinality(Counted)
      BY <2>1 DEF Perform, CoreInv, StatsAreExact, Counted
    <3> QED
      BY <1>7, <3>1, <3>2, <3>3, CountMoves, FS_CardinalityType
  <2>2. CASE "leave-in-flight" \notin did.effects
    <3>1. Counted' = Counted
      BY <1>1, <1>4, <2>2 DEF Respects
    <3> QED
      BY <2>2, <3>1 DEF Perform, CoreInv, StatsAreExact, StepTypeOK
  <2> QED
    BY <2>1, <2>2
<1>9. timeouts' = Cardinality(Late') /\ timeouts' \in Nat
  <2>1. CASE "count-timeout" \in did.effects
    <3>1. c \notin Late /\ Late' = Late \cup {c}
      BY <1>1, <2>1 DEF Respects
    <3> HIDE DEF Late
    <3>2. timeouts' = timeouts + 1 /\ timeouts = Cardinality(Late)
      BY <2>1 DEF Perform, CoreInv, StatsAreExact, Late
    <3> QED
      BY <1>7, <3>1, <3>2, CountMoves
  <2>2. CASE "count-timeout" \notin did.effects
    <3>1. Late' = Late
      BY <1>1, <2>2 DEF Respects
    <3> QED
      BY <2>2, <3>1 DEF Perform, CoreInv, StatsAreExact, StepTypeOK
  <2> QED
    BY <2>1, <2>2
<1>10. StatsAreExact'
  BY <1>8, <1>9 DEF StatsAreExact
<1>11. StepTypeOK'
  <2>1. wish' \in [Conns -> {"none", "flushing", "performed", "dropped", "lost"}]
    <3> DEFINE w == CASE "exit" \in did.effects -> "performed"
                    [] "exit-dropped" \in did.effects -> "dropped"
                    [] exits /\ "answer" \in did.effects -> "flushing"
                    [] exits /\ did.effects \cap {"answer", "exit", "exit-dropped"} = {} -> "lost"
                    [] OTHER -> wish[c]
    <3>1. w \in {"none", "flushing", "performed", "dropped", "lost"}
      BY DEF CoreInv, StepTypeOK
    <3>2. wish' = [wish EXCEPT ![c] = w]
      BY DEF Perform
    <3> HIDE DEF w
    <3> QED
      BY <3>1, <3>2 DEF CoreInv, StepTypeOK
  <2>2. /\ flush' \in [Conns -> [out : BOOLEAN, exit : BOOLEAN, holds : BOOLEAN]]
        /\ answers' \in [Conns -> Nat]
    <3> DEFINE f == [out |-> TRUE, exit |-> exits, holds |-> holds]
    <3>1. f \in [out : BOOLEAN, exit : BOOLEAN, holds : BOOLEAN]
      OBVIOUS
    <3>2. CASE "answer" \in did.effects
      <4>1. flush' = [flush EXCEPT ![c] = f] /\ answers' = [answers EXCEPT ![c] = @ + 1]
        BY <3>2 DEF Perform
      <4> HIDE DEF f
      <4> QED
        BY <3>1, <4>1 DEF CoreInv, StepTypeOK
    <3>3. CASE "answer" \notin did.effects
      BY <3>3 DEF CoreInv, StepTypeOK, Perform
    <3> QED
      BY <3>2, <3>3
  <2>3. timer' \subseteq Conns /\ aborted' \subseteq Conns /\ exited' \in BOOLEAN
    BY DEF CoreInv, StepTypeOK, Perform
  <2> QED
    BY <1>1, <1>8, <1>9, <2>1, <2>2, <2>3 DEF CoreInv, StepTypeOK
<1>12. NothingTakenBack
  BY <1>1, <1>4 DEF NothingTakenBack, Respects
<1> QED
  BY <1>3, <1>5, <1>6, <1>10, <1>11, <1>12 DEF CoreInv

-----------------------------------------------------------------------------
(* Every action is a performed step, or leaves the table alone.            *)

LEMMA AcceptKeepsCore ==
    ASSUME CoreInv, NEW c \in Conns, Accept(c)
    PROVE  CoreInv' /\ NothingTakenBack
<1> DEFINE Counted == {d \in Conns : Accepted(d) /\ InFlight(state[d])}
           Late == {d \in Conns : TimedOut(state[d])}
<1> USE DEF States, Kinds, St, NotAccepted, Awaiting, Accepted
<1>1. /\ state' = [state EXCEPT ![c] = Awaiting]
      /\ state \in [Conns -> States] /\ Awaiting \in States
      /\ state[c] = NotAccepted
  BY DEF Accept, CoreInv, StepTypeOK
<1>2. \A d \in Conns : Accepted(d)' <=> Accepted(d) \/ d = c
  BY <1>1
<1>3. \A d \in Conns : state'[d].kind = "new" <=> state'[d] = NotAccepted
  BY <1>1 DEF CoreInv
<1>4. TimersMatchStates'
  BY <1>1, <1>2 DEF TimersMatchStates, CoreInv, BackstopArmed, Accept
<1>5. AnswersMatchStates'
  BY <1>1 DEF AnswersMatchStates, CoreInv, Unanswered, Accept
<1>6. counted' = Cardinality(Counted') /\ counted' \in Nat
  <2>1. c \notin Counted /\ Counted' = Counted \cup {c}
    BY <1>1, <1>2 DEF InFlight
  <2>2. IsFiniteSet(Counted)
    BY ConnsFinite, FS_Subset
  <2> HIDE DEF Counted
  <2>3. counted' = counted + 1 /\ counted = Cardinality(Counted)
    BY DEF Accept, CoreInv, StatsAreExact, Counted
  <2> QED
    BY <2>1, <2>2, <2>3, CountMoves
<1>7. Late' = Late
  BY <1>1 DEF TimedOut
<1>8. timeouts' = Cardinality(Late')
  BY <1>7 DEF Accept, CoreInv, StatsAreExact
<1>9. StatsAreExact'
  BY <1>6, <1>8 DEF StatsAreExact
<1>10. StepTypeOK'
  BY <1>1, <1>6 DEF StepTypeOK, CoreInv, Accept
<1>11. NothingTakenBack
  BY <1>1, <1>2 DEF NothingTakenBack, TimedOut
<1> QED
  BY <1>3, <1>4, <1>5, <1>9, <1>10, <1>11 DEF CoreInv

\* A flush touches only the write's own state.
LEMMA FlushKeepsCore ==
    ASSUME CoreInv, NEW c \in Conns, Flush(c)
    PROVE  CoreInv' /\ NothingTakenBack
<1>1. UNCHANGED <<state, timer, counted, timeouts, answers, aborted>>
  BY DEF Flush
<1>2. NoFlush \in [out : BOOLEAN, exit : BOOLEAN, holds : BOOLEAN]
  BY DEF NoFlush
<1>3. flush' \in [Conns -> [out : BOOLEAN, exit : BOOLEAN, holds : BOOLEAN]]
  BY <1>2 DEF Flush, CoreInv, StepTypeOK
<1>4. wish' \in [Conns -> {"none", "flushing", "performed", "dropped", "lost"}]
  BY DEF Flush, CoreInv, StepTypeOK
<1>5. exited' \in BOOLEAN
  BY DEF Flush, CoreInv, StepTypeOK
<1> QED
  BY <1>1, <1>3, <1>4, <1>5
  DEF CoreInv, StepTypeOK, TimersMatchStates, AnswersMatchStates,
      StatsAreExact, Accepted, NothingTakenBack

\* A follower dropped touches only the feed.
LEMMA DropKeepsCore ==
    ASSUME CoreInv, NEW c \in Conns, FeedDrops(c)
    PROVE  CoreInv' /\ NothingTakenBack
<1>1. UNCHANGED <<state, timer, counted, timeouts, answers, flush, aborted, wish, exited>>
  BY DEF FeedDrops
<1> QED
  BY <1>1
  DEF CoreInv, StepTypeOK, TimersMatchStates, AnswersMatchStates,
      StatsAreExact, Accepted, NothingTakenBack

LEMMA TwoSteps ==
    ASSUME NEW s \in States, s.kind # "new", NEW e \in Events, NEW f \in Events
    PROVE  Respects(s, Then(Step(s, e), f))
BY StepFacts, ThenFacts

\* Every other action performs one or two steps of the table.
LEMMA CallbackKeepsCore ==
    ASSUME IInv, NEW c \in Conns,
           \/ ReadFrame(c) \/ ReadGarbage(c) \/ Backstop(c) \/ HandlerReplies(c)
           \/ HandlerThrows(c) \/ HandlerSubscribes(c) \/ HandlerHolds(c)
           \/ HeldSettles(c) \/ PeerLeaves(c)
    PROVE  CoreInv' /\ NothingTakenBack
<1> DEFINE s == state[c]
<1>1. CoreInv /\ s \in States /\ (Accepted(c) => s.kind # "new")
  BY DEF IInv, CoreInv, StepTypeOK, Accepted
<1>2. work[c] # "none" => Accepted(c)
  BY DEF IInv, CallbackInv
<1>3. /\ \A k \in EventKinds : Ev(k) \in Events
      /\ \A b \in BOOLEAN : Read(b) \in Events /\ Reply(b) \in Events
  BY EventsTyped
<1>4. ASSUME Accepted(c), NEW did, Respects(s, did),
             NEW exits \in BOOLEAN, NEW holds \in BOOLEAN,
             Perform(c, did, exits, holds)
      PROVE  CoreInv' /\ NothingTakenBack
  BY <1>1, <1>4, PerformKeepsCore
<1>5. ASSUME Accepted(c), NEW e \in Events, NEW exits \in BOOLEAN,
             Perform(c, Step(s, e), exits, FALSE)
      PROVE  CoreInv' /\ NothingTakenBack
  BY <1>1, <1>4, <1>5, StepFacts
<1>6. ASSUME Accepted(c), NEW e \in Events, NEW f \in Events,
             NEW exits \in BOOLEAN, NEW holds \in BOOLEAN,
             Perform(c, Then(Step(s, e), f), exits, holds)
      PROVE  CoreInv' /\ NothingTakenBack
  BY <1>1, <1>4, <1>6, TwoSteps
<1>7. CASE ReadFrame(c)
  BY <1>3, <1>5, <1>7 DEF ReadFrame
<1>8. CASE ReadGarbage(c)
  BY <1>3, <1>5, <1>8 DEF ReadGarbage, EventKinds
<1>9. CASE Backstop(c)
  <2>1. Accepted(c) /\ BackstopArmed(s)
    BY <1>9 DEF Backstop, IInv, CoreInv, TimersMatchStates
  <2>2. Respects(s, Does(Step(s, Ev("deadline")).next,
                 Step(s, Ev("deadline")).effects \cup {"clear-backstop"}))
    BY <1>1, <2>1, DeadlineDisarms
  <2> QED
    BY <1>4, <1>9, <2>1, <2>2 DEF Backstop
<1>10. CASE HandlerReplies(c)
  <2>1. Accepted(c)
    BY <1>2, <1>10 DEF HandlerReplies
  <2>2. PICK exits \in BOOLEAN, holds \in BOOLEAN :
          Perform(c, Then(Step(s, Reply(exits)), Ev("settled")), exits, holds)
    BY <1>10 DEF HandlerReplies
  <2>3. Reply(exits) \in Events /\ Ev("settled") \in Events
    BY <1>3 DEF EventKinds
  <2> QED
    BY <1>6, <2>1, <2>2, <2>3
<1>11. CASE HandlerThrows(c)
  <2>1. Accepted(c) /\ Perform(c, Then(Step(s, Ev("threw")), Ev("settled")), FALSE, FALSE)
    BY <1>2, <1>11 DEF HandlerThrows
  <2>2. Ev("threw") \in Events /\ Ev("settled") \in Events
    BY <1>3 DEF EventKinds
  <2> QED
    BY <1>6, <2>1, <2>2
<1>12. CASE HandlerSubscribes(c)
  <2>1. Accepted(c)
    BY <1>2, <1>12 DEF HandlerSubscribes
  <2>2. Ev("subscribe") \in Events /\ Ev("subscribed") \in Events /\ Ev("threw") \in Events
    BY <1>3 DEF EventKinds
  <2>3. \/ Perform(c, Then(Step(s, Ev("subscribe")), Ev("subscribed")), FALSE, FALSE)
        \/ Perform(c, Then(Step(s, Ev("subscribe")), Ev("threw")), FALSE, FALSE)
        \/ Perform(c, Step(s, Ev("subscribe")), FALSE, FALSE)
    BY <1>12 DEF HandlerSubscribes
  <2> QED
    BY <1>5, <1>6, <2>1, <2>2, <2>3
<1>13. CASE HandlerHolds(c)
  <2>1. Accepted(c) /\ Perform(c, Step(s, Ev("held")), FALSE, FALSE)
    BY <1>2, <1>13 DEF HandlerHolds
  <2> QED
    BY <1>3, <1>5, <2>1 DEF EventKinds
<1>14. CASE HeldSettles(c)
  <2>1. Accepted(c)
    BY <1>2, <1>14 DEF HeldSettles
  <2> QED
    BY <1>3, <1>5, <1>14, <2>1 DEF HeldSettles, EventKinds
<1>15. CASE PeerLeaves(c)
  <2>1. Accepted(c) /\ Perform(c, Step(s, Ev("close")), FALSE, FALSE)
    BY <1>15 DEF PeerLeaves
  <2> QED
    BY <1>3, <1>5, <2>1 DEF EventKinds
<1> QED
  BY <1>7, <1>8, <1>9, <1>10, <1>11, <1>12, <1>13, <1>14, <1>15

LEMMA InitHolds == Init => IInv
<1> SUFFICES ASSUME Init PROVE IInv
  OBVIOUS
<1> USE DEF Init, NotAccepted, St, States, Kinds, Accepted
<1>1. \A c \in Conns : state[c] = NotAccepted /\ NotAccepted \in States
  OBVIOUS
<1>2. StepTypeOK
  BY <1>1 DEF StepTypeOK, NoFlush
<1>3. TimersMatchStates /\ AnswersMatchStates
  BY <1>1 DEF TimersMatchStates, AnswersMatchStates
<1>4. /\ {c \in Conns : Accepted(c) /\ InFlight(state[c])} = {}
      /\ {c \in Conns : TimedOut(state[c])} = {}
  BY <1>1 DEF TimedOut
<1>5. StatsAreExact
  BY <1>4, FS_EmptySet DEF StatsAreExact
<1>6. CoreInv
  BY <1>1, <1>2, <1>3, <1>5 DEF CoreInv
<1>7. CallbackInv
  BY DEF CallbackInv
<1> QED
  BY <1>6, <1>7 DEF IInv

LEMMA StepKeepsInv ==
    ASSUME IInv, [Next]_vars
    PROVE  IInv' /\ NothingTakenBack
<1>1. CASE UNCHANGED vars
  BY <1>1 DEF vars, IInv, CoreInv, StepTypeOK, TimersMatchStates, AnswersMatchStates,
              StatsAreExact, CallbackInv, NothingTakenBack, Accepted
<1>2. CASE Next
  <2>1. PICK c \in Conns :
           \/ Accept(c) \/ ReadFrame(c) \/ ReadGarbage(c) \/ Backstop(c)
           \/ HandlerReplies(c) \/ HandlerThrows(c) \/ HandlerSubscribes(c)
           \/ HandlerHolds(c) \/ HeldSettles(c) \/ Flush(c) \/ FeedDrops(c)
           \/ PeerLeaves(c)
    BY <1>2 DEF Next
  <2>2. CoreInv' /\ NothingTakenBack
    BY <2>1, AcceptKeepsCore, FlushKeepsCore, DropKeepsCore, CallbackKeepsCore DEF IInv
  <2>3. CallbackInv'
    <3>1. \A d \in Conns : Accepted(d) => Accepted(d)'
      BY <2>2 DEF NothingTakenBack
    <3> USE DEF IInv, CallbackInv
    <3>2. CASE Accept(c)
      BY <3>1, <3>2 DEF Accept
    <3>3. CASE ReadFrame(c) \/ ReadGarbage(c)
      <4>1. Accepted(c) /\ UNCHANGED <<feed, refused, delivered, peerGone>>
        BY <3>3 DEF ReadFrame, ReadGarbage
      <4>2. PICK sent \in {"request", "url", "garbage"} :
              frame' = [frame EXCEPT ![c] = sent]
        BY <3>3 DEF ReadFrame, ReadGarbage
      <4>3. work' = [work EXCEPT ![c] = "handling"] \/ work' = work
        BY <3>3 DEF ReadFrame, ReadGarbage
      <4> QED
        BY <3>1, <4>1, <4>2, <4>3
    <3>4. CASE Backstop(c)
      BY <3>1, <3>4 DEF Backstop
    <3>5. CASE HandlerReplies(c) \/ HandlerThrows(c)
      BY <3>1, <3>5 DEF HandlerReplies, HandlerThrows
    <3>6. CASE HandlerSubscribes(c)
      BY <3>1, <3>6 DEF HandlerSubscribes
    <3>7. CASE HandlerHolds(c)
      BY <3>1, <3>7 DEF HandlerHolds
    <3>8. CASE HeldSettles(c)
      BY <3>1, <3>8 DEF HeldSettles
    <3>9. CASE Flush(c)
      BY <3>1, <3>9 DEF Flush
    <3>10. CASE PeerLeaves(c)
      BY <3>1, <3>10 DEF PeerLeaves
    <3>11. CASE FeedDrops(c)
      BY <3>1, <3>11 DEF FeedDrops
    <3> QED
      BY <2>1, <3>2, <3>3, <3>4, <3>5, <3>6, <3>7, <3>8, <3>9, <3>10, <3>11
  <2> QED
    BY <2>2, <2>3 DEF IInv
<1> QED
  BY <1>1, <1>2

-----------------------------------------------------------------------------

\* Every callback keeps the counts, the timers and the types, from any states of
\* the connections.
THEOREM Invariance == Spec => []IInv
<1>1. Init => IInv
  BY InitHolds
<1>2. IInv /\ [Next]_vars => IInv'
  BY StepKeepsInv
<1> QED
  BY <1>1, <1>2, PTL DEF Spec

\* Every variable keeps its type, for any set of connections.
THEOREM TypeCorrect == Spec => []TypeOK
<1>1. IInv => TypeOK
  BY DEF IInv, CoreInv, StepTypeOK, CallbackInv, TypeOK
<1> QED
  BY <1>1, Invariance, PTL

\* However many connections, and whatever order their reply, backstop, throw
\* and close arrive in, none writes two answers.
THEOREM AnsweredOnce == Spec => []OneAnswer
<1>1. IInv => OneAnswer
  BY DEF IInv, CoreInv, AnswersMatchStates, OneAnswer
<1> QED
  BY <1>1, Invariance, PTL

\* The in-flight and timed-out statistics are the true counts, and the backstop
\* timers set are those the states arm.
THEOREM CountsAndTimers == Spec => [](StatsAreExact /\ TimersMatchStates)
<1>1. IInv => StatsAreExact /\ TimersMatchStates
  BY DEF IInv, CoreInv
<1> QED
  BY <1>1, Invariance, PTL

\* No step withdraws a connection's TIMEOUT verdict.
THEOREM TimeoutStands == Spec => TimeoutIsFinal
<1>1. IInv /\ [Next]_vars => [\A c \in Conns : TimedOut(state[c]) => TimedOut(state'[c])]_vars
  BY StepKeepsInv DEF NothingTakenBack
<1> QED
  BY <1>1, Invariance, PTL DEF Spec, TimeoutIsFinal

-----------------------------------------------------------------------------
(* What the daemon keeps for a client (a subscriber, held work, the exit a *)
(* reply carries) is what that client's state says.  A connection's frame  *)
(* and its work leave it few states (Place); the table is read off only in *)
(* those.                                                                  *)

\* The effects that decide it.
Core == {"answer", "exit", "exit-dropped", "abort", "unsubscribe", "attach", "start"}

\* A step that reaches t and has, of those, the effects E.
Moves(did, t, E) == did.next = t /\ \A k \in Core : k \in did.effects <=> k \in E

LEMMA CellMoves ==
    ASSUME NEW s, NEW e, NEW t, NEW E, Cell(s, e) = [next |-> t, effects |-> E]
    PROVE  Moves(Step(s, e), t, E)
<1>1. /\ Step(s, e).next = t
      /\ Step(s, e).effects =
            E \cup (IF BackstopArmed(s) /\ ~BackstopArmed(t)
                      THEN {"clear-backstop"} ELSE {})
              \cup (IF InFlight(s) /\ ~InFlight(t)
                      THEN {"leave-in-flight"} ELSE {})
  BY DEF Step, Does
<1> QED
  BY <1>1 DEF Moves, Core

LEMMA ThenMoves ==
    ASSUME NEW first, NEW t, NEW E, Moves(first, t, E),
           NEW e, NEW u, NEW F, Moves(Step(t, e), u, F)
    PROVE  Moves(Then(first, e), u, E \cup F)
<1>1. /\ Then(first, e).next = Step(t, e).next
      /\ Then(first, e).effects = first.effects \cup Step(t, e).effects
  BY DEF Then, Does, Moves
<1> QED
  BY <1>1 DEF Moves

\* The table, cell by cell, in the states each callback can find.
LEMMA ReadMoves ==
    /\ Moves(Step(Awaiting, Read(TRUE)), Answering, {})
    /\ Moves(Step(Awaiting, Read(FALSE)), Unattended(FALSE), {})
    /\ Moves(Step(Answered("backstop"), Read(TRUE)), Answered("backstop"), {})
    /\ Moves(Step(Answered("backstop"), Read(FALSE)), Unattended(TRUE), {})
<1>1. \A s : \A b \in BOOLEAN : Cell(s, Read(b)) = ReadCell(s, Read(b))
  <2> SUFFICES ASSUME NEW s, NEW b \in BOOLEAN PROVE Cell(s, Read(b)) = ReadCell(s, Read(b))
    OBVIOUS
  <2>1. Read(b).kind = "read"
    BY DEF Read
  <2> QED
    BY <2>1, Zenon DEF Cell
<1>2. /\ ReadCell(Awaiting, Read(TRUE)) = [next |-> Answering, effects |-> {}]
      /\ ReadCell(Awaiting, Read(FALSE)) = [next |-> Unattended(FALSE), effects |-> {}]
      /\ ReadCell(Answered("backstop"), Read(TRUE))
            = [next |-> Answered("backstop"), effects |-> {}]
      /\ ReadCell(Answered("backstop"), Read(FALSE))
            = [next |-> Unattended(TRUE), effects |-> {}]
  BY DEF ReadCell, Read, To, Awaiting, Answered, St
<1> QED
  BY <1>1, <1>2, CellMoves

LEMMA UnreadableMoves ==
    /\ Moves(Step(Awaiting, Ev("unreadable")), Answered("reply"), {"answer"})
    /\ Moves(Step(Answered("backstop"), Ev("unreadable")), Answered("backstop"), {})
<1> DEFINE Row(s) == IF s.kind = "awaiting" THEN Answer("reply") ELSE To(s)
<1>1. \A s : Cell(s, Ev("unreadable")) = Row(s)
  <2>1. Ev("unreadable").kind = "unreadable"
    BY DEF Ev
  <2> QED
    BY <2>1, Zenon DEF Cell
<1>2. /\ Row(Awaiting)
            = [next |-> Answered("reply"), effects |-> {"answer"}]
      /\ Row(Answered("backstop"))
            = [next |-> Answered("backstop"), effects |-> {}]
  BY DEF Awaiting, Answered, St, Answer, Does, To
<1> HIDE DEF Row
<1> QED
  BY <1>1, <1>2, CellMoves

LEMMA DeadlineMoves ==
    /\ \A s \in {Awaiting, Answering} :
         Moves(Step(s, Ev("deadline")), Answered("backstop"), {"answer"})
    /\ Moves(Step(Unattended(FALSE), Ev("deadline")), Unattended(TRUE), {})
<1>1. \A s : Cell(s, Ev("deadline")) = DeadlineCell(s)
  <2>1. Ev("deadline").kind = "deadline"
    BY DEF Ev
  <2> QED
    BY <2>1, Zenon DEF Cell
<1>2. /\ \A s \in {Awaiting, Answering} : DeadlineCell(s)
            = [next |-> Answered("backstop"), effects |-> {"count-timeout", "answer"}]
      /\ DeadlineCell(Unattended(FALSE))
            = [next |-> Unattended(TRUE), effects |-> {"count-timeout"}]
  BY DEF DeadlineCell, Awaiting, Answering, Unattended, Answered, St, Does
<1>3. /\ \A s \in {Awaiting, Answering} :
           Moves(Step(s, Ev("deadline")), Answered("backstop"), {"count-timeout", "answer"})
      /\ Moves(Step(Unattended(FALSE), Ev("deadline")), Unattended(TRUE), {"count-timeout"})
  BY <1>1, <1>2, CellMoves
<1> QED
  BY <1>3 DEF Moves, Core

LEMMA ReplyMoves ==
    ASSUME NEW x \in BOOLEAN
    PROVE  /\ \A s \in {Answering, HeldOpen} :
                Moves(Step(s, Reply(x)), Answered("reply"), {"answer"})
           /\ \A s \in {Answered("backstop"), Closed(TRUE)} :
                Moves(Step(s, Reply(x)), s, IF x THEN {"exit-dropped"} ELSE {})
           /\ Moves(Step(Closed(FALSE), Reply(x)), Closed(FALSE),
                    IF x THEN {"exit"} ELSE {})
           /\ \A b \in BOOLEAN : Moves(Step(Unattended(b), Reply(x)), Unattended(b), {})
<1>1. \A s : Cell(s, Reply(x)) = ReplyCell(s, Reply(x))
  <2>1. Reply(x).kind = "reply"
    BY DEF Reply
  <2> QED
    BY <2>1, Zenon DEF Cell
<1> USE DEF ReplyCell, Reply, Answering, HeldOpen, Closed, Unattended, Answered, St,
            Answer, Does, To
<1>2. \A s \in {Answering, HeldOpen} : ReplyCell(s, Reply(x))
         = [next |-> Answered("reply"), effects |-> {"answer"}]
  OBVIOUS
<1>3. \A s \in {Answered("backstop"), Closed(TRUE)} : ReplyCell(s, Reply(x))
         = [next |-> s, effects |-> IF x THEN {"exit-dropped"} ELSE {}]
  OBVIOUS
<1>4. ReplyCell(Closed(FALSE), Reply(x))
         = [next |-> Closed(FALSE), effects |-> IF x THEN {"exit"} ELSE {}]
  OBVIOUS
<1>5. \A b \in BOOLEAN : ReplyCell(Unattended(b), Reply(x))
         = [next |-> Unattended(b), effects |-> {}]
  OBVIOUS
<1> HIDE DEF ReplyCell, Reply, Answering, HeldOpen, Closed, Unattended, Answered, St,
             Answer, Does, To
<1> QED
  BY <1>1, <1>2, <1>3, <1>4, <1>5, CellMoves

LEMMA ThrewMoves ==
    /\ \A s \in {Answering, HeldOpen} :
         Moves(Step(s, Ev("threw")), Answered("reply"), {"answer"})
    /\ \A s \in {Answered("backstop"), Closed(TRUE), Closed(FALSE),
                 Unattended(TRUE), Unattended(FALSE)} :
         Moves(Step(s, Ev("threw")), s, {})
<1> DEFINE Row(s) == IF s.kind \in {"answering", "held"} THEN Answer("reply") ELSE To(s)
<1>1. \A s : Cell(s, Ev("threw")) = Row(s)
  <2>1. Ev("threw").kind = "threw"
    BY DEF Ev
  <2> QED
    BY <2>1, Zenon DEF Cell
<1>2. /\ \A s \in {Answering, HeldOpen} : Row(s)
            = [next |-> Answered("reply"), effects |-> {"answer"}]
      /\ \A s \in {Answered("backstop"), Closed(TRUE), Closed(FALSE),
                   Unattended(TRUE), Unattended(FALSE)} :
            Row(s) = [next |-> s, effects |-> {}]
  BY DEF Answering, HeldOpen, Closed, Unattended, Answered, St, Answer, Does, To
<1> HIDE DEF Row
<1> QED
  BY <1>1, <1>2, CellMoves

LEMMA SettledMoves ==
    /\ \A s \in {Answered("reply"), Answered("backstop"), Closed(TRUE), Closed(FALSE)} :
         Moves(Step(s, Ev("settled")), s, {})
    /\ \A b \in BOOLEAN : Moves(Step(Unattended(b), Ev("settled")), Closed(b), {})
<1> DEFINE Row(s) == To(IF s.kind = "unattended" THEN Closed(s.lapsed) ELSE s)
<1>1. \A s : Cell(s, Ev("settled")) = Row(s)
  <2>1. Ev("settled").kind = "settled"
    BY DEF Ev
  <2> QED
    BY <2>1, Zenon DEF Cell
<1>2. /\ \A s \in {Answered("reply"), Answered("backstop"), Closed(TRUE), Closed(FALSE)} :
            Row(s) = [next |-> s, effects |-> {}]
      /\ \A b \in BOOLEAN : Row(Unattended(b))
            = [next |-> Closed(b), effects |-> {}]
  BY DEF Closed, Unattended, Answered, St, To
<1> HIDE DEF Row
<1> QED
  BY <1>1, <1>2, CellMoves

LEMMA SubscribeMoves ==
    /\ Moves(Step(Answering, Ev("subscribe")), Answering, {"attach"})
    /\ \A s \in {Answered("backstop"), Closed(TRUE), Closed(FALSE)} :
         Moves(Step(s, Ev("subscribe")), s, {})
    /\ Moves(Step(Answering, Ev("subscribed")), Streaming, {})
<1> DEFINE Row(s) == Does(s, IF s.kind = "answering" THEN {"attach"} ELSE {})
<1> DEFINE Taken(s) == IF s.kind = "answering" THEN To(Streaming) ELSE Does(s, {"unsubscribe"})
<1>1. \A s : Cell(s, Ev("subscribe")) = Row(s)
  <2>1. Ev("subscribe").kind = "subscribe"
    BY DEF Ev
  <2> QED
    BY <2>1, Zenon DEF Cell
<1>2. \A s : Cell(s, Ev("subscribed")) = Taken(s)
  <2>1. Ev("subscribed").kind = "subscribed"
    BY DEF Ev
  <2> QED
    BY <2>1, Zenon DEF Cell
<1>3. /\ Row(Answering) = [next |-> Answering, effects |-> {"attach"}]
      /\ \A s \in {Answered("backstop"), Closed(TRUE), Closed(FALSE)} :
            Row(s) = [next |-> s, effects |-> {}]
      /\ Taken(Answering) = [next |-> Streaming, effects |-> {}]
  BY DEF Answering, Closed, Answered, St, Does, To
<1> HIDE DEF Row, Taken
<1> QED
  BY <1>1, <1>2, <1>3, CellMoves

LEMMA HeldMoves ==
    /\ Moves(Step(Answering, Ev("held")), HeldOpen, {"start"})
    /\ \A s \in {Answered("backstop"), Closed(TRUE), Closed(FALSE)} :
         Moves(Step(s, Ev("held")), s, {})
<1> DEFINE Row(s) == IF s.kind = "answering" THEN Does(HeldOpen, {"start"}) ELSE To(s)
<1>1. \A s : Cell(s, Ev("held")) = Row(s)
  <2>1. Ev("held").kind = "held"
    BY DEF Ev
  <2> QED
    BY <2>1, Zenon DEF Cell
<1>2. /\ Row(Answering) = [next |-> HeldOpen, effects |-> {"start"}]
      /\ \A s \in {Answered("backstop"), Closed(TRUE), Closed(FALSE)} :
            Row(s) = [next |-> s, effects |-> {}]
  BY DEF Answering, Closed, Answered, St, Does, To
<1> HIDE DEF Row
<1> QED
  BY <1>1, <1>2, CellMoves

LEMMA CloseMoves ==
    /\ \A s \in {Awaiting, Answering, Answered("reply")} :
         Moves(Step(s, Ev("close")), Closed(FALSE), {})
    /\ Moves(Step(Answered("backstop"), Ev("close")), Closed(TRUE), {})
    /\ Moves(Step(HeldOpen, Ev("close")), Closed(FALSE), {"abort"})
    /\ Moves(Step(Streaming, Ev("close")), Closed(FALSE), {"unsubscribe"})
    /\ \A s \in {Closed(TRUE), Closed(FALSE), Unattended(TRUE), Unattended(FALSE)} :
         Moves(Step(s, Ev("close")), s, {})
<1>1. \A s : Cell(s, Ev("close")) = CloseCell(s)
  <2>1. Ev("close").kind = "close"
    BY DEF Ev
  <2> QED
    BY <2>1, Zenon DEF Cell
<1> USE DEF CloseCell, Awaiting, Answering, HeldOpen, Streaming, Closed, Unattended,
            Answered, St, Does, To, TimedOut
<1>2. \A s \in {Awaiting, Answering, Answered("reply")} :
         CloseCell(s) = [next |-> Closed(FALSE), effects |-> {}]
  <2> SUFFICES ASSUME NEW s \in {Awaiting, Answering, Answered("reply")}
               PROVE  CloseCell(s) = [next |-> Closed(FALSE), effects |-> {}]
    OBVIOUS
  <2>1. TimedOut(s) = FALSE
    OBVIOUS
  <2>2. s.kind \notin {"unattended", "closed", "streaming", "held"}
    OBVIOUS
  <2>3. CloseCell(s) = To(Closed(TimedOut(s)))
    BY <2>2
  <2> QED
    BY <2>1, <2>3
<1>3. CloseCell(Answered("backstop")) = [next |-> Closed(TRUE), effects |-> {}]
  OBVIOUS
<1>4. /\ CloseCell(HeldOpen) = [next |-> Closed(FALSE), effects |-> {"abort"}]
      /\ CloseCell(Streaming) = [next |-> Closed(FALSE), effects |-> {"unsubscribe"}]
  OBVIOUS
<1>5. \A s \in {Closed(TRUE), Closed(FALSE), Unattended(TRUE), Unattended(FALSE)} :
         CloseCell(s) = [next |-> s, effects |-> {}]
  OBVIOUS
<1> HIDE DEF CloseCell, Awaiting, Answering, HeldOpen, Streaming, Closed, Unattended,
             Answered, St, Does, To, TimedOut
<1> QED
  BY <1>1, <1>2, <1>3, <1>4, <1>5, CellMoves

-----------------------------------------------------------------------------
(* Where a connection can be, by what it was sent and how far that is.     *)

Shut == {Closed(TRUE), Closed(FALSE)}

\* A connection's state while its peer is there; without the peer it is closed.
Here(c, S) == IF c \in peerGone THEN state[c] \in Shut ELSE state[c] \in S

Place(c) ==
    \/ frame[c] = "none" /\ work[c] = "none"
       /\ Here(c, {NotAccepted, Awaiting, Answered("backstop")})
    \/ frame[c] = "garbage" /\ work[c] = "none"
       /\ Here(c, {Answered("reply"), Answered("backstop")})
    \/ frame[c] = "url" /\ work[c] = "handling"
       /\ state[c] \in {Unattended(TRUE), Unattended(FALSE)}
    \/ frame[c] = "url" /\ work[c] = "done" /\ state[c] \in Shut
    \/ frame[c] = "request" /\ work[c] = "handling"
       /\ Here(c, {Answering, Answered("backstop")})
    \/ frame[c] = "request" /\ work[c] = "held"
       /\ (c \in peerGone <=> c \in aborted)
       /\ state[c] = IF c \in peerGone THEN Closed(FALSE) ELSE HeldOpen
    \/ frame[c] = "request" /\ work[c] = "done"
       /\ Here(c, {Streaming, Answered("reply"), Answered("backstop")})

\* What became of its exit, and what its answer's flush still carries.
Wished(c) ==
    /\ wish[c] # "lost"
    /\ wish[c] # "none" => frame[c] = "request" /\ work[c] = "done"
    /\ wish[c] \in {"flushing", "performed"} =>
          state[c] \in {Answered("reply"), Closed(FALSE)}
    /\ wish[c] = "dropped" => state[c] \in {Answered("backstop"), Closed(TRUE)}
    /\ wish[c] = "flushing" <=> flush[c].out /\ flush[c].exit

Kept(c) ==
    /\ Place(c) /\ Wished(c)
    /\ c \in aborted => c \in peerGone

ClientInv == \A c \in Conns : Kept(c)

\* How the states differ.
LEMMA Apart ==
    /\ NotAccepted.kind = "new" /\ Awaiting.kind = "awaiting"
    /\ Answering.kind = "answering" /\ HeldOpen.kind = "held"
    /\ Streaming.kind = "streaming"
    /\ Answered("reply").kind = "answered" /\ Answered("reply").by = "reply"
    /\ Answered("backstop").kind = "answered" /\ Answered("backstop").by = "backstop"
    /\ Closed(TRUE).kind = "closed" /\ Closed(TRUE).lapsed
    /\ Closed(FALSE).kind = "closed" /\ ~Closed(FALSE).lapsed
    /\ Unattended(TRUE).kind = "unattended" /\ Unattended(TRUE).lapsed
    /\ Unattended(FALSE).kind = "unattended" /\ ~Unattended(FALSE).lapsed
BY DEF NotAccepted, Awaiting, Answering, HeldOpen, Streaming, Answered, Closed, Unattended, St

\* The other connections stay as they are.
Others(c) ==
    \A d \in Conns \ {c} :
        /\ state'[d] = state[d] /\ frame'[d] = frame[d] /\ work'[d] = work[d]
        /\ wish'[d] = wish[d] /\ flush'[d] = flush[d]
        /\ d \in peerGone' <=> d \in peerGone
        /\ d \in aborted' <=> d \in aborted

LEMMA OneKept ==
    ASSUME ClientInv, NEW c \in Conns, Others(c), Kept(c)' PROVE ClientInv'
<1> SUFFICES ASSUME NEW d \in Conns PROVE Kept(d)'
  BY DEF ClientInv
<1>1. CASE d = c
  BY <1>1
<1>2. CASE d # c
  <2>1. /\ state'[d] = state[d] /\ frame'[d] = frame[d] /\ work'[d] = work[d]
        /\ wish'[d] = wish[d] /\ flush'[d] = flush[d]
        /\ d \in peerGone' <=> d \in peerGone
        /\ d \in aborted' <=> d \in aborted
        /\ Place(d) /\ Wished(d) /\ (d \in aborted => d \in peerGone)
    BY <1>2 DEF Others, ClientInv, Kept
  <2>2. \A S : Here(d, S) <=> Here(d, S)'
    BY <2>1 DEF Here
  <2>3. Place(d)'
    BY <2>1, <2>2 DEF Place
  <2>4. Wished(d)'
    BY <2>1 DEF Wished
  <2> QED
    BY <2>1, <2>3, <2>4 DEF Kept
<1> QED
  BY <1>1, <1>2

\* What performing a step does to its own connection and to the others.
Performs(c, t, E, exits) ==
    /\ state'[c] = t
    /\ c \in aborted' <=> c \in aborted \/ "abort" \in E
    /\ "answer" \in E => flush'[c].out /\ flush'[c].exit = exits
    /\ "answer" \notin E => flush'[c] = flush[c]
    /\ "exit" \in E => wish'[c] = "performed"
    /\ "exit" \notin E /\ "exit-dropped" \in E => wish'[c] = "dropped"
    /\ "exit" \notin E /\ "exit-dropped" \notin E =>
          wish'[c] = IF ~exits THEN wish[c]
                     ELSE IF "answer" \in E THEN "flushing" ELSE "lost"
    /\ \A d \in Conns \ {c} :
          /\ state'[d] = state[d] /\ flush'[d] = flush[d] /\ wish'[d] = wish[d]
          /\ d \in aborted' <=> d \in aborted

\* Of the effects that settle an exit, a step of the table has one at most.
OneVerdict(E) == \A j, k \in {"answer", "exit", "exit-dropped"} : j \in E /\ k \in E => j = k

LEMMA Performed ==
    ASSUME IInv, NEW c \in Conns, NEW did, NEW t, NEW E, Moves(did, t, E), OneVerdict(E),
           NEW exits \in BOOLEAN, NEW holds \in BOOLEAN, Perform(c, did, exits, holds)
    PROVE  Performs(c, t, E, exits)
<1>1. DOMAIN state = Conns /\ DOMAIN wish = Conns /\ DOMAIN flush = Conns
  BY DEF IInv, CoreInv, StepTypeOK
<1>2. did.next = t /\ \A k \in Core : k \in did.effects <=> k \in E
  BY DEF Moves
<1>3. /\ state'[c] = t /\ \A d \in Conns \ {c} : state'[d] = state[d]
      /\ c \in aborted' <=> c \in aborted \/ "abort" \in E
      /\ \A d \in Conns \ {c} : d \in aborted' <=> d \in aborted
  BY <1>1, <1>2 DEF Perform, Core
<1>4. /\ "answer" \in E => flush'[c].out /\ flush'[c].exit = exits
      /\ "answer" \notin E => flush'[c] = flush[c]
      /\ \A d \in Conns \ {c} : flush'[d] = flush[d]
  <2> DEFINE f == [out |-> TRUE, exit |-> exits, holds |-> holds]
  <2>1. f.out /\ f.exit = exits
    OBVIOUS
  <2>2. CASE "answer" \in E
    <3>1. flush' = [flush EXCEPT ![c] = f]
      BY <1>2, <2>2 DEF Perform, Core
    <3> HIDE DEF f
    <3> QED
      BY <1>1, <2>1, <2>2, <3>1
  <2>3. CASE "answer" \notin E
    BY <1>2, <2>3 DEF Perform, Core
  <2> QED
    BY <2>2, <2>3
<1>5. /\ "exit" \in E => wish'[c] = "performed"
      /\ "exit" \notin E /\ "exit-dropped" \in E => wish'[c] = "dropped"
      /\ "exit" \notin E /\ "exit-dropped" \notin E =>
            wish'[c] = IF ~exits THEN wish[c]
                       ELSE IF "answer" \in E THEN "flushing" ELSE "lost"
      /\ \A d \in Conns \ {c} : wish'[d] = wish[d]
  <2> DEFINE w == CASE "exit" \in did.effects -> "performed"
                    [] "exit-dropped" \in did.effects -> "dropped"
                    [] exits /\ "answer" \in did.effects -> "flushing"
                    [] exits /\ did.effects \cap {"answer", "exit", "exit-dropped"} = {} -> "lost"
                    [] OTHER -> wish[c]
  <2>1. /\ "exit" \in E => w = "performed"
        /\ "exit" \notin E /\ "exit-dropped" \in E => w = "dropped"
        /\ "exit" \notin E /\ "exit-dropped" \notin E =>
              w = IF ~exits THEN wish[c]
                  ELSE IF "answer" \in E THEN "flushing" ELSE "lost"
    <3>1. /\ "exit" \in did.effects <=> "exit" \in E
          /\ "exit-dropped" \in did.effects <=> "exit-dropped" \in E
          /\ "answer" \in did.effects <=> "answer" \in E
      BY <1>2 DEF Core
    <3>2. did.effects \cap {"answer", "exit", "exit-dropped"} = {}
             <=> "answer" \notin E /\ "exit" \notin E /\ "exit-dropped" \notin E
      BY <3>1
    <3>3. CASE "exit" \in E
      BY <3>1, <3>2, <3>3 DEF OneVerdict
    <3>4. CASE "exit" \notin E /\ "exit-dropped" \in E
      BY <3>1, <3>2, <3>4 DEF OneVerdict
    <3>5. CASE /\ "exit" \notin E /\ "exit-dropped" \notin E
               /\ exits /\ "answer" \in E
      BY <3>1, <3>2, <3>5 DEF OneVerdict
    <3>6. CASE /\ "exit" \notin E /\ "exit-dropped" \notin E
               /\ exits /\ "answer" \notin E
      BY <3>1, <3>2, <3>6
    <3>7. CASE "exit" \notin E /\ "exit-dropped" \notin E /\ ~exits
      BY <3>1, <3>7
    <3> QED
      BY <3>3, <3>4, <3>5, <3>6, <3>7
  <2>2. wish' = [wish EXCEPT ![c] = w]
    BY DEF Perform
  <2> HIDE DEF w
  <2> QED
    BY <1>1, <2>1, <2>2
<1> QED
  BY <1>3, <1>4, <1>5 DEF Performs

-----------------------------------------------------------------------------
(* Every action keeps it, for its own connection and so for all.           *)

\* The functions an action changes at its own connection alone.
Frames == frame \in [Conns -> {"none", "request", "url", "garbage"}]
Works == work \in [Conns -> {"none", "handling", "held", "done"}]

LEMMA Typed == ASSUME IInv PROVE Frames /\ Works /\ \A c \in Conns : state[c] \in States
BY DEF IInv, CoreInv, CallbackInv, StepTypeOK, Frames, Works

LEMMA AcceptKeeps ==
    ASSUME IInv, ClientInv, NEW c \in Conns, Accept(c) PROVE ClientInv'
<1>1. /\ state' = [state EXCEPT ![c] = Awaiting] /\ state[c] = NotAccepted
      /\ UNCHANGED <<work, frame, flush, peerGone, aborted, wish>>
      /\ DOMAIN state = Conns
  BY DEF Accept, Accepted, IInv, CoreInv, StepTypeOK
<1>2. Place(c) /\ Wished(c) /\ (c \in aborted => c \in peerGone)
  BY DEF ClientInv, Kept
<1>3. frame[c] = "none" /\ work[c] = "none" /\ c \notin peerGone
  BY <1>1, <1>2, Apart DEF Place, Here, Shut
<1>4. Others(c)
  BY <1>1 DEF Others
<1>5. Place(c)' /\ Wished(c)'
  BY <1>1, <1>2, <1>3 DEF Place, Here, Wished
<1>6. Kept(c)'
  BY <1>1, <1>2, <1>5, Apart DEF Kept
<1> QED
  BY <1>4, <1>6, OneKept

LEMMA ReadFrameKeeps ==
    ASSUME IInv, ClientInv, NEW c \in Conns, ReadFrame(c) PROVE ClientInv'
<1>1. PICK sent \in {"request", "url"} :
        /\ frame' = [frame EXCEPT ![c] = sent]
        /\ work' = [work EXCEPT ![c] = "handling"]
        /\ Perform(c, Step(state[c], Read(sent = "request")), FALSE, FALSE)
  BY DEF ReadFrame
<1>2. /\ state[c] # NotAccepted /\ c \notin peerGone /\ frame[c] = "none"
      /\ UNCHANGED <<peerGone>> /\ Frames /\ Works
  BY Typed DEF ReadFrame, Accepted
<1>3. Place(c) /\ Wished(c) /\ (c \in aborted => c \in peerGone)
  BY DEF ClientInv, Kept
<1>4. state[c] \in {Awaiting, Answered("backstop")} /\ wish[c] = "none"
  BY <1>2, <1>3 DEF Place, Here, Wished
<1>5. OneVerdict({})
  BY DEF OneVerdict
<1>6. /\ Performs(c, state'[c], {}, FALSE)
      /\ \/ sent = "request" /\ state'[c] \in {Answering, Answered("backstop")}
         \/ sent = "url" /\ state'[c] \in {Unattended(TRUE), Unattended(FALSE)}
  <2>1. CASE sent = "request"
    <3>1. PICK t \in {Answering, Answered("backstop")} :
            Moves(Step(state[c], Read(sent = "request")), t, {})
      BY <1>4, <2>1, ReadMoves
    <3>2. Performs(c, t, {}, FALSE)
      BY <1>1, <1>5, <3>1, Performed
    <3> QED
      BY <2>1, <3>2 DEF Performs
  <2>2. CASE sent = "url"
    <3>1. PICK t \in {Unattended(TRUE), Unattended(FALSE)} :
            Moves(Step(state[c], Read(sent = "request")), t, {})
      BY <1>4, <2>2, ReadMoves
    <3>2. Performs(c, t, {}, FALSE)
      BY <1>1, <1>5, <3>1, Performed
    <3> QED
      BY <2>2, <3>2 DEF Performs
  <2> QED
    BY <2>1, <2>2
<1>7. frame'[c] = sent /\ work'[c] = "handling"
      /\ \A d \in Conns \ {c} : frame'[d] = frame[d] /\ work'[d] = work[d]
  BY <1>1, <1>2 DEF Frames, Works
<1>8. Others(c)
  BY <1>2, <1>6, <1>7 DEF Others, Performs
<1>9. Kept(c)'
  <2>1. Place(c)'
    BY <1>2, <1>6, <1>7 DEF Place, Here
  <2>2. Wished(c)'
    BY <1>3, <1>4, <1>6 DEF Wished, Performs
  <2> QED
    BY <1>2, <1>3, <1>6, <2>1, <2>2 DEF Kept, Performs
<1> QED
  BY <1>8, <1>9, OneKept

LEMMA ReadGarbageKeeps ==
    ASSUME IInv, ClientInv, NEW c \in Conns, ReadGarbage(c) PROVE ClientInv'
<1>1. /\ frame' = [frame EXCEPT ![c] = "garbage"]
      /\ Perform(c, Step(state[c], Ev("unreadable")), FALSE, FALSE)
      /\ state[c] # NotAccepted /\ c \notin peerGone /\ frame[c] = "none"
      /\ UNCHANGED <<work, peerGone>> /\ Frames
  BY Typed DEF ReadGarbage, Accepted
<1>2. Place(c) /\ Wished(c) /\ (c \in aborted => c \in peerGone)
  BY DEF ClientInv, Kept
<1>3. state[c] \in {Awaiting, Answered("backstop")} /\ wish[c] = "none" /\ work[c] = "none"
  BY <1>1, <1>2 DEF Place, Here, Wished
<1>4. PICK t \in {Answered("reply"), Answered("backstop")}, E \in {{}, {"answer"}} :
        Moves(Step(state[c], Ev("unreadable")), t, E)
  BY <1>3, UnreadableMoves
<1>5. OneVerdict(E) /\ "abort" \notin E /\ "exit" \notin E /\ "exit-dropped" \notin E
  BY DEF OneVerdict
<1>6. Performs(c, t, E, FALSE)
  BY <1>1, <1>4, <1>5, Performed
<1>7. frame'[c] = "garbage" /\ \A d \in Conns \ {c} : frame'[d] = frame[d]
  BY <1>1 DEF Frames
<1>8. Others(c)
  BY <1>1, <1>6, <1>7 DEF Others, Performs
<1>9. Kept(c)'
  <2>1. Place(c)'
    BY <1>1, <1>3, <1>6, <1>7 DEF Place, Here, Performs
  <2>2. Wished(c)'
    BY <1>2, <1>3, <1>5, <1>6 DEF Wished, Performs
  <2> QED
    BY <1>1, <1>2, <1>5, <1>6, <2>1, <2>2 DEF Kept, Performs
<1> QED
  BY <1>8, <1>9, OneKept

LEMMA BackstopKeeps ==
    ASSUME IInv, ClientInv, NEW c \in Conns, Backstop(c) PROVE ClientInv'
<1> DEFINE plain == Step(state[c], Ev("deadline"))
           did == Does(plain.next, plain.effects \cup {"clear-backstop"})
<1>1. /\ Perform(c, did, FALSE, FALSE) /\ Accepted(c) /\ BackstopArmed(state[c])
      /\ UNCHANGED <<work, frame, peerGone>>
  BY DEF Backstop, IInv, CoreInv, TimersMatchStates
<1>2. Place(c) /\ Wished(c) /\ (c \in aborted => c \in peerGone)
  BY DEF ClientInv, Kept
<1>3. \/ /\ state[c] = Awaiting /\ frame[c] = "none" /\ work[c] = "none"
         /\ c \notin peerGone
      \/ /\ state[c] = Answering /\ frame[c] = "request" /\ work[c] = "handling"
         /\ c \notin peerGone
      \/ state[c] = Unattended(FALSE) /\ frame[c] = "url" /\ work[c] = "handling"
  BY <1>1, <1>2, Apart DEF Place, Here, Shut, BackstopArmed
<1>4. wish[c] = "none"
  BY <1>2, <1>3, Apart DEF Wished
<1>5. PICK t \in {Answered("backstop"), Unattended(TRUE)}, E \in {{}, {"answer"}} :
        /\ Moves(plain, t, E)
        /\ t = IF state[c] = Unattended(FALSE) THEN Unattended(TRUE)
               ELSE Answered("backstop")
  BY <1>3, DeadlineMoves, Apart
<1>6. Moves(did, t, E)
  BY <1>5 DEF Moves, Core, Does
<1> HIDE DEF did
<1>7. OneVerdict(E) /\ "abort" \notin E /\ "exit" \notin E /\ "exit-dropped" \notin E
  BY DEF OneVerdict
<1>8. Performs(c, t, E, FALSE)
  BY <1>1, <1>6, <1>7, Performed
<1>9. Others(c)
  BY <1>1, <1>8 DEF Others, Performs
<1>10. Kept(c)'
  <2>1. Place(c)'
    <3>1. /\ frame'[c] = frame[c] /\ work'[c] = work[c] /\ peerGone' = peerGone
          /\ state'[c] = t
      BY <1>1, <1>8 DEF Performs
    <3>2. CASE state[c] = Unattended(FALSE)
      <4>1. frame[c] = "url" /\ work[c] = "handling" /\ t = Unattended(TRUE)
        BY <1>3, <1>5, <3>2, Apart
      <4> QED
        BY <3>1, <4>1 DEF Place
    <3>3. CASE state[c] # Unattended(FALSE)
      BY <1>3, <1>5, <3>1, <3>3 DEF Place, Here
    <3> QED
      BY <3>2, <3>3
  <2>2. Wished(c)'
    BY <1>2, <1>4, <1>7, <1>8 DEF Wished, Performs
  <2> QED
    BY <1>1, <1>2, <1>7, <1>8, <2>1, <2>2 DEF Kept, Performs
<1> QED
  BY <1>9, <1>10, OneKept

\* A handler that has not settled yet: what it was sent, and the states its
\* connection can be in.
LEMMA AtWork ==
    ASSUME ClientInv, NEW c \in Conns, work[c] = "handling"
    PROVE  /\ wish[c] = "none" /\ (wish[c] = "flushing" <=> flush[c].out /\ flush[c].exit)
           /\ \/ frame[c] = "url" /\ state[c] \in {Unattended(TRUE), Unattended(FALSE)}
              \/ /\ frame[c] = "request"
                 /\ Here(c, {Answering, Answered("backstop")})
           /\ c \in aborted => c \in peerGone
<1>1. Place(c) /\ Wished(c) /\ (c \in aborted => c \in peerGone)
  BY DEF ClientInv, Kept
<1>2. \/ frame[c] = "url" /\ state[c] \in {Unattended(TRUE), Unattended(FALSE)}
      \/ frame[c] = "request" /\ Here(c, {Answering, Answered("backstop")})
  BY <1>1 DEF Place
<1>3. wish[c] = "none" /\ (wish[c] = "flushing" <=> flush[c].out /\ flush[c].exit)
  BY <1>1 DEF Wished
<1> QED
  BY <1>1, <1>2, <1>3

\* A settled request: the connection's place, whatever its step made of it.
LEMMA SettledKeeps ==
    ASSUME ClientInv, NEW c \in Conns, work[c] = "handling", Frames, Works,
           UNCHANGED <<frame, peerGone>>, work' = [work EXCEPT ![c] = "done"],
           NEW t, NEW E, NEW exits \in BOOLEAN, Performs(c, t, E, exits),
           "abort" \notin E, OneVerdict(E), exits => frame[c] = "request",
           frame[c] = "url" => t \in Shut,
           frame[c] = "request" =>
               Here(c, {Answering, Answered("backstop")})
               /\ IF c \in peerGone THEN t \in Shut
                  ELSE t \in {Streaming, Answered("reply"), Answered("backstop")},
           exits => E # {} /\ E \in {{"answer"}, {"exit"}, {"exit-dropped"}},
           ~exits => "exit" \notin E /\ "exit-dropped" \notin E,
           exits /\ E \in {{"answer"}, {"exit"}} => t \in {Answered("reply"), Closed(FALSE)},
           E = {"exit-dropped"} => t \in {Answered("backstop"), Closed(TRUE)}
    PROVE  ClientInv'
<1>1. work'[c] = "done" /\ \A d \in Conns \ {c} : work'[d] = work[d]
  BY DEF Works
<1>2. Others(c)
  BY <1>1 DEF Others, Performs
<1>3. Place(c)'
  BY <1>1, AtWork DEF Place, Here, Performs
<1>4. Wished(c)'
  <2>1. wish[c] = "none" /\ ~(flush[c].out /\ flush[c].exit)
        /\ state'[c] = t
    BY AtWork DEF Performs
  <2>2. CASE ~exits
    BY <1>1, <2>1, <2>2 DEF Wished, Performs
  <2>3. CASE exits /\ E = {"answer"}
    <3>1. wish'[c] = "flushing" /\ flush'[c].out /\ flush'[c].exit
      BY <2>3 DEF Performs
    <3> QED
      BY <1>1, <2>1, <2>3, <3>1 DEF Wished
  <2>4. CASE exits /\ E = {"exit"}
    <3>1. wish'[c] = "performed" /\ flush'[c] = flush[c]
      BY <2>4 DEF Performs
    <3> QED
      BY <1>1, <2>1, <2>4, <3>1 DEF Wished
  <2>5. CASE exits /\ E = {"exit-dropped"}
    <3>1. wish'[c] = "dropped" /\ flush'[c] = flush[c]
      BY <2>5 DEF Performs
    <3> QED
      BY <1>1, <2>1, <2>5, <3>1 DEF Wished
  <2> QED
    BY <2>2, <2>3, <2>4, <2>5
<1>5. Kept(c)'
  <2>1. (c \in aborted)' => (c \in peerGone)'
    BY AtWork DEF Performs
  <2> QED
    BY <1>3, <1>4, <2>1 DEF Kept
<1> QED
  BY <1>2, <1>5, OneKept

LEMMA HandlerRepliesKeeps ==
    ASSUME IInv, ClientInv, NEW c \in Conns, HandlerReplies(c) PROVE ClientInv'
<1>1. PICK exits \in BOOLEAN, holds \in BOOLEAN :
        /\ exits => frame[c] = "request"
        /\ Perform(c, Then(Step(state[c], Reply(exits)), Ev("settled")), exits, holds)
  BY DEF HandlerReplies
<1>2. /\ work[c] = "handling" /\ work' = [work EXCEPT ![c] = "done"]
      /\ UNCHANGED <<frame, peerGone>> /\ Frames /\ Works
  BY Typed DEF HandlerReplies
<1> DEFINE did == Then(Step(state[c], Reply(exits)), Ev("settled"))
           dropped == IF exits THEN {"exit-dropped"} ELSE {}
           exit == IF exits THEN {"exit"} ELSE {}
<1>3. \/ frame[c] = "url" /\ state[c] \in {Unattended(TRUE), Unattended(FALSE)}
      \/ frame[c] = "request" /\ Here(c, {Answering, Answered("backstop")})
  BY <1>2, AtWork
<1>4. /\ state[c] = Answering => Moves(did, Answered("reply"), {"answer"} \cup {})
      /\ \A s \in {Answered("backstop"), Closed(TRUE)} :
            state[c] = s => Moves(did, s, dropped \cup {})
      /\ state[c] = Closed(FALSE) => Moves(did, Closed(FALSE), exit \cup {})
      /\ \A b \in BOOLEAN : state[c] = Unattended(b) => Moves(did, Closed(b), {} \cup {})
  <2>2. ASSUME NEW s \in {Answered("backstop"), Closed(TRUE)}, state[c] = s
        PROVE  Moves(did, s, dropped \cup {})
    <3>1. Moves(Step(s, Reply(exits)), s, dropped) /\ Moves(Step(s, Ev("settled")), s, {})
      BY ReplyMoves, SettledMoves
    <3> QED
      BY <2>2, <3>1, ThenMoves
  <2>3. ASSUME state[c] = Closed(FALSE) PROVE Moves(did, Closed(FALSE), exit \cup {})
    <3>1. /\ Moves(Step(Closed(FALSE), Reply(exits)), Closed(FALSE), exit)
          /\ Moves(Step(Closed(FALSE), Ev("settled")), Closed(FALSE), {})
      BY ReplyMoves, SettledMoves
    <3> QED
      BY <2>3, <3>1, ThenMoves
  <2>4. ASSUME NEW b \in BOOLEAN, state[c] = Unattended(b)
        PROVE  Moves(did, Closed(b), {} \cup {})
    <3>1. /\ Moves(Step(Unattended(b), Reply(exits)), Unattended(b), {})
          /\ Moves(Step(Unattended(b), Ev("settled")), Closed(b), {})
      BY ReplyMoves, SettledMoves
    <3> QED
      BY <2>4, <3>1, ThenMoves
  <2>5. ASSUME state[c] = Answering PROVE Moves(did, Answered("reply"), {"answer"} \cup {})
    <3>1. /\ Moves(Step(Answering, Reply(exits)), Answered("reply"), {"answer"})
          /\ Moves(Step(Answered("reply"), Ev("settled")), Answered("reply"), {})
      BY ReplyMoves, SettledMoves
    <3> QED
      BY <2>5, <3>1, ThenMoves
  <2> HIDE DEF did, dropped, exit
  <2> QED
    BY <2>2, <2>3, <2>4, <2>5
<1>5. PICK t \in {Answered("reply"), Answered("backstop")} \cup Shut,
           E \in SUBSET {"answer", "exit", "exit-dropped"} :
        /\ Moves(did, t, E)
        /\ frame[c] = "url" => t \in Shut /\ E = {}
        /\ frame[c] = "request" =>
              /\ IF c \in peerGone THEN t \in Shut
                 ELSE t \in {Answered("reply"), Answered("backstop")}
              /\ \/ E = {"answer"} /\ t = Answered("reply")
                 \/ E = dropped /\ t \in {Answered("backstop"), Closed(TRUE)}
                 \/ E = exit /\ t = Closed(FALSE)
  <2>1. /\ {"answer"} \cup {} = {"answer"} /\ dropped \cup {} = dropped
        /\ exit \cup {} = exit /\ {} \cup {} = {}
        /\ \A E \in {{}, {"answer"}, dropped, exit} : E \subseteq {"answer", "exit", "exit-dropped"}
    OBVIOUS
  <2> HIDE DEF did, dropped, exit
  <2>3. CASE frame[c] = "url"
    <3>1. PICK b \in BOOLEAN : state[c] = Unattended(b)
      BY <1>3, <2>3
    <3>2. Moves(did, Closed(b), {}) /\ Closed(b) \in Shut
      BY <1>4, <2>1, <3>1 DEF Shut
    <3> QED
      BY <2>1, <2>3, <3>2 DEF Shut
  <2>4. CASE frame[c] = "request"
    <3>1. CASE c \in peerGone
      <4>1. state[c] = Closed(TRUE) \/ state[c] = Closed(FALSE)
        BY <1>3, <2>4, <3>1 DEF Here, Shut
      <4>2. CASE state[c] = Closed(TRUE)
        BY <1>4, <2>1, <2>4, <3>1, <4>2 DEF Shut
      <4>3. CASE state[c] = Closed(FALSE)
        BY <1>4, <2>1, <2>4, <3>1, <4>3 DEF Shut
      <4> QED
        BY <4>1, <4>2, <4>3
    <3>2. CASE c \notin peerGone
      <4>1. state[c] = Answering \/ state[c] = Answered("backstop")
        BY <1>3, <2>4, <3>2 DEF Here
      <4>2. CASE state[c] = Answering
        BY <1>4, <2>1, <2>4, <3>2, <4>2
      <4>3. CASE state[c] = Answered("backstop")
        BY <1>4, <2>1, <2>4, <3>2, <4>3
      <4> QED
        BY <4>1, <4>2, <4>3
    <3> QED
      BY <3>1, <3>2
  <2> QED
    BY <1>3, <2>3, <2>4
<1> HIDE DEF did
<1>6. /\ OneVerdict(E) /\ "abort" \notin E
      /\ exits => E \in {{"answer"}, {"exit"}, {"exit-dropped"}}
      /\ ~exits => "exit" \notin E /\ "exit-dropped" \notin E
      /\ exits /\ E \in {{"answer"}, {"exit"}} => t \in {Answered("reply"), Closed(FALSE)}
      /\ E = {"exit-dropped"} => t \in {Answered("backstop"), Closed(TRUE)}
  BY <1>1, <1>3, <1>5 DEF OneVerdict
<1>7. E = {"exit-dropped"} => t \in {Answered("backstop"), Closed(TRUE)}
  BY <1>6
<1>8. Performs(c, t, E, exits)
  BY <1>1, <1>5, <1>6, Performed DEF did
<1> HIDE DEF dropped, exit
<1>9. frame[c] = "request" =>
        /\ Here(c, {Answering, Answered("backstop")})
        /\ IF c \in peerGone THEN t \in Shut
           ELSE t \in {Streaming, Answered("reply"), Answered("backstop")}
  BY <1>3, <1>5
<1>10. frame[c] = "url" => t \in Shut
  BY <1>5
<1>11. exits => E # {} /\ E \in {{"answer"}, {"exit"}, {"exit-dropped"}}
  BY <1>6
<1> QED
  <2>1. exits /\ E \in {{"answer"}, {"exit"}} => t \in {Answered("reply"), Closed(FALSE)}
    BY <1>6
  <2>2. OneVerdict(E) /\ "abort" \notin E /\ (~exits => "exit" \notin E /\ "exit-dropped" \notin E)
    BY <1>6
  <2> QED
    BY <1>1, <1>2, <1>7, <1>8, <1>9, <1>10, <1>11, <2>1, <2>2, SettledKeeps

LEMMA HandlerThrowsKeeps ==
    ASSUME IInv, ClientInv, NEW c \in Conns, HandlerThrows(c) PROVE ClientInv'
<1> DEFINE did == Then(Step(state[c], Ev("threw")), Ev("settled"))
<1>1. /\ Perform(c, did, FALSE, FALSE)
      /\ work[c] = "handling" /\ work' = [work EXCEPT ![c] = "done"]
      /\ UNCHANGED <<frame, peerGone>> /\ Frames /\ Works
  BY Typed DEF HandlerThrows
<1>2. \/ frame[c] = "url" /\ state[c] \in {Unattended(TRUE), Unattended(FALSE)}
      \/ frame[c] = "request" /\ Here(c, {Answering, Answered("backstop")})
  BY <1>1, AtWork
<1>3. ASSUME state[c] = Answering PROVE Moves(did, Answered("reply"), {"answer"} \cup {})
  <2>1. /\ Moves(Step(Answering, Ev("threw")), Answered("reply"), {"answer"})
        /\ Moves(Step(Answered("reply"), Ev("settled")), Answered("reply"), {})
    BY ThrewMoves, SettledMoves
  <2> QED
    BY <1>3, <2>1, ThenMoves
<1>4. ASSUME NEW s \in {Answered("backstop"), Closed(TRUE), Closed(FALSE)}, state[c] = s
      PROVE  Moves(did, s, {} \cup {})
  <2>1. Moves(Step(s, Ev("threw")), s, {}) /\ Moves(Step(s, Ev("settled")), s, {})
    BY ThrewMoves, SettledMoves
  <2> QED
    BY <1>4, <2>1, ThenMoves
<1>5. ASSUME NEW b \in BOOLEAN, state[c] = Unattended(b) PROVE Moves(did, Closed(b), {} \cup {})
  <2>1. /\ Moves(Step(Unattended(b), Ev("threw")), Unattended(b), {})
        /\ Moves(Step(Unattended(b), Ev("settled")), Closed(b), {})
    BY ThrewMoves, SettledMoves
  <2> QED
    BY <1>5, <2>1, ThenMoves
<1> HIDE DEF did
<1>6. PICK t \in {Answered("reply"), Answered("backstop")} \cup Shut, E \in {{}, {"answer"}} :
        /\ Moves(did, t, E)
        /\ frame[c] = "url" => t \in Shut
        /\ frame[c] = "request" =>
              IF c \in peerGone THEN t \in Shut ELSE t \in {Answered("reply"), Answered("backstop")}
  <2>1. {"answer"} \cup {} = {"answer"} /\ {} \cup {} = {}
    OBVIOUS
  <2>2. CASE frame[c] = "url"
    <3>1. PICK b \in BOOLEAN : state[c] = Unattended(b)
      BY <1>2, <2>2
    <3>2. Moves(did, Closed(b), {}) /\ Closed(b) \in Shut
      BY <1>5, <2>1, <3>1 DEF Shut
    <3> QED
      BY <2>2, <3>2
  <2>3. CASE frame[c] = "request" /\ c \in peerGone
    <3>1. state[c] \in Shut
      BY <1>2, <2>3 DEF Here
    <3>2. Moves(did, state[c], {})
      BY <1>4, <2>1, <3>1 DEF Shut
    <3> QED
      BY <2>3, <3>1, <3>2
  <2>4. CASE frame[c] = "request" /\ c \notin peerGone
    <3>1. state[c] = Answering \/ state[c] = Answered("backstop")
      BY <1>2, <2>4 DEF Here
    <3>2. CASE state[c] = Answering
      BY <1>3, <2>1, <2>4, <3>2
    <3>3. CASE state[c] = Answered("backstop")
      BY <1>4, <2>1, <2>4, <3>3
    <3> QED
      BY <3>1, <3>2, <3>3
  <2> QED
    BY <1>2, <2>2, <2>3, <2>4
<1>7. /\ OneVerdict(E) /\ "abort" \notin E /\ "exit" \notin E /\ "exit-dropped" \notin E
      /\ E # {"exit-dropped"}
  BY DEF OneVerdict
<1>8. Performs(c, t, E, FALSE)
  BY <1>1, <1>6, <1>7, Performed
<1>10. frame[c] = "request" =>
        /\ Here(c, {Answering, Answered("backstop")})
        /\ IF c \in peerGone THEN t \in Shut
           ELSE t \in {Streaming, Answered("reply"), Answered("backstop")}
  BY <1>2, <1>6
<1> QED
  BY <1>1, <1>6, <1>7, <1>8, <1>10, SettledKeeps

LEMMA HandlerSubscribesKeeps ==
    ASSUME IInv, ClientInv, NEW c \in Conns, HandlerSubscribes(c) PROVE ClientInv'
<1> DEFINE asked == Step(state[c], Ev("subscribe"))
<1>1. /\ work[c] = "handling" /\ frame[c] = "request"
      /\ work' = [work EXCEPT ![c] = "done"]
      /\ UNCHANGED <<frame, peerGone>> /\ Frames /\ Works
      /\ IF "attach" \in asked.effects
           THEN \/ Perform(c, Then(asked, Ev("subscribed")), FALSE, FALSE)
                \/ Perform(c, Then(asked, Ev("threw")), FALSE, FALSE)
           ELSE Perform(c, asked, FALSE, FALSE)
  BY Typed DEF HandlerSubscribes
<1>2. Here(c, {Answering, Answered("backstop")})
  BY <1>1, AtWork
<1> HIDE DEF asked
<1>3. CASE state[c] = Answering
  <2>1. Moves(asked, Answering, {"attach"})
    BY <1>3, SubscribeMoves DEF asked
  <2>2. /\ Moves(Then(asked, Ev("subscribed")), Streaming, {"attach"} \cup {})
        /\ Moves(Then(asked, Ev("threw")), Answered("reply"), {"attach"} \cup {"answer"})
    <3>1. /\ Moves(Step(Answering, Ev("subscribed")), Streaming, {})
          /\ Moves(Step(Answering, Ev("threw")), Answered("reply"), {"answer"})
      BY SubscribeMoves, ThrewMoves
    <3> QED
      BY <2>1, <3>1, ThenMoves
  <2>3. PICK t \in {Streaming, Answered("reply")},
             E \in {{"attach"} \cup {}, {"attach"} \cup {"answer"}},
             did \in {Then(asked, Ev("subscribed")), Then(asked, Ev("threw"))} :
          Moves(did, t, E) /\ Perform(c, did, FALSE, FALSE)
    <3>1. "attach" \in asked.effects
      BY <2>1 DEF Moves, Core
    <3> QED
      BY <1>1, <2>2, <3>1
  <2>4. /\ OneVerdict(E) /\ "abort" \notin E /\ "exit" \notin E /\ "exit-dropped" \notin E
        /\ E # {"exit-dropped"}
    BY <2>3 DEF OneVerdict
  <2>5. Performs(c, t, E, FALSE)
    BY <2>3, <2>4, Performed
  <2>6. c \notin peerGone
    BY <1>2, <1>3, Apart DEF Here, Shut
  <2>7. /\ frame[c] # "url"
        /\ IF c \in peerGone THEN t \in Shut
           ELSE t \in {Streaming, Answered("reply"), Answered("backstop")}
    BY <1>1, <2>3, <2>6
  <2> QED
    BY <1>1, <1>2, <2>3, <2>4, <2>5, <2>7, SettledKeeps
<1>4. CASE state[c] # Answering
  <2>1. state[c] \in {Answered("backstop"), Closed(TRUE), Closed(FALSE)}
    BY <1>2, <1>4 DEF Here, Shut
  <2>2. Moves(asked, state[c], {})
    BY <2>1, SubscribeMoves DEF asked
  <2>3. Perform(c, asked, FALSE, FALSE)
    BY <1>1, <2>2 DEF Moves, Core
  <2>4. OneVerdict({})
    BY DEF OneVerdict
  <2>5. Performs(c, state[c], {}, FALSE)
    BY <2>2, <2>3, <2>4, Performed
  <2>6. /\ frame[c] # "url" /\ state[c] # Streaming
        /\ IF c \in peerGone THEN state[c] \in Shut
           ELSE state[c] \in {Streaming, Answered("reply"), Answered("backstop")}
    BY <1>1, <1>2, <1>4, <2>1, Apart DEF Here
    <2> QED
    BY <1>1, <1>2, <2>4, <2>5, <2>6, SettledKeeps
<1> QED
  BY <1>3, <1>4

LEMMA HandlerHoldsKeeps ==
    ASSUME IInv, ClientInv, NEW c \in Conns, HandlerHolds(c) PROVE ClientInv'
<1> DEFINE did == Step(state[c], Ev("held"))
<1>1. /\ work[c] = "handling" /\ frame[c] = "request" /\ Perform(c, did, FALSE, FALSE)
      /\ work' = [work EXCEPT ![c] = IF "start" \in did.effects THEN "held" ELSE "done"]
      /\ UNCHANGED <<frame, peerGone>> /\ Frames /\ Works
  BY Typed DEF HandlerHolds
<1>2. /\ Here(c, {Answering, Answered("backstop")}) /\ wish[c] = "none"
      /\ ~(flush[c].out /\ flush[c].exit) /\ (c \in aborted => c \in peerGone)
  BY <1>1, AtWork
<1> HIDE DEF did
<1>3. CASE state[c] = Answering
  <2>1. Moves(did, HeldOpen, {"start"})
    BY <1>3, HeldMoves DEF did
  <2>2. OneVerdict({"start"})
    BY DEF OneVerdict
  <2>3. Performs(c, HeldOpen, {"start"}, FALSE)
    BY <1>1, <2>1, <2>2, Performed
  <2>4. work'[c] = "held" /\ \A d \in Conns \ {c} : work'[d] = work[d]
    BY <1>1, <2>1 DEF Moves, Core, Works
  <2>5. c \notin peerGone /\ HeldOpen # Streaming
    BY <1>2, <1>3, Apart DEF Here, Shut
  <2>6. Others(c)
    BY <1>1, <2>3, <2>4 DEF Others, Performs
  <2>7. state'[c] = HeldOpen /\ wish'[c] = "none" /\ flush'[c] = flush[c] /\ c \notin aborted'
    BY <1>2, <2>3, <2>5 DEF Performs
  <2>8. Place(c)' /\ Wished(c)'
    BY <1>1, <1>2, <2>4, <2>5, <2>7 DEF Place, Wished
  <2>9. Kept(c)'
    BY <1>1, <1>2, <2>5, <2>7, <2>8 DEF Kept
  <2> QED
    BY <2>6, <2>9, OneKept
<1>4. CASE state[c] # Answering
  <2>1. state[c] \in {Answered("backstop"), Closed(TRUE), Closed(FALSE)}
    BY <1>2, <1>4 DEF Here, Shut
  <2>2. Moves(did, state[c], {})
    BY <2>1, HeldMoves DEF did
  <2>3. work' = [work EXCEPT ![c] = "done"]
    BY <1>1, <2>2 DEF Moves, Core
  <2>4. OneVerdict({})
    BY DEF OneVerdict
  <2>5. Performs(c, state[c], {}, FALSE)
    BY <1>1, <2>2, <2>4, Performed
  <2>6. /\ frame[c] # "url" /\ state[c] # Streaming
        /\ IF c \in peerGone THEN state[c] \in Shut
           ELSE state[c] \in {Streaming, Answered("reply"), Answered("backstop")}
    BY <1>1, <1>2, <1>4, <2>1, Apart DEF Here
    <2> QED
    BY <1>1, <1>2, <2>3, <2>4, <2>5, <2>6, SettledKeeps
<1> QED
  BY <1>3, <1>4

LEMMA HeldSettlesKeeps ==
    ASSUME IInv, ClientInv, NEW c \in Conns, HeldSettles(c) PROVE ClientInv'
<1>1. /\ work[c] = "held" /\ work' = [work EXCEPT ![c] = "done"]
      /\ UNCHANGED <<frame, peerGone>> /\ Frames /\ Works
  BY Typed DEF HeldSettles
<1>2. Place(c) /\ Wished(c) /\ (c \in aborted => c \in peerGone)
  BY DEF ClientInv, Kept
<1>3. /\ frame[c] = "request" /\ wish[c] = "none"
      /\ state[c] = IF c \in peerGone THEN Closed(FALSE) ELSE HeldOpen
  BY <1>1, <1>2 DEF Place, Wished
<1>4. PICK did : Perform(c, did, FALSE, FALSE)
                 /\ did \in {Step(state[c], Reply(FALSE)), Step(state[c], Ev("threw"))}
  BY DEF HeldSettles
<1>5. PICK t \in {Closed(FALSE), Answered("reply")}, E \in {{}, {"answer"}} :
        /\ Moves(did, t, E)
        /\ IF c \in peerGone THEN t = Closed(FALSE) ELSE t = Answered("reply")
  <2>1. CASE c \in peerGone
    <3>1. /\ Moves(Step(Closed(FALSE), Reply(FALSE)), Closed(FALSE), {})
          /\ Moves(Step(Closed(FALSE), Ev("threw")), Closed(FALSE), {})
      BY ReplyMoves, ThrewMoves
    <3> QED
      BY <1>3, <1>4, <2>1, <3>1
  <2>2. CASE c \notin peerGone
    <3>1. /\ Moves(Step(HeldOpen, Reply(FALSE)), Answered("reply"), {"answer"})
          /\ Moves(Step(HeldOpen, Ev("threw")), Answered("reply"), {"answer"})
      BY ReplyMoves, ThrewMoves
    <3> QED
      BY <1>3, <1>4, <2>2, <3>1
  <2> QED
    BY <2>1, <2>2
<1>6. OneVerdict(E) /\ "abort" \notin E /\ "exit" \notin E /\ "exit-dropped" \notin E
  BY DEF OneVerdict
<1>7. Performs(c, t, E, FALSE)
  BY <1>4, <1>5, <1>6, Performed
<1>8. work'[c] = "done" /\ \A d \in Conns \ {c} : work'[d] = work[d]
  BY <1>1 DEF Works
<1>9. Others(c)
  BY <1>1, <1>7, <1>8 DEF Others, Performs
<1>10. Kept(c)'
  <2>1. Place(c)'
    BY <1>1, <1>3, <1>5, <1>7, <1>8 DEF Place, Here, Shut, Performs
  <2>2. Wished(c)'
    BY <1>2, <1>3, <1>6, <1>7 DEF Wished, Performs
  <2> QED
    BY <1>1, <1>2, <1>6, <1>7, <2>1, <2>2 DEF Kept, Performs
<1> QED
  BY <1>9, <1>10, OneKept

LEMMA FlushKeeps ==
    ASSUME IInv, ClientInv, NEW c \in Conns, Flush(c) PROVE ClientInv'
<1>1. /\ flush[c].out /\ flush' = [flush EXCEPT ![c] = NoFlush]
      /\ wish' = IF flush[c].exit THEN [wish EXCEPT ![c] = "performed"] ELSE wish
      /\ UNCHANGED <<state, work, frame, peerGone, aborted>>
      /\ DOMAIN flush = Conns /\ DOMAIN wish = Conns
  BY DEF Flush, IInv, CoreInv, StepTypeOK
<1>2. Place(c) /\ Wished(c) /\ (c \in aborted => c \in peerGone)
  BY DEF ClientInv, Kept
<1>3. ~flush'[c].out
  <2>1. ~NoFlush.out
    BY DEF NoFlush
  <2> QED
    BY <1>1, <2>1
<1>4. wish'[c] = IF flush[c].exit THEN "performed" ELSE wish[c]
  BY <1>1
<1>5. Others(c)
  BY <1>1 DEF Others
<1>6. Wished(c)'
  <2>1. CASE flush[c].exit
    <3>1. wish[c] = "flushing" /\ wish'[c] = "performed"
      BY <1>1, <1>2, <1>4, <2>1 DEF Wished
    <3> QED
      BY <1>1, <1>2, <1>3, <3>1 DEF Wished
  <2>2. CASE ~flush[c].exit
    <3>1. wish[c] # "flushing" /\ wish'[c] = wish[c]
      BY <1>2, <1>4, <2>2 DEF Wished
    <3> QED
      BY <1>1, <1>2, <1>3, <3>1 DEF Wished
  <2> QED
    BY <2>1, <2>2
<1>7. Place(c)'
  BY <1>1, <1>2 DEF Place, Here
<1> QED
  BY <1>1, <1>2, <1>5, <1>6, <1>7, OneKept DEF Kept

LEMMA FeedDropsKeeps ==
    ASSUME ClientInv, NEW c \in Conns, FeedDrops(c) PROVE ClientInv'
<1>1. UNCHANGED <<state, work, frame, flush, peerGone, aborted, wish>>
  BY DEF FeedDrops
<1>2. Kept(c)'
  BY <1>1 DEF ClientInv, Kept, Place, Here, Wished
<1> QED
  BY <1>1, <1>2, OneKept DEF Others

LEMMA PeerLeavesKeeps ==
    ASSUME IInv, ClientInv, NEW c \in Conns, PeerLeaves(c) PROVE ClientInv'
<1> DEFINE did == Step(state[c], Ev("close"))
<1>1. /\ state[c] # NotAccepted /\ c \notin peerGone /\ peerGone' = peerGone \cup {c}
      /\ Perform(c, did, FALSE, FALSE) /\ UNCHANGED <<work, frame>>
  BY DEF PeerLeaves, Accepted
<1>2. Place(c) /\ Wished(c) /\ (c \in aborted => c \in peerGone)
  BY DEF ClientInv, Kept
<1>3. state[c] \in {Awaiting, Answering, Answered("reply"), Answered("backstop"), HeldOpen,
                    Streaming, Closed(TRUE), Closed(FALSE), Unattended(TRUE), Unattended(FALSE)}
  BY <1>1, <1>2 DEF Place, Here, Shut
<1> HIDE DEF did
<1>4. PICK t \in {Closed(TRUE), Closed(FALSE), Unattended(TRUE), Unattended(FALSE)},
           E \in {{}, {"abort"}, {"unsubscribe"}} :
        /\ Moves(did, t, E)
        /\ "abort" \in E <=> state[c] = HeldOpen
        /\ "unsubscribe" \in E <=> state[c] = Streaming
        /\ IF state[c] \in {Unattended(TRUE), Unattended(FALSE), Closed(TRUE), Closed(FALSE)}
             THEN t = state[c]
             ELSE t = IF state[c] = Answered("backstop") THEN Closed(TRUE) ELSE Closed(FALSE)
  <2>1. CASE state[c] \in {Awaiting, Answering, Answered("reply")}
    <3>1. Moves(did, Closed(FALSE), {})
      BY <2>1, CloseMoves DEF did
    <3>2. state[c] \notin {HeldOpen, Streaming, Answered("backstop"), Unattended(TRUE),
                           Unattended(FALSE), Closed(TRUE), Closed(FALSE)}
      BY <2>1, Apart
    <3> QED
      BY <3>1, <3>2
  <2>2. CASE state[c] = Answered("backstop")
    <3>1. Moves(did, Closed(TRUE), {})
      BY <2>2, CloseMoves DEF did
    <3>2. state[c] \notin {HeldOpen, Streaming, Unattended(TRUE), Unattended(FALSE),
                           Closed(TRUE), Closed(FALSE)}
      BY <2>2, Apart
    <3> QED
      BY <2>2, <3>1, <3>2
  <2>3. CASE state[c] = HeldOpen
    <3>1. Moves(did, Closed(FALSE), {"abort"})
      BY <2>3, CloseMoves DEF did
    <3>2. state[c] \notin {Streaming, Answered("backstop"), Unattended(TRUE),
                           Unattended(FALSE), Closed(TRUE), Closed(FALSE)}
      BY <2>3, Apart
    <3> QED
      BY <2>3, <3>1, <3>2
  <2>4. CASE state[c] = Streaming
    <3>1. Moves(did, Closed(FALSE), {"unsubscribe"})
      BY <2>4, CloseMoves DEF did
    <3>2. state[c] \notin {HeldOpen, Answered("backstop"), Unattended(TRUE),
                           Unattended(FALSE), Closed(TRUE), Closed(FALSE)}
      BY <2>4, Apart
    <3> QED
      BY <2>4, <3>1, <3>2
  <2>5. CASE state[c] \in {Closed(TRUE), Closed(FALSE), Unattended(TRUE), Unattended(FALSE)}
    <3>1. Moves(did, state[c], {})
      BY <2>5, CloseMoves DEF did
    <3>2. state[c] \notin {HeldOpen, Streaming}
      BY <2>5, Apart
    <3> QED
      BY <2>5, <3>1, <3>2
  <2> QED
    BY <1>3, <2>1, <2>2, <2>3, <2>4, <2>5
<1>5. OneVerdict(E) /\ "exit" \notin E /\ "exit-dropped" \notin E /\ "answer" \notin E
  BY DEF OneVerdict
<1>6. Performs(c, t, E, FALSE)
  BY <1>1, <1>4, <1>5, Performed
<1>7. \A d \in Conns \ {c} : d \in peerGone' <=> d \in peerGone
  BY <1>1
<1>8. Others(c)
  BY <1>1, <1>6, <1>7 DEF Others, Performs
<1>9. /\ state'[c] = t /\ wish'[c] = wish[c] /\ flush'[c] = flush[c] /\ c \in peerGone'
      /\ c \in aborted' <=> c \in aborted \/ state[c] = HeldOpen
      /\ frame'[c] = frame[c] /\ work'[c] = work[c]
  BY <1>1, <1>4, <1>5, <1>6 DEF Performs
<1>10. Kept(c)'
  <2>1. Place(c)'
    <3>1. CASE frame[c] = "url"
      <4>1. /\ state[c] \in {Unattended(TRUE), Unattended(FALSE), Closed(TRUE), Closed(FALSE)}
            /\ t = state[c]
        BY <1>2, <1>4, <3>1 DEF Place, Shut
      <4> QED
        BY <1>2, <1>9, <3>1, <4>1 DEF Place, Shut
    <3>2. CASE frame[c] # "url"
      <4>1. state[c] \notin {Unattended(TRUE), Unattended(FALSE)}
        BY <1>1, <1>2, <3>2, Apart DEF Place, Here
      <4>2. t \in Shut
        BY <1>4, <4>1 DEF Shut
      <4>3. CASE work[c] = "held"
        <5>1. frame[c] = "request" /\ state[c] = HeldOpen
          BY <1>1, <1>2, <4>3 DEF Place
        <5>2. t = Closed(FALSE)
          BY <1>4, <5>1, Apart
        <5> QED
          BY <1>9, <4>3, <5>1, <5>2 DEF Place
      <4>4. CASE work[c] # "held"
        BY <1>2, <1>9, <3>2, <4>2, <4>4 DEF Place, Here
      <4> QED
        BY <4>3, <4>4
    <3> QED
      BY <3>1, <3>2
  <2>2. Wished(c)'
    <3>1. wish[c] \in {"flushing", "performed"} => t = Closed(FALSE)
      BY <1>2, <1>4, Apart DEF Wished
    <3>2. wish[c] = "dropped" => t = Closed(TRUE)
      BY <1>2, <1>4, Apart DEF Wished
    <3> QED
      BY <1>2, <1>9, <3>1, <3>2 DEF Wished
  <2> QED
    BY <1>9, <2>1, <2>2 DEF Kept
<1> QED
  BY <1>8, <1>10, OneKept

-----------------------------------------------------------------------------

LEMMA ClientInit == Init => ClientInv
<1> SUFFICES ASSUME Init, NEW c \in Conns PROVE Kept(c)
  BY DEF ClientInv
<1>1. /\ state[c] = NotAccepted /\ frame[c] = "none" /\ work[c] = "none"
      /\ wish[c] = "none" /\ flush[c] = NoFlush /\ peerGone = {} /\ aborted = {}
  BY DEF Init
<1>2. Place(c) /\ Wished(c)
  BY <1>1 DEF Place, Here, Wished, NoFlush
<1> QED
  BY <1>1, <1>2, Apart DEF Kept

LEMMA ClientStep == IInv /\ ClientInv /\ [Next]_vars => ClientInv'
<1> SUFFICES ASSUME IInv, ClientInv, [Next]_vars PROVE ClientInv'
  OBVIOUS
<1>1. CASE UNCHANGED vars
  <2>1. UNCHANGED <<state, work, frame, flush, peerGone, aborted, wish>>
    BY <1>1 DEF vars
  <2> SUFFICES ASSUME NEW c \in Conns PROVE Kept(c)'
    BY DEF ClientInv
  <2>2. Kept(c)
    BY DEF ClientInv
  <2>3. Place(c)' /\ Wished(c)'
    <3>1. Place(c)'
      BY <2>1, <2>2 DEF Kept, Place, Here
    <3>2. Wished(c)'
      BY <2>1, <2>2 DEF Kept, Wished
    <3> QED
      BY <3>1, <3>2
  <2> QED
    BY <2>1, <2>2, <2>3 DEF Kept
<1>2. CASE Next
  BY <1>2, AcceptKeeps, ReadFrameKeeps, ReadGarbageKeeps, BackstopKeeps, HandlerRepliesKeeps,
     HandlerThrowsKeeps, HandlerSubscribesKeeps, HandlerHoldsKeeps, HeldSettlesKeeps,
     FlushKeeps, FeedDropsKeeps, PeerLeavesKeeps DEF Next
<1> QED
  BY <1>1, <1>2

LEMMA ClientInvariance == Spec => []ClientInv
<1>1. Spec => []IInv
  BY Invariance
<1> QED
  BY <1>1, ClientInit, ClientStep, PTL DEF Spec

-----------------------------------------------------------------------------
(* What the feed keeps.  A connection that streams is in the feed unless   *)
(* it was refused; one refused streams, unanswered, until it closes.       *)

Fed(c) ==
    /\ c \in feed <=> state[c] = Streaming /\ c \notin refused
    /\ state[c] = Streaming => answers[c] = 0
    /\ c \in refused => state[c] \in {Streaming, Closed(FALSE)} /\ answers[c] = 0

FeedInv == \A c \in Conns : Fed(c)

\* A step that neither opens a stream nor ends one, nor answers a stream.
Keeps(s, did) ==
    /\ did.next = Streaming <=> s = Streaming
    /\ s = Closed(FALSE) => did.next = s
    /\ s \in {Streaming, Closed(FALSE)} => "answer" \notin did.effects

\* Only the feed's taking a subscriber opens a stream, and only a close ends one.
LEMMA TableKeeps ==
    ASSUME NEW s \in States, NEW e \in Events, e.kind \notin {"subscribed", "close"}
    PROVE  Keeps(s, Step(s, e))
<1> DEFINE moved == Cell(s, e)
<1>1. /\ moved.next.kind = "streaming" <=> s.kind = "streaming"
      /\ s.kind = "streaming" => moved = To(s)
      /\ s = Closed(FALSE) => moved.next = s /\ "answer" \notin moved.effects
  <2> USE DEF States, Kinds, St, HeldOpen, Answering, Unattended, Answered, Closed, To, Does, Answer
  <2>1. CASE e.kind = "read"
    BY <2>1 DEF Cell, ReadCell
  <2>2. CASE e.kind = "unreadable"
    BY <2>2 DEF Cell
  <2>3. CASE e.kind = "deadline"
    BY <2>3 DEF Cell, DeadlineCell
  <2>4. CASE e.kind = "reply"
    BY <2>4 DEF Cell, ReplyCell
  <2>5. CASE e.kind = "subscribe"
    BY <2>5 DEF Cell
  <2>6. CASE e.kind = "held"
    BY <2>6 DEF Cell
  <2>7. CASE e.kind = "threw"
    BY <2>7 DEF Cell
  <2>8. CASE e.kind = "settled"
    BY <2>8 DEF Cell
  <2> QED
    BY <2>1, <2>2, <2>3, <2>4, <2>5, <2>6, <2>7, <2>8 DEF Events, EventKinds
<1>2. /\ Step(s, e).next = moved.next
      /\ "answer" \in Step(s, e).effects <=> "answer" \in moved.effects
  BY DEF Step, Does
<1> HIDE DEF moved
<1>3. s = Streaming => moved = To(s)
  BY <1>1, Apart
<1>4. To(s).next = s /\ "answer" \notin To(s).effects
  BY DEF To
<1>5. moved.next = Streaming => s = Streaming
  <2>1. moved.next = Streaming => s.kind = "streaming"
    BY <1>1, Apart
  <2> QED
    BY <1>1, <1>4, <2>1
<1> QED
  BY <1>1, <1>2, <1>3, <1>4, <1>5 DEF Keeps

\* One performed step that keeps the streams keeps what the feed holds of them.
LEMMA PerformKeepsFed ==
    ASSUME IInv, FeedInv, NEW c \in Conns, NEW did, Keeps(state[c], did),
           NEW exits \in BOOLEAN, NEW holds \in BOOLEAN, Perform(c, did, exits, holds),
           UNCHANGED <<feed, refused>>
    PROVE  FeedInv'
<1> SUFFICES ASSUME NEW d \in Conns PROVE Fed(d)'
  BY DEF FeedInv
<1>1. Fed(d) /\ DOMAIN state = Conns /\ DOMAIN answers = Conns
  BY DEF FeedInv, IInv, CoreInv, StepTypeOK
<1>2. CASE d # c
  <2>1. state'[d] = state[d] /\ answers'[d] = answers[d]
    BY <1>1, <1>2 DEF Perform
  <2> QED
    BY <1>1, <2>1 DEF Fed
<1>3. CASE d = c
  <2>1. /\ state'[c] = did.next
        /\ "answer" \notin did.effects => answers'[c] = answers[c]
    BY <1>1 DEF Perform
  <2>2. state'[c] = Streaming <=> state[c] = Streaming
    BY <2>1 DEF Keeps
  <2>3. ASSUME c \in refused
        PROVE  state'[c] \in {Streaming, Closed(FALSE)} /\ answers'[c] = 0
    BY <1>1, <1>3, <2>1, <2>3 DEF Keeps, Fed
  <2>4. state[c] = Streaming => answers'[c] = 0
    BY <1>1, <1>3, <2>1 DEF Keeps, Fed
  <2> QED
    BY <1>1, <1>3, <2>2, <2>3, <2>4 DEF Fed
<1> QED
  BY <1>2, <1>3

LEMMA KeepsTwice ==
    ASSUME NEW s, NEW first, Keeps(s, first), NEW e, Keeps(first.next, Step(first.next, e))
    PROVE  Keeps(s, Then(first, e))
<1>1. /\ Then(first, e).next = Step(first.next, e).next
      /\ Then(first, e).effects = first.effects \cup Step(first.next, e).effects
  BY DEF Then, Does
<1> QED
  BY <1>1 DEF Keeps

\* The callbacks that leave the feed alone.
LEMMA OthersKeepFed ==
    ASSUME IInv, FeedInv, NEW c \in Conns,
           \/ ReadFrame(c) \/ ReadGarbage(c) \/ Backstop(c) \/ HandlerReplies(c)
           \/ HandlerThrows(c) \/ HandlerHolds(c) \/ HeldSettles(c)
    PROVE  FeedInv'
<1> DEFINE s == state[c]
<1>1. s \in States
  BY DEF IInv, CoreInv, StepTypeOK
<1>2. /\ \A k \in EventKinds : Ev(k) \in Events /\ Ev(k).kind = k
      /\ \A b \in BOOLEAN : /\ Read(b) \in Events /\ Read(b).kind = "read"
                            /\ Reply(b) \in Events /\ Reply(b).kind = "reply"
  BY EventsTyped DEF Ev, Read, Reply
<1>3. UNCHANGED <<feed, refused>>
  BY DEF ReadFrame, ReadGarbage, Backstop, HandlerReplies, HandlerThrows, HandlerHolds, HeldSettles
<1>4. ASSUME NEW e \in Events, e.kind \notin {"subscribed", "close"}
      PROVE  Keeps(s, Step(s, e))
  BY <1>1, <1>4, TableKeeps
<1>5. ASSUME NEW e \in Events, e.kind \notin {"subscribed", "close"},
             s.kind # "new"
      PROVE  Keeps(s, Then(Step(s, e), Ev("settled")))
  <2>1. Step(s, e).next \in States
    BY <1>1, <1>5, StepFacts DEF Respects
  <2>2. Keeps(Step(s, e).next, Step(Step(s, e).next, Ev("settled")))
    BY <1>2, <2>1, TableKeeps DEF EventKinds
  <2> QED
    BY <1>4, <1>5, <2>2, KeepsTwice
<1>6. work[c] # "none" => s.kind # "new"
  BY DEF IInv, CoreInv, CallbackInv, Accepted
<1>7. CASE ReadFrame(c)
  <2>1. PICK sent \in {"request", "url"} : Perform(c, Step(s, Read(sent = "request")), FALSE, FALSE)
    BY <1>7 DEF ReadFrame
  <2>2. Keeps(s, Step(s, Read(sent = "request")))
    BY <1>2, <1>4
  <2> QED
    BY <1>3, <2>1, <2>2, PerformKeepsFed
<1>8. CASE ReadGarbage(c)
  <2>1. Perform(c, Step(s, Ev("unreadable")), FALSE, FALSE) /\ Keeps(s, Step(s, Ev("unreadable")))
    BY <1>2, <1>4, <1>8 DEF ReadGarbage, EventKinds
  <2> QED
    BY <1>3, <2>1, PerformKeepsFed
<1>9. CASE Backstop(c)
  <2> DEFINE plain == Step(s, Ev("deadline"))
             did == Does(plain.next, plain.effects \cup {"clear-backstop"})
  <2>1. Perform(c, did, FALSE, FALSE)
    BY <1>9 DEF Backstop
  <2>2. Keeps(s, plain)
    BY <1>2, <1>4 DEF EventKinds
  <2>3. did.next = plain.next /\ ("answer" \in did.effects <=> "answer" \in plain.effects)
    BY DEF Does
  <2> HIDE DEF plain, did
  <2>4. Keeps(s, did)
    BY <2>2, <2>3 DEF Keeps
  <2> QED
    BY <1>3, <2>1, <2>4, PerformKeepsFed
<1>10. CASE HandlerReplies(c)
  <2>1. PICK exits \in BOOLEAN, holds \in BOOLEAN :
           Perform(c, Then(Step(s, Reply(exits)), Ev("settled")), exits, holds)
    BY <1>10 DEF HandlerReplies
  <2>2. Keeps(s, Then(Step(s, Reply(exits)), Ev("settled")))
    BY <1>2, <1>5, <1>6, <1>10 DEF HandlerReplies
  <2> QED
    BY <1>3, <2>1, <2>2, PerformKeepsFed
<1>11. CASE HandlerThrows(c)
  <2>1. Perform(c, Then(Step(s, Ev("threw")), Ev("settled")), FALSE, FALSE)
    BY <1>11 DEF HandlerThrows
  <2>2. Keeps(s, Then(Step(s, Ev("threw")), Ev("settled")))
    BY <1>2, <1>5, <1>6, <1>11 DEF HandlerThrows, EventKinds
  <2> QED
    BY <1>3, <2>1, <2>2, PerformKeepsFed
<1>12. CASE HandlerHolds(c)
  <2>1. Perform(c, Step(s, Ev("held")), FALSE, FALSE) /\ Keeps(s, Step(s, Ev("held")))
    BY <1>2, <1>4, <1>12 DEF HandlerHolds, EventKinds
  <2> QED
    BY <1>3, <2>1, PerformKeepsFed
<1>13. CASE HeldSettles(c)
  <2>1. PICK e \in {Reply(FALSE), Ev("threw")} : Perform(c, Step(s, e), FALSE, FALSE)
    BY <1>13 DEF HeldSettles
  <2>2. Keeps(s, Step(s, e))
    BY <1>2, <1>4 DEF EventKinds
  <2> QED
    BY <1>3, <2>1, <2>2, PerformKeepsFed
<1> QED
  BY <1>7, <1>8, <1>9, <1>10, <1>11, <1>12, <1>13

\* A subscribe: taken, refused, or thrown; a client told TIMEOUT or gone gets
\* no stream.
LEMMA SubscribeKeepsFed ==
    ASSUME IInv, FeedInv, ClientInv, NEW c \in Conns, HandlerSubscribes(c) PROVE FeedInv'
<1> DEFINE asked == Step(state[c], Ev("subscribe"))
<1>1. Here(c, {Answering, Answered("backstop")})
  <2>1. work[c] = "handling" /\ frame[c] = "request"
    BY DEF HandlerSubscribes
  <2> QED
    BY <2>1, AtWork
<1>2. state[c] \in {Answering, Answered("backstop"), Closed(TRUE), Closed(FALSE)}
  BY <1>1 DEF Here, Shut
<1>3. DOMAIN state = Conns /\ DOMAIN answers = Conns /\ state[c] \in States
  BY DEF IInv, CoreInv, StepTypeOK
<1>4. \A k \in EventKinds : Ev(k) \in Events /\ Ev(k).kind = k
  BY EventsTyped DEF Ev
<1>5. Keeps(state[c], asked)
  BY <1>3, <1>4, TableKeeps DEF EventKinds
<1>6. CASE state[c] # Answering
  <2>1. Moves(asked, state[c], {})
    BY <1>2, <1>6, SubscribeMoves
  <2>2. "attach" \notin asked.effects
    BY <2>1 DEF Moves, Core
  <2>3. Perform(c, asked, FALSE, FALSE) /\ UNCHANGED <<feed, refused>>
    BY <2>2 DEF HandlerSubscribes
  <2> QED
    BY <1>5, <2>3, PerformKeepsFed
<1>7. CASE state[c] = Answering
  <2>1. Moves(asked, Answering, {"attach"})
    BY <1>7, SubscribeMoves
  <2>2. asked.next = Answering /\ "attach" \in asked.effects
    BY <2>1 DEF Moves, Core
  <2> HIDE DEF asked
  <2>3. \/ /\ Perform(c, Then(asked, Ev("subscribed")), FALSE, FALSE)
           /\ \/ feed' = feed \cup {c} /\ refused' = refused
              \/ refused' = refused \cup {c} /\ feed' = feed
        \/ Perform(c, Then(asked, Ev("threw")), FALSE, FALSE) /\ UNCHANGED <<feed, refused>>
    BY <2>2 DEF HandlerSubscribes, asked
  <2>4. CASE Perform(c, Then(asked, Ev("threw")), FALSE, FALSE) /\ UNCHANGED <<feed, refused>>
    <3>1. Keeps(asked.next, Step(asked.next, Ev("threw")))
      BY <1>3, <1>4, <1>7, <2>2, TableKeeps DEF EventKinds
    <3>2. Keeps(state[c], Then(asked, Ev("threw")))
      BY <1>5, <3>1, KeepsTwice
    <3> QED
      BY <2>4, <3>2, PerformKeepsFed
  <2>5. CASE /\ Perform(c, Then(asked, Ev("subscribed")), FALSE, FALSE)
             /\ \/ feed' = feed \cup {c} /\ refused' = refused
                \/ refused' = refused \cup {c} /\ feed' = feed
    <3> DEFINE did == Then(asked, Ev("subscribed"))
    <3>1. Moves(did, Streaming, {"attach"} \cup {})
      <4>1. Moves(Step(Answering, Ev("subscribed")), Streaming, {})
        BY SubscribeMoves
      <4> QED
        BY <2>1, <4>1, ThenMoves
    <3>2. did.next = Streaming /\ "answer" \notin did.effects
      BY <3>1 DEF Moves, Core
    <3> HIDE DEF did
    <3>3. state' = [state EXCEPT ![c] = Streaming] /\ answers' = answers
      BY <2>5, <3>2 DEF Perform, did
    <3>4. answers[c] = 0
      BY <1>7, Apart DEF IInv, CoreInv, AnswersMatchStates, Unanswered
    <3>5. c \notin feed /\ c \notin refused
      BY <1>7, Apart DEF FeedInv, Fed
    <3> SUFFICES ASSUME NEW d \in Conns PROVE Fed(d)'
      BY DEF FeedInv
    <3>6. CASE d = c
      BY <1>3, <2>5, <3>3, <3>4, <3>5, <3>6 DEF Fed
    <3>7. CASE d # c
      <4>1. state'[d] = state[d] /\ answers'[d] = answers[d]
            /\ (d \in feed' <=> d \in feed) /\ (d \in refused' <=> d \in refused)
        BY <1>3, <2>5, <3>3, <3>7
      <4> QED
        BY <4>1 DEF FeedInv, Fed
    <3> QED
      BY <3>6, <3>7
  <2> QED
    BY <2>3, <2>4, <2>5
<1> QED
  BY <1>6, <1>7

\* The close of a stream takes its subscriber out; any other close finds none.
LEMMA CloseKeepsFed ==
    ASSUME IInv, FeedInv, ClientInv, NEW c \in Conns, PeerLeaves(c) PROVE FeedInv'
<1> DEFINE did == Step(state[c], Ev("close"))
<1>1. /\ Perform(c, did, FALSE, FALSE) /\ refused' = refused
      /\ feed' = IF "unsubscribe" \in did.effects THEN feed \ {c} ELSE feed
      /\ state[c] # NotAccepted /\ c \notin peerGone
  BY DEF PeerLeaves, Accepted
<1>2. Place(c) /\ DOMAIN state = Conns /\ DOMAIN answers = Conns
  BY DEF ClientInv, Kept, IInv, CoreInv, StepTypeOK
<1>3. state[c] \in {Awaiting, Answering, Answered("reply"), Answered("backstop"), HeldOpen,
                    Streaming, Closed(TRUE), Closed(FALSE), Unattended(TRUE), Unattended(FALSE)}
  BY <1>1, <1>2 DEF Place, Here, Shut
<1> HIDE DEF did
<1>4. /\ "answer" \notin did.effects /\ did.next # Streaming
      /\ "unsubscribe" \in did.effects <=> state[c] = Streaming
      /\ state[c] \in {Streaming, Closed(FALSE)} => did.next = Closed(FALSE)
  <2>1. CASE state[c] = Streaming
    BY <2>1, CloseMoves, Apart DEF did, Moves, Core
  <2>2. CASE state[c] # Streaming
    <3>1. PICK t \in {Closed(TRUE), Closed(FALSE), Unattended(TRUE), Unattended(FALSE)},
               E \in {{}, {"abort"}} :
             Moves(did, t, E) /\ (state[c] = Closed(FALSE) => t = Closed(FALSE))
      BY <1>3, <2>2, CloseMoves, Apart DEF did
    <3> QED
      BY <2>2, <3>1, Apart DEF Moves, Core
  <2> QED
    BY <2>1, <2>2
<1>5. /\ state' = [state EXCEPT ![c] = did.next] /\ answers' = answers
  BY <1>1, <1>4 DEF Perform
<1> SUFFICES ASSUME NEW d \in Conns PROVE Fed(d)'
  BY DEF FeedInv
<1>6. CASE d = c
  BY <1>1, <1>2, <1>4, <1>5, <1>6 DEF FeedInv, Fed
<1>7. CASE d # c
  <2>1. state'[d] = state[d] /\ answers'[d] = answers[d]
        /\ (d \in feed' <=> d \in feed) /\ (d \in refused' <=> d \in refused)
    BY <1>1, <1>2, <1>5, <1>7
  <2> QED
    BY <2>1 DEF FeedInv, Fed
<1> QED
  BY <1>6, <1>7

LEMMA FeedStep == IInv /\ ClientInv /\ FeedInv /\ [Next]_vars => FeedInv'
<1> SUFFICES ASSUME IInv, ClientInv, FeedInv, [Next]_vars PROVE FeedInv'
  OBVIOUS
<1>1. CASE UNCHANGED <<state, answers, feed, refused>>
  BY <1>1 DEF FeedInv, Fed
<1>2. CASE Next
  <2>1. PICK c \in Conns :
           \/ Accept(c) \/ ReadFrame(c) \/ ReadGarbage(c) \/ Backstop(c)
           \/ HandlerReplies(c) \/ HandlerThrows(c) \/ HandlerSubscribes(c)
           \/ HandlerHolds(c) \/ HeldSettles(c) \/ Flush(c) \/ FeedDrops(c)
           \/ PeerLeaves(c)
    BY <1>2 DEF Next
  <2>2. CASE Accept(c)
    <3>1. /\ state[c] = NotAccepted /\ state' = [state EXCEPT ![c] = Awaiting]
          /\ UNCHANGED <<feed, refused, answers>> /\ DOMAIN state = Conns
      BY <2>2 DEF Accept, Accepted, IInv, CoreInv, StepTypeOK
    <3> SUFFICES ASSUME NEW d \in Conns PROVE Fed(d)'
      BY DEF FeedInv
    <3> QED
      BY <3>1, Apart DEF FeedInv, Fed
  <2>3. CASE Flush(c)
    <3>1. UNCHANGED <<state, answers, feed, refused>>
      BY <2>3 DEF Flush
    <3> QED
      BY <1>1, <3>1
  <2>4. CASE FeedDrops(c)
    <3>1. /\ UNCHANGED <<state, answers>> /\ c \in feed
          /\ feed' = feed \ {c} /\ refused' = refused \cup {c}
      BY <2>4 DEF FeedDrops
    <3>2. state[c] = Streaming /\ answers[c] = 0
      <4>1. state[c] = Streaming
        BY <3>1 DEF FeedInv, Fed
      <4> QED
        BY <4>1 DEF FeedInv, Fed
    <3> QED
      BY <3>1, <3>2 DEF FeedInv, Fed
  <2> QED
    BY <2>1, <2>2, <2>3, <2>4, OthersKeepFed, SubscribeKeepsFed, CloseKeepsFed
<1> QED
  BY <1>1, <1>2 DEF vars

LEMMA FeedInvariance == Spec => [](IInv /\ ClientInv /\ FeedInv)
<1>1. Init => FeedInv
  BY Apart DEF Init, FeedInv, Fed
<1> QED
  BY <1>1, Invariance, ClientInvariance, FeedStep, PTL DEF Spec

\* A connection that streams has a subscriber in the feed or was told
\* SWITCHED_OFF, the one thing written to end it; none whose peer has gone, or
\* that was told TIMEOUT, has one.
THEOREM NoSubscriberIsOrphaned == Spec => []NoOrphanSubscriber
<1>1. IInv /\ ClientInv /\ FeedInv => NoOrphanSubscriber
  <2> SUFFICES ASSUME IInv, ClientInv, FeedInv PROVE NoOrphanSubscriber
    OBVIOUS
  <2>1. feed \subseteq Conns /\ refused \subseteq Conns /\ \A c \in Conns : Fed(c)
    BY DEF IInv, CallbackInv, FeedInv
  <2>2. ASSUME NEW c \in Conns, state[c] = Streaming PROVE c \notin peerGone
    BY <2>2, Apart DEF ClientInv, Kept, Place, Here, Shut
  <2>3. ~TimedOut(Streaming) /\ ~TimedOut(Closed(FALSE))
    BY DEF TimedOut, Streaming, Closed, St
  <2>4. \A c \in refused : answers[c] = 0 /\ ~TimedOut(state[c])
    BY <2>1, <2>3 DEF Fed
  <2> QED
    BY <2>1, <2>2, <2>4 DEF NoOrphanSubscriber, Fed
<1> QED
  BY <1>1, FeedInvariance, PTL

\* The exit a reply carries is performed, waits on its own answer's flush, or is
\* dropped with a TIMEOUT the client was told: whatever else settles, it is
\* never lost.
THEOREM ExitsAreAccounted == Spec => []ExitIsAccounted
<1>1. ClientInv => ExitIsAccounted
  <2>1. /\ TimedOut(Answered("backstop")) /\ TimedOut(Closed(TRUE))
        /\ ~TimedOut(Answered("reply")) /\ ~TimedOut(Closed(FALSE))
    BY DEF TimedOut, Answered, Closed, St
  <2> QED
    BY <2>1 DEF ClientInv, Kept, Wished, ExitIsAccounted
<1> QED
  BY <1>1, ClientInvariance, PTL

\* Held work runs for a client that waits, or has been told to stop.
THEOREM HeldWorkIsHeldFor == Spec => []HeldWorkHasAClient
<1>1. ClientInv => HeldWorkHasAClient
  <2> SUFFICES ASSUME ClientInv, NEW c \in Conns, work[c] = "held"
               PROVE  /\ c \in peerGone <=> c \in aborted
                      /\ ~TimedOut(state[c])
                      /\ c \notin peerGone => state[c] = HeldOpen
    BY DEF HeldWorkHasAClient
  <2>1. /\ c \in peerGone <=> c \in aborted
        /\ state[c] = IF c \in peerGone THEN Closed(FALSE) ELSE HeldOpen
    BY DEF ClientInv, Kept, Place
  <2>2. ~TimedOut(Closed(FALSE)) /\ ~TimedOut(HeldOpen)
    BY DEF TimedOut, Closed, HeldOpen, St
  <2> QED
    BY <2>1, <2>2
<1> QED
  BY <1>1, ClientInvariance, PTL

=============================================================================
