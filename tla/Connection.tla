----------------------------- MODULE Connection -----------------------------
(***************************************************************************)
(* The daemon's connections: the pure table of connection-state.ts (Cell,  *)
(* Step), and the socket around it (connection.ts), which performs what a  *)
(* step asks.  One action per callback of the event loop: the accept, the  *)
(* one frame, the backstop's timer, the handling's promise settling, held  *)
(* work settling, the answer's flush, and the peer leaving.                *)
(***************************************************************************)
EXTENDS Integers, FiniteSets

CONSTANTS Conns     \* the connections a run may accept

ASSUME ConnsFinite == IsFiniteSet(Conns)

VARIABLES
    state,      \* the connection's one state, or NotAccepted
    work,       \* the frame's promise: handler, then held work
    frame,      \* what the client sent: "none", "request" or "url"
    timer,      \* the backstop timers still set
    counted,    \* daemon.stats.inFlight
    timeouts,   \* daemon.stats.requestsTimedOut
    feed,       \* the connections the frame feeds hold a subscriber for
    refused,    \* the streams the feed has ended, told SWITCHED_OFF
    answers,    \* how many answers each connection has written
    flush,      \* the answer's write not settled yet
    delivered,  \* the connections whose reply's client is recorded to hold it
    peerGone,   \* the connections whose socket has errored or closed
    aborted,    \* the connections whose `left` signal is aborted
    wish,       \* what became of a reply's exitAfterFlush
    exited      \* the daemon's process has exited

vars == <<state, work, frame, timer, counted, timeouts, feed, refused,
          answers, flush, delivered, peerGone, aborted, wish, exited>>

Kinds == {"new", "awaiting", "answering", "unattended", "answered", "held",
          "streaming", "closed"}

\* One record shape for every state: `lapsed` is read on unattended and
\* closed, `by` on answered.
St(kind, lapsed, by) == [kind |-> kind, lapsed |-> lapsed, by |-> by]

States == [kind : Kinds, lapsed : BOOLEAN, by : {"none", "reply", "backstop"}]

NotAccepted == St("new", FALSE, "none")         \* before the accept

Awaiting   == St("awaiting", FALSE, "none")
Answering  == St("answering", FALSE, "none")
HeldOpen   == St("held", FALSE, "none")
Streaming  == St("streaming", FALSE, "none")
Unattended(lapsed) == St("unattended", lapsed, "none")
Answered(by)       == St("answered", FALSE, by)
Closed(lapsed)     == St("closed", lapsed, "none")

BackstopArmed(s) ==
    \/ s.kind \in {"awaiting", "answering"}
    \/ s.kind = "unattended" /\ ~s.lapsed

InFlight(s) == s.kind \notin {"streaming", "closed"}

TimedOut(s) ==
    \/ s.kind = "answered" /\ s.by = "backstop"
    \/ s.kind \in {"unattended", "closed"} /\ s.lapsed

ClientLeft(s) == s.kind = "closed"

-----------------------------------------------------------------------------
(* The table.  An event is [kind, waits, exit]: `waits` is read's, `exit`  *)
(* says a reply carries an exit code.  A cell's effects are a set of kinds. *)

Ev(kind)       == [kind |-> kind, waits |-> FALSE, exit |-> FALSE]
Read(waits)    == [kind |-> "read", waits |-> waits, exit |-> FALSE]
Reply(exit)    == [kind |-> "reply", waits |-> FALSE, exit |-> exit]

To(next)           == [next |-> next, effects |-> {}]
Does(next, effects) == [next |-> next, effects |-> effects]
Answer(by)         == Does(Answered(by), {"answer"})

ReadCell(s, e) ==
    CASE s.kind = "awaiting" ->
            To(IF e.waits THEN Answering ELSE Unattended(FALSE))
      [] s = Answered("backstop") /\ ~e.waits -> To(Unattended(TRUE))
      [] OTHER -> To(s)

\* Mutant: the backstop answers only a client whose frame is read.
DeadlineCellNeedsFrame(s) ==
    CASE s.kind = "answering" ->
            Does(Answered("backstop"), {"count-timeout", "answer"})
      [] s.kind = "unattended" /\ ~s.lapsed ->
            Does(Unattended(TRUE), {"count-timeout"})
      [] OTHER -> To(s)

DeadlineCell(s) ==
    CASE s.kind \in {"awaiting", "answering"} ->
            Does(Answered("backstop"), {"count-timeout", "answer"})
      [] s.kind = "unattended" /\ ~s.lapsed ->
            Does(Unattended(TRUE), {"count-timeout"})
      [] OTHER -> To(s)

\* A client told TIMEOUT never hears this reply, so its exit goes with it; one
\* that hung up unanswered leaves the exit to the daemon.
\* Mutant: a reply nobody is left to hear takes its exit with it.
ReplyCellForgetsExit(s, e) ==
    CASE s.kind \in {"answering", "held"} -> Answer("reply")
      [] s \in {Answered("backstop"), Closed(TRUE)} ->
            Does(s, IF e.exit THEN {"exit-dropped"} ELSE {})
      [] OTHER -> To(s)

\* Mutant: a reply after the backstop's TIMEOUT is written too.
ReplyCellAnswersTwice(s, e) ==
    CASE s.kind \in {"answering", "held", "answered"} -> Answer("reply")
      [] s = Closed(TRUE) ->
            Does(s, IF e.exit THEN {"exit-dropped"} ELSE {})
      [] s = Closed(FALSE) -> Does(s, IF e.exit THEN {"exit"} ELSE {})
      [] OTHER -> To(s)

ReplyCell(s, e) ==
    CASE s.kind \in {"answering", "held"} -> Answer("reply")
      [] s \in {Answered("backstop"), Closed(TRUE)} ->
            Does(s, IF e.exit THEN {"exit-dropped"} ELSE {})
      [] s = Closed(FALSE) -> Does(s, IF e.exit THEN {"exit"} ELSE {})
      [] OTHER -> To(s)

\* Mutant: a closed stream stays subscribed.
CloseCellKeepsSubscriber(s) ==
    CASE s.kind \in {"unattended", "closed"} -> To(s)
      [] s.kind = "held" -> Does(Closed(FALSE), {"abort"})
      [] OTHER -> To(Closed(TimedOut(s)))

\* Mutant: held work goes on for a client that hung up.
CloseCellLetsHeldRun(s) ==
    CASE s.kind \in {"unattended", "closed"} -> To(s)
      [] s.kind = "streaming" -> Does(Closed(FALSE), {"unsubscribe"})
      [] OTHER -> To(Closed(TimedOut(s)))

CloseCell(s) ==
    CASE s.kind \in {"unattended", "closed"} -> To(s)
      [] s.kind = "streaming" -> Does(Closed(FALSE), {"unsubscribe"})
      [] s.kind = "held" -> Does(Closed(FALSE), {"abort"})
      [] OTHER -> To(Closed(TimedOut(s)))

Cell(s, e) ==
    CASE e.kind = "read" -> ReadCell(s, e)
      [] e.kind = "unreadable" ->
            IF s.kind = "awaiting" THEN Answer("reply") ELSE To(s)
      [] e.kind = "deadline" -> DeadlineCell(s)
      [] e.kind = "reply" -> ReplyCell(s, e)
      [] e.kind = "subscribe" ->
            Does(s, IF s.kind = "answering" THEN {"attach"} ELSE {})
      [] e.kind = "subscribed" ->
            IF s.kind = "answering" THEN To(Streaming)
                                    ELSE Does(s, {"unsubscribe"})
      [] e.kind = "held" ->
            IF s.kind = "answering" THEN Does(HeldOpen, {"start"}) ELSE To(s)
      [] e.kind = "threw" ->
            IF s.kind \in {"answering", "held"} THEN Answer("reply") ELSE To(s)
      [] e.kind = "settled" ->
            To(IF s.kind = "unattended" THEN Closed(s.lapsed) ELSE s)
      [] e.kind = "close" -> CloseCell(s)


\* Mutant: a stream leaves the in-flight count only when it closes.
StepCountsStreams(s, e) ==
    LET moved == Cell(s, e) IN
    Does(moved.next,
         moved.effects
         \cup (IF BackstopArmed(s) /\ ~BackstopArmed(moved.next)
                 THEN {"clear-backstop"} ELSE {})
         \cup (IF s.kind # "closed" /\ moved.next.kind = "closed"
                 THEN {"leave-in-flight"} ELSE {}))

\* A step: the cell's effects, and the lines the move crosses.
Step(s, e) ==
    LET moved == Cell(s, e) IN
    Does(moved.next,
         moved.effects
         \cup (IF BackstopArmed(s) /\ ~BackstopArmed(moved.next)
                 THEN {"clear-backstop"} ELSE {})
         \cup (IF InFlight(s) /\ ~InFlight(moved.next)
                 THEN {"leave-in-flight"} ELSE {}))

\* Two events of one turn of the loop.
Then(first, e) ==
    LET second == Step(first.next, e) IN
    Does(second.next, first.effects \cup second.effects)

-----------------------------------------------------------------------------
(* Performing a step's effects.                                            *)

\* `exits` says the answer being written carries an exit, `holds` that its
\* clean flush records the delivery.
Perform(c, did, exits, holds) ==
    /\ state' = [state EXCEPT ![c] = did.next]
    /\ timer' = IF "clear-backstop" \in did.effects THEN timer \ {c} ELSE timer
    /\ counted' = IF "leave-in-flight" \in did.effects
                    THEN counted - 1 ELSE counted
    /\ timeouts' = IF "count-timeout" \in did.effects
                     THEN timeouts + 1 ELSE timeouts
    /\ aborted' = IF "abort" \in did.effects THEN aborted \cup {c} ELSE aborted
    /\ IF "answer" \in did.effects
         THEN /\ answers' = [answers EXCEPT ![c] = @ + 1]
              /\ flush' = [flush EXCEPT
                             ![c] = [out |-> TRUE, exit |-> exits, holds |-> holds]]
         ELSE UNCHANGED <<answers, flush>>
    /\ wish' = [wish EXCEPT ![c] =
                  CASE "exit" \in did.effects -> "performed"
                    [] "exit-dropped" \in did.effects -> "dropped"
                    [] exits /\ "answer" \in did.effects -> "flushing"
                    [] exits /\ did.effects \cap {"answer", "exit", "exit-dropped"} = {} -> "lost"
                    [] OTHER -> @]
    /\ exited' = (exited \/ "exit" \in did.effects)

NoFlush == [out |-> FALSE, exit |-> FALSE, holds |-> FALSE]

Init ==
    /\ state = [c \in Conns |-> NotAccepted]
    /\ work = [c \in Conns |-> "none"]
    /\ frame = [c \in Conns |-> "none"]
    /\ timer = {}
    /\ counted = 0
    /\ timeouts = 0
    /\ feed = {}
    /\ refused = {}
    /\ answers = [c \in Conns |-> 0]
    /\ flush = [c \in Conns |-> NoFlush]
    /\ delivered = {}
    /\ peerGone = {}
    /\ aborted = {}
    /\ wish = [c \in Conns |-> "none"]
    /\ exited = FALSE

Accepted(c) == state[c] # NotAccepted
Running == ~exited

\* handleConnection: the connection counts as in flight and sets its backstop.
Accept(c) ==
    /\ Running /\ ~Accepted(c)
    /\ state' = [state EXCEPT ![c] = Awaiting]
    /\ counted' = counted + 1
    /\ timer' = timer \cup {c}
    /\ UNCHANGED <<work, frame, timeouts, feed, refused, answers, flush,
                   delivered, peerGone, aborted, wish, exited>>

\* readOneFrame's onFrame: classify, step, and start the handling.  The
\* stream's last data precedes its close.
ReadFrame(c) ==
    /\ Running /\ Accepted(c) /\ c \notin peerGone /\ frame[c] = "none"
    /\ \E sent \in {"request", "url"} :
         /\ frame' = [frame EXCEPT ![c] = sent]
         /\ work' = [work EXCEPT ![c] = "handling"]
         /\ Perform(c, Step(state[c], Read(sent = "request")), FALSE, FALSE)
    /\ UNCHANGED <<feed, refused, delivered, peerGone>>

\* readOneFrame's onError: the frame did not parse.
ReadGarbage(c) ==
    /\ Running /\ Accepted(c) /\ c \notin peerGone /\ frame[c] = "none"
    /\ frame' = [frame EXCEPT ![c] = "garbage"]
    /\ Perform(c, Step(state[c], Ev("unreadable")), FALSE, FALSE)
    /\ UNCHANGED <<work, feed, refused, delivered, peerGone>>

\* The timer of REQUEST_TIMEOUT_MS fires.
Backstop(c) ==
    /\ Running /\ c \in timer
    /\ LET did == Step(state[c], Ev("deadline")) IN
         Perform(c, Does(did.next, did.effects \cup {"clear-backstop"}),
                 FALSE, FALSE)
    /\ UNCHANGED <<work, frame, feed, refused, delivered, peerGone>>

\* daemon.handle settles: with a reply, and the chain's `settled` after it.
\* Only a request's reply carries an exit: a click's is always `stay`.
HandlerReplies(c) ==
    /\ Running /\ work[c] = "handling"
    /\ work' = [work EXCEPT ![c] = "done"]
    /\ \E exits, holds \in BOOLEAN :
         /\ exits => frame[c] = "request"
         /\ Perform(c, Then(Step(state[c], Reply(exits)), Ev("settled")),
                    exits, holds)
    /\ UNCHANGED <<frame, feed, refused, delivered, peerGone>>

\* ... with a throw.
HandlerThrows(c) ==
    /\ Running /\ work[c] = "handling"
    /\ work' = [work EXCEPT ![c] = "done"]
    /\ Perform(c, Then(Step(state[c], Ev("threw")), Ev("settled")), FALSE, FALSE)
    /\ UNCHANGED <<frame, feed, refused, delivered, peerGone>>

\* ... with a subscribe: `attach` runs inside the step that asks for it.  The
\* feed takes the subscriber, or refuses it (its lane is switched off): then
\* the refusal ends the socket, nothing is subscribed, and the connection
\* streams all the same.  Or the attach throws.
HandlerSubscribes(c) ==
    /\ Running /\ work[c] = "handling" /\ frame[c] = "request"
    /\ work' = [work EXCEPT ![c] = "done"]
    /\ LET asked == Step(state[c], Ev("subscribe")) IN
         IF "attach" \in asked.effects
           THEN \/ /\ Perform(c, Then(asked, Ev("subscribed")), FALSE, FALSE)
                   /\ \/ feed' = feed \cup {c} /\ UNCHANGED refused
                      \/ refused' = refused \cup {c} /\ UNCHANGED feed
                \/ /\ Perform(c, Then(asked, Ev("threw")), FALSE, FALSE)
                   /\ UNCHANGED <<feed, refused>>
           ELSE Perform(c, asked, FALSE, FALSE) /\ UNCHANGED <<feed, refused>>
    /\ UNCHANGED <<frame, delivered, peerGone>>

\* ... with held work, started only while a client waits for it.
HandlerHolds(c) ==
    /\ Running /\ work[c] = "handling" /\ frame[c] = "request"
    /\ LET did == Step(state[c], Ev("held")) IN
         /\ work' = [work EXCEPT ![c] =
                       IF "start" \in did.effects THEN "held" ELSE "done"]
         /\ Perform(c, did, FALSE, FALSE)
    /\ UNCHANGED <<frame, feed, refused, delivered, peerGone>>

\* Held work settles: with a reply that stays up, or with a throw.
HeldSettles(c) ==
    /\ Running /\ work[c] = "held"
    /\ work' = [work EXCEPT ![c] = "done"]
    /\ \/ Perform(c, Step(state[c], Reply(FALSE)), FALSE, FALSE)
       \/ Perform(c, Step(state[c], Ev("threw")), FALSE, FALSE)
    /\ UNCHANGED <<frame, feed, refused, delivered, peerGone>>

\* sock.end's callback: on the finish or on the error, the exit the answer
\* carries is performed; a clean one records the delivery.
Flush(c) ==
    /\ Running /\ flush[c].out
    /\ flush' = [flush EXCEPT ![c] = NoFlush]
    /\ \E clean \in BOOLEAN :
         /\ clean => c \notin peerGone
         /\ delivered' = IF clean /\ flush[c].holds
                           THEN delivered \cup {c} ELSE delivered
    /\ exited' = (exited \/ flush[c].exit)
    /\ wish' = IF flush[c].exit THEN [wish EXCEPT ![c] = "performed"] ELSE wish
    /\ UNCHANGED <<state, work, frame, timer, counted, timeouts, feed, refused,
                   answers, peerGone, aborted>>

\* A push finds the lane of a follower switched off: it is unsubscribed, and
\* its refusal ends the socket.  Its connection streams until that closes.
FeedDrops(c) ==
    /\ Running /\ c \in feed
    /\ feed' = feed \ {c}
    /\ refused' = refused \cup {c}
    /\ UNCHANGED <<state, work, frame, timer, counted, timeouts, answers, flush,
                   delivered, peerGone, aborted, wish, exited>>

\* The socket errors or closes; `unsubscribe` takes the feed's subscriber out,
\* if the feed still has it.
PeerLeaves(c) ==
    /\ Running /\ Accepted(c) /\ c \notin peerGone
    /\ peerGone' = peerGone \cup {c}
    /\ LET did == Step(state[c], Ev("close")) IN
         /\ Perform(c, did, FALSE, FALSE)
         /\ feed' = IF "unsubscribe" \in did.effects THEN feed \ {c} ELSE feed
    /\ UNCHANGED <<work, frame, refused, delivered>>

Next ==
    \E c \in Conns :
        \/ Accept(c)
        \/ ReadFrame(c) \/ ReadGarbage(c)
        \/ Backstop(c)
        \/ HandlerReplies(c) \/ HandlerThrows(c)
        \/ HandlerSubscribes(c) \/ HandlerHolds(c)
        \/ HeldSettles(c)
        \/ Flush(c)
        \/ FeedDrops(c)
        \/ PeerLeaves(c)

Spec == Init /\ [][Next]_vars

\* The loop runs a timer that is due; a handler, held work and a write are not
\* promised to settle.
FairSpec == Spec /\ \A c \in Conns : WF_vars(Backstop(c))

-----------------------------------------------------------------------------

\* Every connection's state, timers, work and flush have their types.
TypeOK ==
    /\ state \in [Conns -> States]
    /\ work \in [Conns -> {"none", "handling", "held", "done"}]
    /\ frame \in [Conns -> {"none", "request", "url", "garbage"}]
    /\ timer \subseteq Conns
    /\ counted \in Nat
    /\ timeouts \in Nat
    /\ feed \subseteq Conns
    /\ refused \subseteq Conns
    /\ answers \in [Conns -> Nat]
    /\ flush \in [Conns -> [out : BOOLEAN, exit : BOOLEAN, holds : BOOLEAN]]
    /\ delivered \subseteq Conns
    /\ peerGone \subseteq Conns
    /\ aborted \subseteq Conns
    /\ wish \in [Conns -> {"none", "flushing", "performed", "dropped", "lost"}]
    /\ exited \in BOOLEAN

\* One request has one answer: whatever order the reply, the backstop, a throw
\* and a close arrive in, a connection writes at most one frame.
OneAnswer == \A c \in Conns : answers[c] <= 1

\* daemon-stats' in-flight and timed-out counts are exactly the connections the
\* states say are in flight and past the deadline: nothing leaks, nothing is
\* counted twice, however the connection ended.
StatsAreExact ==
    /\ counted = Cardinality({c \in Conns : Accepted(c) /\ InFlight(state[c])})
    /\ timeouts = Cardinality({c \in Conns : TimedOut(state[c])})

\* The backstop's timer is set in exactly the states a deadline means something
\* in: none survives an answer, a stream or a close to fire over it.
TimersMatchStates ==
    timer = {c \in Conns : Accepted(c) /\ BackstopArmed(state[c])}

\* A stream is fed until it ends or is refused, and no longer: no subscriber
\* outlives its socket, none is taken for a client told TIMEOUT or gone, and a
\* connection that streams unfed was told SWITCHED_OFF, the one thing written
\* to end it.
NoOrphanSubscriber ==
    /\ feed = {c \in Conns : state[c] = Streaming} \ refused
    /\ feed \cap peerGone = {}
    /\ \A c \in refused : answers[c] = 0 /\ ~TimedOut(state[c])

\* An exit a reply carries (a shutdown, a newer client's version mismatch) is
\* performed, waits on its own answer's flush, or is dropped; it is dropped only
\* when the client was told TIMEOUT, and never performed then.
ExitIsAccounted ==
    \A c \in Conns :
        /\ wish[c] # "lost"
        /\ wish[c] = "dropped" => TimedOut(state[c])
        /\ wish[c] \in {"flushing", "performed"} => ~TimedOut(state[c])
        /\ wish[c] = "flushing" <=> flush[c].out /\ flush[c].exit

\* Held work (a recording) runs only for a client that waits for it: one that
\* hung up has its work told to stop, and one told TIMEOUT never started any.
HeldWorkHasAClient ==
    \A c \in Conns :
        work[c] = "held" =>
            /\ c \in peerGone <=> c \in aborted
            /\ ~TimedOut(state[c])
            /\ c \notin peerGone => state[c] = HeldOpen

\* The verdict the handlers poll is final: a connection past its deadline never
\* reads as within it again, whatever closes or settles it.
TimeoutIsFinal ==
    [][\A c \in Conns : TimedOut(state[c]) => TimedOut(state'[c])]_vars

\* A client that waits is answered, even while its handler never settles: it
\* leaves the two waiting states, or the daemon exits.
WaitingEnds ==
    \A c \in Conns :
        state[c].kind \in {"awaiting", "answering"}
            ~> exited \/ state[c].kind \notin {"awaiting", "answering"}

=============================================================================
