------------------------------- MODULE Effects -------------------------------
(***************************************************************************)
(* What a turn leaves to be done after it (apply.ts): the effects a click  *)
(* or a request describes take their places in the orders they keep        *)
(* (journal-turns.ts, keyed-serial-queue.ts) in the call that commits the  *)
(* turn, and each runs once its place and its event's earlier effects let  *)
(* it.  A lane's setup (lane-setup.ts) takes its places in a pane late,    *)
(* from inside its lane's place; a doctor's gather takes one from inside   *)
(* its session's.                                                          *)
(*                                                                         *)
(* A place is held from the call that takes it until what it is for has    *)
(* ended; its number says which of two was taken first.                    *)
(***************************************************************************)
EXTENDS Integers, FiniteSets, Sequences, SequencesExt

CONSTANTS
    Sessions,
    Panes,          \* the tmux panes a session's requests may come from
    Home,           \* the pane each session's request came from at first
    Lanes,          \* the lanes with a toggle of their own, in tmux or not
    Offers,         \* what a click's own steps describe: sequences of kinds
    Gone,           \* this daemon holds no request of the session
    NoTmux,         \* the session's last request came from outside tmux
    MaxOwed,        \* how many sessions' owed setups are kept
    MaxClicks,      \* bound: clicks
    MaxMoves        \* bound: requests from somewhere else, and evictions

Kinds == {"launch", "run", "doctor", "slash"}

ASSUME EffectsAssumption ==
    /\ IsFiniteSet(Sessions) /\ IsFiniteSet(Lanes)
    /\ Home \in [Sessions -> Panes]
    /\ Offers \subseteq Seq(Kinds)
    /\ Gone \notin Panes /\ NoTmux \notin Panes /\ Gone # NoTmux
    /\ MaxOwed \in Nat /\ MaxClicks \in Nat /\ MaxMoves \in Nat

VARIABLES
    places,     \* the places taken and not let go yet
    latest,     \* where each session's latest request came from
    switch,     \* each session's lane switches
    owed,       \* LaneSetups.owed, least recently owed first
    closed,
    clicks,     \* auxiliary: how many clicks came
    moves,      \* auxiliary: how often a session moved
    brought,    \* auxiliary: where the last setup to end left each lane
    dropped     \* auxiliary: the lanes whose debt went over the bound

vars == <<places, latest, switch, owed, closed, clicks, moves, brought,
          dropped>>

Session(s) == <<"session", s>>
Pane(p) == <<"pane", p>>
Lane(s, l) == <<"lane", s, l>>
Gathers == <<"gathers">>

LaneKeys == {Lane(s, l) : s \in Sessions, l \in Lanes}
Keys == {Session(s) : s \in Sessions} \cup {Pane(p) : p \in Panes}
        \cup LaneKeys \cup {Gathers}

Outcomes == {"none", "ok", "failed", "moved", "outside"}

Places == [id : Nat \ {0},
           kind : Kinds \cup {"setup", "step", "gather"},
           session : Sessions,
           key : Keys,
           on : BOOLEAN,        \* a setup's: what it brings its lane to
           after : Nat,         \* its event's effect before it, 0 where none
           host : Nat,          \* the effect that took it from inside, or 0
           acting : BOOLEAN,
           step : Outcomes]     \* a setup's: what its last step came to

Place(kind, s, key) ==
    [id |-> 0, kind |-> kind, session |-> s, key |-> key, on |-> FALSE,
     after |-> 0, host |-> 0, acting |-> FALSE, step |-> "none"]

-----------------------------------------------------------------------------
(* Taking places.                                                          *)

LastId == Max({0} \cup {r.id : r \in places})

\* The order each kind of effect takes its place in.
PlaceOf(kind, s) == IF kind = "slash" THEN Pane(latest[s]) ELSE Session(s)

Described(s, offer) ==
    [n \in DOMAIN offer |-> Place(offer[n], s, PlaceOf(offer[n], s))]

\* What comes before the nth of what an event describes: a setup comes after
\* every other effect, and each kind keeps the order it was described in.
Before(described, n) ==
    LET Late(m) == described[m].kind = "setup"
    IN  {m \in DOMAIN described : IF Late(m) = Late(n) THEN m < n ELSE Late(n)}

\* performInOrder: each effect waits in its place for the one before it.
InTurn(described, n) ==
    LET nth == LastId + 1 + Cardinality(Before(described, n))
    IN  [described[n] EXCEPT
            !.id = nth,
            !.after = IF Before(described, n) = {} THEN 0 ELSE nth - 1]

InOrder(described) == {InTurn(described, n) : n \in DOMAIN described}

Perform(described) == places' = places \cup InOrder(described)

\* What r is performing takes a place of its own, which r waits for.
TakeInside(r, held, kind, key) ==
    places' = (places \ {r}) \cup
        {held, [Place(kind, r.session, key) EXCEPT !.id = LastId + 1, !.host = r.id]}

-----------------------------------------------------------------------------
(* What clicks leave owed.  A debt is a lane and where its switch stood.   *)

OwedTo(s) == UNION {o.debts : o \in {o \in Range(owed) : o.session = s}}
Taken(s) ==
    LET At(i) == owed[i].session = s
    IN  IF \E i \in DOMAIN owed : At(i)
        THEN RemoveAt(owed, CHOOSE i \in DOMAIN owed : At(i)) ELSE owed

\* Mutant: where a lane stood is where the last of the moves found it.
DebtsForget(s, toggled) ==
    {d \in OwedTo(s) : d.lane \notin toggled}
    \cup {[lane |-> l, from |-> switch[s][l]] : l \in toggled}

\* Mutant: a click's moves take the place of what was owed.
DebtsOfClick(s, toggled) ==
    {[lane |-> l, from |-> switch[s][l]] : l \in toggled}

\* A click's moves join what is owed already, which keeps where it stood.
Debts(s, toggled) ==
    OwedTo(s) \cup {[lane |-> l, from |-> switch[s][l]] :
                      l \in toggled \ {d.lane : d \in OwedTo(s)}}

\* settled: a lane whose switch stands where the lane is owes nothing.
Moved(debts, now) == {d \in debts : now[d.lane] # d.from}

Settled(s, debts, now) ==
    SetToSeq({[Place("setup", s, Lane(s, d.lane)) EXCEPT !.on = now[d.lane]] :
                d \in Moved(debts, now)})

\* The bound on the sessions owed to: the least recently owed is dropped.
Remember(s, debts) ==
    LET all == IF debts = {} THEN Taken(s)
               ELSE Append(Taken(s), [session |-> s, debts |-> debts])
        kept == Len(all) <= MaxOwed
    IN  /\ owed' = IF kept THEN all ELSE Tail(all)
        /\ dropped' = IF kept THEN dropped
                      ELSE dropped \cup {Lane(all[1].session, d.lane) : d \in all[1].debts}

-----------------------------------------------------------------------------
(* When a place is reached, and let go.                                    *)

\* KeyedSerialQueue: each key's places one at a time, in the order taken.
First(r) == \A q \in places : q.key = r.key => q.id >= r.id

\* The task of an effect first waits for its event's effect before it.
Reached(r) ==
    /\ ~r.acting /\ First(r)
    /\ \A q \in places : q.id # r.after

Inner(r) == {q \in places : q.host = r.id}

Begin(r) == places' = (places \ {r}) \cup {[r EXCEPT !.acting = TRUE]}

\* Mutant: a step that fails never lets its pane go.
LetGoUnlessFailed(r, out) ==
    places' = {IF q.id = r.host THEN [q EXCEPT !.step = out] ELSE q :
                 q \in places \ (IF r.kind = "step" /\ out = "failed" THEN {} ELSE {r})}

\* A place settles, however what it is for ended, and tells whoever took it
\* from inside its own.
LetGo(r, out) ==
    places' = {IF q.id = r.host THEN [q EXCEPT !.step = out] ELSE q :
                 q \in places \ {r}}

-----------------------------------------------------------------------------

\* A daemon that holds a request of each session, none of which has moved a lane.
Init ==
    /\ places = {}
    /\ latest = Home
    /\ switch = [s \in Sessions |-> [l \in Lanes |-> FALSE]]
    /\ owed = <<>>
    /\ closed = FALSE
    /\ clicks = 0
    /\ moves = 0
    /\ brought = [s \in Sessions |-> [l \in Lanes |-> "off"]]
    /\ dropped = {}

\* A request's turn: the session is where it says, and what its clicks owe is
\* settled.
Request(s) ==
    /\ ~closed /\ moves < MaxMoves
    /\ moves' = moves + 1
    /\ \E p \in (Panes \cup {NoTmux}) \ {latest[s]} :
         latest' = [latest EXCEPT ![s] = p]
    /\ owed' = Taken(s)
    /\ Perform(Settled(s, OwedTo(s), switch[s]))
    /\ UNCHANGED <<switch, closed, clicks, brought, dropped>>

\* The daemon stops holding the session's request: others were drawn since.
Evict(s) ==
    /\ latest[s] # Gone /\ moves < MaxMoves
    /\ moves' = moves + 1
    /\ latest' = [latest EXCEPT ![s] = Gone]
    /\ UNCHANGED <<places, switch, owed, closed, clicks, brought, dropped>>

\* A click's turn, and LaneSetups.clicked after its commit: a slash only where
\* the session has a pane; the lanes it moved are settled, or owed.
Click(s) ==
    /\ ~closed /\ clicks < MaxClicks
    /\ clicks' = clicks + 1
    /\ \E offer \in Offers, toggled \in SUBSET Lanes :
         LET now == [l \in Lanes |-> switch[s][l] # (l \in toggled)]
             debts == Debts(s, toggled)
         IN  /\ offer # <<>> \/ toggled # {}
             /\ "slash" \in Range(offer) => latest[s] \in Panes
             /\ switch' = [switch EXCEPT ![s] = now]
             /\ IF latest[s] # Gone
                  THEN /\ owed' = Taken(s) /\ UNCHANGED dropped
                       /\ Perform(Described(s, offer) \o Settled(s, debts, now))
                  ELSE /\ Remember(s, Moved(debts, now))
                       /\ Perform(Described(s, offer))
    /\ UNCHANGED <<latest, closed, moves, brought>>

Unsaid == UNCHANGED <<latest, switch, owed, closed, clicks, moves, dropped>>

\* A launch, a run or a typed line starts; a run still queued at the close is
\* refused.
Act(r) ==
    /\ Reached(r) /\ r.kind \in {"launch", "run", "slash"}
    /\ IF closed /\ r.kind = "run" THEN LetGo(r, "failed") ELSE Begin(r)
    /\ UNCHANGED brought /\ Unsaid

\* A doctor's step takes its gather's place, one at a time daemon-wide.
Doctor(r) ==
    /\ Reached(r) /\ r.kind = "doctor"
    /\ TakeInside(r, [r EXCEPT !.acting = TRUE], "gather", Gathers)
    /\ UNCHANGED brought /\ Unsaid

Gather(r) ==
    /\ Reached(r) /\ r.kind = "gather"
    /\ IF closed THEN LetGo(r, "failed") ELSE Begin(r)
    /\ UNCHANGED brought /\ Unsaid

Left(r, at) == brought' = [brought EXCEPT ![r.session][r.key[3]] = at]

\* LaneSetups.setup and laneRun's first read of the session.
Setup(r) ==
    /\ Reached(r) /\ r.kind = "setup"
    /\ IF closed \/ latest[r.session] = Gone
         THEN LetGo(r, "failed") /\ Left(r, "unknown")
         ELSE Begin(r) /\ UNCHANGED brought
    /\ Unsaid

\* laneRun's inPane: the step waits in the order of the pane the session is in
\* now; the first time, or again once it has let a pane the session left go.
TakePane(r) ==
    /\ r.kind = "setup" /\ r.acting /\ Inner(r) = {} /\ r.step \in {"none", "moved"}
    /\ latest[r.session] \in Panes
    /\ TakeInside(r, r, "step", Pane(latest[r.session]))
    /\ UNCHANGED brought /\ Unsaid

\* Where a step finds the session once it has its pane.
Found(r) ==
    LET at == latest[r.session] IN
    CASE closed \/ at = Gone -> "failed"
      [] at = NoTmux -> "outside"
      [] at \in Panes /\ Pane(at) # r.key -> "moved"
      [] OTHER -> "ok"

\* Mutant: a step takes the pane the session moved to while it holds the first.
StepKeepsPane(r) ==
    /\ Reached(r) /\ r.kind = "step"
    /\ CASE Found(r) = "ok" -> Begin(r)
         [] Found(r) = "moved" -> TakeInside(r, [r EXCEPT !.acting = TRUE], "step",
                                             Pane(latest[r.session]))
         [] OTHER -> LetGo(r, Found(r))
    /\ UNCHANGED brought /\ Unsaid

\* The step holds its pane: it acts where the session still is, and lets go of
\* a pane the session left.
Step(r) ==
    /\ Reached(r) /\ r.kind = "step"
    /\ IF Found(r) = "ok" THEN Begin(r) ELSE LetGo(r, Found(r))
    /\ UNCHANGED brought /\ Unsaid

\* What is performed ends, and its outcome lands in its place: how it went is
\* nothing to the orders, but to the setup whose step it was.
End(r) ==
    /\ r.acting /\ r.kind # "setup" /\ Inner(r) = {}
    /\ \/ LetGo(r, "ok")
       \/ r.kind = "step" /\ LetGo(r, "failed")
    /\ UNCHANGED brought /\ Unsaid

\* How a setup may end: as its step did; with no pane to act in, which only
\* turning a lane off can do without; or, before it takes a step, either way.
Ends(r) ==
    LET at == latest[r.session]
        outside == {IF r.on THEN "failed" ELSE "ok"}
    IN  CASE r.step = "none" -> {"ok", "failed"}
          [] r.step = "moved" -> CASE at = Gone -> {"failed"}
                                   [] at = NoTmux -> outside
                                   [] OTHER -> {}
          [] r.step = "outside" -> outside
          [] OTHER -> {r.step}

EndSetup(r) ==
    /\ r.kind = "setup" /\ r.acting /\ Inner(r) = {}
    /\ \E out \in Ends(r) :
         /\ LetGo(r, out)
         /\ Left(r, IF out = "failed" THEN "unknown" ELSE IF r.on THEN "on" ELSE "off")
    /\ Unsaid

\* The turns and the setups close with the daemon; what runs goes on.
Close ==
    /\ ~closed
    /\ closed' = TRUE
    /\ UNCHANGED <<places, latest, switch, owed, clicks, moves, brought,
                   dropped>>

Runs(r) ==
    \/ Act(r) \/ Doctor(r) \/ Gather(r) \/ Setup(r) \/ TakePane(r) \/ Step(r)
    \/ End(r) \/ EndSetup(r)

Next ==
    \/ \E s \in Sessions : Request(s) \/ Evict(s) \/ Click(s)
    \/ \E r \in places : Runs(r)
    \/ Close

Spec == Init /\ [][Next]_vars

\* The loop runs what is ready, and every act is bounded by its performer.
FairSpec == Spec /\ WF_vars(\E r \in places : Runs(r))

-----------------------------------------------------------------------------

\* Every place, where each session is, its switches and what it is owed have
\* their types.
TypeOK ==
    /\ places \subseteq Places /\ IsFiniteSet(places)
    /\ latest \in [Sessions -> Panes \cup {Gone, NoTmux}]
    /\ switch \in [Sessions -> [Lanes -> BOOLEAN]]
    /\ owed \in Seq([session : Sessions, debts : SUBSET [lane : Lanes, from : BOOLEAN]])
    /\ closed \in BOOLEAN
    /\ clicks \in 0..MaxClicks /\ moves \in 0..MaxMoves
    /\ brought \in [Sessions -> [Lanes -> {"on", "off", "unknown"}]]
    /\ dropped \subseteq LaneKeys

\* What a place waits on: its key's places before it and its event's effect
\* before it, and, once it is performed, what it took a place for.
WaitsOn(r) ==
    IF r.acting THEN Inner(r)
    ELSE {q \in places : (q.key = r.key /\ q.id < r.id) \/ q.id = r.after}

\* No effects wait on each other in a circle, whatever their events' orders,
\* their sessions', panes' and lanes' places, the gathers, and the places setups
\* take late in panes their sessions come and go from.
NoCircle ==
    \A waiting \in (SUBSET places) \ {{}} :
        \E r \in waiting : WaitsOn(r) \cap waiting = {}

\* Once a lane's setups are over and nothing is owed for it, what the last of
\* them left it at is where its session's clicks left its switch, unless that
\* one failed, or a debt of the lane went over the bound, which the log says.
LaneFollowsSwitch ==
    \A s \in Sessions, l \in Lanes :
        (/\ l \notin {d.lane : d \in OwedTo(s)}
         /\ \A r \in places : r.kind = "setup" => r.key # Lane(s, l)
         /\ brought[s][l] # "unknown" /\ Lane(s, l) \notin dropped)
        => brought[s][l] = IF switch[s][l] THEN "on" ELSE "off"

\* Where a lane is, or is on its way: as its last setup brings it, or brought it.
Heading(k, at) ==
    LET setups == {r \in places : r.kind = "setup" /\ r.key = k}
        last == CHOOSE r \in setups : \A q \in setups : q.id <= r.id
    IN  IF setups = {} THEN at ELSE IF last.on THEN "on" ELSE "off"

\* A setup may restart a Claude Code: none is described for a lane that is, or
\* is on its way, where it would bring it.
NoNeedlessSetup ==
    [][\A r \in places' \ places :
         r.kind = "setup" /\ ~r.acting /\ r.key \notin dropped
             => Heading(r.key, brought[r.session][r.key[3]]) # IF r.on THEN "on" ELSE "off"]_vars

\* Every effect a turn described is performed or refused, and lets its place go.
EffectsLand == []<>(places = {})

=============================================================================
