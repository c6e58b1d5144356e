----------------------------- MODULE FrameFeed -----------------------------
(***************************************************************************)
(* A session's frame feeds (frame-feed.ts).  A feed exists while someone   *)
(* follows the session; it draws one frame at a time off one timer, set    *)
(* sooner by a wake and never later.  A frame step is one turn, but what   *)
(* it calls calls back: the render wakes, and a subscriber's sink wakes,   *)
(* subscribes or leaves while the push walks the followers.  So the step's *)
(* stages are actions, and so is each call in.  A feed that ended is kept  *)
(* here, for the step that still holds it.                                 *)
(*                                                                         *)
(* A frame is the version of the world its render read.  Time is what has  *)
(* passed since the last frame and what is left to the next.               *)
(***************************************************************************)
EXTENDS Integers, FiniteSets, Sequences

CONSTANTS
    Subs,           \* the subscribers
    LaneOf,         \* the lane each draws
    Moving, Still,  \* the shortest and the longest period between frames
    None,
    MaxWorld,       \* bound: how often what the bar shows changes
    MaxFeeds,       \* bound: the feeds opened one after another
    MaxFaults       \* bound: the renders that throw

Lanes == {LaneOf[s] : s \in Subs}

ASSUME FeedAssumption ==
    /\ Moving \in Nat \ {0} /\ Still \in Nat /\ Moving <= Still
    /\ None \notin Int
    /\ MaxWorld \in Nat /\ MaxFeeds \in Nat /\ MaxFaults \in Nat

VARIABLES
    feeds,      \* the feeds opened so far, the newest last
    open,       \* whether the newest is the session's feed
    sent,       \* what each follower was sent last, or None
    step,       \* the frame step under way
    world, view, on, shown,
    faults

vars == <<feeds, open, sent, step, world, view, on, shown, faults>>
session == <<world, view, on, shown, faults>>

NoStep == [feed |-> 0, stage |-> "none", frame |-> 0, left |-> {}]
NewFeed == [followers |-> {}, out |-> [l \in Lanes |-> None], last |-> None,
            phase |-> "waiting", due |-> 0, since |-> Still, woke |-> FALSE]

Current == Len(feeds)
Following == IF open THEN feeds[Current].followers ELSE {}
Spacing == IF shown THEN Moving ELSE Still
Later(a, b) == IF a < b THEN b ELSE a

-----------------------------------------------------------------------------
(* What a turn does to a feed.                                              *)

\* The timer is never set later than it already falls due.
Arm(f, wait) == IF f.phase = "due" /\ f.due <= wait THEN f
                ELSE [f EXCEPT !.phase = "due", !.due = wait]

\* Mutant: a wake draws at once.
HastenAtOnce(f) == IF f.phase = "rendering" THEN f ELSE Arm(f, 0)

\* The next frame comes as early as its spacing allows; a frame that renders
\* reads what woke it.
Hasten(f) == IF f.phase = "rendering" THEN f
             ELSE Arm(f, Later(0, Spacing - f.since))

Woken(f) == Hasten(IF f.phase = "rendering" THEN f ELSE [f EXCEPT !.woke = TRUE])

\* The next frame when the bar next changes, which may be any time from here.
Scheduled(f) == IF shown THEN {Arm(f, p) : p \in Moving..Still} ELSE {Arm(f, Still)}

\* Mutant: a lane that opens late starts with no frame.
JoinedBlank(f, s) == [f EXCEPT !.followers = @ \cup {s}]

\* A follower joins; a lane it opens encodes the last frame.
Joined(f, s) == [f EXCEPT !.followers = @ \cup {s}, !.out[LaneOf[s]] = f.last]

Without(f, s) ==
    LET rest == f.followers \ {s}
    IN [f EXCEPT !.followers = rest,
                 !.out = [l \in Lanes |-> IF \E r \in rest : LaneOf[r] = l
                                          THEN f.out[l] ELSE None]]

\* Mutant: the last follower's leaving leaves the timer set.
EndedWithTimer(f) == f

\* The last follower leaves, and the timer with it.
Ended(f) == IF f.phase = "due" THEN [f EXCEPT !.phase = "waiting", !.due = 0] ELSE f

\* One follower leaves the open feed.
Unsubscribed(s) ==
    \E f \in {Without(feeds[Current], s)} :
       IF f.followers # {}
       THEN feeds' = [feeds EXCEPT ![Current] = Hasten(f)] /\ UNCHANGED open
       ELSE feeds' = [feeds EXCEPT ![Current] = Ended(f)] /\ open' = FALSE

Wake(cause) ==
    feeds' = IF open THEN [feeds EXCEPT ![Current] = Woken(@)] ELSE feeds

-----------------------------------------------------------------------------
Init == /\ feeds = <<>> /\ open = FALSE
        /\ sent = [s \in Subs |-> None] /\ step = NoStep
        /\ world = 0 /\ view \in BOOLEAN /\ on = [l \in Lanes |-> TRUE]
        /\ shown \in BOOLEAN /\ faults = 0

(* Calls in, in turns of their own or from inside a step.                   *)

\* A lane that is off is refused; else the subscriber is handed the frame as it
\* stands, and the next comes sooner.
Subscribe(s) ==
    /\ s \notin Following /\ step.stage # "render"
    /\ view => on[LaneOf[s]]
    /\ open \/ Len(feeds) < MaxFeeds
    /\ \E f \in {IF open THEN feeds[Current] ELSE NewFeed} :
       \E g \in {Joined(f, s)} :
          /\ feeds' = IF open THEN [feeds EXCEPT ![Current] = Hasten(g)]
                      ELSE Append(feeds, Hasten(g))
          /\ sent' = [sent EXCEPT ![s] = g.out[LaneOf[s]]]
    /\ open' = TRUE
    /\ UNCHANGED <<step, session>>

Unsubscribe(s) ==
    /\ s \in Following
    /\ Unsubscribed(s)
    /\ UNCHANGED <<sent, step, session>>

\* What the bar shows changes, and its feed hears of it.
Change ==
    /\ world < MaxWorld /\ world' = world + 1
    /\ Wake("data")
    /\ UNCHANGED <<open, sent, step, view, on, shown, faults>>

Toggle(l) ==
    /\ step.stage # "render"
    /\ on' = [on EXCEPT ![l] = ~@] /\ Wake("state")
    /\ UNCHANGED <<open, sent, step, world, view, shown, faults>>

Show ==
    /\ step = NoStep
    /\ shown' = ~shown
    /\ feeds' = IF ~open THEN feeds ELSE
         [feeds EXCEPT ![Current] =
            Arm([@ EXCEPT !.woke = TRUE],
                Later(0, (IF shown' THEN Moving ELSE Still) - @.since))]
    /\ UNCHANGED <<open, sent, step, world, view, on, faults>>

\* A view opens with the session's request, and is let go only while no feed
\* pins it.
View ==
    /\ step = NoStep /\ (view => ~open)
    /\ view' = ~view
    /\ Wake("data")
    /\ UNCHANGED <<open, sent, step, world, on, shown, faults>>

Tick ==
    /\ step = NoStep
    /\ feeds' = [g \in DOMAIN feeds |->
          [feeds[g] EXCEPT !.due = Later(0, @ - 1),
                           !.since = IF @ < Still THEN @ + 1 ELSE @]]
    /\ UNCHANGED <<open, sent, step, session>>

(* The frame step.                                                          *)

Fire(g) ==
    /\ step = NoStep /\ feeds[g].phase = "due" /\ feeds[g].due = 0
    /\ feeds' = [feeds EXCEPT ![g].phase = "rendering", ![g].woke = FALSE]
    /\ step' = [NoStep EXCEPT !.feed = g, !.stage = "render"]
    /\ UNCHANGED <<open, sent, session>>

IsOpen(g) == open /\ g = Current

\* The step's end: the next frame is set, if the feed is still the session's.
Ends(f) ==
    /\ step' = NoStep
    /\ IF IsOpen(step.feed)
         THEN \E h \in Scheduled(f) : feeds' = [feeds EXCEPT ![step.feed] = h]
         ELSE feeds' = [feeds EXCEPT ![step.feed] = f]

\* No view to draw: the feed waits for the one that opens to wake it.
NoView ==
    /\ step.stage = "render" /\ ~view
    /\ feeds' = [feeds EXCEPT ![step.feed].phase = "waiting"]
    /\ step' = NoStep
    /\ UNCHANGED <<open, sent, session>>

\* Mutant: a render that throws sets no next frame.
ThrowsUnset ==
    /\ step.stage = "render" /\ faults < MaxFaults
    /\ faults' = faults + 1
    /\ feeds' = [feeds EXCEPT ![step.feed].phase = "waiting", ![step.feed].since = 0]
    /\ step' = NoStep
    /\ UNCHANGED <<open, sent, world, view, on, shown>>

\* A render that throws spaces the next as one that drew.
Throws ==
    /\ step.stage = "render" /\ faults < MaxFaults
    /\ faults' = faults + 1
    /\ Ends([feeds[step.feed] EXCEPT !.since = 0])
    /\ UNCHANGED <<open, sent, world, view, on, shown>>

Drawn == [feeds[step.feed] EXCEPT !.phase = "pushing", !.since = 0]

\* The frame is drawn; with its feed gone meanwhile, so is its step.
Rendered ==
    /\ step.stage = "render" /\ view
    /\ feeds' = [feeds EXCEPT ![step.feed] = Drawn]
    /\ step' = IF ~IsOpen(step.feed) THEN NoStep
               ELSE [step EXCEPT !.stage = "gate", !.frame = world,
                                 !.left = feeds[step.feed].followers]
    /\ UNCHANGED <<open, sent, session>>

\* The lanes switched off as the frame goes out lose their followers, and each
\* is told.
Gate(s) ==
    /\ step.stage = "gate" /\ s \in step.left
    /\ step' = [step EXCEPT !.left = @ \ {s}]
    /\ IF ~on[LaneOf[s]] /\ s \in feeds[step.feed].followers
         THEN Unsubscribed(s) ELSE UNCHANGED <<feeds, open>>
    /\ UNCHANGED <<sent, session>>

Unchanged(f) == /\ f.last = step.frame
                /\ \A s \in f.followers : f.out[LaneOf[s]] = step.frame

\* The frame becomes each lane's, unless every lane already shows it.
Encode ==
    /\ step.stage = "gate" /\ step.left = {}
    /\ \E f \in {feeds[step.feed]} :
       IF f.followers = {} \/ Unchanged(f) THEN Ends(f)
       ELSE /\ feeds' = [feeds EXCEPT ![step.feed].last = step.frame,
                 ![step.feed].out = [l \in Lanes |->
                     IF \E s \in f.followers : LaneOf[s] = l THEN step.frame ELSE None]]
            /\ step' = [step EXCEPT !.stage = "send", !.left = Subs]
    /\ UNCHANGED <<open, sent, session>>

ToSend == step.left \cap feeds[step.feed].followers

\* The push walks the followers as they are by then.
Send(s) ==
    /\ step.stage = "send" /\ s \in ToSend
    /\ sent' = [sent EXCEPT ![s] = feeds[step.feed].out[LaneOf[s]]]
    /\ step' = [step EXCEPT !.left = @ \ {s}]
    /\ UNCHANGED <<feeds, open, session>>

Pushed ==
    /\ step.stage = "send" /\ ToSend = {}
    /\ Ends(feeds[step.feed])
    /\ UNCHANGED <<open, sent, session>>

Step == NoView \/ Rendered \/ Encode \/ Pushed \/ \E s \in Subs : Gate(s) \/ Send(s)

Next == \/ \E s \in Subs : Subscribe(s) \/ Unsubscribe(s)
        \/ \E l \in Lanes : Toggle(l)
        \/ Change \/ Show \/ View \/ Tick
        \/ \E g \in DOMAIN feeds : Fire(g)
        \/ Throws \/ Step

Spec == Init /\ [][Next]_vars

\* Time passes, a timer that is due fires and a step that began ends.
FairSpec == /\ Spec /\ WF_vars(Tick) /\ WF_vars(Step \/ Throws)
            /\ WF_vars(\E g \in DOMAIN feeds : Fire(g))

-----------------------------------------------------------------------------
\* A feed has followers exactly while it is the session's, and one that ended
\* has no timer, even where its last follower left from inside its own push.
FeedsAreFollowed ==
    \A g \in DOMAIN feeds :
       /\ IsOpen(g) <=> feeds[g].followers # {}
       /\ ~IsOpen(g) => feeds[g].phase # "due"

\* A wake no frame has answered has a timer, and as soon a one as the spacing
\* allows: charged to a frame that had read its values already, it would have
\* none, or the still period's.
WakeIsSoon ==
    \A g \in DOMAIN feeds : IsOpen(g) /\ feeds[g].woke =>
       /\ feeds[g].phase = "due"
       /\ feeds[g].due <= Later(0, Spacing - feeds[g].since)

\* Two frames of a feed are never closer than the moving period, however often
\* it is woken, faults or opens a lane.
FramesAreSpaced ==
    [][\A g \in DOMAIN feeds :
          feeds'[g].phase = "rendering" /\ feeds[g].phase # "rendering" =>
             feeds[g].since >= Moving]_vars

\* Between steps every follower of a drawn session has been sent what its lane
\* shows, and all the lanes show one frame.
FollowersAgree ==
    step = NoStep /\ open => \A s \in Following : sent[s] = feeds[Current].last

\* A follower is at last sent each change, or a later one, unless it leaves, its
\* lane is off or its session has no view.
ChangesAreSent ==
    \A s \in Subs : \A v \in 0..MaxWorld :
       (s \in Following /\ world = v)
          ~> (s \notin Following \/ ~view \/ ~on[LaneOf[s]] \/ (sent[s] # None /\ sent[s] >= v))

=============================================================================
