-------------------------- MODULE FrameFeedProofs --------------------------
(***************************************************************************)
(* Proofs about FrameFeed, for any subscribers, lanes and periods.  What a *)
(* step may do to a feed is put together from a few operators on the feed  *)
(* alone, so the lemmas are about those: what each leaves of a sound feed, *)
(* whose timer is spaced, and of a prompt one, whose wake has a timer.     *)
(***************************************************************************)
EXTENDS FrameFeed, SequenceTheorems, TLAPS

Frames == Nat \cup {None}
Phases == {"waiting", "due", "rendering", "pushing"}
FeedType == [followers : SUBSET Subs, out : [Lanes -> Frames], last : Frames,
             phase : Phases, due : Nat, since : Nat, woke : BOOLEAN]
StepType == [feed : Nat, stage : {"none", "render", "gate", "send"},
             frame : Nat, left : SUBSET Subs]

TypeOK ==
    /\ feeds \in Seq(FeedType) /\ step \in StepType
    /\ open \in BOOLEAN /\ sent \in [Subs -> Frames]
    /\ world \in Nat /\ shown \in BOOLEAN

Spaced(f) == f.phase = "due" => f.due + f.since >= Moving

\* A feed's timer is spaced, its followers' lanes show the last frame, and a
\* frame that renders has read what woke it.
Fit(f) == /\ f \in FeedType /\ Spaced(f)
          /\ \A s \in f.followers : f.out[LaneOf[s]] = f.last
Sound(f) == Fit(f) /\ (f.phase = "rendering" => ~f.woke)

Prompt(f) == f.woke => f.phase = "due" /\ f.due <= Later(0, Spacing - f.since)

Followed(g) == (open /\ g = Current) <=> feeds[g].followers # {}

\* A step has a feed of its own, which renders while the step does.
StepOK ==
    /\ step.stage = "none" <=> step = NoStep
    /\ step # NoStep => step.feed \in DOMAIN feeds
    /\ step.stage = "render" => feeds[step.feed].phase = "rendering"

\* A follower was sent the last frame, or is about to be.
Agreed ==
    open => \A s \in Following :
        \/ sent[s] = feeds[Current].last
        \/ step.stage = "send" /\ step.feed = Current /\ s \in step.left

FeedsOK == /\ open => feeds # <<>>
           /\ \A g \in DOMAIN feeds :
                /\ Sound(feeds[g]) /\ Followed(g)
                /\ IsOpen(g) => Prompt(feeds[g])
                /\ ~IsOpen(g) => feeds[g].phase # "due"

IInv == TypeOK /\ FeedsOK /\ StepOK /\ Agreed

-----------------------------------------------------------------------------
(* What the operators leave of a feed.                                     *)

LEMMA ArmLeaves ==
    ASSUME NEW f \in FeedType, NEW wait \in Nat, Fit(f), wait + f.since >= Moving
    PROVE  /\ Arm(f, wait) \in FeedType /\ Sound(Arm(f, wait))
           /\ Arm(f, wait).phase = "due" /\ Arm(f, wait).due <= wait
           /\ Arm(f, wait).followers = f.followers /\ Arm(f, wait).out = f.out
           /\ Arm(f, wait).last = f.last /\ Arm(f, wait).since = f.since
           /\ Arm(f, wait).woke = f.woke
           /\ f.phase = "due" => Arm(f, wait).due <= f.due
<1>1. CASE f.phase = "due" /\ f.due <= wait
  BY <1>1 DEF Arm, Sound, FeedType
<1>2. CASE ~(f.phase = "due" /\ f.due <= wait)
  <2> DEFINE g == [f EXCEPT !.phase = "due", !.due = wait]
  <2>1. /\ g \in FeedType /\ g.phase = "due" /\ g.due = wait
        /\ g.followers = f.followers /\ g.out = f.out
        /\ g.last = f.last /\ g.since = f.since /\ g.woke = f.woke
    BY DEF FeedType, Phases
  <2>2. f.due \in Nat
    BY DEF FeedType
  <2>3. Arm(f, wait) = g
    BY <1>2 DEF Arm
  <2> HIDE DEF g
  <2>4. Sound(g)
    BY <2>1 DEF Sound, Fit, Spaced
  <2> QED
    BY <1>2, <2>1, <2>2, <2>3, <2>4
<1> QED
  BY <1>1, <1>2

LEMMA Wait ==
    ASSUME NEW f \in FeedType, shown \in BOOLEAN
    PROVE  /\ Spacing \in Nat /\ Later(0, Spacing - f.since) \in Nat
           /\ Later(0, Spacing - f.since) + f.since >= Moving
BY FeedAssumption DEF Later, Spacing, FeedType

LEMMA HastenLeaves ==
    ASSUME NEW f \in FeedType, Sound(f), shown \in BOOLEAN
    PROVE  /\ Hasten(f) \in FeedType /\ Sound(Hasten(f)) /\ Prompt(Hasten(f))
           /\ Hasten(f).followers = f.followers /\ Hasten(f).last = f.last
           /\ Hasten(f).out = f.out
           /\ f.phase = "rendering" => Hasten(f).phase = "rendering"
<1>1. CASE f.phase = "rendering"
  BY <1>1 DEF Hasten, Sound, Prompt
<1>2. CASE f.phase # "rendering"
  <2> DEFINE wait == Later(0, Spacing - f.since)
  <2>1. wait \in Nat /\ wait + f.since >= Moving
    BY Wait
  <2>2. Hasten(f) = Arm(f, wait)
    BY <1>2 DEF Hasten
  <2> QED
    BY <1>2, <2>1, <2>2, ArmLeaves DEF Prompt, Sound
<1> QED
  BY <1>1, <1>2

LEMMA WokenLeaves ==
    ASSUME NEW f \in FeedType, Sound(f), shown \in BOOLEAN
    PROVE  /\ Woken(f) \in FeedType /\ Sound(Woken(f)) /\ Prompt(Woken(f))
           /\ Woken(f).followers = f.followers /\ Woken(f).last = f.last
           /\ f.phase = "rendering" => Woken(f).phase = "rendering"
<1> DEFINE g == IF f.phase = "rendering" THEN f ELSE [f EXCEPT !.woke = TRUE]
<1>1. g \in FeedType /\ Sound(g) /\ g.followers = f.followers /\ g.last = f.last
      /\ g.phase = f.phase
  BY DEF FeedType, Sound, Fit, Spaced
<1>2. Woken(f) = Hasten(g)
  BY DEF Woken
<1> HIDE DEF g
<1> QED
  BY <1>1, <1>2, HastenLeaves

LEMMA ScheduledLeaves ==
    ASSUME NEW f \in FeedType, Sound(f), Prompt(f), shown \in BOOLEAN, NEW h \in Scheduled(f)
    PROVE  /\ h \in FeedType /\ Sound(h) /\ Prompt(h) /\ h.phase = "due"
           /\ h.followers = f.followers /\ h.last = f.last /\ h.out = f.out
<1>1. PICK p \in Nat : p >= Moving /\ h = Arm(f, p)
  BY FeedAssumption DEF Scheduled
<1>2. p + f.since >= Moving
  BY <1>1, FeedAssumption DEF FeedType
<1>3. /\ h \in FeedType /\ Sound(h) /\ h.phase = "due" /\ h.since = f.since /\ h.woke = f.woke
      /\ h.followers = f.followers /\ h.last = f.last /\ h.out = f.out
      /\ f.phase = "due" => h.due <= f.due
  BY <1>1, <1>2, ArmLeaves DEF Sound
<1>4. Prompt(h)
  BY <1>3, Wait DEF Prompt, FeedType
<1> QED
  BY <1>3, <1>4

-----------------------------------------------------------------------------
(* What a step makes of the feeds.                                         *)

\* One feed changes.
LEMMA FeedMoves ==
    ASSUME TypeOK, FeedsOK, NEW g \in DOMAIN feeds, NEW f \in FeedType,
           feeds' = [feeds EXCEPT ![g] = f], open' \in BOOLEAN,
           open' = open \/ g = Current, shown' = shown \/ g = Current,
           Sound(f), (open' /\ g = Current) <=> f.followers # {},
           open' /\ g = Current => Prompt(f)',
           ~(open' /\ g = Current) => f.phase # "due"
    PROVE  /\ FeedsOK' /\ feeds' \in Seq(FeedType) /\ DOMAIN feeds' = DOMAIN feeds
           /\ Len(feeds') = Len(feeds) /\ Len(feeds) \in Nat /\ feeds'[g] = f
           /\ \A h \in DOMAIN feeds \ {g} : feeds'[h] = feeds[h]
<1>1. /\ Len(feeds) \in Nat /\ DOMAIN feeds = 1..Len(feeds)
      /\ feeds \in [1..Len(feeds) -> FeedType]
  BY LenProperties DEF TypeOK
<1>2. /\ feeds' \in [1..Len(feeds) -> FeedType] /\ feeds'[g] = f
      /\ \A h \in DOMAIN feeds \ {g} : feeds'[h] = feeds[h]
  BY <1>1
<1>3. feeds' \in Seq(FeedType) /\ DOMAIN feeds' = DOMAIN feeds /\ Len(feeds') = Len(feeds)
  BY <1>1, <1>2
<1>4. feeds' # <<>>
  BY <1>1, <1>3
<1>5. ASSUME NEW h \in DOMAIN feeds
      PROVE  (/\ Sound(feeds[h]) /\ Followed(h)
              /\ IsOpen(h) => Prompt(feeds[h])
              /\ ~IsOpen(h) => feeds[h].phase # "due")'
  <2>1. CASE h = g
    <3>1. Sound(feeds[h])'
      BY <1>2, <2>1 DEF Sound, Fit, Spaced
    <3>2. Current' = Current
      BY <1>3 DEF Current
    <3> QED
      BY <1>2, <2>1, <3>1, <3>2 DEF Followed, IsOpen, Prompt
  <2>2. CASE h # g
    <3>1. /\ Sound(feeds[h]) /\ Followed(h) /\ feeds'[h] = feeds[h]
          /\ IsOpen(h) => Prompt(feeds[h])
          /\ ~IsOpen(h) => feeds[h].phase # "due"
      BY <1>2, <2>2 DEF FeedsOK
    <3>2. Sound(feeds[h])'
      BY <3>1 DEF Sound, Fit, Spaced
    <3>3. Current' = Current
      BY <1>3 DEF Current
    <3>4. IsOpen(h)' = IsOpen(h) /\ Followed(h)'
      BY <2>2, <3>1, <3>3 DEF IsOpen, Followed, TypeOK
    <3>5. IsOpen(h) => Prompt(feeds[h])'
      BY <2>2, <3>1 DEF Prompt, IsOpen, Spacing
    <3> QED
      BY <3>1, <3>2, <3>4, <3>5
  <2> QED
    BY <2>1, <2>2
<1> QED
  BY <1>1, <1>2, <1>3, <1>4, <1>5 DEF FeedsOK

\* The feed that is the session's, when there is one.
LEMMA CurrentFeed ==
    ASSUME TypeOK, FeedsOK, open
    PROVE  /\ Current \in DOMAIN feeds /\ feeds[Current] \in FeedType
           /\ Sound(feeds[Current]) /\ Prompt(feeds[Current])
           /\ feeds[Current].followers # {} /\ Following = feeds[Current].followers
           /\ IsOpen(Current)
<1>1. Len(feeds) \in Nat /\ DOMAIN feeds = 1..Len(feeds) /\ feeds # <<>>
  BY LenProperties DEF TypeOK, FeedsOK
<1>2. Current \in DOMAIN feeds
  BY <1>1 DEF Current
<1>3. feeds[Current] \in FeedType
  BY <1>2, LenProperties DEF TypeOK
<1> QED
  BY <1>2, <1>3 DEF FeedsOK, Followed, IsOpen, Following

\* A follower of the session's feed leaves it, the feed and maybe the session.
LEMMA LeaveKeeps ==
    ASSUME TypeOK, FeedsOK, NEW s \in Following, open, Unsubscribed(s), shown' = shown
    PROVE  /\ FeedsOK' /\ feeds' \in Seq(FeedType) /\ DOMAIN feeds' = DOMAIN feeds
           /\ Current' = Current /\ open' \in BOOLEAN
           /\ Current \in DOMAIN feeds
           /\ \A h \in DOMAIN feeds :
                /\ feeds'[h].last = feeds[h].last
                /\ feeds[h].phase = "rendering" => feeds'[h].phase = "rendering"
                /\ feeds'[h].followers \subseteq feeds[h].followers
                /\ h # Current => feeds'[h] = feeds[h]
<1> DEFINE c == Current
           f == Without(feeds[c], s)
<1>1. /\ c \in DOMAIN feeds /\ feeds[c] \in FeedType /\ Sound(feeds[c])
      /\ Following = feeds[c].followers
  BY CurrentFeed
<1>2. /\ f \in FeedType /\ Sound(f) /\ f.last = feeds[c].last /\ f.phase = feeds[c].phase
      /\ f.followers = feeds[c].followers \ {s}
  <2> DEFINE rest == feeds[c].followers \ {s}
             out == [l \in Lanes |-> IF \E r \in rest : LaneOf[r] = l
                                     THEN feeds[c].out[l] ELSE None]
  <2>1. out \in [Lanes -> Frames]
    BY <1>1 DEF FeedType, Frames
  <2>2. \A r \in rest : out[LaneOf[r]] = feeds[c].last
    BY <1>1 DEF Sound, Fit, FeedType, Lanes
  <2>3. f = [feeds[c] EXCEPT !.followers = rest, !.out = out]
    BY DEF Without
  <2> HIDE DEF out, rest, f
  <2>4. rest \in SUBSET Subs
    BY <1>1 DEF FeedType, rest
  <2>5. /\ f \in FeedType /\ f.last = feeds[c].last /\ f.phase = feeds[c].phase
        /\ f.followers = rest /\ f.out = out /\ f.woke = feeds[c].woke
        /\ f.due = feeds[c].due /\ f.since = feeds[c].since
    BY <1>1, <2>1, <2>3, <2>4 DEF FeedType
  <2>6. Sound(f)
    BY <1>1, <2>2, <2>5 DEF Sound, Fit, Spaced
  <2> QED
    BY <2>5, <2>6 DEF rest
<1> HIDE DEF f
<1>3. PICK g \in FeedType :
        /\ feeds' = [feeds EXCEPT ![c] = g] /\ Sound(g) /\ g.last = f.last
        /\ f.phase = "rendering" => g.phase = "rendering"
        /\ g.followers = f.followers /\ open' = (f.followers # {})
        /\ open' => Prompt(g)
        /\ ~open' => g.phase # "due"
  <2>1. CASE f.followers # {}
    <3>1. feeds' = [feeds EXCEPT ![c] = Hasten(f)] /\ open' = open
      BY <2>1 DEF Unsubscribed, f
    <3> QED
      BY <1>2, <2>1, <3>1, HastenLeaves DEF TypeOK
  <2>2. CASE f.followers = {}
    <3>1. feeds' = [feeds EXCEPT ![c] = Ended(f)] /\ open' = FALSE
      BY <2>2 DEF Unsubscribed, f
    <3>2. /\ Ended(f) \in FeedType /\ Sound(Ended(f)) /\ Ended(f).last = f.last
          /\ f.phase = "rendering" => Ended(f).phase = "rendering"
          /\ Ended(f).followers = f.followers /\ Ended(f).phase # "due"
      BY <1>2, <2>2 DEF Ended, FeedType, Phases, Sound, Fit, Spaced
    <3> QED
      BY <2>2, <3>1, <3>2
  <2> QED
    BY <2>1, <2>2
<1>4. open' \in BOOLEAN /\ (open' => Prompt(g)')
  BY <1>3 DEF Prompt, Spacing
<1>5. /\ FeedsOK' /\ feeds' \in Seq(FeedType) /\ DOMAIN feeds' = DOMAIN feeds
      /\ Len(feeds') = Len(feeds) /\ feeds'[c] = g
      /\ \A h \in DOMAIN feeds \ {c} : feeds'[h] = feeds[h]
  <2> HIDE DEF c
  <2>1. c = Current
    BY DEF c
  <2> QED
    BY <1>1, <1>3, <1>4, <2>1, FeedMoves
<1>6. Current' = Current
  BY <1>5 DEF Current
<1> HIDE DEF c
<1>7. c = Current
  BY DEF c
<1> QED
  BY <1>1, <1>2, <1>3, <1>4, <1>5, <1>6, <1>7

\* The session's feed is woken.
LEMMA WakeKeeps ==
    ASSUME TypeOK, FeedsOK, NEW cause, Wake(cause), open' = open, shown' = shown
    PROVE  /\ FeedsOK' /\ feeds' \in Seq(FeedType) /\ DOMAIN feeds' = DOMAIN feeds
           /\ Current' = Current
           /\ \A h \in DOMAIN feeds :
                /\ feeds'[h].last = feeds[h].last
                /\ feeds[h].phase = "rendering" => feeds'[h].phase = "rendering"
                /\ feeds'[h].followers = feeds[h].followers
<1>1. CASE open
  <2>1. /\ Current \in DOMAIN feeds /\ feeds[Current] \in FeedType /\ Sound(feeds[Current])
        /\ feeds[Current].followers # {}
    BY <1>1, CurrentFeed
  <2>2. PICK c, f : c = Current /\ f = Woken(feeds[Current])
    OBVIOUS
  <2>3. /\ f \in FeedType /\ Sound(f) /\ Prompt(f) /\ f.followers = feeds[c].followers
        /\ f.last = feeds[c].last
        /\ feeds[c].phase = "rendering" => f.phase = "rendering"
    BY <2>1, <2>2, WokenLeaves DEF TypeOK
  <2>4. feeds' = [feeds EXCEPT ![c] = f]
    BY <1>1, <2>2 DEF Wake
  <2>5. Prompt(f)' /\ open' \in BOOLEAN
    BY <2>3 DEF Prompt, Spacing, TypeOK
  <2>6. /\ FeedsOK' /\ feeds' \in Seq(FeedType) /\ DOMAIN feeds' = DOMAIN feeds
        /\ Len(feeds') = Len(feeds) /\ feeds'[c] = f
        /\ \A h \in DOMAIN feeds \ {c} : feeds'[h] = feeds[h]
    BY <1>1, <2>1, <2>2, <2>3, <2>4, <2>5, FeedMoves
  <2> QED
    BY <2>2, <2>3, <2>6 DEF Current
<1>2. CASE ~open
  <2>1. feeds' = feeds
    BY <1>2 DEF Wake
  <2> QED
    BY <2>1 DEF FeedsOK, Sound, Fit, Spaced, Prompt, Spacing, Followed, IsOpen, Current, TypeOK
<1> QED
  BY <1>1, <1>2

-----------------------------------------------------------------------------
(* The calls in.                                                           *)

\* A call that lets no one in leaves the step and what was sent alone.
LEMMA CallKeeps ==
    ASSUME IInv, FeedsOK', feeds' \in Seq(FeedType), DOMAIN feeds' = DOMAIN feeds,
           Current' = Current, open' \in BOOLEAN, open' => open,
           UNCHANGED <<step, sent>>, world' \in Nat, shown' \in BOOLEAN,
           \A h \in DOMAIN feeds :
              /\ feeds'[h].last = feeds[h].last
              /\ feeds[h].phase = "rendering" /\ step # NoStep => feeds'[h].phase = "rendering"
              /\ feeds'[h].followers \subseteq feeds[h].followers
    PROVE  IInv'
<1>1. TypeOK'
  BY DEF IInv, TypeOK
<1>2. StepOK'
  BY DEF IInv, StepOK, NoStep
<1>3. Agreed'
  <2> SUFFICES ASSUME open', NEW s \in Following'
               PROVE  (\/ sent[s] = feeds[Current].last
                       \/ step.stage = "send" /\ step.feed = Current /\ s \in step.left)'
    BY DEF Agreed
  <2>1. Current \in DOMAIN feeds /\ Following = feeds[Current].followers
    BY CurrentFeed DEF IInv
  <2>2. Following' = feeds'[Current].followers
    BY DEF Following
  <2>3. s \in Following /\ feeds'[Current].last = feeds[Current].last
    BY <2>1, <2>2
  <2> QED
    BY <2>1, <2>3 DEF IInv, Agreed
<1> QED
  BY <1>1, <1>2, <1>3 DEF IInv

LEMMA UnsubscribeKeeps ==
    ASSUME IInv, NEW s \in Subs, Unsubscribe(s) PROVE IInv'
<1>1. /\ s \in Following /\ Unsubscribed(s) /\ UNCHANGED <<sent, step, session>>
      /\ TypeOK /\ FeedsOK /\ open
  BY DEF Unsubscribe, IInv, Following
<1>2. /\ FeedsOK' /\ feeds' \in Seq(FeedType) /\ DOMAIN feeds' = DOMAIN feeds
      /\ Current' = Current /\ open' \in BOOLEAN
      /\ \A h \in DOMAIN feeds :
           /\ feeds'[h].last = feeds[h].last
           /\ feeds[h].phase = "rendering" => feeds'[h].phase = "rendering"
           /\ feeds'[h].followers \subseteq feeds[h].followers
  BY <1>1, LeaveKeeps DEF session
<1> QED
  BY <1>1, <1>2, CallKeeps DEF session, TypeOK

LEMMA WakesKeep ==
    ASSUME IInv, Change \/ View \/ (\E l \in Lanes : Toggle(l)) PROVE IInv'
<1>1. /\ \E cause : Wake(cause)
      /\ UNCHANGED <<open, sent, step, shown>> /\ world' \in Nat
      /\ TypeOK /\ FeedsOK
  BY DEF Change, View, Toggle, IInv, TypeOK
<1>2. /\ FeedsOK' /\ feeds' \in Seq(FeedType) /\ DOMAIN feeds' = DOMAIN feeds
      /\ Current' = Current
      /\ \A h \in DOMAIN feeds :
           /\ feeds'[h].last = feeds[h].last
           /\ feeds[h].phase = "rendering" => feeds'[h].phase = "rendering"
           /\ feeds'[h].followers = feeds[h].followers
  BY <1>1, WakeKeeps
<1> QED
  BY <1>1, <1>2, CallKeeps DEF TypeOK

LEMMA ShowKeeps ==
    ASSUME IInv, Show PROVE IInv'
<1>1. /\ step = NoStep /\ shown' = ~shown /\ UNCHANGED <<open, sent, step, world>>
      /\ TypeOK /\ FeedsOK
  BY DEF Show, IInv
<1>2. PICK c : c = Current
  OBVIOUS
<1>3. CASE open
  <2>1. /\ c \in DOMAIN feeds /\ feeds[c] \in FeedType /\ Sound(feeds[c])
        /\ feeds[c].followers # {} /\ Following = feeds[c].followers
    BY <1>1, <1>2, <1>3, CurrentFeed
  <2>2. PICK f \in FeedType :
          /\ f = [feeds[c] EXCEPT !.woke = TRUE] /\ Fit(f)
          /\ f.followers = feeds[c].followers /\ f.last = feeds[c].last
    <3> DEFINE f == [feeds[c] EXCEPT !.woke = TRUE]
    <3>1. /\ f \in FeedType /\ f.phase = feeds[c].phase /\ f.due = feeds[c].due
          /\ f.since = feeds[c].since /\ f.out = feeds[c].out
          /\ f.followers = feeds[c].followers /\ f.last = feeds[c].last
      BY <2>1 DEF FeedType
    <3> HIDE DEF f
    <3>2. Fit(f)
      BY <2>1, <3>1 DEF Sound, Fit, Spaced
    <3> QED
      BY <3>1, <3>2 DEF f
  <2>3. PICK wait \in Nat :
          /\ wait = Later(0, (IF shown' THEN Moving ELSE Still) - f.since)
          /\ wait + f.since >= Moving
    BY FeedAssumption DEF Later, FeedType
  <2>4. PICK g : g = Arm(f, wait)
    OBVIOUS
  <2>5. /\ g \in FeedType /\ Sound(g) /\ g.phase = "due" /\ g.due <= wait
        /\ g.followers = f.followers /\ g.last = f.last /\ g.since = f.since
    BY <2>2, <2>3, <2>4, ArmLeaves
  <2>6. feeds' = [feeds EXCEPT ![c] = g]
    <3>1. f.since = feeds[c].since
      BY <2>1, <2>2 DEF FeedType
    <3> QED
      BY <1>2, <1>3, <2>2, <2>3, <2>4, <3>1 DEF Show
  <2>7. Prompt(g)'
    BY <2>3, <2>5 DEF Prompt, Spacing
  <2>8. /\ FeedsOK' /\ feeds' \in Seq(FeedType) /\ DOMAIN feeds' = DOMAIN feeds
        /\ Len(feeds') = Len(feeds) /\ feeds'[c] = g
        /\ \A h \in DOMAIN feeds \ {c} : feeds'[h] = feeds[h]
    BY <1>1, <1>2, <1>3, <2>1, <2>2, <2>5, <2>6, <2>7, FeedMoves DEF TypeOK
  <2>9. \A h \in DOMAIN feeds : feeds'[h].last = feeds[h].last
                                /\ feeds'[h].followers = feeds[h].followers
    BY <2>2, <2>5, <2>8
  <2> QED
    BY <1>1, <2>8, <2>9, CallKeeps DEF TypeOK, Current
<1>4. CASE ~open
  <2>1. feeds' = feeds
    BY <1>4 DEF Show
  <2>2. FeedsOK' /\ Current' = Current /\ feeds' \in Seq(FeedType)
    BY <1>1, <1>4, <2>1 DEF FeedsOK, Sound, Fit, Spaced, Followed, IsOpen, Current, TypeOK
  <2> QED
    BY <1>1, <2>1, <2>2, CallKeeps DEF TypeOK
<1> QED
  BY <1>1, <1>3, <1>4 DEF TypeOK

LEMMA TickKeeps ==
    ASSUME IInv, Tick PROVE IInv'
<1>1. /\ step = NoStep /\ UNCHANGED <<open, sent, step, session>> /\ TypeOK /\ FeedsOK
      /\ UNCHANGED <<world, shown>>
  BY DEF Tick, IInv, session
<1>2. /\ Len(feeds) \in Nat /\ DOMAIN feeds = 1..Len(feeds)
      /\ \A g \in DOMAIN feeds : feeds[g] \in FeedType
  BY <1>1, LenProperties DEF TypeOK
<1>3. DOMAIN feeds' = DOMAIN feeds /\ \A g \in DOMAIN feeds :
        feeds'[g] = [feeds[g] EXCEPT !.due = Later(0, @ - 1),
                           !.since = IF @ < Still THEN @ + 1 ELSE @]
  BY DEF Tick
<1>4. ASSUME NEW g \in DOMAIN feeds
      PROVE  /\ feeds'[g] \in FeedType /\ feeds'[g].phase = feeds[g].phase
             /\ feeds'[g].followers = feeds[g].followers /\ feeds'[g].last = feeds[g].last
             /\ feeds'[g].out = feeds[g].out /\ feeds'[g].woke = feeds[g].woke
             /\ feeds'[g].due = Later(0, feeds[g].due - 1)
             /\ feeds'[g].since = IF feeds[g].since < Still THEN feeds[g].since + 1
                                  ELSE feeds[g].since
             /\ feeds[g].due \in Nat /\ feeds[g].since \in Nat
  <2>1. feeds[g].due \in Nat /\ feeds[g].since \in Nat
    BY <1>2 DEF FeedType
  <2>2. Later(0, feeds[g].due - 1) \in Nat
    BY <2>1 DEF Later
  <2>3. PICK due \in Nat, since \in Nat :
          /\ due = Later(0, feeds[g].due - 1)
          /\ since = (IF feeds[g].since < Still THEN feeds[g].since + 1 ELSE feeds[g].since)
    BY <2>1, <2>2
  <2>4. feeds'[g] = [feeds[g] EXCEPT !.due = due, !.since = since]
    BY <1>3, <2>3
  <2> QED
    BY <1>2, <2>1, <2>3, <2>4 DEF FeedType
<1>5. feeds' \in Seq(FeedType) /\ Len(feeds') = Len(feeds)
  <2>1. feeds' = [g \in 1..Len(feeds) |-> feeds'[g]]
    BY <1>2 DEF Tick
  <2>2. feeds' \in [1..Len(feeds) -> FeedType]
    BY <1>2, <1>4, <2>1
  <2> QED
    BY <1>2, <2>2
<1>6. Current' = Current
  BY <1>5 DEF Current
<1>7. FeedsOK'
  <2>1. ASSUME NEW g \in DOMAIN feeds
        PROVE  (/\ Sound(feeds[g]) /\ Followed(g)
                /\ IsOpen(g) => Prompt(feeds[g])
                /\ ~IsOpen(g) => feeds[g].phase # "due")'
    <3>1. /\ Sound(feeds[g]) /\ Followed(g)
          /\ IsOpen(g) => Prompt(feeds[g])
          /\ ~IsOpen(g) => feeds[g].phase # "due"
      BY <1>1 DEF FeedsOK
    <3>2. Spaced(feeds[g])'
      BY <1>4, <3>1, FeedAssumption DEF Sound, Fit, Spaced, Later
    <3>3. Sound(feeds[g])'
      BY <1>4, <3>1, <3>2 DEF Sound, Fit
    <3>4. Followed(g)' /\ IsOpen(g)' = IsOpen(g)
      BY <1>1, <1>4, <1>6, <3>1 DEF Followed, IsOpen
    <3>5. Prompt(feeds[g]) => Prompt(feeds[g])'
      BY <1>1, <1>4, FeedAssumption DEF Prompt, Later, Spacing
    <3> QED
      BY <1>4, <3>1, <3>3, <3>4, <3>5
  <2>2. open' => feeds' # <<>>
    BY <1>1, <1>2, <1>5 DEF FeedsOK
  <2> QED
    BY <1>3, <2>1, <2>2 DEF FeedsOK
<1> QED
  BY <1>1, <1>3, <1>4, <1>5, <1>6, <1>7, CallKeeps DEF TypeOK

LEMMA SubscribeKeeps ==
    ASSUME IInv, NEW s \in Subs, Subscribe(s) PROVE IInv'
<1>1. /\ TypeOK /\ FeedsOK /\ StepOK /\ Agreed /\ open' = TRUE
      /\ UNCHANGED <<step, world, shown>> /\ step.stage # "render"
  BY DEF Subscribe, IInv, session
<1>2. PICK f, g, h :
        /\ f = (IF open THEN feeds[Current] ELSE NewFeed)
        /\ g = Joined(f, s) /\ h = Hasten(g)
        /\ feeds' = IF open THEN [feeds EXCEPT ![Current] = h] ELSE Append(feeds, h)
        /\ sent' = [sent EXCEPT ![s] = g.out[LaneOf[s]]]
  BY DEF Subscribe
<1>3. f \in FeedType /\ Sound(f)
  <2>1. CASE open
    BY <1>1, <1>2, <2>1, CurrentFeed
  <2>2. CASE ~open
    <3>1. NewFeed \in FeedType
      BY FeedAssumption DEF NewFeed, FeedType, Phases, Frames
    <3>2. Sound(NewFeed)
      BY <3>1 DEF Sound, Fit, Spaced, NewFeed
    <3> QED
      BY <1>2, <2>2, <3>1, <3>2
  <2> QED
    BY <2>1, <2>2
<1>4. /\ g \in FeedType /\ Sound(g) /\ g.followers = f.followers \cup {s} /\ g.last = f.last
      /\ g.phase = f.phase /\ g.out[LaneOf[s]] = f.last
  <2> DEFINE out == [f.out EXCEPT ![LaneOf[s]] = f.last]
  <2>1. f.out \in [Lanes -> Frames] /\ LaneOf[s] \in Lanes /\ f.last \in Frames
    BY <1>3 DEF FeedType, Lanes
  <2>2. out \in [Lanes -> Frames] /\ out[LaneOf[s]] = f.last
    BY <2>1
  <2>3. \A r \in f.followers \cup {s} : out[LaneOf[r]] = f.last
    BY <1>3, <2>1 DEF Sound, Fit, FeedType, Lanes
  <2>4. g = [f EXCEPT !.followers = @ \cup {s}, !.out = out]
    BY <1>2 DEF Joined
  <2> HIDE DEF out
  <2>5. f.followers \cup {s} \in SUBSET Subs
    BY <1>3 DEF FeedType
  <2>6. /\ g \in FeedType /\ g.followers = f.followers \cup {s} /\ g.last = f.last
        /\ g.phase = f.phase /\ g.out = out /\ g.woke = f.woke
        /\ g.due = f.due /\ g.since = f.since
    BY <1>3, <2>2, <2>4, <2>5 DEF FeedType
  <2>7. Sound(g)
    BY <1>3, <2>3, <2>6 DEF Sound, Fit, Spaced
  <2> QED
    BY <2>2, <2>6, <2>7
<1>5. /\ h \in FeedType /\ Sound(h) /\ Prompt(h) /\ h.followers = f.followers \cup {s}
      /\ h.last = f.last
  BY <1>1, <1>2, <1>4, HastenLeaves DEF TypeOK
<1>6. Prompt(h)'
  BY <1>1, <1>5 DEF Prompt, Spacing
<1>7. /\ sent' \in [Subs -> Frames] /\ sent'[s] = f.last
      /\ \A r \in Subs \ {s} : sent'[r] = sent[r]
  BY <1>1, <1>2, <1>3, <1>4 DEF TypeOK, FeedType
<1>8. CASE open
  <2>0. PICK c : c = Current
    OBVIOUS
  <2>1. /\ c \in DOMAIN feeds /\ f = feeds[c] /\ Following = f.followers
    BY <1>1, <1>2, <1>8, <2>0, CurrentFeed
  <2>2. feeds' = [feeds EXCEPT ![c] = h]
    BY <1>2, <1>8, <2>0
  <2>3. /\ FeedsOK' /\ feeds' \in Seq(FeedType) /\ DOMAIN feeds' = DOMAIN feeds
        /\ Len(feeds') = Len(feeds) /\ feeds'[c] = h
        /\ \A i \in DOMAIN feeds \ {c} : feeds'[i] = feeds[i]
    BY <1>1, <1>5, <1>6, <1>8, <2>0, <2>1, <2>2, FeedMoves DEF TypeOK
  <2>4. TypeOK'
    BY <1>1, <1>7, <2>3 DEF TypeOK
  <2>5. StepOK'
    BY <1>1, <2>3 DEF StepOK
  <2>6. Current' = c /\ Following' = f.followers \cup {s}
    BY <1>1, <1>5, <2>0, <2>3 DEF Current, Following
  <2>7. Agreed'
    <3>1. ASSUME NEW r \in Following'
          PROVE  \/ sent'[r] = feeds'[c].last
                 \/ step'.stage = "send" /\ step'.feed = c /\ r \in step'.left
      <4>1. r \in Subs
        BY <1>3, <1>4, <2>6, <3>1 DEF FeedType
      <4>2. CASE r = s
        BY <1>5, <1>7, <2>3, <4>2
      <4>3. CASE r # s
        BY <1>1, <1>5, <1>7, <1>8, <2>0, <2>1, <2>3, <2>6, <3>1, <4>1, <4>3 DEF Agreed
      <4> QED
        BY <4>2, <4>3
    <3> QED
      BY <2>6, <3>1 DEF Agreed
  <2> QED
    BY <2>3, <2>4, <2>5, <2>7 DEF IInv
<1>9. CASE ~open
  <2>1. PICK n \in Nat : n = Len(feeds) + 1 /\ n \notin DOMAIN feeds
    BY <1>1, LenProperties DEF TypeOK
  <2>2. /\ feeds' \in Seq(FeedType) /\ Len(feeds') = n /\ feeds'[n] = h
        /\ DOMAIN feeds' = DOMAIN feeds \cup {n}
        /\ \A i \in DOMAIN feeds : feeds'[i] = feeds[i]
    BY <1>1, <1>2, <1>5, <1>9, <2>1, AppendProperties, LenProperties DEF TypeOK
  <2>3. Current' = n /\ Following' = {s} /\ h.last = None
    BY <1>1, <1>2, <1>5, <1>9, <2>2 DEF Current, Following, NewFeed
  <2>4. TypeOK' /\ StepOK'
    BY <1>1, <1>7, <2>2 DEF TypeOK, StepOK
  <2>5. Agreed'
    BY <1>5, <1>7, <2>2, <2>3 DEF Agreed
  <2>6. FeedsOK'
    <3>1. ASSUME NEW i \in DOMAIN feeds
          PROVE  (/\ Sound(feeds[i]) /\ Followed(i)
                  /\ IsOpen(i) => Prompt(feeds[i])
                  /\ ~IsOpen(i) => feeds[i].phase # "due")'
      <4>1. Sound(feeds[i]) /\ feeds[i].followers = {} /\ feeds[i].phase # "due"
        BY <1>1, <1>9 DEF FeedsOK, Followed, IsOpen
      <4>2. i # n
        BY <2>1
      <4> QED
        BY <2>2, <2>3, <4>1, <4>2 DEF Sound, Fit, Spaced, Followed, IsOpen
    <3>2. (/\ Sound(feeds[n]) /\ Followed(n)
           /\ IsOpen(n) => Prompt(feeds[n])
           /\ ~IsOpen(n) => feeds[n].phase # "due")'
      <4>1. Sound(feeds[n])'
        BY <1>5, <2>2 DEF Sound, Fit, Spaced
      <4> QED
        BY <1>1, <1>5, <1>6, <2>2, <2>3, <4>1 DEF Followed, IsOpen, Prompt
    <3>3. feeds' # <<>>
      BY <2>1, <2>2, LenProperties, EmptySeq
    <3> QED
      BY <2>2, <3>1, <3>2, <3>3 DEF FeedsOK
  <2> QED
    BY <2>4, <2>5, <2>6 DEF IInv
<1> QED
  BY <1>1, <1>8, <1>9 DEF TypeOK

-----------------------------------------------------------------------------
(* The frame step.                                                         *)

LEMMA NoStepFacts ==
    /\ NoStep \in StepType /\ NoStep.stage = "none"
    /\ \A s \in StepType : s.stage # "none" => s # NoStep
BY DEF NoStep, StepType

LEMMA StepsFeed ==
    ASSUME IInv, step.stage # "none"
    PROVE  /\ step.feed \in DOMAIN feeds /\ feeds[step.feed] \in FeedType
           /\ Sound(feeds[step.feed]) /\ Followed(step.feed)
           /\ IsOpen(step.feed) => Prompt(feeds[step.feed])
           /\ ~IsOpen(step.feed) => feeds[step.feed].phase # "due"
           /\ step \in StepType /\ TypeOK /\ FeedsOK /\ StepOK /\ Agreed
           /\ step # NoStep
<1>1. step # NoStep /\ step.feed \in DOMAIN feeds
  BY NoStepFacts DEF IInv, StepOK
<1>2. feeds[step.feed] \in FeedType
  BY <1>1, LenProperties DEF IInv, TypeOK
<1> QED
  BY <1>1, <1>2 DEF IInv, FeedsOK, TypeOK

\* A step of the frame's own feed that keeps its followers and its last frame.
LEMMA FrameKeeps ==
    ASSUME IInv, NEW g \in DOMAIN feeds, NEW f \in FeedType,
           feeds' = [feeds EXCEPT ![g] = f], Sound(f),
           f.followers = feeds[g].followers, f.last = feeds[g].last,
           IsOpen(g) => Prompt(f), ~IsOpen(g) => f.phase # "due",
           UNCHANGED <<open, world, shown>>, sent' \in [Subs -> Frames],
           step' \in StepType, StepOK',
           open => \A s \in Following :
              \/ sent'[s] = feeds[Current].last
              \/ step'.stage = "send" /\ step'.feed = Current /\ s \in step'.left
    PROVE  IInv'
<1>1. TypeOK /\ FeedsOK /\ Followed(g) /\ Agreed
  BY DEF IInv, FeedsOK
<1>2. Prompt(f) => Prompt(f)'
  BY DEF Prompt, Spacing
<1>3. /\ FeedsOK' /\ feeds' \in Seq(FeedType) /\ DOMAIN feeds' = DOMAIN feeds
      /\ Len(feeds') = Len(feeds) /\ feeds'[g] = f
      /\ \A h \in DOMAIN feeds \ {g} : feeds'[h] = feeds[h]
  BY <1>1, <1>2, FeedMoves DEF Followed, IsOpen, TypeOK
<1>4. TypeOK'
  BY <1>1, <1>3 DEF TypeOK
<1>5. Agreed'
  <2>1. Current' = Current
    BY <1>3 DEF Current
  <2>2. CASE open
    <3>1. /\ Current \in DOMAIN feeds
          /\ Following' = Following /\ feeds'[Current].last = feeds[Current].last
      BY <1>1, <1>3, <2>1, <2>2, CurrentFeed DEF Following
    <3> QED
      BY <1>1, <2>1, <2>2, <3>1 DEF Agreed
  <2>3. CASE ~open
    BY <2>3 DEF Agreed
  <2> QED
    BY <2>2, <2>3
<1> QED
  BY <1>3, <1>4, <1>5 DEF IInv

\* The step ends.
LEMMA EndsKeeps ==
    ASSUME IInv, step.stage # "none", NEW f \in FeedType, Ends(f), Sound(f),
           f.followers = feeds[step.feed].followers, f.last = feeds[step.feed].last,
           IsOpen(step.feed) => Prompt(f), ~IsOpen(step.feed) => f.phase # "due",
           UNCHANGED <<open, world, shown, sent>>,
           \A s \in Following : IsOpen(step.feed) => s \notin step.left \/ step.stage # "send"
    PROVE  IInv'
<1>1. PICK g \in DOMAIN feeds : g = step.feed
  BY StepsFeed
<1>2. PICK h \in FeedType :
        /\ feeds' = [feeds EXCEPT ![g] = h] /\ Sound(h)
        /\ h.followers = f.followers /\ h.last = f.last
        /\ IsOpen(g) => Prompt(h)
        /\ ~IsOpen(g) => h.phase # "due"
  <2>1. CASE IsOpen(g)
    <3>1. PICK h \in Scheduled(f) : feeds' = [feeds EXCEPT ![g] = h]
      BY <1>1, <2>1 DEF Ends
    <3> QED
      BY <1>1, <2>1, <3>1, ScheduledLeaves DEF IInv, TypeOK
  <2>2. CASE ~IsOpen(g)
    BY <1>1, <2>2 DEF Ends
  <2> QED
    BY <2>1, <2>2
<1>3. step' = NoStep
  BY DEF Ends
<1>4. step' \in StepType /\ StepOK'
  BY <1>3, NoStepFacts DEF StepOK
<1>5. open => \A s \in Following : sent'[s] = feeds[Current].last
  BY DEF IInv, Agreed, IsOpen
<1>6. sent' \in [Subs -> Frames]
  BY DEF IInv, TypeOK
<1> QED
  BY <1>1, <1>2, <1>4, <1>5, <1>6, FrameKeeps

LEMMA FireKeeps ==
    ASSUME IInv, NEW g \in DOMAIN feeds, Fire(g) PROVE IInv'
<1>1. /\ step = NoStep /\ feeds[g].phase = "due" /\ UNCHANGED <<open, sent, world, shown>>
      /\ feeds[g] \in FeedType /\ Sound(feeds[g]) /\ IsOpen(g) /\ TypeOK /\ Agreed
  BY LenProperties DEF Fire, session, IInv, FeedsOK, TypeOK
<1>2. PICK f \in FeedType :
        /\ feeds' = [feeds EXCEPT ![g] = f] /\ f.phase = "rendering" /\ ~f.woke
        /\ f.followers = feeds[g].followers /\ f.last = feeds[g].last /\ f.out = feeds[g].out
  <2> DEFINE f == [feeds[g] EXCEPT !.phase = "rendering", !.woke = FALSE]
  <2>1. feeds' = [feeds EXCEPT ![g] = f]
    BY DEF Fire
  <2>2. /\ f \in FeedType /\ f.phase = "rendering" /\ ~f.woke
        /\ f.followers = feeds[g].followers /\ f.last = feeds[g].last /\ f.out = feeds[g].out
    BY <1>1 DEF FeedType, Phases
  <2> HIDE DEF f
  <2> QED
    BY <2>1, <2>2
<1>3. Sound(f) /\ Prompt(f)
  BY <1>1, <1>2 DEF Sound, Fit, Spaced, Prompt
<1>4. /\ feeds'[g] = f /\ DOMAIN feeds' = DOMAIN feeds
  BY <1>2
<1>5. /\ step' \in StepType /\ step'.feed = g /\ step'.stage = "render" /\ step' # NoStep
  <2>1. g \in Nat
    BY <1>1, LenProperties DEF TypeOK
  <2>2. step' \in StepType /\ step'.feed = g /\ step'.stage = "render"
    BY <2>1 DEF Fire, NoStep, StepType
  <2> QED
    BY <2>2, NoStepFacts
<1>6. StepOK'
  BY <1>2, <1>4, <1>5 DEF StepOK
<1>7. open => \A s \in Following : sent'[s] = feeds[Current].last
  BY <1>1, NoStepFacts DEF Agreed
<1> QED
  BY <1>1, <1>2, <1>3, <1>5, <1>6, <1>7, FrameKeeps DEF TypeOK

\* What a frame that renders leaves of its feed when it ends.
Stopped(phase, since) == [feeds[step.feed] EXCEPT !.phase = phase, !.since = since]

LEMMA RenderLeaves ==
    ASSUME IInv, step.stage = "render", NEW phase \in Phases \ {"due"}, NEW since \in Nat
    PROVE  \E f \in FeedType :
              /\ f = Stopped(phase, since) /\ Sound(f) /\ Prompt(f) /\ f.phase = phase
              /\ f.followers = feeds[step.feed].followers /\ f.last = feeds[step.feed].last
<1> DEFINE f == Stopped(phase, since)
<1>1. /\ feeds[step.feed] \in FeedType /\ Sound(feeds[step.feed])
      /\ feeds[step.feed].phase = "rendering"
  BY StepsFeed DEF StepOK
<1>2. /\ f \in FeedType /\ f.phase = phase /\ f.woke = feeds[step.feed].woke
      /\ f.followers = feeds[step.feed].followers /\ f.last = feeds[step.feed].last
      /\ f.out = feeds[step.feed].out
  BY <1>1 DEF FeedType, Stopped
<1> HIDE DEF f
<1>3. Sound(f) /\ Prompt(f)
  BY <1>1, <1>2 DEF Sound, Fit, Spaced, Prompt
<1> QED
  BY <1>2, <1>3 DEF f

LEMMA NoViewKeeps ==
    ASSUME IInv, NoView PROVE IInv'
<1>1. /\ step.stage = "render" /\ step' = NoStep /\ UNCHANGED <<open, sent, world, shown>>
      /\ feeds' = [feeds EXCEPT ![step.feed].phase = "waiting"] /\ TypeOK /\ Agreed
  BY DEF NoView, session, IInv
<1>2. PICK g \in DOMAIN feeds : g = step.feed /\ feeds[g] \in FeedType
  BY <1>1, StepsFeed
<1>3. PICK f \in FeedType :
        /\ feeds' = [feeds EXCEPT ![g] = f] /\ Sound(f) /\ Prompt(f) /\ f.phase = "waiting"
        /\ f.followers = feeds[g].followers /\ f.last = feeds[g].last
  <2>1. "waiting" \in Phases \ {"due"} /\ feeds[g].since \in Nat
    BY <1>2 DEF Phases, FeedType
  <2>2. PICK f \in FeedType :
          /\ f = Stopped("waiting", feeds[g].since) /\ Sound(f) /\ Prompt(f)
          /\ f.phase = "waiting"
          /\ f.followers = feeds[g].followers /\ f.last = feeds[g].last
    BY <1>1, <1>2, <2>1, RenderLeaves
  <2>3. f = [feeds[g] EXCEPT !.phase = "waiting"]
    BY <1>2, <2>2 DEF FeedType, Stopped
  <2> QED
    BY <1>1, <1>2, <2>2, <2>3
<1>4. step' \in StepType /\ StepOK'
  BY <1>1, NoStepFacts DEF StepOK
<1>5. open => \A s \in Following : sent'[s] = feeds[Current].last
  BY <1>1 DEF Agreed
<1> QED
  BY <1>1, <1>2, <1>3, <1>4, <1>5, FrameKeeps DEF TypeOK

LEMMA ThrowsKeeps ==
    ASSUME IInv, Throws PROVE IInv'
<1>1. /\ step.stage = "render" /\ UNCHANGED <<open, sent, world, shown>>
      /\ Ends([feeds[step.feed] EXCEPT !.since = 0])
  BY DEF Throws
<1>2. feeds[step.feed] \in FeedType /\ feeds[step.feed].phase = "rendering"
  BY <1>1, StepsFeed DEF StepOK
<1>3. "rendering" \in Phases \ {"due"} /\ 0 \in Nat
  BY DEF Phases
<1>4. PICK f \in FeedType :
        /\ f = Stopped("rendering", 0) /\ Sound(f) /\ Prompt(f) /\ f.phase = "rendering"
        /\ f.followers = feeds[step.feed].followers /\ f.last = feeds[step.feed].last
  BY <1>1, <1>3, RenderLeaves
<1>5. f = [feeds[step.feed] EXCEPT !.since = 0]
  BY <1>2, <1>4 DEF FeedType, Stopped
<1> QED
  BY <1>1, <1>4, <1>5, EndsKeeps

LEMMA RenderedKeeps ==
    ASSUME IInv, Rendered PROVE IInv'
<1>1. /\ step.stage = "render" /\ UNCHANGED <<open, sent, world, shown>> /\ TypeOK /\ Agreed
      /\ feeds' = [feeds EXCEPT ![step.feed] = Drawn] /\ step \in StepType
      /\ world \in Nat
  BY DEF Rendered, session, IInv, TypeOK
<1>2. PICK g \in DOMAIN feeds : g = step.feed /\ feeds[g] \in FeedType
  BY <1>1, StepsFeed
<1>3. PICK f \in FeedType :
        /\ feeds' = [feeds EXCEPT ![g] = f] /\ Sound(f) /\ Prompt(f) /\ f.phase = "pushing"
        /\ f.followers = feeds[g].followers /\ f.last = feeds[g].last
  <2>1. "pushing" \in Phases \ {"due"} /\ 0 \in Nat
    BY DEF Phases
  <2>2. PICK f \in FeedType :
          /\ f = Stopped("pushing", 0) /\ Sound(f) /\ Prompt(f) /\ f.phase = "pushing"
          /\ f.followers = feeds[g].followers /\ f.last = feeds[g].last
    BY <1>1, <1>2, <2>1, RenderLeaves
  <2>3. f = Drawn
    BY <2>2 DEF Drawn, Stopped
  <2> QED
    BY <1>1, <1>2, <2>2, <2>3
<1>4. step' \in StepType /\ step'.stage \in {"none", "gate"}
      /\ (step'.stage = "gate" => step'.feed = g)
      /\ (step'.stage = "none" <=> step' = NoStep)
  <2>1. CASE ~IsOpen(g)
    BY <1>2, <2>1, NoStepFacts DEF Rendered
  <2>2. CASE IsOpen(g)
    <3>1. step' = [step EXCEPT !.stage = "gate", !.frame = world, !.left = feeds[g].followers]
      BY <1>2, <2>2 DEF Rendered
    <3>2. feeds[g].followers \in SUBSET Subs
      BY <1>2 DEF FeedType
    <3>3. step' \in StepType /\ step'.stage = "gate" /\ step'.feed = g
      BY <1>1, <1>2, <3>1, <3>2 DEF StepType
    <3> QED
      BY <3>3, NoStepFacts
  <2> QED
    BY <2>1, <2>2
<1>5. StepOK'
  BY <1>3, <1>4 DEF StepOK
<1>6. open => \A s \in Following : sent'[s] = feeds[Current].last
  BY <1>1 DEF Agreed
<1> QED
  BY <1>1, <1>2, <1>3, <1>4, <1>5, <1>6, FrameKeeps DEF TypeOK

LEMMA GateKeeps ==
    ASSUME IInv, NEW s \in Subs, Gate(s) PROVE IInv'
<1>1. /\ step.stage = "gate" /\ UNCHANGED <<sent, world, shown>> /\ TypeOK /\ FeedsOK
      /\ StepOK /\ Agreed
  BY DEF Gate, session, IInv
<1>2. /\ step' \in StepType /\ step'.stage = "gate" /\ step'.feed = step.feed
      /\ step' # NoStep /\ step.feed \in DOMAIN feeds
  <2>1. step' = [step EXCEPT !.left = @ \ {s}] /\ step \in StepType
    BY DEF Gate, IInv, TypeOK
  <2>2. step' \in StepType /\ step'.stage = "gate" /\ step'.feed = step.feed
    BY <1>1, <2>1 DEF StepType
  <2> QED
    BY <1>1, <2>2, NoStepFacts, StepsFeed
<1>3. /\ FeedsOK' /\ feeds' \in Seq(FeedType) /\ DOMAIN feeds' = DOMAIN feeds
      /\ Current' = Current /\ open' \in BOOLEAN /\ (open' => open)
      /\ \A h \in DOMAIN feeds :
           /\ feeds'[h].last = feeds[h].last
           /\ feeds'[h].followers \subseteq feeds[h].followers
  <2>1. CASE UNCHANGED <<feeds, open>>
    BY <1>1, <2>1 DEF FeedsOK, Sound, Fit, Spaced, Prompt, Spacing, Followed, IsOpen,
                      Current, TypeOK
  <2>2. CASE s \in feeds[step.feed].followers /\ Unsubscribed(s)
    <3>1. open /\ s \in Following
      BY <1>1, <1>2, <2>2 DEF FeedsOK, Followed, Following
    <3> QED
      BY <1>1, <2>2, <3>1, LeaveKeeps
  <2> QED
    BY <2>1, <2>2 DEF Gate
<1>4. TypeOK' /\ StepOK'
  BY <1>1, <1>2, <1>3 DEF TypeOK, StepOK
<1>5. Agreed'
  <2> SUFFICES ASSUME open', NEW r \in Following'
               PROVE  sent'[r] = feeds'[Current].last
    BY <1>3 DEF Agreed
  <2>1. Current \in DOMAIN feeds /\ Following = feeds[Current].followers
    BY <1>1, <1>3, CurrentFeed
  <2>2. r \in Following
    BY <1>3, <2>1 DEF Following
  <2> QED
    BY <1>1, <1>3, <2>1, <2>2 DEF Agreed
<1> QED
  BY <1>3, <1>4, <1>5 DEF IInv

LEMMA EncodeKeeps ==
    ASSUME IInv, Encode PROVE IInv'
<1>1. /\ step.stage = "gate" /\ UNCHANGED <<open, sent, world, shown>> /\ TypeOK /\ FeedsOK
      /\ StepOK /\ Agreed /\ step \in StepType
  BY DEF Encode, session, IInv, TypeOK
<1>2. PICK g \in DOMAIN feeds, f \in FeedType :
        /\ g = step.feed /\ f = feeds[g] /\ Sound(f)
        /\ IsOpen(g) => Prompt(f)
        /\ ~IsOpen(g) => f.phase # "due"
        /\ Followed(g)
  BY <1>1, StepsFeed
<1>0. PICK e \in {feeds[step.feed]} :
        IF e.followers = {} \/ Unchanged(e) THEN Ends(e)
        ELSE /\ feeds' = [feeds EXCEPT ![step.feed].last = step.frame,
                 ![step.feed].out = [l \in Lanes |->
                     IF \E s \in e.followers : LaneOf[s] = l THEN step.frame ELSE None]]
             /\ step' = [step EXCEPT !.stage = "send", !.left = Subs]
  BY DEF Encode
<1>3. CASE Ends(e)
  BY <1>0, <1>1, <1>2, <1>3, EndsKeeps
<1>4. CASE /\ e.followers # {}
           /\ feeds' = [feeds EXCEPT ![step.feed].last = step.frame,
                 ![step.feed].out = [l \in Lanes |->
                     IF \E s \in e.followers : LaneOf[s] = l
                     THEN step.frame ELSE None]]
           /\ step' = [step EXCEPT !.stage = "send", !.left = Subs]
  <2>1. open /\ g = Current
    BY <1>0, <1>2, <1>4 DEF Followed
  <2>2. PICK out \in [Lanes -> Frames], frame \in Nat :
          /\ frame = step.frame
          /\ out = [l \in Lanes |-> IF \E s \in f.followers : LaneOf[s] = l
                                    THEN step.frame ELSE None]
    BY <1>1 DEF StepType, Frames
  <2>3. PICK h : h = [f EXCEPT !.last = frame, !.out = out]
    OBVIOUS
  <2>4. /\ h \in FeedType /\ h.followers = f.followers /\ h.last = frame /\ h.out = out
        /\ h.phase = f.phase /\ h.due = f.due /\ h.since = f.since /\ h.woke = f.woke
    BY <1>2, <2>2, <2>3 DEF FeedType, Frames
  <2>5. \A s \in f.followers : LaneOf[s] \in Lanes
    BY <1>2 DEF FeedType, Lanes
  <2>6. Sound(h) /\ Prompt(h) /\ Prompt(h)'
    <3>1. \A s \in f.followers : out[LaneOf[s]] = frame
      BY <2>2, <2>5
    <3>2. Sound(h)
      BY <1>2, <2>4, <3>1 DEF Sound, Fit, Spaced
    <3>3. Prompt(f)
      BY <1>2, <2>1 DEF IsOpen
    <3> QED
      BY <1>1, <2>4, <3>2, <3>3 DEF Prompt, Spacing
  <2>7. feeds' = [feeds EXCEPT ![g] = h]
    <3>1. e = f
      BY <1>0, <1>2
    <3>2. [l \in Lanes |-> IF \E s \in e.followers : LaneOf[s] = l
                          THEN step.frame ELSE None] = out
      BY <2>2, <3>1
    <3>3. feeds' = [feeds EXCEPT ![g].last = frame, ![g].out = out]
      BY <1>2, <1>4, <2>2, <3>2
    <3>4. [feeds EXCEPT ![g].last = frame, ![g].out = out]
              = [feeds EXCEPT ![g] = [feeds[g] EXCEPT !.last = frame, !.out = out]]
      BY <1>1, <1>2 DEF FeedType, TypeOK
    <3> QED
      BY <1>2, <2>3, <3>3, <3>4
  <2>8. /\ FeedsOK' /\ feeds' \in Seq(FeedType) /\ DOMAIN feeds' = DOMAIN feeds
        /\ Len(feeds') = Len(feeds) /\ feeds'[g] = h
    BY <1>0, <1>1, <1>2, <1>4, <2>1, <2>4, <2>6, <2>7, FeedMoves DEF TypeOK
  <2>9. /\ step' \in StepType /\ step'.stage = "send" /\ step'.feed = g /\ step'.left = Subs
        /\ step' # NoStep
    BY <1>1, <1>2, <1>4, NoStepFacts DEF StepType
  <2>10. TypeOK' /\ StepOK'
    BY <1>1, <2>8, <2>9 DEF TypeOK, StepOK
  <2>11. Agreed'
    <3>1. Current' = g /\ Following' = h.followers
      BY <1>1, <2>1, <2>8 DEF Current, Following
    <3>2. h.followers \subseteq Subs
      BY <2>4 DEF FeedType
    <3> QED
      BY <2>9, <3>1, <3>2 DEF Agreed
  <2> QED
    BY <2>8, <2>10, <2>11 DEF IInv
<1> QED
  BY <1>0, <1>3, <1>4

LEMMA SendKeeps ==
    ASSUME IInv, NEW s \in Subs, Send(s) PROVE IInv'
<1>1. /\ step.stage = "send" /\ UNCHANGED <<feeds, open, world, shown>> /\ TypeOK /\ FeedsOK
      /\ StepOK /\ Agreed /\ step \in StepType /\ s \in feeds[step.feed].followers
  BY DEF Send, session, IInv, TypeOK, ToSend
<1>2. PICK g \in DOMAIN feeds :
        /\ g = step.feed /\ feeds[g] \in FeedType /\ Sound(feeds[g]) /\ Followed(g)
  BY <1>1, StepsFeed
<1>3. /\ sent' = [sent EXCEPT ![s] = feeds[g].last] /\ feeds[g].last \in Frames
      /\ sent \in [Subs -> Frames]
  BY <1>1, <1>2 DEF Send, Sound, Fit, FeedType, TypeOK
<1>4. /\ step' \in StepType /\ step'.stage = "send" /\ step'.feed = g /\ step' # NoStep
      /\ step'.left = step.left \ {s}
  <2>1. step' = [step EXCEPT !.left = @ \ {s}]
    BY DEF Send
  <2>2. /\ step' \in StepType /\ step'.stage = "send" /\ step'.feed = g
        /\ step'.left = step.left \ {s}
    BY <1>1, <1>2, <2>1 DEF StepType
  <2> QED
    BY <2>2, NoStepFacts
<1>5. TypeOK' /\ StepOK'
  BY <1>1, <1>2, <1>3, <1>4 DEF TypeOK, StepOK
<1>6. FeedsOK'
  BY <1>1 DEF FeedsOK, Sound, Fit, Spaced, Prompt, Spacing, Followed, IsOpen, Current
<1>7. Agreed'
  <2>1. open /\ g = Current
    BY <1>1, <1>2 DEF Followed
  <2>2. Following \subseteq Subs /\ Following = feeds[g].followers
    BY <1>2, <2>1 DEF Following, FeedType
  <2>3. \A r \in Following : \/ sent'[r] = feeds[g].last
                             \/ r \in step'.left
    BY <1>1, <1>2, <1>3, <1>4, <2>1, <2>2 DEF Agreed
  <2> QED
    BY <1>1, <1>4, <2>1, <2>2, <2>3 DEF Agreed, Following, Current
<1> QED
  BY <1>5, <1>6, <1>7 DEF IInv

LEMMA PushedKeeps ==
    ASSUME IInv, Pushed PROVE IInv'
<1>1. /\ step.stage = "send" /\ UNCHANGED <<open, sent, world, shown>>
      /\ Ends(feeds[step.feed]) /\ ToSend = {}
  BY DEF Pushed, session
<1>2. \A s \in Following : IsOpen(step.feed) => s \notin step.left
  BY <1>1 DEF ToSend, Following, IsOpen
<1> QED
  BY <1>1, <1>2, StepsFeed, EndsKeeps

-----------------------------------------------------------------------------
LEMMA InitHolds == Init => IInv
<1> SUFFICES ASSUME Init PROVE IInv
  OBVIOUS
<1>1. TypeOK
  <2>1. feeds \in Seq(FeedType) /\ step \in StepType
    BY NoStepFacts DEF Init
  <2> QED
    BY <2>1 DEF Init, TypeOK, Frames
<1>2. FeedsOK /\ StepOK /\ Agreed
  BY NoStepFacts DEF Init, FeedsOK, StepOK, Agreed
<1> QED
  BY <1>1, <1>2 DEF IInv

LEMMA StepHolds == IInv /\ [Next]_vars => IInv'
<1> SUFFICES ASSUME IInv, [Next]_vars PROVE IInv'
  OBVIOUS
<1>1. CASE UNCHANGED vars
  BY <1>1 DEF vars, session, IInv, TypeOK, FeedsOK, StepOK, Agreed, Sound, Fit, Spaced, Prompt,
              Spacing, Followed, IsOpen, Following, Current
<1>2. ASSUME NEW s \in Subs, Subscribe(s) \/ Unsubscribe(s) \/ Gate(s) \/ Send(s) PROVE IInv'
  BY <1>2, SubscribeKeeps, UnsubscribeKeeps, GateKeeps, SendKeeps
<1>3. ASSUME NEW l \in Lanes, Toggle(l) PROVE IInv'
  BY <1>3, WakesKeep
<1>4. CASE Change \/ Show \/ View \/ Tick
  BY <1>4, WakesKeep, ShowKeeps, TickKeeps
<1>5. ASSUME NEW g \in DOMAIN feeds, Fire(g) PROVE IInv'
  BY <1>5, FireKeeps
<1>6. CASE Throws \/ NoView \/ Rendered \/ Encode \/ Pushed
  BY <1>6, ThrowsKeeps, NoViewKeeps, RenderedKeeps, EncodeKeeps, PushedKeeps
<1> QED
  BY <1>1, <1>2, <1>3, <1>4, <1>5, <1>6 DEF Next, Step

\* A feed ends with its last follower, its timer with it, from wherever that
\* follower leaves: the push that walks the feed, its render or the gate.
THEOREM TimersAreFollowed == Spec => []FeedsAreFollowed
<1>1. IInv => FeedsAreFollowed
  BY DEF IInv, FeedsOK, Followed, IsOpen, FeedsAreFollowed
<1> QED
  BY <1>1, InitHolds, StepHolds, PTL DEF Spec

\* A wake no frame has answered has a timer as soon as the spacing allows.
THEOREM WakesAreSoon == Spec => []WakeIsSoon
<1>1. IInv => WakeIsSoon
  BY DEF IInv, FeedsOK, Prompt, WakeIsSoon
<1> QED
  BY <1>1, InitHolds, StepHolds, PTL DEF Spec

\* Between steps every follower was sent the feed's last frame.
THEOREM FollowersSeeOneFrame == Spec => []FollowersAgree
<1>1. IInv => FollowersAgree
  BY NoStepFacts DEF IInv, Agreed, FollowersAgree
<1> QED
  BY <1>1, InitHolds, StepHolds, PTL DEF Spec

-----------------------------------------------------------------------------
(* Only a timer that falls due starts a frame.                             *)

\* A feed renders after a step only if it rendered before.
NoneStarts == \A g \in DOMAIN feeds :
                 feeds'[g].phase = "rendering" => feeds[g].phase = "rendering"

\* What a call in or a step's end makes of a feed does not render unless the
\* feed did.
LEMMA OperatorsStartNone ==
    ASSUME NEW f \in FeedType, NEW wait
    PROVE  /\ Arm(f, wait).phase = "rendering" => f.phase = "rendering"
           /\ Hasten(f).phase = "rendering" => f.phase = "rendering"
           /\ Woken(f).phase = "rendering" => f.phase = "rendering"
           /\ Ended(f).phase = "rendering" => f.phase = "rendering"
<1>1. ASSUME NEW h \in FeedType, NEW w
      PROVE  Arm(h, w).phase = "rendering" => h.phase = "rendering"
  BY DEF Arm, FeedType
<1>2. ASSUME NEW h \in FeedType
      PROVE  Hasten(h).phase = "rendering" => h.phase = "rendering"
  BY <1>1 DEF Hasten
<1>3. PICK h : /\ h = (IF f.phase = "rendering" THEN f
                                              ELSE [f EXCEPT !.woke = TRUE])
               /\ h \in FeedType /\ h.phase = f.phase
  <2> DEFINE woken == [f EXCEPT !.woke = TRUE]
  <2>1. woken \in FeedType /\ woken.phase = f.phase
    BY DEF FeedType
  <2> HIDE DEF woken
  <2>2. PICK h : h = (IF f.phase = "rendering" THEN f ELSE woken)
    OBVIOUS
  <2> QED
    BY <2>1, <2>2 DEF woken
<1>4. Woken(f).phase = "rendering" => f.phase = "rendering"
  BY <1>2, <1>3 DEF Woken
<1>5. Ended(f).phase = "rendering" => f.phase = "rendering"
  BY DEF Ended, FeedType
<1> QED
  BY <1>1, <1>2, <1>4, <1>5

LEMMA OneFeedStartsNone ==
    ASSUME TypeOK, NEW c \in DOMAIN feeds, NEW f,
           feeds' = [feeds EXCEPT ![c] = f],
           f.phase = "rendering" => feeds[c].phase = "rendering"
    PROVE  NoneStarts
BY DEF NoneStarts

LEMMA LeavingStartsNone ==
    ASSUME IInv, open, NEW s, Unsubscribed(s) PROVE NoneStarts
<1>1. PICK c \in DOMAIN feeds : c = Current /\ feeds[c] \in FeedType
  BY CurrentFeed DEF IInv
<1>2. PICK f \in FeedType : /\ f = Without(feeds[c], s)
                            /\ f.phase = feeds[c].phase
  <2> DEFINE rest == feeds[c].followers \ {s}
             out == [l \in Lanes |-> IF \E r \in rest : LaneOf[r] = l
                                     THEN feeds[c].out[l] ELSE None]
  <2>1. rest \in SUBSET Subs /\ out \in [Lanes -> Frames]
    BY <1>1 DEF FeedType, Frames
  <2>2. Without(feeds[c], s) = [feeds[c] EXCEPT !.followers = rest, !.out = out]
    BY DEF Without
  <2> HIDE DEF rest, out
  <2> QED
    BY <1>1, <2>1, <2>2 DEF FeedType
<1>3. PICK h : /\ feeds' = [feeds EXCEPT ![c] = h]
               /\ h.phase = "rendering" => f.phase = "rendering"
  BY <1>1, <1>2, OperatorsStartNone DEF Unsubscribed
<1> QED
  BY <1>1, <1>2, <1>3, OneFeedStartsNone DEF IInv

LEMMA CallsStartNone ==
    ASSUME IInv,
           \/ Change \/ View \/ Show \/ Tick
           \/ \E l \in Lanes : Toggle(l)
           \/ \E s \in Subs : Subscribe(s) \/ Unsubscribe(s)
    PROVE  NoneStarts
<1>0. TypeOK /\ FeedsOK
  BY DEF IInv
<1>1. ASSUME NEW cause, Wake(cause) PROVE NoneStarts
  <2>1. CASE open
    <3>1. PICK c \in DOMAIN feeds : c = Current /\ feeds[c] \in FeedType
      BY <1>0, <2>1, CurrentFeed
    <3>2. PICK f : f = Woken(feeds[c])
      OBVIOUS
    <3>3. feeds' = [feeds EXCEPT ![c] = f]
      BY <1>1, <2>1, <3>1, <3>2 DEF Wake
    <3> QED
      BY <1>0, <3>1, <3>2, <3>3, OperatorsStartNone, OneFeedStartsNone
  <2>2. CASE ~open
    BY <1>1, <2>2 DEF Wake, NoneStarts
  <2> QED
    BY <2>1, <2>2
<1>2. CASE Change \/ View \/ (\E l \in Lanes : Toggle(l))
  BY <1>1, <1>2 DEF Change, View, Toggle
<1>3. CASE Show
  <2>1. CASE open
    <3>1. PICK c \in DOMAIN feeds : c = Current /\ feeds[c] \in FeedType
      BY <1>0, <2>1, CurrentFeed
    <3>2. PICK f : /\ f = [feeds[c] EXCEPT !.woke = TRUE]
                   /\ f \in FeedType /\ f.phase = feeds[c].phase
      <4>1. PICK f : f = [feeds[c] EXCEPT !.woke = TRUE]
        OBVIOUS
      <4>2. f \in FeedType /\ f.phase = feeds[c].phase
        BY <3>1, <4>1 DEF FeedType
      <4> QED
        BY <4>1, <4>2
    <3>3. PICK wait :
            feeds' = [feeds EXCEPT ![c] = Arm([@ EXCEPT !.woke = TRUE], wait)]
      BY <1>3, <2>1, <3>1 DEF Show
    <3>4. feeds' = [feeds EXCEPT ![c] = Arm(f, wait)]
      BY <3>2, <3>3
    <3> QED
      BY <1>0, <3>2, <3>4, OperatorsStartNone, OneFeedStartsNone
  <2>2. CASE ~open
    BY <1>3, <2>2 DEF Show, NoneStarts
  <2> QED
    BY <2>1, <2>2
<1>4. CASE Tick
  <2>1. \A g \in DOMAIN feeds : feeds[g] \in FeedType
    BY <1>0, LenProperties DEF TypeOK
  <2>2. \A g \in DOMAIN feeds : feeds'[g].phase = feeds[g].phase
    BY <1>4, <2>1 DEF Tick, FeedType
  <2> QED
    BY <2>2 DEF NoneStarts
<1>5. ASSUME NEW s \in Subs, Unsubscribe(s) PROVE NoneStarts
  <2>1. open /\ Unsubscribed(s)
    BY <1>5 DEF Unsubscribe, Following
  <2> QED
    BY <2>1, LeavingStartsNone
<1>6. ASSUME NEW s \in Subs, Subscribe(s) PROVE NoneStarts
  <2>1. PICK f, g : /\ f = (IF open THEN feeds[Current] ELSE NewFeed)
                    /\ g = Joined(f, s)
                    /\ feeds' = IF open THEN [feeds EXCEPT ![Current] = Hasten(g)]
                                ELSE Append(feeds, Hasten(g))
    BY <1>6 DEF Subscribe
  <2>2. CASE open
    <3>1. PICK c \in DOMAIN feeds : c = Current /\ feeds[c] \in FeedType /\ f = feeds[c]
      BY <1>0, <2>1, <2>2, CurrentFeed
    <3>2. g \in FeedType /\ g.phase = feeds[c].phase
      <4>1. PICK followers \in SUBSET Subs, out \in [Lanes -> Frames] :
              g = [f EXCEPT !.followers = followers, !.out = out]
        <5>1. f.followers \cup {s} \in SUBSET Subs
          BY <3>1, <1>6 DEF FeedType
        <5>2. [f.out EXCEPT ![LaneOf[s]] = f.last] \in [Lanes -> Frames]
          BY <3>1 DEF FeedType
        <5>3. g = [f EXCEPT !.followers = f.followers \cup {s},
                            !.out = [f.out EXCEPT ![LaneOf[s]] = f.last]]
          BY <2>1, <3>1 DEF Joined, FeedType
        <5> QED
          BY <5>1, <5>2, <5>3
      <4> QED
        BY <3>1, <4>1 DEF FeedType
    <3>3. feeds' = [feeds EXCEPT ![c] = Hasten(g)]
      BY <2>1, <2>2, <3>1
    <3> QED
      BY <1>0, <3>2, <3>3, OperatorsStartNone, OneFeedStartsNone
  <2>3. CASE ~open
    <3>1. \A g0 \in DOMAIN feeds : feeds'[g0] = feeds[g0]
      BY <1>0, <2>1, <2>3, LenProperties DEF TypeOK
    <3> QED
      BY <3>1 DEF NoneStarts
  <2> QED
    BY <2>2, <2>3
<1> QED
  BY <1>2, <1>3, <1>4, <1>5, <1>6

\* The end of a step whose feed did not start a frame in it starts none.
LEMMA EndsStartNone ==
    ASSUME IInv, step.stage # "none", NEW f \in FeedType, Ends(f),
           f.phase = "rendering" => feeds[step.feed].phase = "rendering"
    PROVE  NoneStarts
<1>1. PICK g \in DOMAIN feeds : g = step.feed
  BY StepsFeed
<1>2. PICK h : /\ feeds' = [feeds EXCEPT ![g] = h]
               /\ h.phase = "rendering" => f.phase = "rendering"
  <2>1. CASE IsOpen(step.feed)
    <3>1. PICK h \in Scheduled(f) : feeds' = [feeds EXCEPT ![g] = h]
      BY <1>1, <2>1 DEF Ends
    <3>2. PICK wait : h = Arm(f, wait)
      BY DEF Scheduled
    <3> QED
      BY <3>1, <3>2, OperatorsStartNone
  <2>2. CASE ~IsOpen(step.feed)
    BY <1>1, <2>2 DEF Ends
  <2> QED
    BY <2>1, <2>2
<1> QED
  BY <1>1, <1>2, OneFeedStartsNone DEF IInv

LEMMA StepStartsNone ==
    ASSUME IInv, Step \/ Throws PROVE NoneStarts
<1>0. step.stage # "none"
  BY DEF Step, Throws, NoView, Rendered, Encode, Pushed, Gate, Send
<1>1. PICK g \in DOMAIN feeds : /\ g = step.feed /\ feeds[g] \in FeedType
                                /\ TypeOK /\ FeedsOK
                                /\ step.stage = "render" => feeds[g].phase = "rendering"
  BY <1>0, StepsFeed DEF StepOK
<1>2. CASE NoView \/ Rendered
  <2>1. step.stage = "render"
    BY <1>2 DEF NoView, Rendered
  <2>2. PICK f : feeds' = [feeds EXCEPT ![g] = f]
    BY <1>1, <1>2 DEF NoView, Rendered
  <2> QED
    BY <1>1, <2>1, <2>2, OneFeedStartsNone
<1>3. CASE Throws
  <2>1. PICK f : f = [feeds[g] EXCEPT !.since = 0]
    OBVIOUS
  <2>2. f \in FeedType /\ f.phase = feeds[g].phase
    BY <1>1, <2>1 DEF FeedType
  <2>3. Ends(f)
    BY <1>1, <1>3, <2>1 DEF Throws
  <2> QED
    BY <1>0, <1>1, <2>2, <2>3, EndsStartNone
<1>4. ASSUME NEW s \in Subs, Gate(s) PROVE NoneStarts
  <2>1. CASE UNCHANGED feeds
    BY <2>1 DEF NoneStarts
  <2>2. CASE s \in feeds[step.feed].followers /\ Unsubscribed(s)
    <3>1. open
      BY <1>1, <2>2 DEF FeedsOK, Followed
    <3> QED
      BY <2>2, <3>1, LeavingStartsNone
  <2> QED
    BY <1>4, <2>1, <2>2 DEF Gate
<1>5. CASE Encode
  <2>1. PICK e \in {feeds[step.feed]} :
          IF e.followers = {} \/ Unchanged(e) THEN Ends(e)
          ELSE /\ feeds' = [feeds EXCEPT ![step.feed].last = step.frame,
                   ![step.feed].out = [l \in Lanes |->
                       IF \E s \in e.followers : LaneOf[s] = l THEN step.frame ELSE None]]
               /\ step' = [step EXCEPT !.stage = "send", !.left = Subs]
    BY <1>5 DEF Encode
  <2>2. CASE Ends(e)
    BY <1>0, <1>1, <2>1, <2>2, EndsStartNone
  <2>3. CASE feeds' = [feeds EXCEPT ![step.feed].last = step.frame,
                   ![step.feed].out = [l \in Lanes |->
                       IF \E s \in e.followers : LaneOf[s] = l THEN step.frame ELSE None]]
    <3>1. PICK frame, out :
            /\ frame = step.frame
            /\ out = [l \in Lanes |->
                       IF \E s \in e.followers : LaneOf[s] = l THEN step.frame ELSE None]
      OBVIOUS
    <3>2. feeds' = [feeds EXCEPT ![g].last = frame, ![g].out = out]
      BY <1>1, <2>3, <3>1
    <3>3. \A h \in DOMAIN feeds : feeds'[h].phase = feeds[h].phase
      BY <1>1, <3>2, LenProperties DEF TypeOK, FeedType
    <3> QED
      BY <3>3 DEF NoneStarts
  <2> QED
    BY <2>1, <2>2, <2>3
<1>6. ASSUME NEW s \in Subs, Send(s) PROVE NoneStarts
  BY <1>6 DEF Send, NoneStarts
<1>7. CASE Pushed
  <2>1. Ends(feeds[g])
    BY <1>1, <1>7 DEF Pushed
  <2> QED
    BY <1>0, <1>1, <2>1, EndsStartNone
<1> QED
  BY <1>2, <1>3, <1>4, <1>5, <1>6, <1>7 DEF Step

\* The timer that fires was spaced, and the other feeds are left alone.
LEMMA FiresSpaced ==
    ASSUME IInv, NEW g \in DOMAIN feeds, Fire(g)
    PROVE  \A h \in DOMAIN feeds :
              feeds'[h].phase = "rendering" /\ feeds[h].phase # "rendering" =>
                 feeds[h].since >= Moving
<1>1. feeds[g] \in FeedType /\ Spaced(feeds[g])
  BY LenProperties DEF IInv, TypeOK, FeedsOK, Sound, Fit
<1>2. feeds[g].since >= Moving
  BY <1>1, FeedAssumption DEF Fire, Spaced, FeedType
<1>3. PICK f : feeds' = [feeds EXCEPT ![g] = f]
  BY DEF Fire
<1> QED
  BY <1>2, <1>3

\* Two frames of a feed are never closer than the moving period, however often
\* it is woken, shown, toggled or faults.
THEOREM FramesKeepApart == Spec => FramesAreSpaced
<1> DEFINE Apart == \A g \in DOMAIN feeds :
              feeds'[g].phase = "rendering" /\ feeds[g].phase # "rendering" =>
                 feeds[g].since >= Moving
<1>1. ASSUME IInv, [Next]_vars PROVE [Apart]_vars
  <2>1. CASE UNCHANGED vars
    BY <2>1
  <2>2. NoneStarts => Apart
    BY DEF NoneStarts
  <2>3. ASSUME NEW g \in DOMAIN feeds, Fire(g) PROVE Apart
    BY <1>1, <2>3, FiresSpaced
  <2>4. CASE \/ Change \/ View \/ Show \/ Tick
             \/ \E l \in Lanes : Toggle(l)
             \/ \E s \in Subs : Subscribe(s) \/ Unsubscribe(s)
    BY <1>1, <2>2, <2>4, CallsStartNone
  <2>5. CASE Step \/ Throws
    BY <1>1, <2>2, <2>5, StepStartsNone
  <2> HIDE DEF Apart
  <2> QED
    BY <1>1, <2>1, <2>3, <2>4, <2>5 DEF Next
<1> QED
  BY <1>1, InitHolds, StepHolds, PTL DEF Spec, FramesAreSpaced

=============================================================================
