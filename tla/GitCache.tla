------------------------------ MODULE GitCache ------------------------------
(***************************************************************************)
(* One repository in the daemon's git cache (cache/git.ts): the values     *)
(* homes hold, read by one serialized refresh loop (trailing-edge.ts) that *)
(* a watch, a period (period.ts), a first ask and a hold's return start,   *)
(* and beside them the branch's pull request, looked up by its own key on  *)
(* its own period.  One action per turn of the event loop: a hold taken or *)
(* released, a watch's report, a timer, one read of a pass, the pass       *)
(* landing, a lookup's answer, the eviction, the close.                    *)
(*                                                                         *)
(* A value is the branch it was read on, and whether the repository has    *)
(* changed since; a PR is the key it was looked up for.  A lookup out      *)
(* waits for its slot (limiter.ts) and for the forge alike, for as long as *)
(* those take.  `asked` is not empty exactly while `again` is set.         *)
(***************************************************************************)
EXTENDS Integers, FiniteSets, Sequences, SequencesExt

CONSTANTS
    Branches,
    Sets,           \* the option sets a read may ask
    Homes,
    Wanted,         \* the sets a home reads, with the PR shown or not
    KeysKept,       \* PR_KEYS_KEPT
    MaxMoves,       \* bound: how often the repository changes
    MaxFails,       \* bound: how often git fails
    MaxOut          \* bound: lookups of one key out at once

ASSUME GitCacheAssumption ==
    /\ IsFiniteSet(Branches) /\ IsFiniteSet(Sets) /\ IsFiniteSet(Homes)
    /\ Wanted \in [Homes -> SUBSET (Sets \X BOOLEAN)]
    /\ KeysKept \in Nat \ {0} /\ MaxMoves \in Nat /\ MaxFails \in Nat
    /\ MaxOut \in Nat \ {0}

VARIABLES
    head,       \* the branch checked out
    moves,      \* how often the repository has changed
    fails,
    unheard,    \* its watch has a change to report
    holds,      \* <<home, set, whether its PR is shown>>
    repo,       \* the RepoState, New where the cache has none
    closed

cacheVars == <<head, moves, fails, unheard, holds, repo, closed>>

\* A remote not read yet, one failed to be read and none at all look nothing up.
Remotes == {"url", "none"}
Keys == Branches \X Remotes
\* What a value was read from: the branch, and whether nothing has changed since.
Reads == Branches \X BOOLEAN

\* What is read where nothing is: not asked yet, not answered yet, or failed.
None == <<"none">>
Pending == <<"pending">>
Failed == <<"failed">>
NoKey == <<>>
NoPass == [out |-> FALSE]

New == [value  |-> [o \in Sets |-> [reading |-> None, missed |-> FALSE]],
        pass   |-> NoPass,
        again  |-> FALSE,
        timer  |-> FALSE,
        lost   |-> FALSE,       \* auxiliary: a report came during a pass no one held
        split  |-> FALSE,       \* auxiliary: the last pass's reads fell on two branches
        pr |-> [made |-> FALSE, missed |-> TRUE, key |-> NoKey, remote |-> "none",
                reading |-> Pending, seen |-> <<>>, inFlight |-> NoKey,
                out |-> [b \in Branches |-> 0], timer |-> FALSE]]

Known(r, o) == r.value[o].reading # None
Exists(r) == \E o \in Sets : Known(r, o)

Readers(H, o) == {h \in H : h[2] = o}
Showers(H) == {h \in H : h[3]}

-----------------------------------------------------------------------------
(* The two periods, each of whose timers is set from its last landing while *)
(* it is held.  A timer that fires while a read of its source is out shares *)
(* that read, and the landing sets it again: it is shown off until then.   *)

Shown(r, H) == r.pr.made /\ Showers(H) # {} /\ ~r.pr.missed

\* held: Period.hold, of a repository held by H and then by J, and of its PR.
Held(r, H, q, J) ==
    [q EXCEPT
       !.timer = IF (H = {}) = (J = {}) THEN @ ELSE J # {} /\ ~q.pass.out,
       !.pr.timer = IF Shown(r, H) = Shown(q, J) THEN @
                    ELSE Shown(q, J) /\ q.pr.inFlight # q.pr.key]

-----------------------------------------------------------------------------
(* The refresh loop.                                                       *)

\* What a pass reads, decided before its first await: a value something reads
\* or waits on; the rest are missed.
Begin(r, H) ==
    LET reads == {o \in Sets : Known(r, o) /\ (Readers(H, o) # {}
                                               \/ r.value[o].reading = Pending)}
    IN  [r EXCEPT
           !.again = FALSE, !.timer = FALSE, !.lost = FALSE,
           !.value = [o \in Sets |-> IF Known(r, o) /\ o \notin reads
                                     THEN [@[o] EXCEPT !.missed = TRUE] ELSE @[o]],
           !.pass = [out |-> TRUE, read |-> [o \in reads |-> Pending], pr |-> r.pr.made,
                     remote |-> r.pr.made /\ Showers(H) # {}]]

\* Mutant: a change that finds a pass running shares it.
RunShares(r, H) == IF r.pass.out THEN r ELSE Begin(r, H)

\* TrailingEdge.run: what finds a pass running is one more pass.
Run(r, H) == IF r.pass.out THEN [r EXCEPT !.again = TRUE] ELSE Begin(r, H)

\* TrailingEdge.share: a tick is answered by the pass running.
Share(r, H) == IF r.pass.out THEN r ELSE Begin(r, H)

-----------------------------------------------------------------------------
(* The pull request.                                                       *)

Owed(pr) == [pr EXCEPT !.missed = TRUE, !.reading = Pending]

Seen(pr, key) == Contains(pr.seen, key)
Latest(seen, key) == Append(Remove(seen, key), key)

\* readPr's landing: kept under its own key, and shown while the PR is that key's.
Landed(pr, shown, key) ==
    LET seen == Latest(pr.seen, key)
        kept == [pr EXCEPT !.inFlight = IF @ = key THEN NoKey ELSE @,
                           !.seen = IF Len(seen) > KeysKept THEN Tail(seen) ELSE seen]
    IN  IF pr.key # key \/ pr.missed THEN kept
        ELSE [kept EXCEPT !.reading = key, !.timer = shown]

\* Mutant: an ask for a key shares whichever lookup is out.
LookupSharesAny(pr, shown) ==
    IF pr.inFlight # NoKey THEN pr
    ELSE LET asked == [pr EXCEPT !.inFlight = pr.key, !.timer = FALSE]
         IN  IF pr.remote = "url" THEN [asked EXCEPT !.out[pr.key[1]] = @ + 1]
             ELSE Landed(asked, shown, pr.key)

\* readPr: an ask for a key being looked up shares that lookup; with no remote to
\* ask, the answer is there by the end of the turn.
Lookup(pr, shown) ==
    IF pr.inFlight = pr.key THEN pr
    ELSE LET asked == [pr EXCEPT !.inFlight = pr.key, !.timer = FALSE]
         IN  IF pr.remote = "url" THEN [asked EXCEPT !.out[pr.key[1]] = @ + 1]
             ELSE Landed(asked, shown, pr.key)

\* movePr: the same key is left to its period, one answered before takes its own
\* answer, one nobody shows is owed, and any other is looked up.
Moved(pr, H, key) ==
    LET to == [pr EXCEPT !.key = key, !.remote = key[2], !.missed = FALSE]
        shown == Showers(H) # {}
    IN  IF key = pr.key /\ ~pr.missed THEN pr
        ELSE IF Seen(pr, key)
        THEN [to EXCEPT !.seen = Latest(@, key), !.reading = key, !.timer = shown]
        ELSE IF ~shown THEN Owed(to)
        ELSE Lookup([to EXCEPT !.reading = Pending], shown)

\* unkeyedPr: an owed PR answers what the values did, and stays owed.
Unkeyed(pr) == [pr EXCEPT !.reading = IF pr.missed /\ @ = Pending THEN None ELSE @]

-----------------------------------------------------------------------------
CacheInit ==
    /\ head \in Branches /\ moves = 0 /\ fails = 0 /\ unheard = FALSE
    /\ holds = {} /\ repo = New /\ closed = FALSE

Aged(reading) == IF reading \in Reads THEN <<reading[1], FALSE>> ELSE reading
AgedValue(v) == [v EXCEPT !.reading = Aged(@)]
AgedPass(p) == IF p.out THEN [p EXCEPT !.read = [o \in DOMAIN @ |-> Aged(@[o])]] ELSE p

\* A commit, or a checkout, by whoever uses the repository: nothing read before it
\* is what the repository is now.
Commit(b) ==
    /\ ~closed /\ moves < MaxMoves
    /\ head' = b /\ moves' = moves + 1
    /\ unheard' = Exists(repo)
    /\ repo' = [repo EXCEPT !.value = [o \in Sets |-> AgedValue(@[o])], !.pass = AgedPass(@)]
    /\ UNCHANGED <<fails, holds, closed>>

\* changed: what a report does to a repository held or not.
Changed(r, H) ==
    IF H = {}
    THEN [r EXCEPT !.value = [o \in Sets |-> [@[o] EXCEPT !.missed = Known(r, o)]],
                   !.lost = r.pass.out]
    ELSE Run(r, H)

\* The watch's report.
Heard ==
    /\ unheard /\ ~closed /\ unheard' = FALSE
    /\ repo' = Changed(repo, holds)
    /\ UNCHANGED <<head, moves, fails, holds, closed>>

\* Mutant: a PR shown beside a value a pass went by without is not owed.
TakenUnowed(r, o, shows) == [r EXCEPT !.pr.made = @ \/ shows]

\* hold's PR: owed where a pass went by without the value it is read beside.
Taken(r, o, shows) ==
    LET made == [r EXCEPT !.pr.made = @ \/ shows]
    IN  IF shows /\ r.value[o].missed THEN [made EXCEPT !.pr = Owed(@)] ELSE made

\* declare's ask, of a hold its home has not taken: the value and the PR are made
\* on their first ask, and whatever it asked for is read by one pass.
Ask(h, o, shows) ==
    LET hold == <<h, o, shows>>
        H == holds \cup {hold}
        first == ~Known(repo, o)
        valued == IF first THEN [repo EXCEPT !.value[o].reading = Pending] ELSE repo
        taken == Taken(valued, o, shows)
        asks == first \/ repo.value[o].missed \/ (shows /\ taken.pr.missed)
        held == Held(repo, holds, taken, H)
    IN  /\ hold \notin holds /\ <<o, shows>> \in Wanted[h] /\ ~closed
        /\ holds' = H
        /\ repo' = IF asks THEN Run(held, H) ELSE held
        /\ UNCHANGED <<head, moves, fails, unheard, closed>>

\* hold's release.
LetGo(hold) ==
    /\ hold \in holds
    /\ holds' = holds \ {hold}
    /\ repo' = IF closed THEN repo ELSE Held(repo, holds, repo, holds')
    /\ UNCHANGED <<head, moves, fails, unheard, closed>>

\* getGitInfo: one read of the pass looks at the repository, or fails.
Look(o) ==
    /\ repo.pass.out /\ o \in DOMAIN repo.pass.read /\ repo.pass.read[o] = Pending
    /\ \E failed \in {0, 1} :
          /\ fails' = fails + failed /\ fails' <= MaxFails
          /\ repo' = [repo EXCEPT !.pass.read[o] = IF failed = 1 THEN Failed ELSE <<head, TRUE>>]
    /\ UNCHANGED <<head, moves, unheard, holds, closed>>

Ok(outcome) == outcome \in Reads

\* The branches a pass's reads answered.
ReadOn(pass) == {pass.read[o][1] : o \in {o \in DOMAIN pass.read : Ok(pass.read[o])}}

\* pass, once its reads are in: the values are stored and the PR's key moved in one
\* turn, the branch being one its reads answered, and the remote the one read
\* beside them or, of a PR nobody shows, read last.
Stored(r, H, key) ==
    LET read == r.pass.read
        valued == [r EXCEPT
                     !.pass = NoPass,
                     !.value = [o \in Sets |-> IF o \in DOMAIN read
                                               THEN [reading |-> read[o], missed |-> FALSE]
                                               ELSE @[o]]]
        pr == IF ~r.pass.pr \/ DOMAIN read = {} THEN r.pr
              ELSE IF key = NoKey THEN Unkeyed(r.pr)
              ELSE Moved(r.pr, H, key)
    IN  Held(r, H, [valued EXCEPT !.pr = pr, !.timer = H # {},
                                  !.split = Cardinality(ReadOn(r.pass)) > 1], H)

\* The loop's next pass begins in the turn the last one landed.
PassLands ==
    /\ repo.pass.out /\ \A o \in DOMAIN repo.pass.read : repo.pass.read[o] # Pending
    /\ \E remote \in IF repo.pass.remote THEN Remotes ELSE {repo.pr.remote} :
       \E key \in IF ReadOn(repo.pass) = {} THEN {NoKey} ELSE ReadOn(repo.pass) \X {remote} :
          LET stored == Stored(repo, holds, key)
          IN  /\ fails' = fails + IF repo.pass.remote /\ remote = "none" THEN 1 ELSE 0
              /\ fails' <= MaxFails
              /\ \A b \in Branches : stored.pr.out[b] <= MaxOut
              /\ repo' = IF repo.again THEN Begin(stored, holds) ELSE stored
    /\ UNCHANGED <<head, moves, unheard, holds, closed>>

\* The repository's period.
Tick ==
    /\ repo.timer
    /\ repo' = Share([repo EXCEPT !.timer = FALSE], holds)
    /\ UNCHANGED <<head, moves, fails, unheard, holds, closed>>

\* The PR's period.
PrTick ==
    /\ repo.pr.timer
    /\ repo' = [repo EXCEPT !.pr = Lookup(@, TRUE)]
    /\ \A b \in Branches : repo'.pr.out[b] <= MaxOut
    /\ UNCHANGED <<head, moves, fails, unheard, holds, closed>>

\* A lookup's answer, found or failed.
Answered(pr, shown, b) == Landed([pr EXCEPT !.out[b] = @ - 1], shown, <<b, "url">>)
Answer(b) ==
    /\ repo.pr.out[b] > 0
    /\ repo' = [repo EXCEPT !.pr = Answered(@, Shown(repo, holds), b)]
    /\ UNCHANGED <<head, moves, fails, unheard, holds, closed>>

\* evict, for another repository asked for: nothing out answers to the state gone.
Drop ==
    /\ holds = {} /\ Exists(repo) /\ ~closed
    /\ repo' = New /\ unheard' = FALSE
    /\ UNCHANGED <<head, moves, fails, holds, closed>>

\* close: readers waiting are answered, and nothing is read or stored after.
Close ==
    /\ ~closed /\ closed' = TRUE
    /\ repo' = New /\ unheard' = FALSE
    /\ UNCHANGED <<head, moves, fails, holds>>

CacheNext ==
    \/ \E b \in Branches : Commit(b)
    \/ Heard
    \/ \E h \in Homes, o \in Sets, s \in BOOLEAN : Ask(h, o, s)
    \/ \E hold \in holds : LetGo(hold)
    \/ \E o \in Sets : Look(o)
    \/ PassLands \/ Tick \/ PrTick
    \/ \E b \in Branches : Answer(b)
    \/ Drop \/ Close

CacheSpec == CacheInit /\ [][CacheNext]_cacheVars

-----------------------------------------------------------------------------
\* What the home of hold h sees is a branch's value beside that branch's PR.
Beside(h) ==
    LET r == repo.value[h[2]].reading
    IN  Ok(r) /\ repo.pr.reading \in Keys => repo.pr.reading[1] = r[1]

\* No read sees a branch's values beside another branch's PR, whichever homes
\* come and go while passes and lookups are out: not the home a hold returns to,
\* nor one whose value the last pass read.  (But where that pass's reads fell on
\* two branches, and where the hold came while a pass was out without its value.)
PrBesideItsBranch ==
    [][~repo'.split =>
         \A h \in holds' : h[3] /\ (h \notin holds \/ ~repo'.value[h[2]].missed)
                            => Beside(h)']_cacheVars

\* Once every change is reported and no pass is out, what the homes hold is what the
\* repository is: a change that came during a pass, or between two holds, is read.
\* (Not one that came during a pass nothing held any more.)
HeardIsRead ==
    ~unheard /\ ~repo.pass.out /\ ~repo.lost /\ ~closed =>
       \A h \in holds : Ok(repo.value[h[2]].reading) => repo.value[h[2]].reading = <<head, TRUE>>

\* No one waits for a PR in vain: one shown and not answered has the pass that will
\* key it out, or a lookup of its own key, and one answered has its next visit set,
\* whichever key, hold or lookup came and went since.
PrIsOnItsWay ==
    Showers(holds) # {} /\ ~closed =>
       LET pr == repo.pr
       IN  \/ pr.missed /\ repo.pass.out
           \/ pr.missed /\ pr.reading = None /\ repo.timer
           \/ ~pr.missed /\ pr.key[2] = "url" /\ pr.inFlight = pr.key /\ pr.out[pr.key[1]] > 0
           \/ ~pr.missed /\ pr.reading = pr.key /\ pr.timer

=============================================================================
